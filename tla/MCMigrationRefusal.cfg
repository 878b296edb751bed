SPECIFICATION Spec
CONSTANTS
  Entries = {e1, e2, own}
  Own = own
  Legacies <- Repositories
  Roots <- NewRoots
INVARIANT RefusesNonEmpty
