SPECIFICATION Spec
CONSTANTS
  Threads = {t1, t2}
  Calls <- OverlapCalls
  Seeds <- OverlapSeeds
SYMMETRY ThreadSymmetry
PROPERTY LegalTransitions
