SPECIFICATION Spec
CONSTANTS
  Threads = {t1, t2}
  Texts = {a}
  MaxRevision = 2
  Calls <- RaceCalls
  Seeds <- RaceSeeds
CONSTRAINT Overshoot
SYMMETRY ThreadSymmetry
INVARIANT TypeOK
PROPERTY RecoveryRestores
