SPECIFICATION Spec
CONSTANTS
  Threads = {t1, t2}
  Calls <- RaceCalls
  Seeds <- RaceSeeds
SYMMETRY ThreadSymmetry
INVARIANTS EdgeRecorded FinalizedSound
PROPERTIES NothingLost ArchivedFinal
