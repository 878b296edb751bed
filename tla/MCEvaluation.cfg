SPECIFICATION Spec
CONSTANTS
  Procs = {q1, q2}
  Kinds = {"eval", "replay", "release", "shadow", "nightly", "compare", "summarize"}
  MaxStarts = 2
  p1 = p1
  p2 = p2
  p3 = p3
  n = n
  design = design
  review = review
  pilot = pilot
  b0 = b0
  r1 = r1
  Positive <- MCPositive
  Negative <- MCNegative
  Versioned <- MCVersioned
  Replays <- MCReplays
  Corpus <- MCCorpus
  Pilot <- MCPilot
  Target <- MCTarget
  Expect <- MCExpect
  Profile <- MCProfile
  Ids <- MCIds
  Behaviours <- MCBehaviours
  Seeds <- MCSeeds
SYMMETRY ProcSymmetry
INVARIANTS TypeOK OkIsEarned WholeReports LedgerBacked
PROPERTY BetterPasses
CHECK_DEADLOCK FALSE
