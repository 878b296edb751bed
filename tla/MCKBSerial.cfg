SPECIFICATION Spec
CONSTANTS
  Threads = {t1}
  Texts = {a, b}
  MaxRevision = 4
  Calls <- SerialCalls
  Seeds <- SerialSeeds
INVARIANTS Backed IndexAgrees LedgerFollows NotFoundMeansAbsent
PROPERTY RefinesKnowledgeBase
