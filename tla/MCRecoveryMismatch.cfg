SPECIFICATION RecoverySpec
CONSTANTS
  Threads = {t1}
  Texts = {a}
  MaxRevision = 2
  MaxTasks = 2
  Calls <- Changes
  Seeds <- Present
PROPERTY FailsIfBroken
