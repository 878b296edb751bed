SPECIFICATION Spec
CONSTANTS
  Threads = {t1}
  Calls <- SerialCalls
  Seeds <- SerialSeeds
CONSTRAINT SecondLifeShort
PROPERTY ConditionsResolved
