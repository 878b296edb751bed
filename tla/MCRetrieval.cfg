SPECIFICATION PluginSpec
CONSTANTS
  Threads = {t1, t2}
  Clients = {c}
  MaxTries = 2
  MaxCrashes = 1
  d = d
  k = k
  a = a
  b = b
  Documents <- MCDocuments
  Codes <- MCCodes
  Objects <- MCObjects
  Texts <- MCTexts
  IdOf <- MCIdOf
  Calls <- MCCalls
INVARIANTS PluginTypeOK AcknowledgedIsKept SearchSeesIngested ExtractsHaveSources OneLostPerCrash
PROPERTIES IngestIndexesItself CallsEnd AbortDoesNotCancel
CHECK_DEADLOCK FALSE
