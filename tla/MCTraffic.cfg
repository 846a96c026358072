SPECIFICATION Spec
CONSTANTS
  Views <- SomeViews
  Requests <- SomeRequests
  Answers <- SomeAnswers
  MaxRecords = 2
INVARIANTS
  NonceUsedOnce
  ServerReadsTheClient
  ClientReadsTheServer
  FailureIsTheCause
CHECK_DEADLOCK FALSE
