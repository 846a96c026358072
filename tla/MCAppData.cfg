\* Every response of up to three records, every segmentation, every failure.
SPECIFICATION Spec
CONSTANTS
  d1 = d1
  d2 = d2
  d3 = d3
  d4 = d4
  Data = {d1, d2, d3, d4}
  MaxRecords = 3
  Scripts <- Responses
INVARIANTS
  TypeOK
  NothingLostBetweenReads
  SequenceCountsRecords
  GoodRecordsAccepted
PROPERTIES
  DeliversByteStream
