SPECIFICATION Spec
CONSTANTS
  Streams <- SomeStreams
  MaxRecords = 3
INVARIANTS
  RestIsTheUnparsedEnd
  FramingInv
PROPERTIES
  ImplementsRecordStream
  ParseEnds
