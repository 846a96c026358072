\* Flights chosen one by one, with every segmentation and every network event.
SPECIFICATION Spec
CONSTANTS
  Data = {}
  MaxMessages = 0
  Scripts <- ChosenScripts
INVARIANTS
  TypeOK
  FlightIsStreamPrefix
  NoNilDereference
  SuccessOnlyWhenComplete
  NothingOverread
  SegmentationDoesNotMatter
  KeysAgree
  DeadlineScoped
  InductiveInv
PROPERTIES
  Termination
