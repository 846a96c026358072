SPECIFICATION Spec
CONSTANTS
  Data = {d1}
  Inputs <- SomeInputs
  MaxMessages = 2
INVARIANTS
  MessagesFramed
  BoundariesDoNotMatter
  PiecesAreFaithful
CHECK_DEADLOCK FALSE
