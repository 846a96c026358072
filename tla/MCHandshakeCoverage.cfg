SPECIFICATION Spec
CONSTANTS
  Data = {}
  MaxMessages = 4
  Scripts <- OrderedScripts
INVARIANTS
  FinishedCoversHandshake
