SPECIFICATION Spec
CONSTANTS
  Data = {}
  MaxMessages = 0
  Scripts <- EarlyTicketScripts
INVARIANTS
  CompleteFlightDetected
