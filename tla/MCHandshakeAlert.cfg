SPECIFICATION Spec
CONSTANTS
  Data = {}
  MaxMessages = 0
  Scripts <- EncryptedAlertScripts
INVARIANTS
  AlertReportedByReader
