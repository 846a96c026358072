\* Flights of up to four messages in every order, with repetitions.
SPECIFICATION Spec
CONSTANTS
  Data = {}
  MaxMessages = 4
  Scripts <- OrderedScripts
INVARIANTS
  NoNilDereference
  KeysAgree
