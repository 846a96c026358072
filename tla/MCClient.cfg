\* Whole connections with conforming servers and others.
SPECIFICATION Spec
CONSTANTS
  d1 = d1
  d2 = d2
  Data = {d1, d2}
  Scripts <- ClientScripts
INVARIANTS
  TypeOK
  ConformingServerServed
  OutputIsTheServers
  ReadersShareTheStream
  DeadlineScoped
PROPERTIES
  VerifiedBeforeWriting
  ImplementsSession
  ProgramExits
