SPECIFICATION Spec
CONSTANTS
  None = None
  Refused = Refused
  Addr = {"p"}
  Docs <- MCDocs
  RootPath <- Unset
INVARIANTS
  ReadBackSame
  BestMountFound
PROPERTY YamlReadBack
CHECK_DEADLOCK FALSE
