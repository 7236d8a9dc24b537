SPECIFICATION FairSpec
CONSTANTS
  Opaque = Opaque
  Configs <- MCConfigs
  Others <- MCOthers
  Reader <- Readers
  Lossy = {"udp"}
  Lines <- MCLines
  QueueSize = 1
  Strings <- MCStrings
INVARIANTS
  LoadedFirst
  ReadyMeansBound
PROPERTIES
  ComesUpOrExits
  EveryLineLogged
