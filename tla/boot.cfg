SPECIFICATION FairSpec
CONSTANTS
  ID = {"a", "b"}
  IP = {"p", "q", "r"}
  MAC = {"x", "y"}
  Nil = Nil
  Inputs <- MCInputs
  Files <- MCFiles
  Caller = {c1}
  MaxPuts = 2
  Handler = {h1}
  Interface = 2
  LocalIP <- OneAddress
  LinkLocal = {}
  HwLen <- Octets
  Client = {"x"}
  Packet <- MCPacket
INVARIANTS
  NoBootLoop
  BootsOwnFile
PROPERTIES
  FilesOfOwnManifest
  EventuallyBoots
