SPECIFICATION Spec
CONSTANTS
  ID = {"a", "b", "c"}
  IP = {"p", "q"}
  MAC = {"x", "y", "z"}
  Nil = Nil
  Inputs <- AnyInputs
  Files <- FileA
  Caller = {c1}
  MaxPuts = 2
  Handler = {h1}
  Packets <- VariedPackets
  Interface = 0
  LocalIP <- OneAddress
  HwLen <- Octets
  LinkLocal = {"p"}
INVARIANTS
  TypeOK
  FromOneManifest
  SuspendRespected
  LeavesArrivalInterface
PROPERTY NoArpPanic
