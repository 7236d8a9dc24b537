SPECIFICATION Spec
CONSTANTS
  ID = {"a", "b"}
  IP = {"p", "q"}
  MAC = {"x", "w", "y"}
  Nil = Nil
  Inputs <- PlainInputs
  Files <- FileTwoNics
  Caller = {c1}
  MaxPuts = 2
  Handler = {h1, h2}
  Packets <- Discovers
  Interface = 2
  LocalIP <- OneAddress
  HwLen <- Octets
  LinkLocal = {"p"}
INVARIANT UnicastReachesClient
