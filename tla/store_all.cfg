SPECIFICATION Spec
CONSTANTS
  ID = {"a", "b", "c"}
  IP = {"p", "q", "r"}
  MAC = {"x", "y", "z"}
  Nil = Nil
  Inputs <- MCInputs
  Files <- MCFiles
  Caller = {c1, c2}
  MaxPuts = 5
SYMMETRY Symmetric
INVARIANTS
  TypeOK
  IndexSound
  NeverOlder
  Reachable
  Coherent
PROPERTIES
  DirectoryLoaded
  ImplementsRegistry
