SPECIFICATION Spec
CONSTANTS
  ID = {"a", "b"}
  IP = {"p", "q"}
  MAC = {"p", "q"}
  Nil = Nil
  None = None
  BadIP = BadIP
  RootPath <- Root
  Inputs <- BothInputs
  Files <- FileA
  Caller = {c1}
  MaxPuts = 2
  Transfer = {t1, t2}
  Asked <- BothRequests
  StaticFiles <- StaticU
SYMMETRY Symmetric
INVARIANTS
  TypeOK
  OnlyOwnFiles
  SameSource
