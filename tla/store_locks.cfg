SPECIFICATION FairSpec
CONSTANTS
  ID = {"a"}
  IP = {"p"}
  MAC = {"x", "y"}
  Nil = Nil
  Inputs <- MCInputs
  Calls <- MCCalls
  Caller = {g1, g2, g3}
  MaxPuts = 2
INVARIANTS
  TypeOK
  LookupsSeeWhole
PROPERTIES
  ImplementsStore
  EveryCallReturns
