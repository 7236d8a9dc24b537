SPECIFICATION FairSpec
CONSTANTS
  c1 = c1
  c2 = c2
  c3 = c3
  ID = {"a", "b"}
  IP = {"p", "q"}
  MAC = {"x", "y"}
  Nil = Nil
  BadIP = BadIP
  Inputs <- MCInputs
  Files <- MCFiles
  MaxPuts = 2
  Conn = {c1, c2, c3}
  Requests <- OneWriter
  Authorization = "key"
INVARIANTS
  TypeOK
  PutAnswerHonest
  GetAnswerHonest
  OnlyValidServed
PROPERTIES
  OnlyPermittedChange
  EveryRequestAnswered
