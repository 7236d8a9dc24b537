SPECIFICATION Spec
CONSTANTS
  c1 = c1
  c2 = c2
  c3 = c3
  ID = {"a", "b"}
  IP = {"p", "q"}
  MAC = {"x", "y"}
  Nil = Nil
  BadIP = BadIP
  Inputs <- MCInputs
  Files <- MCFiles
  MaxPuts = 3
  Conn = {c1, c2}
  Requests <- TwoPuts
  Authorization = "key"
INVARIANT PutAnswerHonest
