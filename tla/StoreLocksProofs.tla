-------------------------- MODULE StoreLocksProofs --------------------------
(***************************************************************************)
(* Proofs about StoreLocks, for every set of manifests and calls and any   *)
(* finite number of goroutines: the lock discipline, and that the methods  *)
(* under the mutex implement the atomic steps of module Store.             *)
(***************************************************************************)
EXTENDS StoreLocks, FiniteSetTheorems, TLAPS

-----------------------------------------------------------------------------
(* The inductive invariant *)

Obj == S!Obj

\* What the variables may hold.
Types ==
  /\ manifests \in [ID -> Obj \cup {Nil}]
  /\ ip \in [IP -> Obj \cup {Nil}]
  /\ mac \in [MAC -> Obj \cup {Nil}]
  /\ ver \in 0..MaxPuts
  /\ suspended \in SUBSET (1..ver)
  /\ gs \in [Caller -> [pc : PC, call : Calls \cup {Nil}, obj : Obj \cup {Nil},
                        left : SUBSET MAC]]
  /\ rw \in [readers : SUBSET Caller, blocked : SUBSET Caller,
             writer : Caller \cup {Nil}]

\* No pointer is to an object made later, or one PutManifest refuses.
Made(o) == o # Nil => o.ver <= ver /\ ~S!Rejected(o.man)
AllMade ==
  /\ \A i \in ID : Made(manifests[i])
  /\ \A a \in IP : Made(ip[a])
  /\ \A x \in MAC : Made(mac[x])
  /\ \A g \in Caller : Made(gs[g].obj)

\* Who is in the mutex's fields.
Locks ==
  /\ rw.readers = {g \in Caller : gs[g].pc \in {"read", "runlock"}}
  /\ rw.blocked = {g \in Caller : gs[g].pc = "blocked"}
  /\ {rw.writer} \ {Nil} = {g \in Caller : gs[g].pc = "drain"} \cup Writers
  /\ Writers # {} => rw.readers = {}

\* What a goroutine has when it is at a statement.
Ready(g) ==
  /\ gs[g].pc # "idle" => gs[g].call \in Calls
  /\ gs[g].pc \in {"rlock", "blocked", "read", "runlock"} => gs[g].call.op # "put"
  /\ gs[g].pc = "flag" => gs[g].call.op \in {"suspend", "unsuspend"} /\ gs[g].obj # Nil
  /\ gs[g].pc \in {"lock", "drain"} =>
       \/ gs[g].call.op = "put" /\ ~S!Rejected(gs[g].call.arg)
       \/ gs[g].call.op = "forget" /\ gs[g].obj # Nil
  /\ InSection(g) => /\ gs[g].call.op \in {"put", "forget"}
                     /\ gs[g].obj # Nil
                     /\ gs[g].left \subseteq gs[g].obj.man.macs

\* What it has written.
Written(g) ==
  /\ gs[g].pc \in {"byIP", "byMAC"} => manifests[gs[g].obj.man.id] = Value(g)
  /\ gs[g].pc = "byMAC" => ip[gs[g].obj.man.ip] = Value(g)

\* Every put under way still has an identity to give.
Room == ver + Cardinality(PendingPuts) <= MaxPuts

Inv ==
  /\ Types
  /\ AllMade
  /\ Locks
  /\ \A g \in Caller : Ready(g) /\ Written(g)
  /\ Room

LEMMA Constants ==
  /\ MaxPuts \in Nat
  /\ Nil \notin ID /\ Nil \notin IP /\ Nil \notin MAC /\ Nil \notin Caller /\ Nil \notin Obj
  /\ \A m \in Inputs : /\ m.id \in ID \cup {Nil} /\ m.ip \in IP \cup {Nil}
                       /\ m.macs \in SUBSET MAC /\ m.suspended \in BOOLEAN
BY StoreAssumption, CallsAssumption
DEF S!InputsAssumption, S!FilesAssumption, S!NilAssumption, Obj

\* An object that PutManifest made, and its keys.
LEMMA ObjKeys ==
  ASSUME NEW o \in Obj, ~S!Rejected(o.man)
  PROVE  /\ o.man \in Inputs /\ o.ver \in 1..MaxPuts
         /\ o.man.id \in ID /\ o.man.ip \in IP /\ o.man.macs \in SUBSET MAC
BY Constants DEF Obj, S!Obj, S!Rejected

LEMMA CallTypes ==
  ASSUME NEW c \in Calls
  PROVE  /\ c.op = "put" => c.arg \in Inputs
         /\ c.op \in {"find", "forget"} => c.arg \in ID
         /\ c.op \in {"findByIP", "suspend", "unsuspend"} => c.arg \in IP
         /\ c.op = "findByMAC" => c.arg \in MAC
         /\ c.op \in {"put", "find", "forget", "findByIP", "suspend", "unsuspend",
                      "findByMAC", "getAll"}
BY CallsAssumption

LEMMA InitInv == Init => Inv
<1> SUFFICES ASSUME Init PROVE Inv
  OBVIOUS
<1>1. \A g \in Caller : gs[g] = Fresh
  BY DEF Init
<1>2. Types
  BY Constants DEF Init, Types, Fresh, PC, Unlocked
<1>3. AllMade
  BY <1>1 DEF Init, AllMade, Made, Fresh
<1>4. Locks
  BY <1>1 DEF Init, Locks, Writers, InSection, Fresh, Unlocked
<1>5. \A g \in Caller : Ready(g) /\ Written(g)
  BY <1>1 DEF Ready, Written, InSection, Fresh
<1>6. Room
  <2>1. PendingPuts = {}
    BY <1>1 DEF PendingPuts, Fresh
  <2> QED BY <2>1, FS_EmptySet, Constants DEF Room, Init
<1> QED BY <1>2, <1>3, <1>4, <1>5, <1>6 DEF Inv

-----------------------------------------------------------------------------
(* Types *)

LEMMA FoundType ==
  ASSUME Types, AllMade, NEW c \in Calls, c.op # "put"
  PROVE  Found(c) \in Obj \cup {Nil} /\ Made(Found(c))
<1>1. CASE c.op \in {"find", "forget"}
  BY <1>1, CallTypes DEF Found, Types, AllMade
<1>2. CASE c.op \in {"findByIP", "suspend", "unsuspend"}
  BY <1>2, CallTypes DEF Found, Types, AllMade
<1>3. CASE c.op = "findByMAC"
  BY <1>3, CallTypes DEF Found, Types, AllMade
<1>4. CASE c.op = "getAll"
  BY <1>4 DEF Found, Made
<1> QED BY <1>1, <1>2, <1>3, <1>4, CallTypes

\* AfterLookup is one of three.
LEMMA AfterLookupCases ==
  ASSUME NEW g
  PROVE  \/ /\ gs[g].obj # Nil /\ gs[g].call.op = "forget"
            /\ AfterLookup(g) = [gs[g] EXCEPT !.pc = "lock"]
         \/ /\ gs[g].obj # Nil /\ gs[g].call.op \in {"suspend", "unsuspend"}
            /\ AfterLookup(g) = [gs[g] EXCEPT !.pc = "flag"]
         \/ /\ gs[g].obj = Nil \/ gs[g].call.op \notin {"forget", "suspend", "unsuspend"}
            /\ AfterLookup(g) = Fresh
BY DEF AfterLookup

\* The record of one goroutine changes.
LEMMA OneChanges ==
  ASSUME Types, NEW g \in Caller, NEW t, gs' = [gs EXCEPT ![g] = t]
  PROVE  /\ gs'[g] = t
         /\ \A h \in Caller : h # g => gs'[h] = gs[h]
         /\ DOMAIN gs' = Caller
BY DEF Types

\* The record a step leaves goroutine g with.
After(p, c, o, l) == [pc |-> p, call |-> c, obj |-> o, left |-> l]

LEMMA Moves ==
  ASSUME Types, NEW g \in Caller
  PROVE  LET s == gs[g]
         IN /\ \A c \in Calls : Begin(g, c) =>
                 gs' = [gs EXCEPT ![g] =
                          After(IF c.op = "put" THEN "lock" ELSE "rlock", c, s.obj, s.left)]
            /\ \A p : Goto(g, p) =>
                 gs' = [gs EXCEPT ![g] = After(p, s.call, s.obj, s.left)]
            /\ Read(g) =>
                 gs' = [gs EXCEPT ![g] = After("runlock", s.call, Found(s.call), s.left)]
            /\ \A p : [s EXCEPT !.pc = p] = After(p, s.call, s.obj, s.left)
            /\ Acquire(g) /\ s.call.op # "put" =>
                 gs' = [gs EXCEPT ![g] = After("byID", s.call, s.obj, s.obj.man.macs)]
            /\ Acquire(g) /\ s.call.op = "put" =>
                 gs' = [gs EXCEPT ![g] =
                          After("byID", s.call, [ver |-> ver + 1, man |-> s.call.arg],
                                s.call.arg.macs)]
            /\ \A x : WriteByMAC(g, x) =>
                 gs' = [gs EXCEPT ![g] = After(s.pc, s.call, s.obj, s.left \ {x})]
BY DEF Types, After, Begin, Goto, Read, Acquire, WriteByMAC

\* All but the goroutines keep their types when one of them moves.
LEMMA OneTypes ==
  ASSUME Types, NEW g \in Caller, NEW p \in PC, NEW c \in Calls \cup {Nil},
         NEW o \in Obj \cup {Nil}, NEW l \in SUBSET MAC,
         gs' = [gs EXCEPT ![g] = After(p, c, o, l)]
  PROVE  gs' \in [Caller -> [pc : PC, call : Calls \cup {Nil}, obj : Obj \cup {Nil},
                             left : SUBSET MAC]]
<1>1. After(p, c, o, l) \in [pc : PC, call : Calls \cup {Nil}, obj : Obj \cup {Nil},
                             left : SUBSET MAC]
  BY DEF After
<1> QED BY <1>1 DEF Types

LEMMA NextTypes == Inv /\ [Next]_vars => Types'
<1> SUFFICES ASSUME Inv, [Next]_vars PROVE Types'
  OBVIOUS
<1> USE DEF Inv
<1> DEFINE GS == [Caller -> [pc : PC, call : Calls \cup {Nil}, obj : Obj \cup {Nil},
                             left : SUBSET MAC]]
           RW == [readers : SUBSET Caller, blocked : SUBSET Caller,
                  writer : Caller \cup {Nil}]
<1>0. ASSUME gs' \in GS, rw' \in RW, UNCHANGED <<maps, suspended, ver>> PROVE Types'
  BY <1>0 DEF Types, maps
<1>f. \A g \in Caller : /\ gs[g].call \in Calls \cup {Nil} /\ gs[g].obj \in Obj \cup {Nil}
                         /\ gs[g].left \in SUBSET MAC /\ gs[g].pc \in PC
  BY DEF Types
<1>1. ASSUME NEW g \in Caller, NEW c \in Calls, Begin(g, c) PROVE Types'
  <2> DEFINE p == IF c.op = "put" THEN "lock" ELSE "rlock"
  <2>0. gs' = [gs EXCEPT ![g] = After(p, c, gs[g].obj, gs[g].left)] /\ p \in PC
    BY <1>1, Moves DEF PC
  <2> HIDE DEF p
  <2>1. gs' \in GS
    BY <2>0, <1>f, OneTypes
  <2> QED BY <1>0, <1>1, <2>1 DEF Begin, Types
<1>2. ASSUME NEW g \in Caller, RLock(g) \/ LockWriters(g) PROVE Types'
  <2>1. PICK p \in PC : Goto(g, p)
    BY <1>2 DEF RLock, LockWriters, PC
  <2>2. gs' \in GS
    <3>1. gs' = [gs EXCEPT ![g] = After(p, gs[g].call, gs[g].obj, gs[g].left)]
      BY <2>1, Moves
    <3> QED BY <1>f, <3>1, OneTypes
  <2>3. rw' \in RW
    BY <1>2 DEF RLock, LockWriters, Types
  <2> QED BY <1>0, <1>2, <2>2, <2>3 DEF RLock, LockWriters
<1>3. ASSUME NEW g \in Caller, Read(g) PROVE Types'
  <2>1. gs[g].call \in Calls /\ gs[g].call.op # "put"
    BY <1>3 DEF Read, At, Ready
  <2>2. Found(gs[g].call) \in Obj \cup {Nil}
    BY <2>1, FoundType
  <2>3. gs' \in GS
    <3>1. gs' = [gs EXCEPT ![g] =
                   After("runlock", gs[g].call, Found(gs[g].call), gs[g].left)]
      BY <1>3, Moves
    <3> QED BY <1>f, <2>2, <3>1, OneTypes DEF PC
  <2> QED BY <1>0, <1>3, <2>3 DEF Read, Types
<1>4. ASSUME NEW g \in Caller, RUnlock(g) PROVE Types'
  <2>1. AfterLookup(g) \in [pc : PC, call : Calls \cup {Nil}, obj : Obj \cup {Nil},
                              left : SUBSET MAC]
    BY AfterLookupCases DEF Types, PC, Fresh
  <2>3. gs' \in GS
    BY <1>4, <2>1 DEF RUnlock, Types
  <2>2. rw' \in RW
    BY <1>4 DEF RUnlock, Types
  <2> QED BY <1>0, <1>4, <2>2, <2>3 DEF RUnlock
<1>5. ASSUME NEW g \in Caller, Acquire(g) PROVE Types'
  <2>1. /\ gs[g].call \in Calls
        /\ \/ gs[g].call.op = "put" /\ ~S!Rejected(gs[g].call.arg)
           \/ gs[g].call.op = "forget" /\ gs[g].obj # Nil
    BY <1>5 DEF Acquire, At, Ready
  <2>2. CASE gs[g].call.op = "put"
    <3> DEFINE m == gs[g].call.arg
               o == [ver |-> ver + 1, man |-> m]
    <3>1. m \in Inputs /\ m.macs \in SUBSET MAC
      BY <2>1, <2>2, CallTypes, Constants
    <3>2. ver + 1 \in 1..MaxPuts /\ ver \in Nat
      <4>1. g \in PendingPuts
        BY <1>5, <2>2 DEF PendingPuts, Acquire, At
      <4>2. IsFiniteSet(PendingPuts)
        BY FS_Subset, CallsAssumption DEF PendingPuts
      <4>3. Cardinality(PendingPuts) \in Nat /\ Cardinality(PendingPuts) # 0
        BY <4>1, <4>2, FS_CardinalityType, FS_EmptySet
      <4> QED BY <4>3, Constants DEF Room, Types
    <3>3. o \in Obj
      BY <3>1, <3>2 DEF Obj, S!Obj
    <3>4. gs' \in GS
      <4>1. gs' = [gs EXCEPT ![g] = After("byID", gs[g].call, o, m.macs)]
        BY <1>5, <2>2, Moves
      <4> QED BY <2>1, <3>1, <3>3, <4>1, OneTypes DEF PC
    <3>5. /\ ver' = ver + 1
          /\ suspended' = suspended \cup (IF m.suspended THEN {ver + 1} ELSE {})
          /\ UNCHANGED <<maps, rw>>
      BY <1>5, <2>2 DEF Acquire
    <3>6. suspended' \in SUBSET (1..ver')
      BY <3>2, <3>5 DEF Types
    <3> QED BY <3>2, <3>4, <3>5, <3>6 DEF Types, maps
  <2>3. CASE gs[g].call.op = "forget"
    <3>1. gs[g].obj \in Obj /\ gs[g].obj.man.macs \in SUBSET MAC
      BY <2>1, <2>3, ObjKeys DEF Types, AllMade, Made
    <3>2. gs' \in GS
      <4>1. gs' = [gs EXCEPT ![g] =
                     After("byID", gs[g].call, gs[g].obj, gs[g].obj.man.macs)]
        BY <1>5, <2>3, Moves
      <4> QED BY <1>f, <3>1, <4>1, OneTypes DEF PC
    <3> QED BY <1>0, <1>5, <2>3, <3>2 DEF Acquire, Types
  <2> QED BY <2>1, <2>2, <2>3
<1>6. ASSUME NEW g \in Caller, InSection(g)
      PROVE  /\ Value(g) \in Obj \cup {Nil}
             /\ gs[g].obj.man.id \in ID /\ gs[g].obj.man.ip \in IP
  <2>1. gs[g].obj \in Obj /\ ~S!Rejected(gs[g].obj.man)
    BY <1>6 DEF Types, AllMade, Made, Ready
  <2> QED BY <2>1, ObjKeys DEF Value
<1>7. ASSUME NEW g \in Caller, WriteByID(g) \/ WriteByIP(g) PROVE Types'
  <2>1. PICK p \in PC : Goto(g, p)
    BY <1>7 DEF WriteByID, WriteByIP, PC
  <2>2. gs' \in GS
    <3>1. gs' = [gs EXCEPT ![g] = After(p, gs[g].call, gs[g].obj, gs[g].left)]
      BY <2>1, Moves
    <3> QED BY <1>f, <3>1, OneTypes
  <2>3. InSection(g)
    BY <1>7 DEF WriteByID, WriteByIP, At, InSection
  <2> QED BY <1>6, <1>7, <2>2, <2>3 DEF WriteByID, WriteByIP, Types
<1>8. ASSUME NEW g \in Caller, NEW x \in MAC, WriteByMAC(g, x) PROVE Types'
  <2>1. gs' \in GS
    <3>1. gs' = [gs EXCEPT ![g] = After(gs[g].pc, gs[g].call, gs[g].obj, gs[g].left \ {x})]
      BY <1>8, Moves
    <3>2. gs[g].left \ {x} \in SUBSET MAC
      BY <1>f
    <3> QED BY <1>f, <3>1, <3>2, OneTypes
  <2>2. InSection(g)
    BY <1>8 DEF WriteByMAC, At, InSection
  <2> QED BY <1>6, <1>8, <2>1, <2>2 DEF WriteByMAC, Types
<1>9. ASSUME NEW g \in Caller, Unlock(g) PROVE Types'
  <2>1. gs' \in GS
    BY <1>9 DEF Unlock, Types, Fresh, PC
  <2>2. rw' \in RW
    BY <1>9 DEF Unlock, Types
  <2> QED BY <1>0, <1>9, <2>1, <2>2 DEF Unlock
<1>10. ASSUME NEW g \in Caller, WriteFlag(g) PROVE Types'
  <2>1. gs[g].obj \in Obj /\ gs[g].obj.ver \in 1..ver
    <3>1. gs[g].obj \in Obj /\ gs[g].obj.ver <= ver
      BY <1>10 DEF WriteFlag, At, Ready, Types, AllMade, Made
    <3> QED BY <3>1, Constants DEF Obj, S!Obj, Types
  <2>2. gs' \in GS
    BY <1>10 DEF WriteFlag, Types, Fresh, PC
  <2> QED BY <1>10, <2>1, <2>2 DEF WriteFlag, Types, maps
<1>11. CASE Restart
  BY <1>11, Constants DEF Restart, Types, Fresh, PC, Unlocked
<1>12. CASE UNCHANGED vars
  BY <1>12 DEF vars, Types
<1> QED BY <1>1, <1>2, <1>3, <1>4, <1>5, <1>7, <1>8, <1>9, <1>10, <1>11, <1>12
        DEF Next, Step

-----------------------------------------------------------------------------
(* Objects *)

LEMMA NextMade == Inv /\ [Next]_vars => AllMade'
<1> SUFFICES ASSUME Inv, [Next]_vars PROVE AllMade'
  OBVIOUS
<1> USE DEF Inv
<1>0. ver \in Nat
  BY Constants DEF Types
\* Nothing new: objects come from where they were before.
<1>1. ASSUME ver' = ver,
             \A i \in ID : manifests'[i] = manifests[i] \/ manifests'[i] = Nil
                             \/ \E g \in Caller : manifests'[i] = gs[g].obj,
             \A a \in IP : ip'[a] = ip[a] \/ ip'[a] = Nil
                             \/ \E g \in Caller : ip'[a] = gs[g].obj,
             \A x \in MAC : mac'[x] = mac[x] \/ mac'[x] = Nil
                             \/ \E g \in Caller : mac'[x] = gs[g].obj,
             \A g \in Caller : gs'[g].obj \in {gs[g].obj, Nil}
      PROVE  AllMade'
  BY <1>1 DEF AllMade, Made
<1>2. ASSUME UNCHANGED <<maps, ver>>,
             \A g \in Caller : gs'[g].obj \in {gs[g].obj, Nil}
      PROVE  AllMade'
  BY <1>2, <1>1 DEF maps
<1>3. ASSUME NEW g \in Caller, NEW c \in Calls, Begin(g, c) PROVE AllMade'
  <2> DEFINE p == IF c.op = "put" THEN "lock" ELSE "rlock"
  <2>1. gs' = [gs EXCEPT ![g] = After(p, c, gs[g].obj, gs[g].left)]
    BY <1>3, Moves
  <2> HIDE DEF p
  <2>2. \A h \in Caller : gs'[h].obj = gs[h].obj
    BY <2>1, OneChanges DEF After
  <2> QED BY <1>2, <1>3, <2>2 DEF Begin
<1>4. ASSUME NEW g \in Caller, RLock(g) \/ LockWriters(g) PROVE AllMade'
  <2>1. PICK p : Goto(g, p)
    BY <1>4 DEF RLock, LockWriters
  <2>2. \A h \in Caller : gs'[h].obj = gs[h].obj
    BY <2>1, Moves, OneChanges DEF After
  <2> QED BY <1>2, <1>4, <2>2 DEF RLock, LockWriters
<1>5. ASSUME NEW g \in Caller, Read(g) PROVE AllMade'
  <2>1. gs[g].call \in Calls /\ gs[g].call.op # "put"
    BY <1>5 DEF Read, At, Ready
  <2>2. Made(Found(gs[g].call))
    BY <2>1, FoundType
  <2>3. /\ gs'[g].obj = Found(gs[g].call)
        /\ \A h \in Caller : h # g => gs'[h] = gs[h]
    BY <1>5, Moves, OneChanges DEF After
  <2> QED BY <1>5, <2>2, <2>3 DEF Read, AllMade, Made, maps
<1>6. ASSUME NEW g \in Caller, RUnlock(g) PROVE AllMade'
  <2>1. AfterLookup(g).obj \in {gs[g].obj, Nil}
    BY AfterLookupCases DEF Types, Fresh
  <2>2. \A h \in Caller : gs'[h].obj \in {gs[h].obj, Nil}
    BY <1>6, <2>1, OneChanges DEF RUnlock
  <2> QED BY <1>2, <1>6, <2>2 DEF RUnlock
<1>7. ASSUME NEW g \in Caller, Acquire(g) PROVE AllMade'
  <2>1. CASE gs[g].call.op = "put"
    <3> DEFINE m == gs[g].call.arg
    <3>1. /\ gs'[g].obj = [ver |-> ver + 1, man |-> m]
          /\ \A h \in Caller : h # g => gs'[h] = gs[h]
      BY <1>7, <2>1, Moves, OneChanges DEF After
    <3>2. ~S!Rejected(m) /\ ver' = ver + 1 /\ UNCHANGED maps
      BY <1>7, <2>1 DEF Acquire, At, Ready
    <3>3. Made(gs[g].obj)'
      BY <1>0, <3>1, <3>2 DEF Made, S!Rejected
    <3>4. ASSUME NEW o \in Obj \cup {Nil}, Made(o) PROVE Made(o)'
      <4>1. o # Nil => o.ver \in Nat
        BY Constants DEF Obj, S!Obj
      <4> QED BY <1>0, <3>2, <3>4, <4>1 DEF Made, S!Rejected
    <3> QED BY <3>1, <3>2, <3>3, <3>4 DEF AllMade, Types, maps
  <2>2. CASE gs[g].call.op # "put"
    <3>1. \A h \in Caller : gs'[h].obj = gs[h].obj
      BY <1>7, <2>2, Moves, OneChanges DEF After
    <3> QED BY <1>2, <1>7, <2>2, <3>1 DEF Acquire
  <2> QED BY <2>1, <2>2
<1>8. ASSUME NEW g \in Caller, WriteByID(g) \/ WriteByIP(g) PROVE AllMade'
  <2>1. PICK p : Goto(g, p)
    BY <1>8 DEF WriteByID, WriteByIP
  <2>2. \A h \in Caller : gs'[h].obj = gs[h].obj
    BY <2>1, Moves, OneChanges DEF After
  <2>3. Value(g) \in {gs[g].obj, Nil}
    BY DEF Value
  <2> QED BY <1>1, <1>8, <2>2, <2>3 DEF WriteByID, WriteByIP, Types
<1>9. ASSUME NEW g \in Caller, NEW x \in MAC, WriteByMAC(g, x) PROVE AllMade'
  <2>1. \A h \in Caller : gs'[h].obj = gs[h].obj
    BY <1>9, Moves, OneChanges DEF After
  <2>2. Value(g) \in {gs[g].obj, Nil}
    BY DEF Value
  <2> QED BY <1>1, <1>9, <2>1, <2>2 DEF WriteByMAC, Types
<1>10. ASSUME NEW g \in Caller, Unlock(g) PROVE AllMade'
  <2>1. \A h \in Caller : gs'[h].obj \in {gs[h].obj, Nil}
    BY <1>10 DEF Unlock, Types, Fresh
  <2> QED BY <1>2, <1>10, <2>1 DEF Unlock
<1>11. ASSUME NEW g \in Caller, WriteFlag(g) PROVE AllMade'
  <2>1. \A h \in Caller : gs'[h].obj \in {gs[h].obj, Nil}
    BY <1>11, OneChanges DEF WriteFlag, Fresh
  <2> QED BY <1>2, <1>11, <2>1 DEF WriteFlag
<1>12. CASE Restart
  BY <1>12 DEF Restart, AllMade, Made, Fresh
<1>13. CASE UNCHANGED vars
  BY <1>2, <1>13 DEF vars, maps
<1> QED BY <1>3, <1>4, <1>5, <1>6, <1>7, <1>8, <1>9, <1>10, <1>11, <1>12, <1>13
        DEF Next, Step

-----------------------------------------------------------------------------
(* The lock *)

\* Whoever drains or writes is the one the lock is held by.
LEMMA OneWriter ==
  ASSUME Types, Locks, NEW g \in Caller, gs[g].pc = "drain" \/ InSection(g)
  PROVE  /\ rw.writer = g
         /\ \A h \in Caller : gs[h].pc = "drain" \/ InSection(h) => h = g
BY DEF Locks, Writers

LEMMA NextLocks == Inv /\ [Next]_vars => Locks'
<1> SUFFICES ASSUME Inv, [Next]_vars PROVE Locks'
  OBVIOUS
<1> USE DEF Inv
<1>f. \A g \in Caller : gs[g].pc \in PC
  BY DEF Types
<1>t. /\ rw.readers \in SUBSET Caller /\ rw.blocked \in SUBSET Caller
      /\ DOMAIN rw = {"readers", "blocked", "writer"}
  BY DEF Types
\* Nobody comes to or leaves a statement that the lock is about.
<1>1. ASSUME UNCHANGED rw,
             \A h \in Caller : \/ gs'[h].pc = gs[h].pc
                               \/ {gs'[h].pc, gs[h].pc} \subseteq {"idle", "rlock", "lock", "flag"}
                               \/ {gs'[h].pc, gs[h].pc} \subseteq {"read", "runlock"}
                               \/ {gs'[h].pc, gs[h].pc} \subseteq {"byID", "byIP", "byMAC"}
      PROVE  Locks'
  <2>1. ASSUME NEW h \in Caller
        PROVE  /\ gs'[h].pc \in {"read", "runlock"} <=> gs[h].pc \in {"read", "runlock"}
               /\ gs'[h].pc = "blocked" <=> gs[h].pc = "blocked"
               /\ gs'[h].pc = "drain" <=> gs[h].pc = "drain"
               /\ gs'[h].pc \in {"byID", "byIP", "byMAC"} <=>
                    gs[h].pc \in {"byID", "byIP", "byMAC"}
    BY <1>1
  <2>2. Writers' = Writers
    BY <2>1 DEF Writers, InSection
  <2> QED BY <1>1, <2>1, <2>2 DEF Locks
<1>2. ASSUME NEW g \in Caller, NEW c \in Calls, Begin(g, c) PROVE Locks'
  <2>1. gs'[g].pc \in {"lock", "rlock"} /\ \A h \in Caller : h # g => gs'[h] = gs[h]
    BY <1>2, Moves, OneChanges DEF After
  <2> QED BY <1>1, <1>2, <2>1 DEF Begin, At
<1>3. ASSUME NEW g \in Caller, RLock(g) PROVE Locks'
  <2>1. CASE rw.writer = Nil
    <3>1. /\ rw' = [rw EXCEPT !.readers = @ \cup {g}] /\ gs[g].pc = "rlock"
          /\ gs'[g].pc = "read" /\ \A h \in Caller : h # g => gs'[h] = gs[h]
      BY <1>3, <2>1, Moves, OneChanges DEF RLock, At, After
    <3>2. /\ rw'.readers = rw.readers \cup {g} /\ rw'.blocked = rw.blocked
          /\ rw'.writer = rw.writer
      BY <1>t, <3>1
    <3>3. Writers = {} /\ Writers' = Writers
      BY <2>1, <3>1 DEF Locks, Writers, InSection
    <3> QED BY <3>1, <3>2, <3>3 DEF Locks
  <2>2. CASE rw.writer # Nil
    <3>1. /\ rw' = [rw EXCEPT !.blocked = @ \cup {g}] /\ gs[g].pc = "rlock"
          /\ gs'[g].pc = "blocked" /\ \A h \in Caller : h # g => gs'[h] = gs[h]
      BY <1>3, <2>2, Moves, OneChanges DEF RLock, At, After
    <3>2. /\ rw'.readers = rw.readers /\ rw'.blocked = rw.blocked \cup {g}
          /\ rw'.writer = rw.writer
      BY <1>t, <3>1
    <3>3. Writers' = Writers
      BY <3>1 DEF Writers, InSection
    <3> QED BY <3>1, <3>2, <3>3 DEF Locks
  <2> QED BY <2>1, <2>2
<1>4. ASSUME NEW g \in Caller, Read(g) PROVE Locks'
  <2>1. gs'[g].pc = "runlock" /\ \A h \in Caller : h # g => gs'[h] = gs[h]
    BY <1>4, Moves, OneChanges DEF After
  <2> QED BY <1>1, <1>4, <2>1 DEF Read, At
<1>5. ASSUME NEW g \in Caller, RUnlock(g) PROVE Locks'
  <2>1. AfterLookup(g).pc \in {"lock", "flag", "idle"}
    BY AfterLookupCases DEF Types, Fresh
  <2>2. /\ rw' = [rw EXCEPT !.readers = @ \ {g}] /\ gs[g].pc = "runlock"
        /\ gs'[g].pc \in {"lock", "flag", "idle"}
        /\ \A h \in Caller : h # g => gs'[h] = gs[h]
    BY <1>5, <2>1, OneChanges DEF RUnlock, At
  <2>3. /\ rw'.readers = rw.readers \ {g} /\ rw'.blocked = rw.blocked
        /\ rw'.writer = rw.writer
    BY <1>t, <2>2
  <2>4. Writers' = Writers
    BY <2>2 DEF Writers, InSection
  <2> QED BY <2>2, <2>3, <2>4 DEF Locks
<1>6. ASSUME NEW g \in Caller, LockWriters(g) PROVE Locks'
  <2>1. /\ rw.writer = Nil /\ rw' = [rw EXCEPT !.writer = g] /\ gs[g].pc = "lock"
        /\ gs'[g].pc = "drain" /\ \A h \in Caller : h # g => gs'[h] = gs[h]
    BY <1>6, Moves, OneChanges DEF LockWriters, At, After
  <2>2. /\ rw'.readers = rw.readers /\ rw'.blocked = rw.blocked /\ rw'.writer = g
    BY <1>t, <2>1
  <2>3. Writers' = Writers /\ Writers = {} /\ \A h \in Caller : gs[h].pc # "drain"
    BY <2>1 DEF Writers, InSection, Locks
  <2>4. {g} \ {Nil} = {h \in Caller : gs'[h].pc = "drain"}
    BY <2>1, <2>3, Constants
  <2> QED BY <2>1, <2>2, <2>3, <2>4 DEF Locks
<1>7. ASSUME NEW g \in Caller, Acquire(g) PROVE Locks'
  <2>1. /\ rw' = rw /\ rw.readers = {} /\ gs[g].pc = "drain"
    BY <1>7 DEF Acquire, At
  <2>2. gs'[g].pc = "byID" /\ \A h \in Caller : h # g => gs'[h] = gs[h]
    BY <1>7, Moves, OneChanges DEF After
  <2>3. \A h \in Caller : gs[h].pc = "drain" \/ InSection(h) <=> h = g
    BY <2>1, OneWriter
  <2>4. Writers' = {g} /\ {h \in Caller : gs'[h].pc = "drain"} = {}
    BY <2>2, <2>3 DEF Writers, InSection
  <2>5. {h \in Caller : gs[h].pc = "drain"} \cup Writers = {g}
    BY <2>3 DEF Writers
  <2> QED BY <2>1, <2>2, <2>4, <2>5 DEF Locks
<1>8. ASSUME NEW g \in Caller, WriteByID(g) \/ WriteByIP(g) PROVE Locks'
  <2>1. gs[g].pc \in {"byID", "byIP"} /\ rw' = rw
    BY <1>8 DEF WriteByID, WriteByIP, At
  <2>2. gs'[g].pc \in {"byIP", "byMAC"} /\ \A h \in Caller : h # g => gs'[h] = gs[h]
    BY <1>8, Moves, OneChanges DEF WriteByID, WriteByIP, After
  <2> QED BY <1>1, <2>1, <2>2
<1>9. ASSUME NEW g \in Caller, NEW x \in MAC, WriteByMAC(g, x) PROVE Locks'
  <2>1. gs'[g].pc = gs[g].pc /\ \A h \in Caller : h # g => gs'[h] = gs[h]
    BY <1>9, Moves, OneChanges DEF After
  <2> QED BY <1>1, <1>9, <2>1 DEF WriteByMAC
<1>10. ASSUME NEW g \in Caller, Unlock(g) PROVE Locks'
  <2>1. /\ rw'.readers = rw.readers \cup rw.blocked /\ rw'.blocked = {} /\ rw'.writer = Nil
        /\ gs[g].pc = "byMAC"
    BY <1>10 DEF Unlock, At
  <2>2. /\ gs'[g].pc = "idle"
        /\ \A h \in Caller : h # g =>
             gs'[h].pc = IF gs[h].pc = "blocked" THEN "read" ELSE gs[h].pc
    BY <1>10 DEF Unlock, Fresh, Types, Locks
  <2>3. \A h \in Caller : h # g => gs[h].pc # "drain" /\ ~InSection(h)
    BY <2>1, OneWriter DEF InSection
  <2>4. Writers' = {} /\ {h \in Caller : gs'[h].pc = "drain"} = {}
    BY <2>2, <2>3 DEF Writers, InSection
  <2>5. {h \in Caller : gs'[h].pc \in {"read", "runlock"}} = rw.readers \cup rw.blocked
    BY <2>1, <2>2 DEF Locks
  <2>6. {h \in Caller : gs'[h].pc = "blocked"} = {}
    BY <2>2
  <2> QED BY <2>1, <2>4, <2>5, <2>6 DEF Locks
<1>11. ASSUME NEW g \in Caller, WriteFlag(g) PROVE Locks'
  <2>1. gs'[g].pc = "idle" /\ \A h \in Caller : h # g => gs'[h] = gs[h]
    BY <1>11, OneChanges DEF WriteFlag, Fresh
  <2> QED BY <1>1, <1>11, <2>1 DEF WriteFlag, At
<1>12. CASE Restart
  BY <1>12 DEF Restart, Locks, Writers, InSection, Fresh, Unlocked
<1>13. CASE UNCHANGED vars
  BY <1>1, <1>13 DEF vars
<1> QED BY <1>2, <1>3, <1>4, <1>5, <1>6, <1>7, <1>8, <1>9, <1>10, <1>11, <1>12, <1>13
        DEF Next, Step

-----------------------------------------------------------------------------
(* What goroutines have and have written *)

LEMMA NextReady == Inv /\ [Next]_vars => \A g \in Caller : (Ready(g) /\ Written(g))'
<1> SUFFICES ASSUME Inv, [Next]_vars, NEW k \in Caller PROVE (Ready(k) /\ Written(k))'
  OBVIOUS
<1> USE DEF Inv
<1>r. Ready(k) /\ Written(k)
  OBVIOUS
\* Nobody else changes what a goroutine relies on.
<1>1. ASSUME gs'[k] = gs[k], InSection(k) => UNCHANGED <<manifests, ip>>
      PROVE  (Ready(k) /\ Written(k))'
  <2>1. Ready(k)'
    BY <1>r, <1>1 DEF Ready, InSection, S!Rejected
  <2>2. Written(k)'
    BY <1>r, <1>1 DEF Written, InSection, Value
  <2> QED BY <2>1, <2>2
<1>2. ASSUME gs'[k].pc = "idle" PROVE (Ready(k) /\ Written(k))'
  BY <1>2 DEF Ready, Written, InSection
<1>3. ASSUME NEW g \in Caller, NEW c \in Calls, Begin(g, c)
      PROVE  (Ready(k) /\ Written(k))'
  <2>1. /\ gs'[g].pc = (IF c.op = "put" THEN "lock" ELSE "rlock") /\ gs'[g].call = c
        /\ \A h \in Caller : h # g => gs'[h] = gs[h]
    BY <1>3, Moves, OneChanges DEF After
  <2>2. c.op = "put" => ~S!Rejected(c.arg)
    BY <1>3 DEF Begin
  <2>3. CASE k = g
    BY <2>1, <2>2, <2>3 DEF Ready, Written, InSection, S!Rejected
  <2> QED BY <1>1, <1>3, <2>1, <2>3 DEF Begin, maps
<1>4. ASSUME NEW g \in Caller, RLock(g) \/ LockWriters(g)
      PROVE  (Ready(k) /\ Written(k))'
  <2>1. PICK p : Goto(g, p) /\ \/ p \in {"read", "blocked"} /\ gs[g].pc = "rlock"
                               \/ p = "drain" /\ gs[g].pc = "lock"
    BY <1>4 DEF RLock, LockWriters, At
  <2>2. /\ gs'[g].pc = p /\ gs'[g].call = gs[g].call /\ gs'[g].obj = gs[g].obj
        /\ \A h \in Caller : h # g => gs'[h] = gs[h]
    BY <2>1, Moves, OneChanges DEF After
  <2>3. CASE k = g
    BY <1>r, <2>1, <2>2, <2>3 DEF Ready, Written, InSection, S!Rejected
  <2> QED BY <1>1, <1>4, <2>2, <2>3 DEF RLock, LockWriters, maps
<1>5. ASSUME NEW g \in Caller, Read(g) PROVE (Ready(k) /\ Written(k))'
  <2>0. gs[g].pc = "read"
    BY <1>5 DEF Read, At
  <2>1. /\ gs'[g].pc = "runlock" /\ gs'[g].call = gs[g].call
        /\ \A h \in Caller : h # g => gs'[h] = gs[h]
    BY <1>5, Moves, OneChanges DEF After
  <2>2. CASE k = g
    BY <1>r, <2>0, <2>1, <2>2 DEF Ready, Written, InSection
  <2> QED BY <1>1, <1>5, <2>1, <2>2 DEF Read, maps
<1>6. ASSUME NEW g \in Caller, RUnlock(g) PROVE (Ready(k) /\ Written(k))'
  <2>1. /\ gs'[g] = AfterLookup(g) /\ gs[g].pc = "runlock"
        /\ \A h \in Caller : h # g => gs'[h] = gs[h]
    BY <1>6, OneChanges DEF RUnlock, At
  <2>2. \/ gs'[g].pc = "idle"
        \/ /\ gs'[g].call = gs[g].call /\ gs'[g].obj = gs[g].obj /\ gs[g].obj # Nil
           /\ \/ gs'[g].pc = "lock" /\ gs[g].call.op = "forget"
              \/ gs'[g].pc = "flag" /\ gs[g].call.op \in {"suspend", "unsuspend"}
    BY <2>1, AfterLookupCases DEF Types, Fresh
  <2>3. CASE k = g
    BY <1>r, <2>1, <2>2, <2>3 DEF Ready, Written, InSection
  <2> QED BY <1>1, <1>6, <2>1, <2>3 DEF RUnlock, maps
<1>7. ASSUME NEW g \in Caller, Acquire(g) PROVE (Ready(k) /\ Written(k))'
  <2>0. gs[g].pc = "drain" /\ Ready(g)
    BY <1>7 DEF Acquire, At
  <2>1. /\ gs'[g].pc = "byID" /\ gs'[g].call = gs[g].call
        /\ \A h \in Caller : h # g => gs'[h] = gs[h]
    BY <1>7, Moves, OneChanges DEF After
  <2>2. gs'[g].obj # Nil /\ gs'[g].left = gs'[g].obj.man.macs
    <3>1. CASE gs[g].call.op = "put"
      <4>1. /\ gs'[g].obj = [ver |-> ver + 1, man |-> gs[g].call.arg]
            /\ gs'[g].left = gs[g].call.arg.macs
        BY <1>7, <3>1, Moves, OneChanges DEF After
      <4>2. Types'
        BY NextTypes
      <4>3. gs'[g].obj \in Obj' \cup {Nil}
        BY <4>2 DEF Types
      <4>4. [ver |-> ver + 1, man |-> gs[g].call.arg] # Nil
        <5>1. ver + 1 \in 1..MaxPuts
          <6>1. ver' \in 0..MaxPuts /\ ver' = ver + 1 /\ ver \in Nat
            BY <1>7, <3>1, <4>2, Constants DEF Acquire, Types
          <6> QED BY <6>1
        <5>2. gs[g].call.arg \in Inputs
          BY <2>0, <3>1, CallTypes DEF Ready
        <5> QED BY <5>1, <5>2, Constants DEF Obj, S!Obj
      <4> QED BY <4>1, <4>4
    <3>2. CASE gs[g].call.op = "forget"
      <4>1. gs'[g].obj = gs[g].obj /\ gs'[g].left = gs[g].obj.man.macs
        BY <1>7, <3>2, Moves, OneChanges DEF After
      <4> QED BY <2>0, <3>2, <4>1 DEF Ready
    <3> QED BY <2>0, <3>1, <3>2 DEF Ready
  <2>3. CASE k = g
    BY <2>0, <2>1, <2>2, <2>3 DEF Ready, Written, InSection
  <2> QED BY <1>1, <1>7, <2>1, <2>3 DEF Acquire, maps
<1>8. ASSUME NEW g \in Caller, InSection(g), k # g PROVE ~InSection(k)
  BY <1>8, OneWriter
<1>9. ASSUME NEW g \in Caller, InSection(g)
      PROVE gs[g].obj.man.id \in ID /\ gs[g].obj.man.ip \in IP
  <2>1. gs[g].obj \in Obj /\ ~S!Rejected(gs[g].obj.man)
    BY <1>9 DEF Types, AllMade, Made, Ready
  <2> QED BY <2>1, ObjKeys
<1>10. ASSUME NEW g \in Caller, WriteByID(g) PROVE (Ready(k) /\ Written(k))'
  <2>1. gs[g].pc = "byID" /\ InSection(g)
    BY <1>10 DEF WriteByID, At, InSection
  <2>2. /\ gs'[g].pc = "byIP" /\ gs'[g].call = gs[g].call /\ gs'[g].obj = gs[g].obj
        /\ gs'[g].left = gs[g].left
        /\ \A h \in Caller : h # g => gs'[h] = gs[h]
    BY <1>10, Moves, OneChanges DEF After, WriteByID
  <2>3. manifests'[gs[g].obj.man.id] = Value(g)
    BY <1>9, <1>10, <2>1 DEF WriteByID, Types
  <2>4. CASE k = g
    BY <1>r, <2>1, <2>2, <2>3, <2>4 DEF Ready, Written, InSection, Value
  <2> QED BY <1>1, <1>8, <2>1, <2>2, <2>4
<1>11. ASSUME NEW g \in Caller, WriteByIP(g) PROVE (Ready(k) /\ Written(k))'
  <2>1. gs[g].pc = "byIP" /\ InSection(g) /\ manifests' = manifests
    BY <1>11 DEF WriteByIP, At, InSection
  <2>2. /\ gs'[g].pc = "byMAC" /\ gs'[g].call = gs[g].call /\ gs'[g].obj = gs[g].obj
        /\ gs'[g].left = gs[g].left
        /\ \A h \in Caller : h # g => gs'[h] = gs[h]
    BY <1>11, Moves, OneChanges DEF After, WriteByIP
  <2>3. ip'[gs[g].obj.man.ip] = Value(g)
    BY <1>9, <1>11, <2>1 DEF WriteByIP, Types
  <2>4. CASE k = g
    BY <1>r, <2>1, <2>2, <2>3, <2>4 DEF Ready, Written, InSection, Value
  <2> QED BY <1>1, <1>8, <2>1, <2>2, <2>4
<1>12. ASSUME NEW g \in Caller, NEW x \in MAC, WriteByMAC(g, x)
       PROVE  (Ready(k) /\ Written(k))'
  <2>1. gs[g].pc = "byMAC" /\ UNCHANGED <<manifests, ip>>
    BY <1>12 DEF WriteByMAC, At
  <2>2. /\ gs'[g].pc = gs[g].pc /\ gs'[g].call = gs[g].call /\ gs'[g].obj = gs[g].obj
        /\ gs'[g].left = gs[g].left \ {x}
        /\ \A h \in Caller : h # g => gs'[h] = gs[h]
    BY <1>12, Moves, OneChanges DEF After
  <2>3. CASE k = g
    BY <1>r, <2>1, <2>2, <2>3 DEF Ready, Written, InSection, Value
  <2> QED BY <1>1, <2>1, <2>2, <2>3
<1>13. ASSUME NEW g \in Caller, Unlock(g) PROVE (Ready(k) /\ Written(k))'
  <2>1. \/ gs'[k].pc = "idle"
        \/ gs'[k] = gs[k]
        \/ gs[k].pc = "blocked" /\ gs'[k] = [gs[k] EXCEPT !.pc = "read"]
    BY <1>13 DEF Unlock, Fresh, Locks
  <2>2. CASE gs[k].pc = "blocked" /\ gs'[k] = [gs[k] EXCEPT !.pc = "read"]
    <3>1. gs'[k].pc = "read" /\ gs'[k].call = gs[k].call
      BY <2>2 DEF Types
    <3> QED BY <1>r, <2>2, <3>1 DEF Ready, Written, InSection
  <2> QED BY <1>1, <1>2, <1>13, <2>1, <2>2 DEF Unlock, maps
<1>14. ASSUME NEW g \in Caller, WriteFlag(g) PROVE (Ready(k) /\ Written(k))'
  <2>1. gs'[g].pc = "idle" /\ \A h \in Caller : h # g => gs'[h] = gs[h]
    BY <1>14, OneChanges DEF WriteFlag, Fresh
  <2> QED BY <1>1, <1>2, <1>14, <2>1 DEF WriteFlag, maps
<1>15. CASE Restart
  BY <1>2, <1>15 DEF Restart, Fresh
<1>16. CASE UNCHANGED vars
  BY <1>1, <1>16 DEF vars
<1> QED BY <1>3, <1>4, <1>5, <1>6, <1>7, <1>10, <1>11, <1>12, <1>13, <1>14, <1>15, <1>16
        DEF Next, Step

-----------------------------------------------------------------------------
(* Room for the puts under way *)

LEMMA NextRoom == Inv /\ [Next]_vars => Room'
<1> SUFFICES ASSUME Inv, [Next]_vars PROVE Room'
  OBVIOUS
<1> USE DEF Inv
<1> DEFINE Q == PendingPuts
<1>f. IsFiniteSet(Q) /\ Cardinality(Q) \in Nat /\ ver \in Nat
  <2>1. IsFiniteSet(Q)
    BY FS_Subset, CallsAssumption DEF PendingPuts
  <2> QED BY <2>1, FS_CardinalityType, Constants DEF Types
\* No put comes or goes.
<1>1. ASSUME ver' = ver,
             \A h \in Caller :
               (gs'[h].pc \in {"lock", "drain"} /\ gs'[h].call.op = "put") <=>
               (gs[h].pc \in {"lock", "drain"} /\ gs[h].call.op = "put")
      PROVE  Room'
  <2>1. Q' = Q
    BY <1>1 DEF PendingPuts
  <2> QED BY <1>1, <2>1 DEF Room
<1>2. ASSUME NEW g \in Caller, NEW c \in Calls, Begin(g, c) PROVE Room'
  <2>1. /\ gs'[g].pc = (IF c.op = "put" THEN "lock" ELSE "rlock") /\ gs'[g].call = c
        /\ \A h \in Caller : h # g => gs'[h] = gs[h]
    BY <1>2, Moves, OneChanges DEF After
  <2>2. gs[g].pc = "idle" /\ ver' = ver /\ (c.op = "put" => ver + Cardinality(Q) < MaxPuts)
    BY <1>2 DEF Begin, At
  <2>3. CASE c.op = "put"
    <3>1. Q' = Q \cup {g} /\ g \notin Q
      BY <2>1, <2>2, <2>3 DEF PendingPuts
    <3>2. Cardinality(Q') = Cardinality(Q) + 1
      BY <1>f, <3>1, FS_AddElement
    <3> QED BY <1>f, <2>2, <2>3, <3>2, Constants DEF Room
  <2>4. CASE c.op # "put"
    BY <1>1, <2>1, <2>2, <2>4
  <2> QED BY <2>3, <2>4
<1>3. ASSUME NEW g \in Caller, RLock(g) \/ LockWriters(g) PROVE Room'
  <2>1. PICK p : Goto(g, p) /\ \/ p \in {"read", "blocked"} /\ gs[g].pc = "rlock"
                               \/ p = "drain" /\ gs[g].pc = "lock"
    BY <1>3 DEF RLock, LockWriters, At
  <2>2. /\ gs'[g].pc = p /\ gs'[g].call = gs[g].call
        /\ \A h \in Caller : h # g => gs'[h] = gs[h]
    BY <2>1, Moves, OneChanges DEF After
  <2> QED BY <1>1, <1>3, <2>1, <2>2 DEF RLock, LockWriters
<1>4. ASSUME NEW g \in Caller, Read(g) PROVE Room'
  <2>1. gs[g].pc = "read" /\ ver' = ver
    BY <1>4 DEF Read, At
  <2>2. gs'[g].pc = "runlock" /\ \A h \in Caller : h # g => gs'[h] = gs[h]
    BY <1>4, Moves, OneChanges DEF After
  <2> QED BY <1>1, <2>1, <2>2
<1>5. ASSUME NEW g \in Caller, RUnlock(g) PROVE Room'
  <2>1. /\ gs'[g] = AfterLookup(g) /\ gs[g].pc = "runlock" /\ ver' = ver
        /\ \A h \in Caller : h # g => gs'[h] = gs[h]
    BY <1>5, OneChanges DEF RUnlock, At
  <2>2. \/ gs'[g].pc \in {"idle", "flag"}
        \/ gs'[g].call = gs[g].call /\ gs[g].call.op = "forget"
    BY <2>1, AfterLookupCases DEF Types, Fresh
  <2> QED BY <1>1, <2>1, <2>2
<1>6. ASSUME NEW g \in Caller, Acquire(g) PROVE Room'
  <2>1. /\ gs'[g].pc = "byID"
        /\ \A h \in Caller : h # g => gs'[h] = gs[h]
    BY <1>6, Moves, OneChanges DEF After
  <2>2. CASE gs[g].call.op = "put"
    <3>1. ver' = ver + 1 /\ gs[g].pc = "drain"
      BY <1>6, <2>2 DEF Acquire, At
    <3>2. Q' = Q \ {g} /\ g \in Q
      BY <2>1, <2>2, <3>1 DEF PendingPuts
    <3>3. Cardinality(Q') = Cardinality(Q) - 1
      BY <1>f, <3>2, FS_RemoveElement
    <3> QED BY <1>f, <3>1, <3>3, Constants DEF Room
  <2>3. CASE gs[g].call.op # "put"
    <3>1. ver' = ver
      BY <1>6, <2>3 DEF Acquire
    <3> QED BY <1>1, <2>1, <2>3, <3>1
  <2> QED BY <2>2, <2>3
<1>7. ASSUME NEW g \in Caller,
             WriteByID(g) \/ WriteByIP(g) \/ \E x \in MAC : WriteByMAC(g, x)
      PROVE  Room'
  <2>1. gs[g].pc \in {"byID", "byIP", "byMAC"} /\ ver' = ver
    BY <1>7 DEF WriteByID, WriteByIP, WriteByMAC, At
  <2>2. /\ gs'[g].pc \in {"byIP", "byMAC"}
        /\ \A h \in Caller : h # g => gs'[h] = gs[h]
    <3>1. CASE WriteByID(g) \/ WriteByIP(g)
      BY <3>1, Moves, OneChanges DEF WriteByID, WriteByIP, After
    <3>2. ASSUME NEW x \in MAC, WriteByMAC(g, x)
          PROVE  /\ gs'[g].pc \in {"byIP", "byMAC"}
                 /\ \A h \in Caller : h # g => gs'[h] = gs[h]
      <4>1. gs[g].pc = "byMAC"
        BY <3>2 DEF WriteByMAC, At
      <4> QED BY <3>2, <4>1, Moves, OneChanges DEF After
    <3> QED BY <1>7, <3>1, <3>2
  <2> QED BY <1>1, <2>1, <2>2
<1>8. ASSUME NEW g \in Caller, Unlock(g) PROVE Room'
  <2>1. gs[g].pc = "byMAC" /\ ver' = ver
    BY <1>8 DEF Unlock, At
  <2>2. ASSUME NEW h \in Caller
        PROVE  \/ h = g /\ gs'[h].pc = "idle"
               \/ gs'[h] = gs[h]
               \/ gs[h].pc = "blocked" /\ gs'[h].pc = "read"
    BY <1>8 DEF Unlock, Fresh, Locks, Types
  <2> QED BY <1>1, <2>1, <2>2
<1>9. ASSUME NEW g \in Caller, WriteFlag(g) PROVE Room'
  <2>1. gs[g].pc = "flag" /\ ver' = ver
    BY <1>9 DEF WriteFlag, At
  <2>2. gs'[g].pc = "idle" /\ \A h \in Caller : h # g => gs'[h] = gs[h]
    BY <1>9, OneChanges DEF WriteFlag, Fresh
  <2> QED BY <1>1, <2>1, <2>2
<1>10. CASE Restart
  <2>1. Q' = {} /\ ver' = 0
    BY <1>10 DEF Restart, PendingPuts, Fresh
  <2> QED BY <2>1, FS_EmptySet, Constants DEF Room
<1>11. CASE UNCHANGED vars
  BY <1>1, <1>11 DEF vars
<1> QED BY <1>2, <1>3, <1>4, <1>5, <1>6, <1>7, <1>8, <1>9, <1>10, <1>11 DEF Next, Step

LEMMA InvHolds == Spec => []Inv
<1>1. Inv /\ [Next]_vars => Inv'
  BY NextTypes, NextMade, NextLocks, NextReady, NextRoom DEF Inv
<1> QED BY <1>1, InitInv, PTL DEF Spec

\* The store's fields and the goroutines keep their types, and the mutex's
\* fields name exactly the goroutines that are at the statements that need
\* it: no return path of any method leaves the lock behind.
THEOREM TypeCorrect == Spec => []TypeOK
<1>1. Inv => TypeOK
  BY DEF Inv, Types, Locks, TypeOK, Obj
<1> QED BY <1>1, InvHolds, PTL

-----------------------------------------------------------------------------
(* The maps as they look from outside the mutex *)

\* Without a writer they are as they are; a writer counts as done.
SeenWhole == Writers = {} => byID = manifests /\ byIP = ip /\ byMAC = mac
SeenDone(g) ==
  InSection(g) => /\ byID = [manifests EXCEPT ![gs[g].obj.man.id] = Value(g)]
                  /\ byIP = [ip EXCEPT ![gs[g].obj.man.ip] = Value(g)]
                  /\ byMAC = [x \in MAC |-> IF x \in gs[g].left THEN Value(g) ELSE mac[x]]
Seen == SeenWhole /\ \A g \in Caller : SeenDone(g)

LEMMA SectionKeys ==
  ASSUME Inv, NEW g \in Caller, InSection(g)
  PROVE  /\ gs[g].obj \in Obj /\ gs[g].obj # Nil
         /\ gs[g].obj.man.id \in ID /\ gs[g].obj.man.ip \in IP
         /\ gs[g].obj.man.macs \in SUBSET MAC
<1>1. gs[g].obj \in Obj /\ gs[g].obj # Nil /\ ~S!Rejected(gs[g].obj.man)
  BY DEF Inv, Types, AllMade, Made, Ready
<1> QED BY <1>1, ObjKeys

LEMMA HowSeen == Inv => Seen
<1> SUFFICES ASSUME Inv PROVE Seen
  OBVIOUS
<1>1. SeenWhole
  BY DEF SeenWhole, byID, byIP, byMAC, Settled, Inv, Types
<1>2. ASSUME NEW g \in Caller, InSection(g) PROVE SeenDone(g)
  <2>1. \A h \in Writers : h = g
    BY <1>2, OneWriter DEF Inv, Writers
  <2>2. g \in Writers
    BY <1>2 DEF Writers
  <2>3. /\ DOMAIN manifests = ID /\ DOMAIN ip = IP /\ DOMAIN mac = MAC
    BY DEF Inv, Types
  <2>4. byID = [manifests EXCEPT ![gs[g].obj.man.id] = Value(g)]
    <3>1. ASSUME NEW i \in ID, gs[g].obj.man.id = i
          PROVE  (CHOOSE h \in Writers : gs[h].obj.man.id = i) = g
      BY <2>1, <2>2, <3>1
    <3>2. \A i \in ID : byID[i] = IF gs[g].obj.man.id = i THEN Value(g) ELSE manifests[i]
      BY <2>1, <2>2, <2>3, <3>1 DEF byID, Settled, WritesID
    <3>3. byID = [i \in ID |-> byID[i]]
      BY <2>3 DEF byID, Settled
    <3> HIDE DEF byID
    <3> QED BY <2>3, <3>2, <3>3, SectionKeys, <1>2 DEF Inv, Types
  <2>5. byIP = [ip EXCEPT ![gs[g].obj.man.ip] = Value(g)]
    <3>1. ASSUME NEW i \in IP, gs[g].obj.man.ip = i
          PROVE  (CHOOSE h \in Writers : gs[h].obj.man.ip = i) = g
      BY <2>1, <2>2, <3>1
    <3>2. \A i \in IP : byIP[i] = IF gs[g].obj.man.ip = i THEN Value(g) ELSE ip[i]
      BY <2>1, <2>2, <2>3, <3>1 DEF byIP, Settled, WritesIP
    <3>3. byIP = [i \in IP |-> byIP[i]]
      BY <2>3 DEF byIP, Settled
    <3> QED BY <2>3, <3>2, <3>3, SectionKeys, <1>2 DEF Inv, Types
  <2>6. byMAC = [x \in MAC |-> IF x \in gs[g].left THEN Value(g) ELSE mac[x]]
    <3>1. ASSUME NEW x \in MAC, x \in gs[g].left
          PROVE  (CHOOSE h \in Writers : x \in gs[h].left) = g
      BY <2>1, <2>2, <3>1
    <3>2. \A x \in MAC : byMAC[x] = IF x \in gs[g].left THEN Value(g) ELSE mac[x]
      BY <2>1, <2>2, <2>3, <3>1 DEF byMAC, Settled, WritesMAC
    <3>3. byMAC = [x \in MAC |-> byMAC[x]]
      BY <2>3 DEF byMAC, Settled
    <3> QED BY <3>2, <3>3
  <2> QED BY <2>4, <2>5, <2>6 DEF SeenDone
<1> QED BY <1>1, <1>2 DEF Seen, SeenDone

\* A lookup reads maps that no PutManifest or ForgetManifest is half way
\* through, whatever calls how many goroutines make.
THEOREM LookupsWhole == Spec => []LookupsSeeWhole
<1>1. Inv => LookupsSeeWhole
  <2> SUFFICES ASSUME Inv, NEW g \in Caller, gs[g].pc = "read"
               PROVE  manifests = byID /\ ip = byIP /\ mac = byMAC
    BY DEF LookupsSeeWhole
  <2>1. Writers = {}
    BY DEF Inv, Locks
  <2> QED BY <2>1, HowSeen DEF Seen, SeenWhole
<1> QED BY <1>1, InvHolds, PTL

-----------------------------------------------------------------------------
(* The refinement *)

\* Steps that touch neither a map nor a writer are not seen.
LEMMA NothingSeen ==
  ASSUME Inv, Inv', UNCHANGED maps,
         \A h \in Caller : InSection(h) \/ InSection(h)' => gs'[h] = gs[h]
  PROVE  UNCHANGED <<byID, byIP, byMAC>>
<1>0. Seen /\ Seen'
  BY HowSeen, PTL
<1>1. CASE Writers = {}
  <2>1. Writers' = {}
    BY <1>1 DEF Writers, InSection
  <2> QED BY <1>0, <1>1, <2>1 DEF Seen, SeenWhole, maps
<1>2. ASSUME NEW g \in Caller, InSection(g) PROVE UNCHANGED <<byID, byIP, byMAC>>
  <2>1. gs'[g] = gs[g]
    BY <1>2
  <2>2. InSection(g)' /\ Value(g)' = Value(g)
    BY <1>2, <2>1 DEF InSection, Value
  <2>3. SeenDone(g) /\ SeenDone(g)'
    BY <1>0 DEF Seen
  <2> QED BY <1>2, <2>1, <2>2, <2>3 DEF SeenDone, maps
<1> QED BY <1>1, <1>2 DEF Writers

\* Nor are a writer's statements: it counted as done before.
LEMMA StatementNotSeen ==
  ASSUME Inv, Inv', NEW g \in Caller, InSection(g), InSection(g)',
         gs'[g].obj = gs[g].obj, gs'[g].call = gs[g].call,
         \/ UNCHANGED <<ip, mac>> /\ gs'[g].left = gs[g].left
              /\ manifests' = [manifests EXCEPT ![gs[g].obj.man.id] = Value(g)]
         \/ UNCHANGED <<manifests, mac>> /\ gs'[g].left = gs[g].left
              /\ ip' = [ip EXCEPT ![gs[g].obj.man.ip] = Value(g)]
         \/ UNCHANGED <<manifests, ip>>
              /\ \E x \in gs[g].left : /\ mac' = [mac EXCEPT ![x] = Value(g)]
                                       /\ gs'[g].left = gs[g].left \ {x}
  PROVE  UNCHANGED <<byID, byIP, byMAC>>
<1>0. Seen /\ Seen'
  BY HowSeen, PTL
<1>1. SeenDone(g) /\ SeenDone(g)' /\ Value(g)' = Value(g)
  BY <1>0 DEF Seen, Value
<1>2. /\ gs[g].obj.man.id \in ID /\ gs[g].obj.man.ip \in IP
  BY SectionKeys
<1> DEFINE i == gs[g].obj.man.id
           a == gs[g].obj.man.ip
           v == Value(g)
           l == gs[g].left
<1>t. manifests \in [ID -> Obj \cup {Nil}] /\ ip \in [IP -> Obj \cup {Nil}]
      /\ mac \in [MAC -> Obj \cup {Nil}] /\ l \in SUBSET MAC
  BY DEF Inv, Types
<1>3. /\ byID = [manifests EXCEPT ![i] = v]
      /\ byIP = [ip EXCEPT ![a] = v]
      /\ byMAC = [x \in MAC |-> IF x \in l THEN v ELSE mac[x]]
      /\ byID' = [manifests' EXCEPT ![i] = v]
      /\ byIP' = [ip' EXCEPT ![a] = v]
      /\ byMAC' = [x \in MAC |-> IF x \in gs'[g].left THEN v ELSE mac'[x]]
  BY <1>1 DEF SeenDone
<1> HIDE DEF i, a, v, l
<1>4. CASE UNCHANGED <<ip, mac>> /\ gs'[g].left = l /\ manifests' = [manifests EXCEPT ![i] = v]
  BY <1>3, <1>4, <1>t
<1>5. CASE UNCHANGED <<manifests, mac>> /\ gs'[g].left = l /\ ip' = [ip EXCEPT ![a] = v]
  BY <1>3, <1>5, <1>t
<1>6. ASSUME NEW y \in l, UNCHANGED <<manifests, ip>>, mac' = [mac EXCEPT ![y] = v],
             gs'[g].left = l \ {y}
      PROVE  UNCHANGED <<byID, byIP, byMAC>>
  <2>1. \A x \in MAC : (IF x \in l \ {y} THEN v ELSE mac'[x]) = IF x \in l THEN v ELSE mac[x]
    BY <1>6, <1>t
  <2>2. byMAC' = byMAC
    BY <1>3, <1>6, <2>1
  <2> QED BY <1>3, <1>6, <2>2
<1> QED BY <1>4, <1>5, <1>6 DEF i, a, v, l

\* What goroutine g carries, given the state it is in.
LEMMA SameCall ==
  ASSUME NEW h, gs'[h] = gs[h]
  PROVE  CallOf(h)' = CallOf(h)
BY DEF CallOf, Carries

\* A step of g that Store does not see.
LEMMA Stutters ==
  ASSUME NEW g \in Caller, UNCHANGED <<byID, byIP, byMAC, suspended, ver>>,
         \A h \in Caller : h # g => CallOf(h)' = CallOf(h),
         Carries(g)' <=> Carries(g),
         Carries(g) => gs'[g].call.op = gs[g].call.op /\ gs'[g].obj = gs[g].obj
  PROVE  UNCHANGED S!vars
<1>1. CallOf(g)' = CallOf(g)
  BY DEF CallOf
<1> QED BY <1>1 DEF S!vars

LEMMA Simulates == Inv /\ Inv' /\ [Next]_vars => [S!Next]_(S!vars)
<1> SUFFICES ASSUME Inv, Inv', [Next]_vars PROVE [S!Next]_(S!vars)
  OBVIOUS
<1>t. Types
  BY DEF Inv
<1>s. Seen /\ Seen'
  BY HowSeen, PTL
<1>l. S!Loaded
  BY DEF S!Loaded
<1>1. ASSUME NEW g \in Caller, NEW c \in Calls, Begin(g, c) PROVE UNCHANGED S!vars
  <2>1. /\ gs'[g].pc = (IF c.op = "put" THEN "lock" ELSE "rlock") /\ gs'[g].call = c
        /\ \A h \in Caller : h # g => gs'[h] = gs[h]
    BY <1>1, <1>t, Moves, OneChanges DEF After
  <2>2. gs[g].pc = "idle" /\ UNCHANGED <<maps, suspended, ver>>
    BY <1>1 DEF Begin, At
  <2>3. UNCHANGED <<byID, byIP, byMAC>>
    BY <2>1, <2>2, NothingSeen DEF InSection
  <2>4. ~Carries(g) /\ ~Carries(g)'
    BY <2>1, <2>2 DEF Carries
  <2> QED BY <2>1, <2>2, <2>3, <2>4, SameCall, Stutters
<1>2. ASSUME NEW g \in Caller, RLock(g) \/ LockWriters(g) PROVE UNCHANGED S!vars
  <2>1. PICK p : Goto(g, p) /\ \/ p \in {"read", "blocked"} /\ gs[g].pc = "rlock"
                               \/ p = "drain" /\ gs[g].pc = "lock"
    BY <1>2 DEF RLock, LockWriters, At
  <2>2. /\ gs'[g].pc = p /\ gs'[g].call = gs[g].call /\ gs'[g].obj = gs[g].obj
        /\ \A h \in Caller : h # g => gs'[h] = gs[h]
    BY <1>t, <2>1, Moves, OneChanges DEF After
  <2>3. UNCHANGED <<maps, suspended, ver>>
    BY <1>2 DEF RLock, LockWriters
  <2>4. UNCHANGED <<byID, byIP, byMAC>>
    BY <2>1, <2>2, <2>3, NothingSeen DEF InSection
  <2>5. Carries(g)' <=> Carries(g)
    <3>1. Ready(g)
      BY DEF Inv
    <3> QED BY <2>1, <2>2, <3>1 DEF Carries, Ready
  <2> QED BY <2>2, <2>3, <2>4, <2>5, SameCall, Stutters
<1>3. ASSUME NEW g \in Caller, Read(g) PROVE [S!Next]_(S!vars)
  <2> DEFINE c == gs[g].call
  <2>1. gs[g].pc = "read" /\ UNCHANGED <<maps, suspended, ver>>
    BY <1>3 DEF Read, At
  <2>2. c \in Calls /\ c.op # "put"
    BY <2>1 DEF Inv, Ready
  <2>3. /\ gs'[g].pc = "runlock" /\ gs'[g].call = c /\ gs'[g].obj = Found(c)
        /\ \A h \in Caller : h # g => gs'[h] = gs[h]
    BY <1>3, <1>t, Moves, OneChanges DEF After
  <2>4. UNCHANGED <<byID, byIP, byMAC>>
    BY <2>1, <2>3, NothingSeen DEF InSection
  <2>5. manifests = byID /\ ip = byIP
    <3>1. Writers = {}
      BY <2>1 DEF Inv, Locks
    <3> QED BY <1>s, <3>1 DEF Seen, SeenWhole
  <2>6. CallOf(g) = S!Idle
    BY <2>1 DEF CallOf, Carries, S!Idle
  <2>7. \A h \in Caller : h # g => CallOf(h)' = CallOf(h)
    BY <2>3, SameCall
  <2>8. CASE Carries(g)'
    <3>1. CallOf(g)' = [op |-> c.op, obj |-> Found(c)] /\ Found(c) # Nil
          /\ c.op \in {"forget", "suspend", "unsuspend"}
      BY <2>3, <2>8 DEF CallOf, Carries
    <3>2. [h \in Caller |-> CallOf(h)]' =
            [[h \in Caller |-> CallOf(h)] EXCEPT ![g] = [op |-> c.op, obj |-> Found(c)]]
      BY <2>7, <3>1
    <3>3. CASE c.op = "forget"
      <4>1. Found(c) = byID[c.arg] /\ c.arg \in ID
        BY <2>2, <2>5, <3>3, CallTypes DEF Found
      <4>2. S!ForgetLookup(g, c.arg)
        BY <1>l, <2>1, <2>4, <2>6, <3>1, <3>2, <3>3, <4>1 DEF S!ForgetLookup, S!Find
      <4> QED BY <4>1, <4>2 DEF S!Next
    <3>4. CASE c.op \in {"suspend", "unsuspend"}
      <4>1. Found(c) = byIP[c.arg] /\ c.arg \in IP
        BY <2>2, <2>5, <3>4, CallTypes DEF Found
      <4>2. S!FlagLookup(g, c.arg, c.op)
        BY <1>l, <2>1, <2>4, <2>6, <3>1, <3>2, <4>1 DEF S!FlagLookup, S!FindByIP
      <4> QED BY <3>4, <4>1, <4>2 DEF S!Next
    <3> QED BY <3>1, <3>3, <3>4
  <2>9. CASE ~Carries(g)'
    <3>1. ~Carries(g)
      BY <2>1 DEF Carries
    <3> QED BY <2>1, <2>4, <2>7, <2>9, <3>1, Stutters
  <2> QED BY <2>8, <2>9
<1>4. ASSUME NEW g \in Caller, RUnlock(g) PROVE UNCHANGED S!vars
  <2>1. /\ gs'[g] = AfterLookup(g) /\ gs[g].pc = "runlock"
        /\ UNCHANGED <<maps, suspended, ver>>
        /\ \A h \in Caller : h # g => gs'[h] = gs[h]
    BY <1>4, <1>t, OneChanges DEF RUnlock, At
  <2>2. \/ gs'[g] = Fresh /\ ~Carries(g)
        \/ /\ gs'[g].call = gs[g].call /\ gs'[g].obj = gs[g].obj /\ gs[g].obj # Nil
           /\ \/ gs'[g].pc = "lock" /\ gs[g].call.op = "forget"
              \/ gs'[g].pc = "flag" /\ gs[g].call.op \in {"suspend", "unsuspend"}
    BY <1>t, <2>1, AfterLookupCases DEF Types, Carries
  <2>3. gs'[g].pc \in {"idle", "lock", "flag"} /\ (Carries(g)' <=> Carries(g))
    BY <2>1, <2>2 DEF Fresh, Carries
  <2>4. Carries(g) => gs'[g].call.op = gs[g].call.op /\ gs'[g].obj = gs[g].obj
    BY <2>2
  <2>5. UNCHANGED <<byID, byIP, byMAC>>
    BY <2>1, <2>3, NothingSeen DEF InSection
  <2> QED BY <2>1, <2>3, <2>4, <2>5, SameCall, Stutters
<1>5. ASSUME NEW g \in Caller, Acquire(g) PROVE S!Next
  <2> DEFINE c == gs[g].call
             s == gs'[g]
             o == s.obj
  <2>1. gs[g].pc = "drain" /\ UNCHANGED maps
    BY <1>5 DEF Acquire, At
  <2>2. /\ c \in Calls
        /\ \/ c.op = "put" /\ ~S!Rejected(c.arg)
           \/ c.op = "forget" /\ gs[g].obj # Nil
    BY <2>1 DEF Inv, Ready
  <2>3. s.pc = "byID" /\ s.call = c /\ \A h \in Caller : h # g => gs'[h] = gs[h]
    BY <1>5, <1>t, Moves, OneChanges DEF After
  <2>4. \A h \in Caller : h # g => CallOf(h)' = CallOf(h)
    BY <2>3, SameCall
  <2>5. CallOf(g)' = S!Idle
    BY <2>3 DEF CallOf, Carries, S!Idle
  <2>6. Writers = {}
    BY <2>1, OneWriter DEF Inv, Writers, InSection
  <2>7. byID = manifests /\ byIP = ip /\ byMAC = mac
    BY <1>s, <2>6 DEF Seen, SeenWhole
  <2>8. /\ byID' = [byID EXCEPT ![o.man.id] = Value(g)']
        /\ byIP' = [byIP EXCEPT ![o.man.ip] = Value(g)']
        /\ byMAC' = [x \in MAC |-> IF x \in s.left THEN Value(g)' ELSE byMAC[x]]
    <3>1. SeenDone(g)' /\ InSection(g)'
      BY <1>s, <2>3 DEF Seen, InSection
    <3> QED BY <2>1, <2>7, <3>1 DEF SeenDone, maps
  <2>9. CASE c.op = "put"
    <3> DEFINE m == c.arg
    <3>1. m \in Inputs
      BY <2>2, <2>9, CallTypes
    <3>2. /\ ver' = ver + 1
          /\ suspended' = suspended \cup (IF m.suspended THEN {ver + 1} ELSE {})
      BY <1>5, <2>9 DEF Acquire
    <3>3. o = [ver |-> ver + 1, man |-> m] /\ s.left = m.macs
      BY <1>5, <1>t, <2>9, Moves, OneChanges DEF After
    <3>4. ver < MaxPuts
      <4>1. ver' \in 0..MaxPuts /\ ver \in 0..MaxPuts
        BY DEF Inv, Types
      <4> QED BY <3>2, <4>1, Constants
    <3>5. Value(g)' = o
      BY <2>3, <2>9 DEF Value
    <3>6. CallOf(g) = S!Idle
      BY <2>9 DEF CallOf, Carries, S!Idle
    <3>7. UNCHANGED [h \in Caller |-> CallOf(h)]
      BY <2>4, <2>5, <3>6
    <3>8. S!Insert(m, [ver |-> ver + 1, man |-> m])
      BY <2>8, <3>3, <3>5 DEF S!Insert
    <3>9. S!Put(m)
      BY <1>l, <2>2, <2>9, <3>2, <3>4, <3>7, <3>8 DEF S!Put, S!PutManifest
    <3> QED BY <3>1, <3>9 DEF S!Next
  <2>10. CASE c.op = "forget"
    <3>1. UNCHANGED <<ver, suspended>>
      BY <1>5, <2>10 DEF Acquire
    <3>2. o = gs[g].obj /\ s.left = o.man.macs
      BY <1>5, <1>t, <2>10, Moves, OneChanges DEF After
    <3>3. Value(g)' = Nil
      BY <2>3, <2>10 DEF Value
    <3>4. CallOf(g) = [op |-> "forget", obj |-> gs[g].obj]
      BY <2>1, <2>2, <2>10 DEF CallOf, Carries
    <3>5. [h \in Caller |-> CallOf(h)]' = [[h \in Caller |-> CallOf(h)] EXCEPT ![g] = S!Idle]
      BY <2>4, <2>5
    <3>6. S!Remove(gs[g].obj)
      BY <2>8, <3>1, <3>2, <3>3 DEF S!Remove
    <3>7. S!ForgetDelete(g)
      BY <3>4, <3>5, <3>6 DEF S!ForgetDelete
    <3> QED BY <3>7 DEF S!Next
  <2> QED BY <2>2, <2>9, <2>10
<1>6. ASSUME NEW g \in Caller,
             WriteByID(g) \/ WriteByIP(g) \/ \E x \in MAC : WriteByMAC(g, x)
      PROVE  UNCHANGED S!vars
  <2>1. gs[g].pc \in {"byID", "byIP", "byMAC"} /\ UNCHANGED <<suspended, ver>>
    BY <1>6 DEF WriteByID, WriteByIP, WriteByMAC, At
  <2>2. /\ gs'[g].pc \in {"byIP", "byMAC"}
        /\ gs'[g].obj = gs[g].obj /\ gs'[g].call = gs[g].call
        /\ \/ /\ UNCHANGED <<ip, mac>> /\ gs'[g].left = gs[g].left
              /\ manifests' = [manifests EXCEPT ![gs[g].obj.man.id] = Value(g)]
           \/ /\ UNCHANGED <<manifests, mac>> /\ gs'[g].left = gs[g].left
              /\ ip' = [ip EXCEPT ![gs[g].obj.man.ip] = Value(g)]
           \/ /\ UNCHANGED <<manifests, ip>>
              /\ \E x \in gs[g].left : /\ mac' = [mac EXCEPT ![x] = Value(g)]
                                       /\ gs'[g].left = gs[g].left \ {x}
        /\ \A h \in Caller : h # g => gs'[h] = gs[h]
    <3>1. CASE WriteByID(g)
      BY <1>t, <3>1, Moves, OneChanges DEF WriteByID, After
    <3>2. CASE WriteByIP(g)
      BY <1>t, <3>2, Moves, OneChanges DEF WriteByIP, After
    <3>3. ASSUME NEW x \in MAC, WriteByMAC(g, x)
          PROVE  /\ gs'[g].pc = "byMAC" /\ gs'[g].obj = gs[g].obj /\ gs'[g].call = gs[g].call
                 /\ UNCHANGED <<manifests, ip>> /\ x \in gs[g].left
                 /\ mac' = [mac EXCEPT ![x] = Value(g)] /\ gs'[g].left = gs[g].left \ {x}
                 /\ \A h \in Caller : h # g => gs'[h] = gs[h]
      <4>1. /\ gs[g].pc = "byMAC" /\ UNCHANGED <<manifests, ip>> /\ x \in gs[g].left
            /\ mac' = [mac EXCEPT ![x] = Value(g)]
        BY <3>3 DEF WriteByMAC, At
      <4>2. gs' = [gs EXCEPT ![g] = After(gs[g].pc, gs[g].call, gs[g].obj, gs[g].left \ {x})]
        BY <1>t, <3>3, Moves
      <4> QED BY <1>t, <4>1, <4>2, OneChanges DEF After
    <3> QED BY <1>6, <3>1, <3>2, <3>3
  <2>3. InSection(g) /\ InSection(g)' /\ ~Carries(g) /\ ~Carries(g)'
    BY <2>1, <2>2 DEF InSection, Carries
  <2>4. UNCHANGED <<byID, byIP, byMAC>>
    BY <2>2, <2>3, StatementNotSeen
  <2> QED BY <2>1, <2>2, <2>3, <2>4, SameCall, Stutters
<1>7. ASSUME NEW g \in Caller, Unlock(g) PROVE UNCHANGED S!vars
  <2>1. gs[g].pc = "byMAC" /\ gs[g].left = {} /\ UNCHANGED <<maps, suspended, ver>>
    BY <1>7 DEF Unlock, At
  <2>2. ASSUME NEW h \in Caller
        PROVE  \/ h = g /\ gs'[h] = Fresh
               \/ h # g /\ gs'[h] = gs[h]
               \/ h # g /\ gs[h].pc = "blocked" /\ gs'[h].pc = "read"
    BY <1>7 DEF Unlock, Inv, Locks, Types
  <2>3. \A h \in Caller : CallOf(h)' = CallOf(h)
    <3> SUFFICES ASSUME NEW h \in Caller PROVE CallOf(h)' = CallOf(h)
      OBVIOUS
    <3>1. CASE gs'[h] = gs[h]
      BY <3>1, SameCall
    <3>2. CASE gs'[h] # gs[h]
      <4>1. gs[h].pc \in {"blocked", "byMAC"} /\ gs'[h].pc \in {"idle", "read"}
        BY <2>1, <2>2, <3>2 DEF Fresh
      <4>2. ~Carries(h) /\ ~Carries(h)'
        BY <4>1 DEF Carries
      <4> QED BY <4>2 DEF CallOf
    <3> QED BY <3>1, <3>2
  <2>4. Writers' = {}
    <3>1. \A h \in Caller : h # g => ~InSection(h)
      BY <2>1, OneWriter DEF Inv, InSection
    <3> QED BY <2>2, <3>1 DEF Writers, InSection, Fresh
  <2>5. InSection(g) /\ SeenDone(g) /\ Written(g)
    BY <1>s, <2>1 DEF Seen, InSection, Inv
  <2>6. gs[g].obj.man.id \in ID /\ gs[g].obj.man.ip \in IP
    BY <2>5, SectionKeys
  <2>7. byID = manifests /\ byIP = ip /\ byMAC = mac
    BY <1>t, <2>1, <2>5, <2>6 DEF SeenDone, Written, Types
  <2>8. byID' = manifests' /\ byIP' = ip' /\ byMAC' = mac'
    BY <1>s, <2>4 DEF Seen, SeenWhole
  <2> QED BY <2>1, <2>3, <2>7, <2>8 DEF S!vars, maps
<1>8. ASSUME NEW g \in Caller, WriteFlag(g) PROVE S!Next
  <2>1. /\ gs[g].pc = "flag" /\ UNCHANGED <<maps, ver>>
        /\ suspended' = IF gs[g].call.op = "suspend" THEN suspended \cup {gs[g].obj.ver}
                        ELSE suspended \ {gs[g].obj.ver}
    BY <1>8 DEF WriteFlag, At
  <2>2. gs'[g] = Fresh /\ \A h \in Caller : h # g => gs'[h] = gs[h]
    BY <1>8, <1>t, OneChanges DEF WriteFlag
  <2>3. gs[g].call.op \in {"suspend", "unsuspend"} /\ gs[g].obj # Nil
    BY <2>1 DEF Inv, Ready
  <2>4. CallOf(g) = [op |-> gs[g].call.op, obj |-> gs[g].obj] /\ CallOf(g)' = S!Idle
    BY <2>1, <2>2, <2>3 DEF CallOf, Carries, Fresh, S!Idle
  <2>5. [h \in Caller |-> CallOf(h)]' = [[h \in Caller |-> CallOf(h)] EXCEPT ![g] = S!Idle]
    BY <2>2, <2>4, SameCall
  <2>6. UNCHANGED <<byID, byIP, byMAC>>
    BY <2>1, <2>2, NothingSeen DEF InSection, Fresh
  <2>7. S!FlagWrite(g)
    BY <2>1, <2>3, <2>4, <2>5, <2>6 DEF S!FlagWrite, S!WriteSuspended
  <2> QED BY <2>7 DEF S!Next
<1>9. CASE Restart
  <2>1. \A h \in Caller : gs'[h] = Fresh
    BY <1>9 DEF Restart
  <2>2. Writers' = {}
    BY <2>1 DEF Writers, InSection, Fresh
  <2>3. byID' = manifests' /\ byIP' = ip' /\ byMAC' = mac'
    BY <1>s, <2>2 DEF Seen, SeenWhole
  <2>4. \A h \in Caller : CallOf(h)' = S!Idle
    BY <2>1 DEF CallOf, Carries, Fresh, S!Idle
  <2>5. S!Restart
    BY <1>9, <2>3, <2>4 DEF Restart, S!Restart
  <2> QED BY <2>5 DEF S!Next
<1>10. CASE UNCHANGED vars
  <2>1. UNCHANGED <<byID, byIP, byMAC>>
    BY <1>10, NothingSeen DEF vars, maps
  <2>2. \A h \in Caller : CallOf(h)' = CallOf(h)
    BY <1>10, SameCall DEF vars
  <2> QED BY <1>10, <2>1, <2>2 DEF vars, S!vars
<1> QED BY <1>1, <1>2, <1>3, <1>4, <1>5, <1>6, <1>7, <1>8, <1>9, <1>10 DEF Next, Step

\* The methods of the store, one map statement at a time under the RWMutex,
\* implement the atomic steps of module Store, on which the other modules
\* build.
THEOREM LocksImplementStore == Spec => ImplementsStore
<1>1. Init => S!Init
  <2> SUFFICES ASSUME Init PROVE S!Init
    OBVIOUS
  <2>1. \A g \in Caller : gs[g] = Fresh
    BY DEF Init
  <2>2. Writers = {}
    BY <2>1 DEF Writers, InSection, Fresh
  <2>3. byID = manifests /\ byIP = ip /\ byMAC = mac
    BY <2>2, InitInv, HowSeen DEF Seen, SeenWhole
  <2>4. \A g \in Caller : CallOf(g) = S!Idle
    BY <2>1 DEF CallOf, Carries, Fresh, S!Idle
  <2> QED BY <2>3, <2>4 DEF Init, S!Init, S!Empty
<1> QED BY <1>1, InvHolds, Simulates, PTL DEF Spec, ImplementsStore, S!Spec
=============================================================================
