---------------------------- MODULE StoreProofs ----------------------------
(***************************************************************************)
(* Proofs about Store, for every set of IDs, addresses, input manifests    *)
(* and goroutines, every manifest directory and every MaxPuts.             *)
(***************************************************************************)
EXTENDS Store, SequenceTheorems, TLAPS

-----------------------------------------------------------------------------
(* Facts about objects and about which objects a step can bring into use *)

\* The fields of an object are those of the manifest it was made from.
LEMMA ObjFields ==
  ASSUME NEW o \in Obj
  PROVE  /\ o.ver \in 1..MaxPuts
         /\ o.man \in Inputs
         /\ o.man.id \in ID \cup {Nil}
         /\ o.man.ip \in IP \cup {Nil}
         /\ o.man.macs \in SUBSET MAC
         /\ o # Nil
  BY InputsAssumption, NilAssumption DEF Obj

\* A pointer in use is an object.
LEMMA LiveObj ==
  ASSUME TypeOK
  PROVE  Live \subseteq Obj
  BY DEF TypeOK, Live, Served

\* The object PutManifest makes.
New(m) == [ver |-> ver + 1, man |-> m]

\* PutManifest accepts m: the maps get the new object, nothing else comes
\* into use.
LEMMA PutEffect ==
  ASSUME TypeOK, NEW m \in Inputs, PutManifest(m), UNCHANGED call, ~Rejected(m)
  PROVE  /\ New(m) \in Obj
         /\ m.id \in ID /\ m.ip \in IP /\ m.macs \in SUBSET MAC
         /\ ver < MaxPuts /\ ver' = ver + 1
         /\ manifests' = [manifests EXCEPT ![m.id] = New(m)]
         /\ ip' = [ip EXCEPT ![m.ip] = New(m)]
         /\ mac' = [x \in MAC |-> IF x \in m.macs THEN New(m) ELSE mac[x]]
         /\ suspended' \in SUBSET (1..ver')
         /\ Live' \subseteq Live \cup {New(m)}
<1>1. /\ m.id \in ID /\ m.ip \in IP /\ m.macs \in SUBSET MAC
  BY InputsAssumption DEF Rejected
<1>2. ver < MaxPuts /\ ver' = ver + 1
  BY DEF PutManifest
<1>3. New(m) \in Obj
  BY <1>2, FilesAssumption DEF New, Obj, TypeOK
<1>4. /\ manifests' = [manifests EXCEPT ![m.id] = New(m)]
      /\ ip' = [ip EXCEPT ![m.ip] = New(m)]
      /\ mac' = [x \in MAC |-> IF x \in m.macs THEN New(m) ELSE mac[x]]
  BY DEF PutManifest, Insert, New
<1>5. suspended' \in SUBSET (1..ver')
  <2>1. suspended' \subseteq suspended \cup {ver + 1}
    BY DEF PutManifest
  <2>2. suspended \subseteq 1..ver /\ ver \in Nat
    BY FilesAssumption DEF TypeOK
  <2> QED BY <1>2, <2>1, <2>2
<1>6. Live' \subseteq Live \cup {New(m)}
  BY <1>1, <1>4 DEF Live, Served, TypeOK
<1> QED BY <1>1, <1>2, <1>3, <1>4, <1>5, <1>6

\* Remove(o) brings nothing into use.
LEMMA RemoveEffect ==
  ASSUME TypeOK, NEW o \in Obj, Remove(o),
         \A c \in Caller : call'[c].obj \in {call[c].obj, Nil}
  PROVE  Live' \subseteq Live
  BY DEF Live, Served, TypeOK, Remove

-----------------------------------------------------------------------------
(* Type correctness *)

LEMMA InitType == Init => TypeOK
<1> SUFFICES ASSUME Init PROVE TypeOK
  OBVIOUS
<1>1. Live = {}
  BY DEF Init, Empty, Live, Served, Idle
<1>2. /\ ver \in 0..MaxPuts /\ suspended \in SUBSET (1..ver)
      /\ todo \in 1..(Len(Files) + 1)
  BY FilesAssumption DEF Init, Empty
<1>3. call \in [Caller -> [op : Ops, obj : Obj \cup {Nil}]]
  BY DEF Init, Idle, Ops
<1>4. \A c \in Caller : call[c].obj = Nil <=> call[c].op = "idle"
  BY DEF Init, Idle
<1> QED BY <1>1, <1>2, <1>3, <1>4 DEF Init, Empty, TypeOK

\* PutManifest keeps the type of everything it writes.
LEMMA PutType ==
  ASSUME TypeOK, NEW m \in Inputs, PutManifest(m), UNCHANGED call,
         todo' \in 1..(Len(Files) + 1)
  PROVE  TypeOK'
<1>1. CASE Rejected(m)
  <2>1. UNCHANGED store
    BY <1>1 DEF PutManifest
  <2> QED BY <2>1 DEF store, TypeOK, Live, Served
<1>2. CASE ~Rejected(m)
  <2>1. /\ manifests' \in [ID -> Obj \cup {Nil}]
        /\ ip' \in [IP -> Obj \cup {Nil}]
        /\ mac' \in [MAC -> Obj \cup {Nil}]
    BY <1>2, PutEffect DEF TypeOK
  <2>2. ver' \in 0..MaxPuts /\ ver \in Nat
    BY <1>2, PutEffect, FilesAssumption DEF TypeOK
  <2>3. \A o \in Live' : o.ver <= ver'
    <3>1. \A o \in Live : o.ver \in Nat /\ o.ver <= ver
      BY LiveObj, ObjFields, FilesAssumption DEF TypeOK
    <3>2. New(m).ver = ver'
      BY <1>2, PutEffect DEF New
    <3> QED BY <1>2, <2>2, <3>1, <3>2, PutEffect
  <2> QED BY <1>2, <2>1, <2>2, <2>3, PutEffect DEF TypeOK
<1> QED BY <1>1, <1>2

LEMMA NextType == TypeOK /\ [Next]_vars => TypeOK'
<1> SUFFICES ASSUME TypeOK, [Next]_vars PROVE TypeOK'
  OBVIOUS
<1> USE FilesAssumption
<1>1. CASE LoadFile
  <2>1. todo \in 1..Len(Files) /\ todo' \in 1..(Len(Files) + 1) /\ UNCHANGED call
    BY <1>1 DEF LoadFile, Loaded, TypeOK
  <2>2. Files[todo].man \in Inputs
    <3>1. Files[todo] \in [ok : BOOLEAN, man : Inputs]
      BY <2>1, ElementOfSeq
    <3> QED BY <3>1
  <2>3. CASE Files[todo].ok
    BY <1>1, <2>1, <2>2, <2>3, PutType DEF LoadFile
  <2>4. CASE ~Files[todo].ok
    <3>1. UNCHANGED store
      BY <1>1, <2>4 DEF LoadFile
    <3> QED BY <2>1, <3>1 DEF store, TypeOK, Live, Served
  <2> QED BY <2>3, <2>4
<1>2. ASSUME NEW m \in Inputs, Put(m) PROVE TypeOK'
  BY <1>2, PutType DEF Put, TypeOK
<1>3. ASSUME NEW c \in Caller, NEW id \in ID, ForgetLookup(c, id) PROVE TypeOK'
  <2>1. Find(id) \in Obj /\ Find(id) \in Live
    BY <1>3 DEF ForgetLookup, Find, TypeOK, Live, Served
  <2>2. Live' \subseteq Live
    BY <1>3, <2>1 DEF ForgetLookup, TypeOK, Live, Served
  <2> QED BY <1>3, <2>1, <2>2, ObjFields DEF ForgetLookup, TypeOK, Ops
<1>4. ASSUME NEW c \in Caller, ForgetDelete(c) PROVE TypeOK'
  <2>1. call[c].obj \in Obj
    BY <1>4 DEF ForgetDelete, TypeOK
  <2>2. /\ manifests' \in [ID -> Obj \cup {Nil}]
        /\ ip' \in [IP -> Obj \cup {Nil}]
        /\ mac' \in [MAC -> Obj \cup {Nil}]
        /\ UNCHANGED <<suspended, ver, todo>>
    BY <1>4 DEF ForgetDelete, Remove, TypeOK
  <2>3. /\ call' \in [Caller -> [op : Ops, obj : Obj \cup {Nil}]]
        /\ \A d \in Caller : call'[d].obj = Nil <=> call'[d].op = "idle"
        /\ \A d \in Caller : call'[d].obj \in {call[d].obj, Nil}
    BY <1>4 DEF ForgetDelete, TypeOK, Idle, Ops
  <2>4. Live' \subseteq Live
    BY <1>4, <2>1, <2>3, RemoveEffect DEF ForgetDelete
  <2> QED BY <2>2, <2>3, <2>4 DEF TypeOK
<1>5. ASSUME NEW c \in Caller, NEW a \in IP, NEW op \in {"suspend", "unsuspend"},
             FlagLookup(c, a, op)
      PROVE TypeOK'
  <2>1. FindByIP(a) \in Obj /\ FindByIP(a) \in Live
    BY <1>5 DEF FlagLookup, FindByIP, TypeOK, Live, Served
  <2>2. Live' \subseteq Live
    BY <1>5, <2>1 DEF FlagLookup, TypeOK, Live, Served
  <2> QED BY <1>5, <2>1, <2>2, ObjFields DEF FlagLookup, TypeOK, Ops
<1>6. ASSUME NEW c \in Caller, FlagWrite(c) PROVE TypeOK'
  <2>1. call[c].obj \in Live /\ call[c].obj \in Obj
    BY <1>6 DEF FlagWrite, TypeOK, Live
  <2>2. call[c].obj.ver \in 1..ver
    BY <2>1, ObjFields DEF TypeOK
  <2>3. suspended' \in SUBSET (1..ver)
    BY <1>6, <2>2 DEF FlagWrite, WriteSuspended, TypeOK
  <2>4. Live' \subseteq Live
    BY <1>6 DEF FlagWrite, WriteSuspended, TypeOK, Live, Served, Idle
  <2>5. /\ call' \in [Caller -> [op : Ops, obj : Obj \cup {Nil}]]
        /\ \A d \in Caller : call'[d].obj = Nil <=> call'[d].op = "idle"
    BY <1>6 DEF FlagWrite, TypeOK, Idle, Ops
  <2> QED BY <1>6, <2>3, <2>4, <2>5 DEF FlagWrite, WriteSuspended, TypeOK
<1>7. CASE Restart
  <2>1. Live' = {}
    BY <1>7 DEF Restart, Live, Served, Idle
  <2>2. /\ call' \in [Caller -> [op : Ops, obj : Obj \cup {Nil}]]
        /\ \A d \in Caller : call'[d].obj = Nil <=> call'[d].op = "idle"
    BY <1>7 DEF Restart, Idle, Ops
  <2> QED BY <1>7, <2>1, <2>2 DEF Restart, TypeOK
<1>8. CASE UNCHANGED vars
  BY <1>8 DEF vars, TypeOK, Live, Served
<1> QED BY <1>1, <1>2, <1>3, <1>4, <1>5, <1>6, <1>7, <1>8 DEF Next

\* The store's maps, flags and pending calls keep their types, and no pointer
\* or flag outlives a restart.
THEOREM TypeCorrect == Spec => []TypeOK
BY InitType, NextType, PTL DEF Spec

-----------------------------------------------------------------------------
(* The four ways a step can change the maps *)

Quiet == UNCHANGED maps /\ Live' \subseteq Live
Puts(m) == ~Rejected(m) /\ PutManifest(m) /\ UNCHANGED call
Drops(o) == Remove(o) /\ Live' \subseteq Live
Cleared ==
  /\ manifests' = [i \in ID |-> Nil]
  /\ ip' = [a \in IP |-> Nil]
  /\ mac' = [x \in MAC |-> Nil]
  /\ Live' = {}

\* A step loads or puts one acceptable manifest, removes the keys of one
\* object in use, starts over with empty maps, or leaves the maps alone.
LEMMA StepEffect ==
  ASSUME TypeOK, [Next]_vars
  PROVE  \/ Quiet
         \/ \E m \in Inputs : Puts(m)
         \/ \E o \in Live : Drops(o)
         \/ Cleared
<1> USE FilesAssumption
<1>1. ASSUME NEW m \in Inputs, PutManifest(m), UNCHANGED call
      PROVE  Quiet \/ Puts(m)
  BY <1>1 DEF PutManifest, Puts, Quiet, maps, store, Live, Served
<1>2. CASE LoadFile
  <2>1. todo \in 1..Len(Files) /\ UNCHANGED call
    BY <1>2 DEF LoadFile, Loaded, TypeOK
  <2>2. Files[todo].man \in Inputs
    <3>1. Files[todo] \in [ok : BOOLEAN, man : Inputs]
      BY <2>1, ElementOfSeq
    <3> QED BY <3>1
  <2>3. CASE Files[todo].ok
    <3>1. PutManifest(Files[todo].man)
      BY <1>2, <2>3 DEF LoadFile
    <3> QED BY <1>1, <2>1, <2>2, <3>1
  <2>4. CASE ~Files[todo].ok
    <3>1. UNCHANGED store
      BY <1>2, <2>4 DEF LoadFile
    <3> QED BY <2>1, <3>1 DEF store, Quiet, maps, Live, Served
  <2> QED BY <2>3, <2>4
<1>3. ASSUME NEW m \in Inputs, Put(m) PROVE Quiet \/ Puts(m)
  BY <1>1, <1>3 DEF Put
<1>4. ASSUME NEW c \in Caller, NEW id \in ID, ForgetLookup(c, id) PROVE Quiet
  BY <1>4 DEF ForgetLookup, Find, Quiet, maps, TypeOK, Live, Served
<1>5. ASSUME NEW c \in Caller, ForgetDelete(c)
      PROVE  \E o \in Live : Drops(o)
  <2>1. call[c].obj \in Live /\ call[c].obj \in Obj
    BY <1>5 DEF ForgetDelete, TypeOK, Live
  <2>2. \A d \in Caller : call'[d].obj \in {call[d].obj, Nil}
    BY <1>5 DEF ForgetDelete, TypeOK, Idle
  <2>3. Drops(call[c].obj)
    BY <1>5, <2>1, <2>2, RemoveEffect DEF ForgetDelete, Drops
  <2> QED BY <2>1, <2>3
<1>6. ASSUME NEW c \in Caller, NEW a \in IP, NEW op \in {"suspend", "unsuspend"},
             FlagLookup(c, a, op)
      PROVE  Quiet
  BY <1>6 DEF FlagLookup, FindByIP, Quiet, maps, TypeOK, Live, Served
<1>7. ASSUME NEW c \in Caller, FlagWrite(c) PROVE Quiet
  BY <1>7 DEF FlagWrite, WriteSuspended, Quiet, maps, TypeOK, Live, Served, Idle
<1>8. CASE Restart
  BY <1>8 DEF Restart, Cleared, Live, Served, Idle
<1>9. CASE UNCHANGED vars
  BY <1>9 DEF vars, Quiet, maps, Live, Served
<1> QED BY <1>2, <1>3, <1>4, <1>5, <1>6, <1>7, <1>8, <1>9 DEF Next

-----------------------------------------------------------------------------
(* Lookups return what they were asked for *)

LEMMA InitSound == Init => IndexSound
BY DEF Init, Empty, IndexSound, Live, Served, Idle

LEMMA NextSound == TypeOK /\ IndexSound /\ [Next]_vars => IndexSound'
<1> SUFFICES ASSUME TypeOK, IndexSound, [Next]_vars PROVE IndexSound'
  OBVIOUS
<1>1. CASE Quiet
  BY <1>1 DEF Quiet, maps, IndexSound
<1>2. ASSUME NEW m \in Inputs, Puts(m) PROVE IndexSound'
  <2>1. New(m).man = m
    BY DEF New
  <2>2. \A o \in Live' : ~Rejected(o.man)
    BY <1>2, <2>1, PutEffect DEF Puts, IndexSound
  <2>3. \A i \in ID : manifests'[i] # Nil => manifests'[i].man.id = i
    BY <1>2, <2>1, PutEffect DEF Puts, IndexSound, TypeOK
  <2>4. \A a \in IP : ip'[a] # Nil => ip'[a].man.ip = a
    BY <1>2, <2>1, PutEffect DEF Puts, IndexSound, TypeOK
  <2>5. \A x \in MAC : mac'[x] # Nil => x \in mac'[x].man.macs
    BY <1>2, <2>1, PutEffect DEF Puts, IndexSound, TypeOK
  <2> QED BY <2>2, <2>3, <2>4, <2>5 DEF IndexSound, Rejected
<1>3. ASSUME NEW o \in Live, Drops(o) PROVE IndexSound'
  BY <1>3 DEF Drops, Remove, IndexSound, TypeOK, Rejected
<1>4. CASE Cleared
  BY <1>4 DEF Cleared, IndexSound
<1> QED BY <1>1, <1>2, <1>3, <1>4, StepEffect

\* FindByIP and FindByMAC return a manifest that carries the address asked
\* for, Find one that carries the ID, and none of them one without an ID or
\* an address, in every interleaving of loads, puts and forgets.
THEOREM LookupsSound == Spec => []IndexSound
<1>1. Spec => [](TypeOK /\ IndexSound)
  BY InitType, NextType, InitSound, NextSound, PTL DEF Spec
<1> QED BY <1>1, PTL

-----------------------------------------------------------------------------
(* Loading the directory *)

\* While the directory is loaded nobody else uses the store, and it holds
\* what the entries so far say.
LoadInv ==
  ~Loaded => /\ \A c \in Caller : call[c].op = "idle"
             /\ Reflects(todo - 1)

LEMMA InitLoad == Init => LoadInv
  BY DEF Init, LoadInv, Idle, Reflects

\* One entry more.
LEMMA LoadReflects ==
  ASSUME TypeOK, LoadInv, LoadFile
  PROVE  Reflects(todo - 1)' /\ todo' = todo + 1 /\ UNCHANGED call
<1>1. /\ todo \in 1..Len(Files) /\ Len(Files) \in Nat
      /\ todo' = todo + 1 /\ UNCHANGED call /\ Reflects(todo - 1)
  BY FilesAssumption DEF LoadFile, Loaded, TypeOK, LoadInv
<1>2. Files[todo].man \in Inputs
  <2>1. Files[todo] \in [ok : BOOLEAN, man : Inputs]
    BY <1>1, FilesAssumption, ElementOfSeq
  <2> QED BY <2>1
<1>3. CASE ~Accepted(todo)
  <2>1. manifests' = manifests
    BY <1>3 DEF Accepted, LoadFile, PutManifest, store
  <2>2. ASSUME NEW k \in 1..todo, LastOfID(k, todo)
        PROVE  k \in 1..(todo - 1) /\ LastOfID(k, todo - 1)
    BY <1>1, <1>3, <2>2 DEF LastOfID
  <2>3. \A k \in 1..todo : LastOfID(k, todo) =>
           /\ manifests'[Files[k].man.id] # Nil
           /\ manifests'[Files[k].man.id].man = Files[k].man
    BY <1>1, <2>1, <2>2 DEF Reflects
  <2>4. todo' - 1 = todo
    BY <1>1
  <2> QED BY <1>1, <2>3, <2>4 DEF Reflects, LastOfID, Accepted, Rejected
<1>4. CASE Accepted(todo)
  <2> DEFINE m == Files[todo].man
  <2>1. manifests' = [manifests EXCEPT ![m.id] = New(m)] /\ m.id \in ID /\ New(m) \in Obj
    BY <1>1, <1>2, <1>4, PutEffect DEF Accepted, LoadFile
  <2>2. New(m) # Nil /\ New(m).man = m
    BY <2>1, NilAssumption DEF New
  <2>3. ASSUME NEW k \in 1..todo, LastOfID(k, todo)
        PROVE  /\ manifests'[Files[k].man.id] # Nil
               /\ manifests'[Files[k].man.id].man = Files[k].man
    <3>1. CASE k = todo
      BY <2>1, <2>2, <3>1 DEF TypeOK
    <3>2. CASE k # todo
      <4>1. k \in 1..(todo - 1) /\ LastOfID(k, todo - 1) /\ Files[k].man.id # m.id
        BY <1>1, <1>4, <2>3, <3>2 DEF LastOfID
      <4>2. manifests'[Files[k].man.id] = manifests[Files[k].man.id]
        BY <2>1, <4>1 DEF TypeOK
      <4> QED BY <1>1, <4>1, <4>2 DEF Reflects
    <3> QED BY <3>1, <3>2
  <2>4. todo' - 1 = todo
    BY <1>1
  <2> QED BY <1>1, <2>3, <2>4 DEF Reflects, LastOfID, Accepted, Rejected
<1> QED BY <1>1, <1>3, <1>4

LEMMA NextLoad == TypeOK /\ LoadInv /\ [Next]_vars => LoadInv'
<1> SUFFICES ASSUME TypeOK, LoadInv, [Next]_vars PROVE LoadInv'
  OBVIOUS
<1>1. CASE LoadFile
  <2>1. \A c \in Caller : call[c].op = "idle"
    BY <1>1 DEF LoadFile, LoadInv
  <2> QED BY <1>1, <2>1, LoadReflects DEF LoadInv
<1>2. CASE Restart
  BY <1>2 DEF Restart, LoadInv, Idle, Reflects, LastOfID
<1>3. CASE UNCHANGED vars
  BY <1>3 DEF vars, LoadInv, Reflects, Loaded, LastOfID
<1>4. ASSUME Loaded, UNCHANGED todo PROVE LoadInv'
  BY <1>4 DEF LoadInv, Loaded
<1>5. ASSUME NEW c \in Caller, ForgetDelete(c) \/ FlagWrite(c) PROVE Loaded /\ UNCHANGED todo
  BY <1>5 DEF ForgetDelete, FlagWrite, LoadInv
<1> QED BY <1>1, <1>2, <1>3, <1>4, <1>5 DEF Next, Put, ForgetLookup, FlagLookup

\* Every manifest the directory gives last for its ID is served when
\* LoadFromDirectory returns, for every directory, whatever else it holds.
THEOREM DirectoryIsLoaded == Spec => DirectoryLoaded
<1>1. Init => TypeOK /\ LoadInv
  BY InitType, InitLoad
<1>2. TypeOK /\ LoadInv /\ [Next]_vars => (TypeOK /\ LoadInv)'
  BY NextType, NextLoad
<1>3. TypeOK /\ LoadInv /\ [Next]_vars => [~Loaded /\ Loaded' => Reflects(Len(Files))']_vars
  <2> SUFFICES ASSUME TypeOK, LoadInv, Next, ~Loaded, Loaded'
               PROVE  Reflects(Len(Files))'
    OBVIOUS
  <2>1. CASE LoadFile
    <3>1. Reflects(todo - 1)' /\ todo' = todo + 1 /\ todo \in 1..Len(Files)
      BY <2>1, LoadReflects, FilesAssumption DEF TypeOK, LoadFile, Loaded
    <3>2. todo' - 1 = Len(Files)
      BY <3>1, FilesAssumption DEF Loaded
    <3> QED BY <3>1, <3>2 DEF Reflects
  <2>2. CASE Restart
    BY <2>2, FilesAssumption DEF Restart, Loaded, Reflects
  <2>3. ASSUME UNCHANGED todo PROVE FALSE
    BY <2>3 DEF Loaded
  <2> QED BY <2>1, <2>2, <2>3 DEF Next, Put, ForgetLookup, ForgetDelete, FlagLookup, FlagWrite
<1> QED BY <1>1, <1>2, <1>3, PTL DEF Spec, DirectoryLoaded

-----------------------------------------------------------------------------
(* No lookup goes back to an older manifest *)

LEMMA InitNeverOlder == Init => NeverOlder
BY DEF Init, Empty, NeverOlder, Live, Served, Idle

LEMMA NextNeverOlder ==
  TypeOK /\ IndexSound /\ NeverOlder /\ [Next]_vars => NeverOlder'
<1> SUFFICES ASSUME TypeOK, IndexSound, NeverOlder, [Next]_vars PROVE NeverOlder'
  OBVIOUS
<1>0. \A o \in Live : /\ o.ver \in Nat /\ o.ver <= ver
                      /\ o.man.id \in ID /\ o.man.ip \in IP
                      /\ o.man.macs \in SUBSET MAC
  BY LiveObj, ObjFields, FilesAssumption DEF TypeOK, IndexSound, Rejected
<1>1. CASE Quiet
  BY <1>1 DEF Quiet, maps, NeverOlder, Supersedes
<1>2. ASSUME NEW m \in Inputs, Puts(m) PROVE NeverOlder'
  <2>1. New(m).man = m /\ New(m).ver = ver + 1 /\ ver \in Nat
    BY FilesAssumption DEF New, TypeOK
  <2>2. ASSUME NEW o \in Live
        PROVE  /\ Supersedes(manifests'[o.man.id], o)
               /\ Supersedes(ip'[o.man.ip], o)
               /\ \A x \in o.man.macs : Supersedes(mac'[x], o)
    <3>1. Supersedes(New(m), o)
      BY <1>0, <2>1 DEF Supersedes
    <3> QED BY <1>0, <1>2, <3>1, PutEffect DEF Puts, NeverOlder, TypeOK
  <2>3. /\ Supersedes(manifests'[m.id], New(m))
        /\ Supersedes(ip'[m.ip], New(m))
        /\ \A x \in m.macs : Supersedes(mac'[x], New(m))
    BY <1>2, <2>1, PutEffect DEF Puts, Supersedes, TypeOK
  <2> QED BY <1>2, <2>1, <2>2, <2>3, PutEffect DEF Puts, NeverOlder, Supersedes
<1>3. ASSUME NEW o \in Live, Drops(o) PROVE NeverOlder'
  BY <1>0, <1>3 DEF Drops, Remove, NeverOlder, Supersedes, TypeOK
<1>4. CASE Cleared
  BY <1>4 DEF Cleared, NeverOlder
<1> QED BY <1>1, <1>2, <1>3, <1>4, StepEffect

\* Whatever pointer a goroutine or an index still holds, its keys lead to it,
\* to a newer manifest or to none: a suspend that lands late can miss a newer
\* manifest but is never applied behind an older one that is being served.
THEOREM NeverOlderHolds == Spec => []NeverOlder
<1>1. Spec => [](TypeOK /\ IndexSound /\ NeverOlder)
  BY InitType, NextType, InitSound, NextSound, InitNeverOlder, NextNeverOlder, PTL
  DEF Spec
<1> QED BY <1>1, PTL

-----------------------------------------------------------------------------
(* What is registered is reachable by the addresses no other ID claims *)

\* An object in use was made from a manifest PutManifest accepts.
LEMMA LiveFields ==
  ASSUME TypeOK, IndexSound, NEW o \in Live
  PROVE  /\ o \in Obj /\ o # Nil /\ o.man \in Valid /\ ~Rejected(o.man)
         /\ o.man.id \in ID /\ o.man.ip \in IP /\ o.man.macs \in SUBSET MAC
  BY LiveObj, ObjFields DEF IndexSound, Rejected, Valid

LEMMA InitReachable == Init => Reachable
BY DEF Init, Empty, Reachable

LEMMA NextReachable == TypeOK /\ IndexSound /\ Reachable /\ [Next]_vars => Reachable'
<1> SUFFICES ASSUME TypeOK, IndexSound, Reachable, [Next]_vars PROVE Reachable'
  OBVIOUS
<1>0. \A i \in ID : manifests[i] # Nil =>
        /\ manifests[i].man \in Valid /\ manifests[i].man.id = i
        /\ manifests[i].man.ip \in IP /\ manifests[i].man.macs \in SUBSET MAC
  <2> SUFFICES ASSUME NEW i \in ID, manifests[i] # Nil
               PROVE  /\ manifests[i].man \in Valid /\ manifests[i].man.id = i
                      /\ manifests[i].man.ip \in IP
                      /\ manifests[i].man.macs \in SUBSET MAC
    OBVIOUS
  <2>1. manifests[i] \in Live
    BY DEF Live, Served
  <2> QED BY <2>1, LiveFields DEF IndexSound
<1>1. CASE Quiet
  BY <1>1 DEF Quiet, maps, Reachable, UniqueIP, UniqueMAC
\* What step and object have to satisfy: an entry for an address that is
\* not the step's stays as it is.
<1> DEFINE Found(i) == /\ UniqueIP(manifests'[i].man.ip) =>
                            ip'[manifests'[i].man.ip] = manifests'[i]
                       /\ \A x \in manifests'[i].man.macs :
                            UniqueMAC(x) => mac'[x] = manifests'[i]
<1>2. ASSUME NEW m \in Inputs, Puts(m) PROVE Reachable'
  <2>1. New(m).man = m /\ m \in Valid
    BY <1>2 DEF New, Puts, Valid
  <2>2. ASSUME NEW i \in ID, manifests'[i] # Nil PROVE Found(i)
    <3>1. CASE i = m.id
      BY <1>2, <2>1, <3>1, PutEffect DEF Puts, TypeOK
    <3>2. CASE i # m.id
      <4>1. manifests'[i] = manifests[i]
        BY <1>2, <3>2, PutEffect DEF Puts, TypeOK
      <4> DEFINE o == manifests[i]
      <4>2. UniqueIP(o.man.ip) => o.man.ip # m.ip
        BY <1>0, <2>1, <2>2, <3>2, <4>1 DEF UniqueIP
      <4>3. \A x \in o.man.macs : UniqueMAC(x) => x \notin m.macs
        BY <1>0, <2>1, <2>2, <3>2, <4>1 DEF UniqueMAC
      <4>4. UniqueIP(o.man.ip) => ip'[o.man.ip] = o
        BY <1>0, <1>2, <2>2, <4>1, <4>2, PutEffect DEF Puts, Reachable, TypeOK
      <4>5. \A x \in o.man.macs : UniqueMAC(x) => mac'[x] = o
        BY <1>0, <1>2, <2>2, <4>1, <4>3, PutEffect DEF Puts, Reachable, TypeOK
      <4> QED BY <4>1, <4>4, <4>5
    <3> QED BY <3>1, <3>2
  <2> QED BY <2>2 DEF Reachable, UniqueIP, UniqueMAC
<1>3. ASSUME NEW d \in Live, Drops(d) PROVE Reachable'
  <2>1. d \in Obj /\ d.man \in Valid
    BY LiveFields
  <2>2. ASSUME NEW i \in ID, manifests'[i] # Nil PROVE Found(i)
    <3>1. i # d.man.id /\ manifests'[i] = manifests[i]
      BY <1>3, <2>2 DEF Drops, Remove, TypeOK
    <3> DEFINE o == manifests[i]
    <3>2. UniqueIP(o.man.ip) => o.man.ip # d.man.ip
      BY <1>0, <2>1, <2>2, <3>1 DEF UniqueIP
    <3>3. \A x \in o.man.macs : UniqueMAC(x) => x \notin d.man.macs
      BY <1>0, <2>1, <2>2, <3>1 DEF UniqueMAC
    <3>4. UniqueIP(o.man.ip) => ip'[o.man.ip] = o
      BY <1>0, <1>3, <2>2, <3>1, <3>2 DEF Drops, Remove, Reachable, TypeOK
    <3>5. \A x \in o.man.macs : UniqueMAC(x) => mac'[x] = o
      BY <1>0, <1>3, <2>2, <3>1, <3>3 DEF Drops, Remove, Reachable, TypeOK
    <3> QED BY <3>1, <3>4, <3>5
  <2> QED BY <2>2 DEF Reachable, UniqueIP, UniqueMAC
<1>4. CASE Cleared
  BY <1>4 DEF Cleared, Reachable
<1> QED BY <1>1, <1>2, <1>3, <1>4, StepEffect

\* A registered manifest is the one that each of its addresses leads to which
\* no other ID claims, even while forgets of the same ID are half done and
\* the ID moves between addresses.
THEOREM RegisteredReachable == Spec => []Reachable
<1>1. Spec => [](TypeOK /\ IndexSound /\ Reachable)
  BY InitType, NextType, InitSound, NextSound, InitReachable, NextReachable, PTL
  DEF Spec
<1> QED BY <1>1, PTL

-----------------------------------------------------------------------------
(* What is found by an address its ID keeps is registered *)

LEMMA InitCoherent == Init => Coherent
BY DEF Init, Empty, Coherent

LEMMA NextCoherent == TypeOK /\ IndexSound /\ Coherent /\ [Next]_vars => Coherent'
<1> SUFFICES ASSUME TypeOK, IndexSound, Coherent, [Next]_vars PROVE Coherent'
  OBVIOUS
<1>a. \A a \in IP : ip[a] # Nil => /\ ip[a].man \in Valid /\ ip[a].man.id \in ID
  <2> SUFFICES ASSUME NEW a \in IP, ip[a] # Nil
               PROVE  ip[a].man \in Valid /\ ip[a].man.id \in ID
    OBVIOUS
  <2>1. ip[a] \in Live
    BY DEF Live, Served
  <2> QED BY <2>1, LiveFields
<1>x. \A x \in MAC : mac[x] # Nil => /\ mac[x].man \in Valid /\ mac[x].man.id \in ID
  <2> SUFFICES ASSUME NEW x \in MAC, mac[x] # Nil
               PROVE  mac[x].man \in Valid /\ mac[x].man.id \in ID
    OBVIOUS
  <2>1. mac[x] \in Live
    BY DEF Live, Served
  <2> QED BY <2>1, LiveFields
<1>1. CASE Quiet
  BY <1>1 DEF Quiet, maps, Coherent, KeepsIP, KeepsMAC
<1> DEFINE OkIP(a) == ip'[a] # Nil /\ KeepsIP(ip'[a].man.id, a) =>
                        manifests'[ip'[a].man.id] = ip'[a]
           OkMAC(x) == mac'[x] # Nil /\ KeepsMAC(mac'[x].man.id, x) =>
                        manifests'[mac'[x].man.id] = mac'[x]
<1>2. ASSUME NEW m \in Inputs, Puts(m) PROVE Coherent'
  <2>1. New(m).man = m /\ m \in Valid
    BY <1>2 DEF New, Puts, Valid
  <2>2. ASSUME NEW a \in IP PROVE OkIP(a)
    <3>1. CASE a = m.ip
      BY <1>2, <2>1, <3>1, PutEffect DEF Puts, TypeOK
    <3>2. CASE a # m.ip
      <4>1. ip'[a] = ip[a]
        BY <1>2, <3>2, PutEffect DEF Puts, TypeOK
      <4>2. KeepsIP(ip[a].man.id, a) => ip[a].man.id # m.id
        BY <2>1, <3>2 DEF KeepsIP
      <4> QED BY <1>a, <1>2, <4>1, <4>2, PutEffect DEF Puts, Coherent, TypeOK
    <3> QED BY <3>1, <3>2
  <2>3. ASSUME NEW x \in MAC PROVE OkMAC(x)
    <3>1. CASE x \in m.macs
      BY <1>2, <2>1, <3>1, PutEffect DEF Puts, TypeOK
    <3>2. CASE x \notin m.macs
      <4>1. mac'[x] = mac[x]
        BY <1>2, <3>2, PutEffect DEF Puts, TypeOK
      <4>2. KeepsMAC(mac[x].man.id, x) => mac[x].man.id # m.id
        BY <2>1, <3>2 DEF KeepsMAC
      <4> QED BY <1>x, <1>2, <4>1, <4>2, PutEffect DEF Puts, Coherent, TypeOK
    <3> QED BY <3>1, <3>2
  <2> QED BY <2>2, <2>3 DEF Coherent, KeepsIP, KeepsMAC
<1>3. ASSUME NEW d \in Live, Drops(d) PROVE Coherent'
  <2>1. d.man \in Valid
    BY LiveFields
  <2>2. ASSUME NEW a \in IP, ip'[a] # Nil PROVE OkIP(a)
    <3>1. a # d.man.ip /\ ip'[a] = ip[a]
      BY <1>3, <2>2 DEF Drops, Remove, TypeOK
    <3>2. KeepsIP(ip[a].man.id, a) => ip[a].man.id # d.man.id
      BY <2>1, <3>1 DEF KeepsIP
    <3> QED BY <1>a, <1>3, <2>2, <3>1, <3>2 DEF Drops, Remove, Coherent, TypeOK
  <2>3. ASSUME NEW x \in MAC, mac'[x] # Nil PROVE OkMAC(x)
    <3>1. x \notin d.man.macs /\ mac'[x] = mac[x]
      BY <1>3, <2>3 DEF Drops, Remove, TypeOK
    <3>2. KeepsMAC(mac[x].man.id, x) => mac[x].man.id # d.man.id
      BY <2>1, <3>1 DEF KeepsMAC
    <3> QED BY <1>x, <1>3, <2>3, <3>1, <3>2 DEF Drops, Remove, Coherent, TypeOK
  <2> QED BY <2>2, <2>3 DEF Coherent, KeepsIP, KeepsMAC
<1>4. CASE Cleared
  BY <1>4 DEF Cleared, Coherent
<1> QED BY <1>1, <1>2, <1>3, <1>4, StepEffect

\* Whatever a lookup finds by an address that its ID never gives up is the
\* manifest registered under that ID: a deleted manifest is not served, also
\* when puts of the same ID fall into the gap of a ForgetManifest and other
\* IDs claim the address.
THEOREM FoundIsRegistered == Spec => []Coherent
<1>1. Spec => [](TypeOK /\ IndexSound /\ Coherent)
  BY InitType, NextType, InitSound, NextSound, InitCoherent, NextCoherent, PTL
  DEF Spec
<1> QED BY <1>1, PTL

-----------------------------------------------------------------------------
(* Refinement of Registry *)

RInv == TypeOK /\ IndexSound /\ Reachable /\ Coherent

\* What the registry is told of the maps.
Reg == [i \in Tidy |-> manifests[i]]
ByIP == [a \in TidyIP |-> ip[a]]
ByMAC == [x \in TidyMAC |-> mac[x]]

\* A valid manifest belongs to a tidy ID if it has one of a tidy ID's addresses.
LEMMA TidyOwner ==
  ASSUME NEW m \in Valid
  PROVE  /\ m.id \in ID
         /\ m.ip \in TidyIP <=> m.id \in Tidy
         /\ \A x \in m.macs : x \in TidyMAC <=> m.id \in Tidy
<1>1. m \in Inputs /\ m.id \in ID /\ m.ip \in IP /\ m.macs \in SUBSET MAC
  BY InputsAssumption DEF Valid, Rejected
<1>2. ASSUME m.id \in Tidy PROVE m.ip \in TidyIP /\ \A x \in m.macs : x \in TidyMAC
  BY <1>1, <1>2 DEF TidyIP, TidyMAC, TidyInputs
<1>3. ASSUME m.ip \in TidyIP PROVE m.id \in Tidy
  <2>1. PICK n \in TidyInputs : n.ip = m.ip
    BY <1>3 DEF TidyIP
  <2>2. n.id = m.id
    BY <2>1 DEF TidyInputs, Tidy, UniqueIP
  <2> QED BY <2>2 DEF TidyInputs
<1>4. ASSUME NEW x \in m.macs, x \in TidyMAC PROVE m.id \in Tidy
  <2>1. PICK n \in TidyInputs : x \in n.macs
    BY <1>4 DEF TidyMAC
  <2>2. n.id = m.id
    BY <2>1, <1>4 DEF TidyInputs, Tidy, UniqueMAC
  <2> QED BY <2>2 DEF TidyInputs
<1> QED BY <1>1, <1>2, <1>3, <1>4

\* For tidy IDs the two indexes are functions of the map by ID.
LEMMA IndexesFollow == RInv => ByIP = R!IndexIP(Reg) /\ ByMAC = R!IndexMAC(Reg)
<1> SUFFICES ASSUME RInv PROVE ByIP = R!IndexIP(Reg) /\ ByMAC = R!IndexMAC(Reg)
  OBVIOUS
<1>1. ASSUME NEW o \in R!Registered(Reg)
      PROVE  /\ o # Nil
             /\ ip[o.man.ip] = o
             /\ \A x \in o.man.macs : mac[x] = o
  <2>1. PICK i \in Tidy : o = manifests[i] /\ manifests[i] # Nil
    BY DEF R!Registered, Reg
  <2>2. i \in ID
    BY DEF Tidy
  <2>3. o \in Live /\ o.man.id = i
    BY <2>1, <2>2 DEF Live, Served, RInv, IndexSound
  <2>4. o.man \in Valid
    BY <2>3, LiveFields DEF RInv
  <2>5. UniqueIP(o.man.ip) /\ \A x \in o.man.macs : UniqueMAC(x)
    BY <2>3, <2>4 DEF Tidy
  <2> QED BY <2>1, <2>2, <2>5 DEF RInv, Reachable
<1>2. ASSUME NEW a \in TidyIP, ip[a] # Nil
      PROVE  ip[a] \in R!Registered(Reg) /\ ip[a].man.ip = a
  <2>1. a \in IP /\ ip[a] \in Live /\ ip[a].man.ip = a
    BY <1>2 DEF TidyIP, Live, Served, RInv, IndexSound
  <2>2. ip[a].man \in Valid
    BY <2>1, LiveFields DEF RInv
  <2>3. ip[a].man.id \in Tidy /\ KeepsIP(ip[a].man.id, a)
    BY <2>1, <2>2, TidyOwner DEF Tidy
  <2>4. manifests[ip[a].man.id] = ip[a]
    BY <1>2, <2>1, <2>3 DEF RInv, Coherent
  <2> QED BY <1>2, <2>1, <2>3, <2>4 DEF R!Registered, Reg
<1>3. ASSUME NEW x \in TidyMAC, mac[x] # Nil
      PROVE  mac[x] \in R!Registered(Reg) /\ x \in mac[x].man.macs
  <2>1. x \in MAC /\ mac[x] \in Live /\ x \in mac[x].man.macs
    BY <1>3 DEF TidyMAC, Live, Served, RInv, IndexSound
  <2>2. mac[x].man \in Valid
    BY <2>1, LiveFields DEF RInv
  <2>3. mac[x].man.id \in Tidy /\ KeepsMAC(mac[x].man.id, x)
    BY <2>1, <2>2, TidyOwner DEF Tidy
  <2>4. manifests[mac[x].man.id] = mac[x]
    BY <1>3, <2>1, <2>3 DEF RInv, Coherent
  <2> QED BY <1>3, <2>1, <2>3, <2>4 DEF R!Registered, Reg
<1>4. \A a \in TidyIP : ip[a] = R!IndexIP(Reg)[a]
  BY <1>1, <1>2 DEF R!IndexIP
<1>5. \A x \in TidyMAC : mac[x] = R!IndexMAC(Reg)[x]
  BY <1>1, <1>3 DEF R!IndexMAC
<1>6. ByIP = R!IndexIP(Reg)
  BY <1>4 DEF R!IndexIP, ByIP
<1>7. ByMAC = R!IndexMAC(Reg)
  BY <1>5 DEF R!IndexMAC, ByMAC
<1> QED BY <1>6, <1>7

LEMMA StepRefines == RInv /\ RInv' /\ [Next]_vars => [R!Next]_(R!regVars)
<1> SUFFICES ASSUME RInv, RInv', [Next]_vars PROVE [R!Next]_(R!regVars)
  OBVIOUS
<1> USE DEF Reg, ByIP, ByMAC
<1>0. R!Reindex
  <2>1. RInv' => (ByIP = R!IndexIP(Reg) /\ ByMAC = R!IndexMAC(Reg))'
    BY IndexesFollow, PTL
  <2> QED BY <2>1 DEF R!Reindex
<1>1. CASE Quiet
  BY <1>1 DEF Quiet, maps, R!regVars
<1>2. ASSUME NEW m \in Inputs, Puts(m) PROVE [R!Next]_(R!regVars)
  <2>1. /\ New(m).man = m /\ New(m) \in Obj /\ m \in Valid
        /\ manifests' = [manifests EXCEPT ![m.id] = New(m)]
        /\ ip' = [ip EXCEPT ![m.ip] = New(m)]
        /\ mac' = [x \in MAC |-> IF x \in m.macs THEN New(m) ELSE mac[x]]
    BY <1>2, PutEffect DEF New, Puts, RInv, Valid
  <2>2. Tidy \subseteq ID /\ TidyIP \subseteq IP /\ TidyMAC \subseteq MAC
    BY DEF Tidy, TidyIP, TidyMAC
  <2>3. CASE m.id \in Tidy
    <3>1. New(m) \in [ver : 1..MaxPuts, man : TidyInputs]
      BY <2>1, <2>3 DEF Obj, TidyInputs
    <3>2. Reg' = [Reg EXCEPT ![m.id] = New(m)]
      BY <2>1, <2>2 DEF RInv, TypeOK
    <3>3. R!Put(New(m))
      BY <1>0, <2>1, <3>2 DEF R!Put
    <3> QED BY <3>1, <3>3 DEF R!Next, R!Put
  <2>4. CASE m.id \notin Tidy
    <3>1. m.ip \notin TidyIP /\ \A x \in m.macs : x \notin TidyMAC
      BY <2>1, <2>4, TidyOwner
    <3>2. Reg' = Reg
      BY <2>1, <2>2, <2>4 DEF RInv, TypeOK
    <3>3. ByIP' = ByIP
      BY <2>1, <2>2, <3>1 DEF RInv, TypeOK
    <3>4. ByMAC' = ByMAC
      BY <2>1, <2>2, <3>1 DEF RInv, TypeOK
    <3> QED BY <3>2, <3>3, <3>4 DEF R!regVars
  <2> QED BY <2>3, <2>4
<1>3. ASSUME NEW d \in Live, Drops(d) PROVE [R!Next]_(R!regVars)
  <2>1. /\ d.man \in Valid
        /\ manifests' = [manifests EXCEPT ![d.man.id] = Nil]
        /\ ip' = [ip EXCEPT ![d.man.ip] = Nil]
        /\ mac' = [x \in MAC |-> IF x \in d.man.macs THEN Nil ELSE mac[x]]
    BY <1>3, LiveFields DEF Drops, Remove, RInv
  <2>2. Tidy \subseteq ID /\ TidyIP \subseteq IP /\ TidyMAC \subseteq MAC
    BY DEF Tidy, TidyIP, TidyMAC
  <2>3. CASE d.man.id \in Tidy
    <3>1. Reg' = [Reg EXCEPT ![d.man.id] = Nil]
      BY <2>1, <2>2 DEF RInv, TypeOK
    <3>2. R!Delete(d.man.id)
      BY <1>0, <3>1 DEF R!Delete
    <3> QED BY <2>3, <3>2 DEF R!Next
  <2>4. CASE d.man.id \notin Tidy
    <3>1. d.man.ip \notin TidyIP /\ \A x \in d.man.macs : x \notin TidyMAC
      BY <2>1, <2>4, TidyOwner
    <3>2. Reg' = Reg
      BY <2>1, <2>2, <2>4 DEF RInv, TypeOK
    <3>3. ByIP' = ByIP
      BY <2>1, <2>2, <3>1 DEF RInv, TypeOK
    <3>4. ByMAC' = ByMAC
      BY <2>1, <2>2, <3>1 DEF RInv, TypeOK
    <3> QED BY <3>2, <3>3, <3>4 DEF R!regVars
  <2> QED BY <2>3, <2>4
<1>4. CASE Cleared
  <2>1. Reg' = [i \in Tidy |-> Nil]
    BY <1>4 DEF Cleared, Tidy
  <2> QED BY <1>0, <2>1 DEF R!Reset, R!Next
<1> QED BY <1>1, <1>2, <1>3, <1>4, StepEffect DEF RInv

\* For the IDs that share no address with another one and keep their own, the
\* store with its three maps and its two-step ForgetManifest implements one
\* atomic registry whose indexes by address are functions of the map by ID,
\* whatever is put and deleted under the other IDs.
THEOREM StoreImplementsRegistry == Spec => ImplementsRegistry
<1>1. Init => R!Init
  BY DEF Init, Empty, R!Init, Tidy, TidyIP, TidyMAC
<1>2. Spec => []RInv
  BY InitType, NextType, InitSound, NextSound, InitReachable, NextReachable,
     InitCoherent, NextCoherent, PTL DEF Spec, RInv
<1> QED BY <1>1, <1>2, StepRefines, PTL DEF Spec, ImplementsRegistry, R!Spec
=============================================================================
