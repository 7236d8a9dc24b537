-------------------------- MODULE FileServeProofs --------------------------
(***************************************************************************)
(* Proofs about FileServe, for every set of manifests, mounts and paths,   *)
(* any number of transfers over TFTP and HTTP, and all that happens to the *)
(* store meanwhile.                                                        *)
(***************************************************************************)
EXTENDS FileServe, WellFoundedInduction, SequenceTheorems, TLAPS

\* What is proved of the store holds of the store behind the file servers.
P == INSTANCE StoreProofs

-----------------------------------------------------------------------------
(* The store *)

StoreInv == P!TypeOK /\ P!IndexSound

LEMMA StoreAssumed == P!InputsAssumption /\ P!FilesAssumption /\ P!NilAssumption
BY StoreAssumption
DEF S!InputsAssumption, S!FilesAssumption, S!NilAssumption, S!Obj,
    P!InputsAssumption, P!FilesAssumption, P!NilAssumption, P!Obj

LEMMA InitStore == Init => StoreInv
<1> SUFFICES ASSUME Init PROVE StoreInv
  OBVIOUS
<1>1. P!Init
  BY DEF Init, S!Init, S!Empty, S!Idle, P!Init, P!Empty, P!Idle
<1> QED BY <1>1, StoreAssumed, P!InitType, P!InitSound DEF StoreInv

LEMMA StoreStepMoves == StoreStep => P!Next
<1>1. ASSUME S!LoadFile PROVE P!Next
  BY <1>1 DEF S!LoadFile, S!Loaded, S!PutManifest, S!Insert, S!Rejected, S!store,
              P!Next, P!LoadFile, P!Loaded, P!PutManifest, P!Insert, P!Rejected, P!store
<1>2. ASSUME NEW m \in Inputs, S!Put(m) PROVE P!Next
  BY <1>2 DEF S!Put, S!Loaded, S!PutManifest, S!Insert, S!Rejected, S!store,
              P!Next, P!Put, P!Loaded, P!PutManifest, P!Insert, P!Rejected, P!store
<1>3. ASSUME NEW c \in Caller, NEW id \in ID, S!ForgetLookup(c, id) PROVE P!Next
  BY <1>3 DEF S!ForgetLookup, S!Loaded, S!Idle, S!Find,
              P!Next, P!ForgetLookup, P!Loaded, P!Idle, P!Find
<1>4. ASSUME NEW c \in Caller, S!ForgetDelete(c) PROVE P!Next
  BY <1>4 DEF S!ForgetDelete, S!Remove, S!Idle, P!Next, P!ForgetDelete, P!Remove, P!Idle
<1>5. ASSUME NEW c \in Caller, NEW a \in IP, NEW op \in {"suspend", "unsuspend"},
             S!FlagLookup(c, a, op)
      PROVE  P!Next
  BY <1>5 DEF S!FlagLookup, S!Loaded, S!Idle, S!FindByIP,
              P!Next, P!FlagLookup, P!Loaded, P!Idle, P!FindByIP
<1>6. ASSUME NEW c \in Caller, S!FlagWrite(c) PROVE P!Next
  BY <1>6 DEF S!FlagWrite, S!WriteSuspended, S!Idle,
              P!Next, P!FlagWrite, P!WriteSuspended, P!Idle
<1> QED BY <1>1, <1>2, <1>3, <1>4, <1>5, <1>6 DEF StoreStep

\* Steps of a transfer do not touch the store.
LEMMA TransferMoves ==
  ASSUME NEW t, Serve(t) \/ Finish(t) \/ \E r \in Asked : Request(t, r)
  PROVE  UNCHANGED server
BY DEF Serve, Finish, Request, BadSpoof, Lookup, Static, StaticDir, FindMount, Open,
       OpenFails, Send, SendFails, End, Local

LEMMA NextStore == StoreInv /\ [Next]_vars => StoreInv'
<1> SUFFICES ASSUME StoreInv, [Next]_vars PROVE StoreInv'
  OBVIOUS
<1>1. [P!Next]_(P!vars)
  <2>1. CASE UNCHANGED server
    BY <2>1 DEF server, P!vars
  <2>2. CASE StoreStep
    BY <2>2, StoreStepMoves
  <2>3. CASE Restart
    BY <2>3 DEF Restart, S!Restart, S!Idle, P!Next, P!Restart, P!Idle
  <2>4. ASSUME NEW t \in Transfer, Serve(t) \/ Finish(t) \/ \E r \in Asked : Request(t, r)
        PROVE  UNCHANGED server
    BY <2>4, TransferMoves
  <2> QED BY <2>1, <2>2, <2>3, <2>4 DEF Next, vars, server
<1> QED BY <1>1, StoreAssumed, P!NextType, P!NextSound DEF StoreInv

\* What FindByIP returns.
LEMMA Found ==
  ASSUME StoreInv, NEW a \in IP, S!FindByIP(a) # Nil
  PROVE  LET o == S!FindByIP(a)
         IN o \in S!Obj /\ o.man \in Inputs /\ o.man.ip = a
BY DEF S!FindByIP, S!Obj, StoreInv, P!TypeOK, P!IndexSound, P!Obj

-----------------------------------------------------------------------------
(* The state of a transfer *)

Rec(p, r, o, s, v) == [pc |-> p, req |-> r, obj |-> o, source |-> s, result |-> v]

Shape ==
  /\ up \in BOOLEAN
  /\ ts = [t \in Transfer |-> ts[t]]
  /\ \A t \in Transfer :
       ts[t] = Rec(ts[t].pc, ts[t].req, ts[t].obj, ts[t].source, ts[t].result)

\* What the server that r was sent to makes of a mount.
SourceOf(r, mount) == IF r.proto = "tftp" THEN TftpSource(mount, r) ELSE HttpSource(mount, r)

\* s is what request r gets from manifest m.
Right(r, m, s) ==
  IF IsStatic(r, m) THEN s = StaticSource(r)
  ELSE LET mount == GetMount(m.mounts, r.name)
       IN /\ mount # None /\ s = SourceOf(r, mount) /\ s # Nil
          /\ s.kind = "file" => ValidateHostPath(mount, s.rest)

\* The manifest a transfer works on is one for the address it was asked from.
Own(x) == x.obj # Nil /\ x.obj.man \in Inputs /\ x.obj.man.ip = HostIP(x.req)

Good(x) ==
  /\ x.pc \in {"idle", "start", "static", "mount", "open", "send", "done"}
  /\ IF x.pc = "idle" THEN x.req = Nil ELSE x.req \in Asked
  /\ x.result \in Results \cup {Nil}
  /\ x.result = Nil <=> x.pc # "done"
  /\ x.obj \in S!Obj \cup {Nil}
  /\ x.pc \in {"static", "mount", "open", "send"} => Own(x)
  /\ x.pc \in {"mount", "open"} => ~IsStatic(x.req, x.obj.man)
  /\ x.pc \in {"open", "send"} => Right(x.req, x.obj.man, x.source)
  /\ x.result = "ok" => Own(x) /\ Right(x.req, x.obj.man, x.source)

AllGood == \A t \in Transfer : Good(ts[t])

Inv == StoreInv /\ Shape /\ AllGood

LEMMA Fields ==
  ASSUME NEW p, NEW r, NEW o, NEW s, NEW v
  PROVE  LET x == Rec(p, r, o, s, v)
         IN /\ x.pc = p /\ x.req = r /\ x.obj = o /\ x.source = s /\ x.result = v
            /\ \A q : [x EXCEPT !.pc = q] = Rec(q, r, o, s, v)
            /\ \A q : [x EXCEPT !.req = q] = Rec(p, q, o, s, v)
            /\ \A q : [x EXCEPT !.obj = q] = Rec(p, r, q, s, v)
            /\ \A q : [x EXCEPT !.source = q] = Rec(p, r, o, q, v)
            /\ \A q : [x EXCEPT !.result = q] = Rec(p, r, o, s, q)
BY DEF Rec

SetReq(x, p, q) == [x EXCEPT !.pc = p, !.req = q]
SetObj(x, p, q) == [x EXCEPT !.pc = p, !.obj = q]
SetSource(x, p, q) == [x EXCEPT !.pc = p, !.source = q]
SetResult(x, p, q) == [x EXCEPT !.pc = p, !.result = q]

LEMMA Updates ==
  ASSUME NEW x, x = Rec(x.pc, x.req, x.obj, x.source, x.result), NEW p, NEW q
  PROVE  /\ [x EXCEPT !.pc = p] = Rec(p, x.req, x.obj, x.source, x.result)
         /\ SetReq(x, p, q) = Rec(p, q, x.obj, x.source, x.result)
         /\ SetObj(x, p, q) = Rec(p, x.req, q, x.source, x.result)
         /\ SetSource(x, p, q) = Rec(p, x.req, x.obj, q, x.result)
<1>1. [x EXCEPT !.pc = p] = Rec(p, x.req, x.obj, x.source, x.result)
  BY DEF Rec
<1>2. /\ SetReq(x, p, q) = [[x EXCEPT !.pc = p] EXCEPT !.req = q]
      /\ SetObj(x, p, q) = [[x EXCEPT !.pc = p] EXCEPT !.obj = q]
      /\ SetSource(x, p, q) = [[x EXCEPT !.pc = p] EXCEPT !.source = q]
  BY DEF SetReq, SetObj, SetSource
<1>3. LET y == Rec(p, x.req, x.obj, x.source, x.result)
      IN /\ [y EXCEPT !.req = q] = Rec(p, q, x.obj, x.source, x.result)
         /\ [y EXCEPT !.obj = q] = Rec(p, x.req, q, x.source, x.result)
         /\ [y EXCEPT !.source = q] = Rec(p, x.req, x.obj, q, x.result)
  BY Fields
<1> QED BY <1>1, <1>2, <1>3, Zenon

LEMMA EndUpdate ==
  ASSUME NEW x, x = Rec(x.pc, x.req, x.obj, x.source, x.result), NEW v
  PROVE  SetResult(x, "done", v) = Rec("done", x.req, x.obj, x.source, v)
<1>1. [x EXCEPT !.pc = "done"] = Rec("done", x.req, x.obj, x.source, x.result)
  BY DEF Rec
<1>2. SetResult(x, "done", v) = [[x EXCEPT !.pc = "done"] EXCEPT !.result = v]
  BY DEF SetResult
<1>3. [Rec("done", x.req, x.obj, x.source, x.result) EXCEPT !.result = v]
      = Rec("done", x.req, x.obj, x.source, v)
  BY DEF Rec
<1> QED BY <1>1, <1>2, <1>3, Zenon

\* One transfer moves to a good state.
LEMMA OneMoves ==
  ASSUME Inv, NEW t \in Transfer, NEW p, NEW r, NEW o, NEW s, NEW v,
         Good(Rec(p, r, o, s, v)), ts' = [ts EXCEPT ![t] = Rec(p, r, o, s, v)],
         up' = up
  PROVE  Shape' /\ AllGood'
<1> DEFINE x == Rec(p, r, o, s, v)
<1>1. x = Rec(x.pc, x.req, x.obj, x.source, x.result)
  BY Fields
<1>2. ts = [u \in Transfer |-> ts[u]]
  BY DEF Inv, Shape
<1> HIDE DEF x
<1>3. ts' = [u \in Transfer |-> IF u = t THEN x ELSE ts[u]]
  BY <1>2 DEF x
<1>4. \A u \in Transfer : ts'[u] = IF u = t THEN x ELSE ts[u]
  BY <1>3
<1>5. Shape'
  <2>1. ts' = [u \in Transfer |-> ts'[u]]
    BY <1>3
  <2>2. \A u \in Transfer :
          ts'[u] = Rec(ts'[u].pc, ts'[u].req, ts'[u].obj, ts'[u].source, ts'[u].result)
    BY <1>1, <1>4 DEF Inv, Shape
  <2>3. up' \in BOOLEAN
    BY DEF Inv, Shape
  <2> QED BY <2>1, <2>2, <2>3 DEF Shape, Rec
<1>6. \A u \in Transfer : Good(ts'[u])
  BY <1>4 DEF Inv, AllGood, x
<1> QED BY <1>5, <1>6 DEF AllGood, Good, Own, S!Obj

-----------------------------------------------------------------------------
(* Every step of a transfer leaves it in a good state *)

\* A transfer that has ended, or that a restart cut off, begins anew.
LEMMA FreshGood == Fresh = Rec("idle", Nil, Nil, Nil, Nil) /\ Good(Fresh)
<1>1. Fresh = Rec("idle", Nil, Nil, Nil, Nil)
  BY DEF Fresh, Rec
<1>2. /\ Fresh.pc = "idle" /\ Fresh.req = Nil /\ Fresh.obj = Nil /\ Fresh.result = Nil
  BY DEF Fresh
<1> QED BY <1>1, <1>2, NilAssumption DEF Good, Results

LEMMA RequestGood ==
  ASSUME Inv, NEW t \in Transfer, NEW r \in Asked, Request(t, r)
  PROVE  Shape' /\ AllGood'
<1> DEFINE y == Rec("start", r, Nil, Nil, Nil)
<1>1. SetReq(Fresh, "start", r) = y
  <2>1. /\ Fresh = Rec(Fresh.pc, Fresh.req, Fresh.obj, Fresh.source, Fresh.result)
        /\ Fresh.obj = Nil /\ Fresh.source = Nil /\ Fresh.result = Nil
    BY DEF Fresh, Rec
  <2>2. \A q : SetReq(Fresh, "start", q)
                = Rec("start", q, Fresh.obj, Fresh.source, Fresh.result)
    BY <2>1, Updates, Zenon
  <2> QED BY <2>1, <2>2
<1>2. ts' = [ts EXCEPT ![t] = y] /\ up' = up
  BY <1>1 DEF Request, Local, SetReq
<1>3. y.pc = "start" /\ y.req = r /\ y.obj = Nil /\ y.result = Nil
  BY Fields
<1> HIDE DEF y
<1>4. Good(y)
  BY <1>3, NilAssumption DEF Good, Results
<1> QED BY <1>2, <1>4, OneMoves DEF y

LEMMA EndGood ==
  ASSUME Inv, NEW t \in Transfer, NEW v \in Results, ts[t].pc # "idle",
         v = "ok" => ts[t].pc = "send", End(t, v)
  PROVE  Shape' /\ AllGood'
<1> DEFINE x == ts[t]
           y == Rec("done", x.req, x.obj, x.source, v)
<1>1. ts' = [ts EXCEPT ![t] = SetResult(x, "done", v)] /\ up' = up
  BY DEF End, Local, SetResult
<1>2. x = Rec(x.pc, x.req, x.obj, x.source, x.result) /\ Good(x)
  BY DEF Inv, Shape, AllGood
<1>3. SetResult(x, "done", v) = y
  BY <1>2, EndUpdate
<1>4. /\ y.pc = "done" /\ y.req = x.req /\ y.obj = x.obj /\ y.source = x.source
      /\ y.result = v
  BY Fields
<1> HIDE DEF y
<1>5. Good(y)
  BY <1>2, <1>4, NilAssumption DEF Good, Own
<1> QED BY <1>1, <1>3, <1>5, OneMoves DEF y

LEMMA LookupGood ==
  ASSUME Inv, NEW t \in Transfer, Lookup(t)
  PROVE  Shape' /\ AllGood'
<1> DEFINE x == ts[t]
           m == S!FindByIP(HostIP(x.req))
           y == Rec("static", x.req, m, x.source, x.result)
<1>1. x = Rec(x.pc, x.req, x.obj, x.source, x.result) /\ Good(x) /\ x.pc = "start"
  BY DEF Inv, Shape, AllGood, Lookup
<1>2. CASE m = Nil
  <2>1. End(t, "not found")
    BY <1>2 DEF Lookup
  <2> QED BY <1>1, <2>1, EndGood DEF Results
<1>3. CASE m # Nil
  <2>1. ts' = [ts EXCEPT ![t] = SetObj(x, "static", m)] /\ up' = up
    BY <1>3 DEF Lookup, Local, SetObj
  <2>2. SetObj(x, "static", m) = y
    BY <1>1, Updates, Zenon
  <2>3. x.req \in Asked /\ HostIP(x.req) # BadIP
    BY <1>1 DEF Good, Lookup
  <2>4. HostIP(x.req) \in IP
    BY <2>3, AskedAssumption DEF HostIP
  <2>5. m \in S!Obj /\ m.man \in Inputs /\ m.man.ip = HostIP(x.req)
    BY <1>3, <2>4, Found DEF Inv
  <2>6. y.pc = "static" /\ y.req = x.req /\ y.obj = m /\ y.result = x.result
    BY Fields
  <2> HIDE DEF y, m
  <2>7. Good(y)
    BY <1>1, <1>3, <2>5, <2>6, NilAssumption DEF Good, Own, Results
  <2> QED BY <2>1, <2>2, <2>7, OneMoves DEF y
<1> QED BY <1>2, <1>3

LEMMA StaticGood ==
  ASSUME Inv, NEW t \in Transfer, Static(t)
  PROVE  Shape' /\ AllGood'
<1> DEFINE x == ts[t]
<1>1. x = Rec(x.pc, x.req, x.obj, x.source, x.result) /\ Good(x) /\ x.pc = "static"
  BY DEF Inv, Shape, AllGood, Static
<1>2. CASE IsStatic(x.req, x.obj.man)
  <2> DEFINE s == StaticSource(x.req)
             y == Rec("send", x.req, x.obj, s, x.result)
  <2>1. ts' = [ts EXCEPT ![t] = SetSource(x, "send", s)] /\ up' = up
    BY <1>2 DEF Static, Local, SetSource
  <2>2. SetSource(x, "send", s) = y
    BY <1>1, Updates, Zenon
  <2>3. /\ y.pc = "send" /\ y.req = x.req /\ y.obj = x.obj /\ y.source = s
        /\ y.result = x.result
    BY Fields
  <2>4. Right(x.req, x.obj.man, s)
    BY <1>2 DEF Right
  <2> HIDE DEF y, s
  <2>5. Good(y)
    BY <1>1, <2>3, <2>4 DEF Good, Own
  <2> QED BY <2>1, <2>2, <2>5, OneMoves DEF y
<1>3. CASE ~IsStatic(x.req, x.obj.man)
  <2> DEFINE y == Rec("mount", x.req, x.obj, x.source, x.result)
  <2>1. ts' = [ts EXCEPT ![t] = [x EXCEPT !.pc = "mount"]] /\ up' = up
    BY <1>3 DEF Static, Local
  <2>2. [x EXCEPT !.pc = "mount"] = y
    BY <1>1, Updates
  <2>3. /\ y.pc = "mount" /\ y.req = x.req /\ y.obj = x.obj /\ y.source = x.source
        /\ y.result = x.result
    BY Fields
  <2> HIDE DEF y
  <2>4. Good(y)
    BY <1>1, <1>3, <2>3 DEF Good, Own
  <2> QED BY <2>1, <2>2, <2>4, OneMoves DEF y
<1> QED BY <1>2, <1>3

LEMMA FindMountGood ==
  ASSUME Inv, NEW t \in Transfer, FindMount(t)
  PROVE  Shape' /\ AllGood'
<1> DEFINE x == ts[t]
           mount == GetMount(x.obj.man.mounts, x.req.name)
           s == SourceOf(x.req, mount)
           y == Rec("open", x.req, x.obj, s, x.result)
<1>1. x = Rec(x.pc, x.req, x.obj, x.source, x.result) /\ Good(x) /\ x.pc = "mount"
  BY DEF Inv, Shape, AllGood, FindMount
<1>0. CASE mount # None /\ s # Nil /\ s.kind = "file" /\ ~ValidateHostPath(mount, s.rest)
  <2>1. PICK v \in {"aborted", "error"} : End(t, v)
    BY <1>0 DEF FindMount, SourceOf
  <2> QED BY <1>1, <2>1, EndGood DEF Results
<1>2. CASE mount = None
  <2>1. End(t, "not found")
    BY <1>2 DEF FindMount
  <2> QED BY <1>1, <2>1, EndGood DEF Results
<1>3. CASE mount # None /\ s = Nil
  <2>1. End(t, "error")
    BY <1>3 DEF FindMount, SourceOf
  <2> QED BY <1>1, <2>1, EndGood DEF Results
<1>4. CASE mount # None /\ s # Nil /\ ~(s.kind = "file" /\ ~ValidateHostPath(mount, s.rest))
  <2>1. ts' = [ts EXCEPT ![t] = SetSource(x, "open", s)] /\ up' = up
    BY <1>4 DEF FindMount, Local, SetSource, SourceOf
  <2>2. SetSource(x, "open", s) = y
    BY <1>1, Updates, Zenon
  <2>3. /\ y.pc = "open" /\ y.req = x.req /\ y.obj = x.obj /\ y.source = s
        /\ y.result = x.result
    BY Fields
  <2>4. ~IsStatic(x.req, x.obj.man)
    BY <1>1 DEF Good
  <2>5. Right(x.req, x.obj.man, s)
    BY <1>4, <2>4 DEF Right
  <2> HIDE DEF y, s, mount
  <2>6. Good(y)
    BY <1>1, <2>3, <2>4, <2>5 DEF Good, Own
  <2> QED BY <2>1, <2>2, <2>6, OneMoves DEF y
<1> QED BY <1>0, <1>2, <1>3, <1>4

LEMMA OpenGood ==
  ASSUME Inv, NEW t \in Transfer, Open(t)
  PROVE  Shape' /\ AllGood'
<1> DEFINE x == ts[t]
           y == Rec("send", x.req, x.obj, x.source, x.result)
<1>1. x = Rec(x.pc, x.req, x.obj, x.source, x.result) /\ Good(x) /\ x.pc = "open"
  BY DEF Inv, Shape, AllGood, Open
<1>2. ts' = [ts EXCEPT ![t] = [x EXCEPT !.pc = "send"]] /\ up' = up
  BY DEF Open, Local
<1>3. [x EXCEPT !.pc = "send"] = y
  BY <1>1, Updates
<1>4. /\ y.pc = "send" /\ y.req = x.req /\ y.obj = x.obj /\ y.source = x.source
      /\ y.result = x.result
  BY Fields
<1> HIDE DEF y
<1>5. Good(y)
  BY <1>1, <1>4 DEF Good, Own
<1> QED BY <1>2, <1>3, <1>5, OneMoves DEF y

LEMMA ServeGood ==
  ASSUME Inv, NEW t \in Transfer, Serve(t)
  PROVE  Shape' /\ AllGood'
<1>1. ASSUME BadSpoof(t) PROVE Shape' /\ AllGood'
  BY <1>1, EndGood DEF BadSpoof, Results
<1>2. ASSUME OpenFails(t) PROVE Shape' /\ AllGood'
  BY <1>2, EndGood DEF OpenFails, Results
<1>3. ASSUME StaticDir(t) PROVE Shape' /\ AllGood'
  <2>1. CASE End(t, "aborted")
    BY <1>3, <2>1, EndGood DEF StaticDir, Results
  <2>2. CASE up' = FALSE /\ UNCHANGED ts
    BY <2>2 DEF Inv, Shape, AllGood, Good, Own, S!Obj
  <2> QED BY <1>3, <2>1, <2>2 DEF StaticDir
<1>4. ASSUME Send(t) PROVE Shape' /\ AllGood'
  BY <1>4, EndGood DEF Send, Results
<1>5. ASSUME SendFails(t) PROVE Shape' /\ AllGood'
  <2>1. PICK v \in {"short", "error"} : End(t, v) /\ ts[t].pc = "send"
    BY <1>5 DEF SendFails
  <2> QED BY <2>1, EndGood DEF Results
<1> QED BY <1>1, <1>2, <1>3, <1>4, <1>5, LookupGood, StaticGood, FindMountGood, OpenGood
        DEF Serve

LEMMA NextInv == Inv /\ [Next]_vars => Inv'
<1> SUFFICES ASSUME Inv, [Next]_vars PROVE Inv'
  OBVIOUS
<1>1. StoreInv'
  BY NextStore DEF Inv
<1>2. ASSUME NEW t \in Transfer, Finish(t) PROVE Shape' /\ AllGood'
  <2>1. ts' = [ts EXCEPT ![t] = Rec("idle", Nil, Nil, Nil, Nil)] /\ up' = up
    BY <1>2, FreshGood DEF Finish, Local
  <2> QED BY <2>1, FreshGood, OneMoves
<1>3. ASSUME UNCHANGED <<ts, up>> PROVE Shape' /\ AllGood'
  BY <1>3 DEF Inv, Shape, AllGood, Good, Own, S!Obj
<1>4. ASSUME ts' = [t \in Transfer |-> Fresh], up' = TRUE PROVE Shape' /\ AllGood'
  <2>1. \A t \in Transfer : ts'[t] = Fresh
    BY <1>4
  <2>2. Shape'
    <3>1. Fresh = Rec(Fresh.pc, Fresh.req, Fresh.obj, Fresh.source, Fresh.result)
      BY FreshGood, Fields
    <3> QED BY <1>4, <2>1, <3>1 DEF Shape
  <2> QED BY <2>1, <2>2, FreshGood DEF AllGood, Good, Own, S!Obj
<1> QED BY <1>1, <1>2, <1>3, <1>4, RequestGood, ServeGood
        DEF Inv, Next, StoreStep, Restart, vars

LEMMA InitInv == Init => Inv
<1> SUFFICES ASSUME Init PROVE Shape /\ AllGood
  BY InitStore DEF Inv
<1>1. \A t \in Transfer : ts[t] = Fresh
  BY DEF Init
<1>2. Fresh = Rec(Fresh.pc, Fresh.req, Fresh.obj, Fresh.source, Fresh.result)
  BY FreshGood, Fields
<1> QED BY <1>1, <1>2, FreshGood DEF Init, Shape, AllGood

LEMMA InvHolds == Spec => []Inv
BY InitInv, NextInv, PTL DEF Spec

-----------------------------------------------------------------------------
(* GetMount returns one of the mounts *)

\* A set of numbers has a least one.
LEMMA LeastNat ==
  ASSUME NEW T \in SUBSET Nat, T # {}
  PROVE  \E n \in T : \A k \in T : n <= k
<1> DEFINE R == OpToRel(<, Nat)
<1>1. PICK n \in T : \A k \in T : ~(<<k, n>> \in R)
  BY NatLessThanWellFounded, WFMin
<1>2. \A k \in T : k < n => <<k, n>> \in R
  BY DEF OpToRel
<1>3. \A k \in T : ~(k < n)
  BY <1>1, <1>2, Zenon
<1> QED BY <1>3

\* bestMount after the i-th mount, if f[i - 1] is bestMount before.
LoopStep(ms, p, f, i) ==
  IF i = 0 THEN None
  ELSE IF MatchesPrefix(ms[i], p) /\ Better(ms[i], f[i - 1]) THEN ms[i] ELSE f[i - 1]

\* f is bestMount during the loop over n mounts, and each of its values is one
\* of them.
Loop(ms, p, f, n) == f = [i \in 0..n |-> LoopStep(ms, p, f, i)]
FromList(ms, f, n) == \A i \in 0..n : f[i] = None \/ \E j \in 1..n : f[i] = ms[j]

\* The loop has a result, and there is only one.
LEMMA LoopExists ==
  ASSUME NEW ms, NEW p, NEW n \in Nat
  PROVE  \E f : Loop(ms, p, f, n)
<1> DEFINE T == {k \in Nat : ~\E f : Loop(ms, p, f, k)}
<1> SUFFICES ASSUME T # {} PROVE FALSE
  OBVIOUS
<1>1. PICK k \in T : \A j \in T : k <= j
  <2> HIDE DEF T
  <2>1. T \in SUBSET Nat
    BY DEF T
  <2> QED BY <2>1, LeastNat
<1>2. k \in Nat /\ ~\E f : Loop(ms, p, f, k)
  OBVIOUS
<1>3. CASE k = 0
  <2> DEFINE f == [i \in 0..0 |-> None]
  <2>1. Loop(ms, p, f, 0)
    BY DEF Loop, LoopStep
  <2> QED BY <1>2, <1>3, <2>1
<1>4. CASE k # 0
  <2>1. k - 1 \in Nat /\ k - 1 \notin T
    BY <1>1, <1>2, <1>4
  <2>2. PICK f : Loop(ms, p, f, k - 1)
    BY <2>1
  <2> DEFINE g == [i \in 0..k |-> IF i = k THEN LoopStep(ms, p, f, k) ELSE f[i]]
  <2>3. \A i \in 0..(k - 1) : f[i] = LoopStep(ms, p, f, i)
    BY <2>2, Zenon DEF Loop
  <2>4. \A i \in 0..k : g[i] = LoopStep(ms, p, g, i)
    BY <1>2, <1>4, <2>3 DEF LoopStep
  <2>5. Loop(ms, p, g, k)
    <3>1. g = [i \in 0..k |-> g[i]]
      OBVIOUS
    <3> HIDE DEF g
    <3> QED BY <2>4, <3>1 DEF Loop
  <2> QED BY <1>2, <2>5
<1> QED BY <1>3, <1>4

LEMMA LoopInList ==
  ASSUME NEW ms, NEW p, NEW n \in Nat, NEW f, \A i \in 0..n : f[i] = LoopStep(ms, p, f, i)
  PROVE  FromList(ms, f, n)
<1> DEFINE Bad(k) == ~(f[k] = None \/ \E j \in 1..n : f[k] = ms[j])
           T == {k \in 0..n : Bad(k)}
<1>1. ASSUME T # {} PROVE FALSE
  <2>1. PICK k \in T : \A j \in T : k <= j
    <3> HIDE DEF T
    <3>1. T \in SUBSET Nat
      BY DEF T
    <3> QED BY <1>1, <3>1, LeastNat
  <2>2. k \in 0..n /\ Bad(k) /\ k \in Nat
    OBVIOUS
  <2>3. k # 0
    BY <2>2 DEF LoopStep
  <2>4. k - 1 \in 0..n /\ k - 1 \notin T /\ k \in 1..n
    BY <2>1, <2>2, <2>3
  <2>5. ~Bad(k - 1)
    BY <2>4
  <2>6. f[k] = ms[k] \/ f[k] = f[k - 1]
    BY <2>2, <2>3 DEF LoopStep
  <2> QED BY <2>2, <2>4, <2>5, <2>6
<1> QED BY <1>1 DEF FromList

LEMMA GetMountInList ==
  ASSUME NEW ms \in Seq(Mount), NEW p, GetMount(ms, p) # None
  PROVE  \E i \in 1..Len(ms) : GetMount(ms, p) = ms[i]
<1> DEFINE exact == {i \in 1..Len(ms) : MatchesExactly(ms[i], p)}
           b == CHOOSE g : Loop(ms, p, g, Len(ms))
<1>0. Len(ms) \in Nat
  OBVIOUS
<1>1. GetMount(ms, p) = IF exact # {} THEN ms[Min(exact)] ELSE BestPrefix(ms, p)
  BY DEF GetMount
<1>2. CASE exact = {}
  <2>1. BestPrefix(ms, p) = b[Len(ms)]
    BY DEF BestPrefix, Loop, LoopStep
  <2>2. Loop(ms, p, b, Len(ms))
    BY <1>0, LoopExists
  <2> HIDE DEF b
  <2>3. \A i \in 0..Len(ms) : b[i] = LoopStep(ms, p, b, i)
    BY <2>2, Zenon DEF Loop
  <2>4. FromList(ms, b, Len(ms))
    BY <1>0, <2>3, LoopInList
  <2> QED BY <1>0, <1>1, <1>2, <2>1, <2>4 DEF FromList
<1>3. CASE exact # {}
  <2>1. exact \in SUBSET Nat /\ exact \subseteq 1..Len(ms)
    OBVIOUS
  <2> HIDE DEF exact
  <2>2. \E n \in exact : \A k \in exact : n <= k
    BY <1>3, <2>1, LeastNat
  <2>3. Min(exact) \in exact
    BY <2>2 DEF Min
  <2> QED BY <1>1, <1>3, <2>1, <2>3
<1> QED BY <1>2, <1>3

\* GetMount does not look at the slashes in front of a path.
LEMMA SlashesIgnored ==
  ASSUME NEW ms, NEW p, NEW q, TrimLeft(p) = TrimLeft(q)
  PROVE  GetMount(ms, p) = GetMount(ms, q)
<1>1. \A m : MatchesExactly(m, p) <=> MatchesExactly(m, q)
  BY DEF MatchesExactly
<1>2. \A m : MatchesPrefix(m, p) <=> MatchesPrefix(m, q)
  BY DEF MatchesPrefix
<1>3. BestPrefix(ms, p) = BestPrefix(ms, q)
  BY DEF BestPrefix, MatchesPrefix
<1> QED BY <1>1, <1>3 DEF GetMount

-----------------------------------------------------------------------------

\* The transfers are well formed, and a step that needs the manifest or the
\* source it is to work on has it.
THEOREM TypeCorrect == Spec => []TypeOK
<1>1. Inv => TypeOK
  <2> SUFFICES ASSUME Inv, NEW t \in Transfer
               PROVE  /\ ts[t].pc \in {"idle", "start", "static", "mount", "open", "send",
                                       "done"}
                      /\ ts[t].req = Nil <=> ts[t].pc = "idle"
                      /\ ts[t].result = Nil <=> ts[t].pc # "done"
                      /\ ts[t].result \in Results \cup {Nil}
                      /\ ts[t].obj \in S!Obj \cup {Nil}
                      /\ ts[t].pc \in {"static", "mount", "open", "send"} =>
                           ts[t].obj # Nil
                      /\ ts[t].pc \in {"open", "send"} => ts[t].source # Nil
    BY DEF TypeOK, Inv, Shape
  <2>1. Good(ts[t])
    BY DEF Inv, AllGood
  <2>2. ts[t].req = Nil <=> ts[t].pc = "idle"
    BY <2>1, AskedAssumption DEF Good
  <2>3. ts[t].pc \in {"open", "send"} => ts[t].source # Nil
    BY <2>1, NilAssumption DEF Good, Right
  <2> QED BY <2>1, <2>2, <2>3 DEF Good, Own
<1> QED BY <1>1, InvHolds, PTL

\* What is sent is a source of the mount it is taken from.
LEMMA SourceIsMounts ==
  ASSUME NEW r, NEW mount, SourceOf(r, mount) # Nil,
         SourceOf(r, mount).kind = "file" =>
           ValidateHostPath(mount, SourceOf(r, mount).rest)
  PROVE  /\ SourceOf(r, mount).kind # "static"
         /\ Leads(mount, SourceOf(r, mount))
<1> DEFINE s == SourceOf(r, mount)
<1>1. \/ mount.proxy # None /\ s = TftpURL(mount, r.name)
      \/ mount.proxy # None /\ s = ProxyDirector(mount, r.name, r.query)
      \/ s = Template(mount)
      \/ mount.dir # <<>> /\ s = LocalFile(mount, r.name)
  BY DEF SourceOf, TftpSource, HttpSource
<1> HIDE DEF s
<1>2. CASE mount.proxy # None /\ s = TftpURL(mount, r.name)
  <2>1. s.kind = "proxy" /\ s.of = mount.proxy.base
    BY <1>2 DEF TftpURL, Source
  <2> QED BY <1>2, <2>1 DEF Leads, s
<1>3. CASE mount.proxy # None /\ s = ProxyDirector(mount, r.name, r.query)
  <2>1. s.kind = "proxy" /\ s.of = mount.proxy.base
    BY <1>3 DEF ProxyDirector, Source
  <2> QED BY <1>3, <2>1 DEF Leads, s
<1>4. CASE s = Template(mount)
  <2>1. s.kind = "content" /\ s.of = mount.content
    BY <1>4 DEF Template, Source
  <2> QED BY <2>1 DEF Leads, s
<1>5. CASE mount.dir # <<>> /\ s = LocalFile(mount, r.name)
  <2>1. s.kind = "file"
    BY <1>5 DEF LocalFile, Source
  <2>2. IsPrefix(hostPathPrefix(mount), s.rest)
    BY <2>1 DEF ValidateHostPath, s
  <2> QED BY <1>5, <2>1, <2>2 DEF Leads, s
<1> QED BY <1>1, <1>2, <1>3, <1>4, <1>5

\* tftpd/handler.go:32-60, httpd/handler.go:72-114: a client gets files of a
\* manifest for its own (or the spoofed) address only, and host files only of
\* which the path begins with a directory that manifest mounts, whatever
\* happens to the store while the transfer runs, with any manifests and any
\* requests.
THEOREM OwnFilesOnly == Spec => []OnlyOwnFiles
<1>1. Inv => OnlyOwnFiles
  <2> SUFFICES ASSUME Inv, NEW t \in Transfer, Sent(t)
               PROVE  \E m \in Inputs :
                        /\ m.ip = HostIP(ts[t].req)
                        /\ IF ts[t].source.kind = "static" THEN m.ipxe
                           ELSE \E i \in 1..Len(m.mounts) :
                                  Leads(m.mounts[i], ts[t].source)
    BY DEF OnlyOwnFiles
  <2> DEFINE x == ts[t]
             m == x.obj.man
  <2>1. Own(x) /\ Right(x.req, m, x.source)
    BY DEF Inv, AllGood, Good, Sent
  <2>2. m \in Inputs /\ m.ip = HostIP(x.req)
    BY <2>1 DEF Own
  <2>3. CASE IsStatic(x.req, m)
    <3>1. x.source = StaticSource(x.req) /\ m.ipxe
      BY <2>1, <2>3 DEF Right, IsStatic
    <3>2. x.source.kind = "static"
      BY <3>1 DEF StaticSource, Source
    <3> QED BY <2>2, <3>1, <3>2
  <2>4. CASE ~IsStatic(x.req, m)
    <3> DEFINE mount == GetMount(m.mounts, x.req.name)
    <3>1. /\ mount # None /\ x.source = SourceOf(x.req, mount) /\ x.source # Nil
          /\ x.source.kind = "file" => ValidateHostPath(mount, x.source.rest)
      BY <2>1, <2>4 DEF Right
    <3>2. x.source.kind # "static" /\ Leads(mount, x.source)
      BY <3>1, SourceIsMounts
    <3>3. \E i \in 1..Len(m.mounts) : mount = m.mounts[i]
      BY <2>2, <3>1, AskedAssumption, GetMountInList
    <3> HIDE DEF mount
    <3> QED BY <2>2, <3>2, <3>3
  <2> QED BY <2>3, <2>4
<1> QED BY <1>1, InvHolds, PTL

\* A source without the query a proxy is sent.
Plain(s) == [s EXCEPT !.query = <<>>]

LEMMA PlainSource ==
  ASSUME NEW k, NEW o, NEW r, NEW q
  PROVE  Plain(Source(k, o, r, q)) = Source(k, o, r, <<>>)
BY DEF Plain, Source

\* The two servers make the same of a mount, but for the query, if it is not
\* ambiguous and the suffix, where it counts, is the same.
LEMMA SourceAgrees ==
  ASSUME NEW mount, NEW r, NEW q, ~Ambiguous(mount), mount.suffix => r.name = q.name,
         SourceOf(r, mount) # Nil, SourceOf(q, mount) # Nil
  PROVE  Plain(SourceOf(r, mount)) = Plain(SourceOf(q, mount))
<1>1. Suffix(mount, r.name) = Suffix(mount, q.name)
  BY DEF Suffix
<1>2. HostPath(mount, r.name) = HostPath(mount, q.name)
  BY DEF HostPath
<1>3. CASE mount.proxy # None
  <2>1. mount.content = None /\ mount.proxy.query = <<>>
    BY <1>3 DEF Ambiguous
  <2>2. ASSUME NEW x
        PROVE  Plain(SourceOf(x, mount))
                 = Source("proxy", mount.proxy.base, Suffix(mount, x.name), <<>>)
    <3>1. CASE x.proto = "tftp"
      <4>1. SourceOf(x, mount)
              = Source("proxy", mount.proxy.base, Suffix(mount, x.name), <<>>)
        BY <1>3, <2>1, <3>1 DEF SourceOf, TftpSource, TftpURL
      <4> QED BY <4>1, PlainSource
    <3>2. CASE x.proto # "tftp"
      <4>1. SourceOf(x, mount)
              = Source("proxy", mount.proxy.base, Suffix(mount, x.name), x.query)
        BY <1>3, <2>1, <3>2 DEF SourceOf, HttpSource, ProxyDirector
      <4> QED BY <4>1, PlainSource
    <3> QED BY <3>1, <3>2
  <2> QED BY <1>1, <2>2
<1>4. CASE mount.proxy = None
  <2>1. ASSUME NEW x
        PROVE  SourceOf(x, mount) = IF mount.content # None THEN Template(mount)
                                    ELSE IF mount.dir # <<>> THEN LocalFile(mount, x.name)
                                    ELSE Nil
    BY <1>4 DEF SourceOf, TftpSource, HttpSource
  <2>2. LocalFile(mount, r.name) = LocalFile(mount, q.name)
    BY <1>2 DEF LocalFile
  <2>3. SourceOf(r, mount) = SourceOf(q, mount)
    BY <2>1, <2>2
  <2> QED BY <2>3
<1> QED BY <1>3, <1>4

\* README.md:36: the same path of the same manifest leads to the same source
\* over TFTP and over HTTP, for any manifests, requests and number of
\* transfers, whatever happens to the store meanwhile; the cases in which the
\* servers disagree are spelled out in the property.
THEOREM SameSourceOverBoth == Spec => []SameSource
<1>1. Inv => SameSource
  <2> SUFFICES ASSUME Inv, NEW t \in Transfer, NEW u \in Transfer, SamePath(t, u),
                      ~SlashedStatic(ts[t].req, ts[t].obj.man),
                      ~SlashedStatic(ts[u].req, ts[t].obj.man),
                      LET mount == GetMount(ts[t].obj.man.mounts, ts[t].req.name)
                      IN mount # None =>
                           /\ ~Ambiguous(mount)
                           /\ mount.suffix => ts[t].req.name = ts[u].req.name
               PROVE  Delivered(t) = Delivered(u)
    BY DEF SameSource
  <2> DEFINE r == ts[t].req
             q == ts[u].req
             m == ts[t].obj.man
  <2>1. /\ r \in Asked /\ q \in Asked
        /\ Right(r, m, ts[t].source) /\ Right(q, m, ts[u].source)
    <3>1. Good(ts[t]) /\ Good(ts[u])
      BY DEF Inv, AllGood
    <3> QED BY <3>1 DEF Good, SamePath, Sent
  <2>2. r.proto \in {"tftp", "http"} /\ q.proto \in {"tftp", "http"}
    BY <2>1, AskedAssumption
  <2>3. TrimLeft(r.name) = TrimLeft(q.name)
    BY DEF SamePath
  <2>4. ASSUME NEW x, x.proto \in {"tftp", "http"}, ~SlashedStatic(x, m)
        PROVE  /\ IsStatic(x, m) <=> m.ipxe /\ TrimLeft(x.name) \in StaticFiles
               /\ IsStatic(x, m) => StaticName(x) = TrimLeft(x.name)
    BY <2>4, StaticAssumption DEF SlashedStatic, IsStatic, StaticName
  <2>5. /\ IsStatic(r, m) <=> IsStatic(q, m)
        /\ IsStatic(r, m) => StaticName(r) = StaticName(q)
    BY <2>2, <2>3, <2>4
  <2>6. Delivered(t) = Plain(ts[t].source) /\ Delivered(u) = Plain(ts[u].source)
    BY DEF Delivered, Plain
  <2>7. CASE IsStatic(r, m)
    <3>1. ts[t].source = StaticSource(r) /\ ts[u].source = StaticSource(q)
      BY <2>1, <2>5, <2>7 DEF Right
    <3>2. StaticSource(r) = StaticSource(q)
      BY <2>5, <2>7 DEF StaticSource
    <3> QED BY <2>6, <3>1, <3>2
  <2>8. CASE ~IsStatic(r, m)
    <3> DEFINE mount == GetMount(m.mounts, r.name)
    <3>1. mount = GetMount(m.mounts, q.name)
      BY <2>3, SlashesIgnored
    <3>2. /\ mount # None
          /\ ts[t].source = SourceOf(r, mount) /\ SourceOf(r, mount) # Nil
          /\ ts[u].source = SourceOf(q, mount) /\ SourceOf(q, mount) # Nil
      BY <2>1, <2>5, <2>8, <3>1 DEF Right
    <3>3. ~Ambiguous(mount) /\ (mount.suffix => r.name = q.name)
      BY <3>2
    <3> HIDE DEF mount
    <3>4. Plain(SourceOf(r, mount)) = Plain(SourceOf(q, mount))
      BY <3>2, <3>3, SourceAgrees
    <3> QED BY <2>6, <3>2, <3>4
  <2> QED BY <2>7, <2>8
<1> QED BY <1>1, InvHolds, PTL
=============================================================================
