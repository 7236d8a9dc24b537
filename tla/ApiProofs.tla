----------------------------- MODULE ApiProofs -----------------------------
(***************************************************************************)
(* Proofs about Api, for every set of connections, requests and manifests: *)
(* what holds however the handlers interleave, and what holds as long as   *)
(* they do not share err.                                                  *)
(***************************************************************************)
EXTENDS Api, SequenceTheorems, TLAPS

\* What is proved of the store holds of the store behind the API.
P == INSTANCE StoreProofs WITH Caller <- Conn, call <- [c \in Conn |-> CallOf(c)]

StoreInv == P!TypeOK /\ P!IndexSound

LEMMA StoreAssumed == P!InputsAssumption /\ P!FilesAssumption /\ P!NilAssumption
BY StoreAssumption
DEF S!InputsAssumption, S!FilesAssumption, S!NilAssumption, S!Obj,
    P!InputsAssumption, P!FilesAssumption, P!NilAssumption, P!Obj

\* The two names of the store's actions.
LEMMA SameStore == /\ S!Init <=> P!Init
                   /\ S!Next <=> P!Next
                   /\ S!vars = P!vars
                   /\ S!Obj = P!Obj
<1>1. S!Init <=> P!Init
  BY DEF S!Init, S!Empty, S!Idle, P!Init, P!Empty, P!Idle
<1>2. S!LoadFile <=> P!LoadFile
  BY DEF S!LoadFile, S!Loaded, S!PutManifest, S!Insert, S!Rejected, S!store,
         P!LoadFile, P!Loaded, P!PutManifest, P!Insert, P!Rejected, P!store
<1>3. ASSUME NEW m PROVE S!Put(m) <=> P!Put(m)
  BY DEF S!Put, S!Loaded, S!PutManifest, S!Insert, S!Rejected, S!store,
         P!Put, P!Loaded, P!PutManifest, P!Insert, P!Rejected, P!store
<1>4. ASSUME NEW c, NEW i PROVE S!ForgetLookup(c, i) <=> P!ForgetLookup(c, i)
  BY DEF S!ForgetLookup, S!Loaded, S!Idle, S!Find,
         P!ForgetLookup, P!Loaded, P!Idle, P!Find
<1>5. ASSUME NEW c PROVE S!ForgetDelete(c) <=> P!ForgetDelete(c)
  BY DEF S!ForgetDelete, S!Remove, S!Idle, P!ForgetDelete, P!Remove, P!Idle
<1>6. ASSUME NEW c, NEW a, NEW op PROVE S!FlagLookup(c, a, op) <=> P!FlagLookup(c, a, op)
  BY DEF S!FlagLookup, S!Loaded, S!Idle, S!FindByIP,
         P!FlagLookup, P!Loaded, P!Idle, P!FindByIP
<1>7. ASSUME NEW c PROVE S!FlagWrite(c) <=> P!FlagWrite(c)
  BY DEF S!FlagWrite, S!WriteSuspended, S!Idle, P!FlagWrite, P!WriteSuspended, P!Idle
<1>8. S!Restart <=> P!Restart
  BY DEF S!Restart, S!Idle, P!Restart, P!Idle
<1>9. S!Next <=> P!Next
  BY <1>2, <1>3, <1>4, <1>5, <1>6, <1>7, <1>8 DEF S!Next, P!Next
<1> QED BY <1>1, <1>9 DEF S!vars, P!vars, S!Obj, P!Obj

-----------------------------------------------------------------------------
(* The state of one handler *)

Rec(p, r, o, v, st, b) ==
  [pc |-> p, req |-> r, obj |-> o, res |-> v, status |-> st, body |-> b]

Handlers == [pc : PC, req : Request \cup {Nil}, obj : S!Obj \cup {Nil}, res : {Nil, "error"},
             status : {0, 200, 201, 204, 400, 403, 404, 500}, body : Body]

Shape == conn \in [Conn -> Handlers]

\* What the handler of connection c in state s has, whatever the others do.
Fine(c, s) ==
  /\ s \in Handlers
  /\ IF s.pc = "idle" THEN s.req = Nil ELSE s.req \in Requests[c]
  /\ s.pc = "marshal" =>
       s.req.route = "get" /\ s.obj # Nil /\ s.obj.man.id = s.req.id
  /\ s.pc = "iterate" => s.req.route \in {"list", "self"}
  /\ s.pc = "marshalled" => s.req.route \in {"get", "list", "self"}
  /\ s.pc = "report" => s.req.route \in {"put", "get", "list", "self"}
  /\ s.pc \in {"parsed", "put", "stored", "assigned"} =>
       s.req.route = "put" /\ Permitted(s.req)
  /\ s.pc = "forget" => s.req.route = "delete" /\ Permitted(s.req) /\ s.obj # Nil
  /\ s.pc = "flag" => /\ s.req.route \in {"suspend", "unsuspend"} /\ Permitted(s.req)
                      /\ s.obj # Nil /\ s.obj.man.ip = HostIP(s.req)
  /\ s.pc \notin {"marshalled", "report", "done"} => s.body = "none"
  /\ s.body = "one" => s.obj # Nil /\ s.obj.man.id = s.req.id
  /\ s.body = "all" => s.req.route \in {"list", "self"}

AllFine == \A c \in Conn : Fine(c, conn[c])

\* Requests are served only when the manifest directory is loaded.
Serving == \A c \in Conn : conn[c].pc # "idle" => S!Loaded

Inv ==
  /\ StoreInv
  /\ Shape
  /\ Serving
  /\ AllFine
  /\ err \in {Nil, "error"}
  /\ up \in BOOLEAN

\* What the helpers do to the state of a handler.
LEMMA Moves ==
  ASSUME Shape, NEW c \in Conn
  PROVE  LET s == conn[c]
         IN /\ s = Rec(s.pc, s.req, s.obj, s.res, s.status, s.body)
            /\ \A p : Goto(c, p) =>
                 conn' = [conn EXCEPT ![c] = Rec(p, s.req, s.obj, s.res, s.status, s.body)]
            /\ \A st, b : Reply(c, st, b) =>
                 conn' = [conn EXCEPT ![c] = Rec("done", s.req, s.obj, s.res, st, b)]
            /\ \A p, o : Keep(c, p, o) =>
                 conn' = [conn EXCEPT ![c] = Rec(p, s.req, o, s.res, s.status, s.body)]
<1> DEFINE s == conn[c]
<1>1. /\ s \in Handlers /\ DOMAIN conn = Conn
      /\ DOMAIN s = {"pc", "req", "obj", "res", "status", "body"}
  BY DEF Shape, Handlers
<1>2. s = Rec(s.pc, s.req, s.obj, s.res, s.status, s.body)
  BY <1>1 DEF Handlers, Rec
<1>3. ASSUME NEW p, Goto(c, p)
      PROVE  conn' = [conn EXCEPT ![c] = Rec(p, s.req, s.obj, s.res, s.status, s.body)]
  <2>1. conn' = [conn EXCEPT ![c] = [s EXCEPT !.pc = p]]
    BY <1>1, <1>3 DEF Goto
  <2>2. [s EXCEPT !.pc = p] = Rec(p, s.req, s.obj, s.res, s.status, s.body)
    BY <1>2 DEF Rec
  <2> QED BY <2>1, <2>2
<1>4. ASSUME NEW st, NEW b, Reply(c, st, b)
      PROVE  conn' = [conn EXCEPT ![c] = Rec("done", s.req, s.obj, s.res, st, b)]
  <2>1. conn' = [conn EXCEPT ![c] = [[[s EXCEPT !.pc = "done"] EXCEPT !.status = st]
                                                          EXCEPT !.body = b]]
    BY <1>1, <1>4 DEF Reply
  <2>2. [[[s EXCEPT !.pc = "done"] EXCEPT !.status = st] EXCEPT !.body = b]
        = Rec("done", s.req, s.obj, s.res, st, b)
    <3>1. [s EXCEPT !.pc = "done"] = Rec("done", s.req, s.obj, s.res, s.status, s.body)
      BY <1>2 DEF Rec
    <3>2. [Rec("done", s.req, s.obj, s.res, s.status, s.body) EXCEPT !.status = st]
          = Rec("done", s.req, s.obj, s.res, st, s.body)
      BY DEF Rec
    <3>3. [Rec("done", s.req, s.obj, s.res, st, s.body) EXCEPT !.body = b]
          = Rec("done", s.req, s.obj, s.res, st, b)
      BY DEF Rec
    <3> QED BY <3>1, <3>2, <3>3, Zenon
  <2> QED BY <2>1, <2>2
<1>5. ASSUME NEW p, NEW o, Keep(c, p, o)
      PROVE  conn' = [conn EXCEPT ![c] = Rec(p, s.req, o, s.res, s.status, s.body)]
  <2>1. conn' = [conn EXCEPT ![c] = [[s EXCEPT !.pc = p] EXCEPT !.obj = o]]
    BY <1>1, <1>5 DEF Keep
  <2>2. [[s EXCEPT !.pc = p] EXCEPT !.obj = o]
        = Rec(p, s.req, o, s.res, s.status, s.body)
    <3>1. [s EXCEPT !.pc = p] = Rec(p, s.req, s.obj, s.res, s.status, s.body)
      BY <1>2 DEF Rec
    <3>2. [Rec(p, s.req, s.obj, s.res, s.status, s.body) EXCEPT !.obj = o]
          = Rec(p, s.req, o, s.res, s.status, s.body)
      BY DEF Rec
    <3> QED BY <3>1, <3>2, Zenon
  <2> QED BY <2>1, <2>2
<1> QED BY <1>2, <1>3, <1>4, <1>5

LEMMA OneMoves ==
  ASSUME Shape, NEW c \in Conn, NEW t, conn' = [conn EXCEPT ![c] = t]
  PROVE  conn'[c] = t /\ \A d \in Conn : d # c => conn'[d] = conn[d]
BY DEF Shape

\* One handler moves to a state that is fine.
LEMMA OneFine ==
  ASSUME Inv, NEW c \in Conn, NEW t, Fine(c, t), conn' = [conn EXCEPT ![c] = t]
  PROVE  Shape' /\ AllFine'
<1>1. conn'[c] = t /\ \A d \in Conn : d # c => conn'[d] = conn[d]
  BY OneMoves DEF Inv
<1>2. Shape'
  BY DEF Inv, Shape, Fine, Handlers, S!Obj
<1>3. AllFine'
  BY <1>1 DEF Inv, AllFine, Fine, Handlers, S!Obj
<1> QED BY <1>2, <1>3

\* What lookups return.
LEMMA Found ==
  ASSUME StoreInv
  PROVE  /\ \A i \in ID : LET o == S!Find(i) IN
              o \in S!Obj \cup {Nil} /\ (o # Nil => o.man.id = i)
         /\ \A a \in IP : LET o == S!FindByIP(a) IN
              o \in S!Obj \cup {Nil} /\ (o # Nil => o.man.ip = a)
BY SameStore DEF StoreInv, P!TypeOK, P!IndexSound, S!Find, S!FindByIP

LEMMA RequestFields ==
  ASSUME NEW c \in Conn, NEW r \in Requests[c]
  PROVE  /\ r \in Request /\ r # Nil
         /\ r.route \in Manage \cup Self /\ r.id \in ID
         /\ HostIP(r) \in IP \cup {BadIP}
         /\ r.route = "put" => r.man \in Inputs
BY RequestsAssumption DEF Request, HostIP

-----------------------------------------------------------------------------
(* The steps of a handler *)

\* What the handler of a request that decodes or marshals has when nobody
\* else assigns to err, with err = e.
Honest(s, e) ==
  /\ s.pc = "parsed" => (e = Nil <=> s.req.ok)
  /\ s.pc = "put" => s.req.ok
  /\ s.pc = "stored" => s.req.ok /\ (s.res = Nil <=> ~S!Rejected(s.req.man))
  /\ s.pc = "assigned" => s.req.ok /\ (e = Nil <=> ~S!Rejected(s.req.man))
  /\ s.pc = "marshalled" => (e = Nil => s.body \in {"one", "all"})
  /\ s.pc = "report" => /\ e # Nil
                        /\ s.req.route = "put" =>
                             Permitted(s.req) /\ ~(s.req.ok /\ ~S!Rejected(s.req.man))
  /\ s.pc = "done" /\ s.req.route = "put" =>
       s.status = IF ~Permitted(s.req) THEN 403
                  ELSE IF s.req.ok /\ ~S!Rejected(s.req.man) THEN 201 ELSE 400
  /\ s.pc = "done" /\ s.req.route \in {"get", "list"} =>
       /\ s.status \in {200, 403, 404, 500}
       /\ s.status = 200 => s.body \in {"one", "all"}

\* The handler of c moves to state t.
Goes(c, t) ==
  /\ conn' = [conn EXCEPT ![c] = t]
  /\ Fine(c, t)
  /\ Honest(conn[c], err) => Honest(t, err')

UsesErr == {"put", "get", "list", "self"}

LEMMA Fields ==
  ASSUME NEW p, NEW r, NEW o, NEW v, NEW st, NEW b
  PROVE  LET t == Rec(p, r, o, v, st, b)
         IN /\ t.pc = p /\ t.req = r /\ t.obj = o /\ t.res = v /\ t.status = st
            /\ t.body = b
            /\ p \in PC /\ r \in Request \cup {Nil} /\ o \in S!Obj \cup {Nil}
                 /\ v \in {Nil, "error"}
                 /\ st \in {0, 200, 201, 204, 400, 403, 404, 500} /\ b \in Body
                 => t \in Handlers
BY DEF Rec, Handlers

LEMMA StepTypes ==
  ASSUME Inv, NEW c \in Conn
  PROVE  LET s == conn[c]
         IN /\ s \in Handlers /\ Fine(c, s)
            /\ s.req \in Request \cup {Nil} /\ s.obj \in S!Obj \cup {Nil}
            /\ s.res \in {Nil, "error"} /\ s.body \in Body /\ s.pc \in PC
            /\ s.status \in {0, 200, 201, 204, 400, 403, 404, 500}
            /\ s.pc # "idle" => s.req \in Requests[c] /\ s.req # Nil
BY RequestFields DEF Inv, AllFine, Fine, Handlers

\* A response that carries nothing.
LEMMA ReplyGoes ==
  ASSUME Inv, NEW c \in Conn, conn[c].pc # "idle",
         NEW st \in {0, 200, 201, 204, 400, 403, 404, 500},
         NEW b \in {"none", conn[c].body}, Reply(c, st, b)
  PROVE  LET t == Rec("done", conn[c].req, conn[c].obj, conn[c].res, st, b)
         IN /\ conn' = [conn EXCEPT ![c] = t] /\ Fine(c, t)
            /\ t.pc = "done" /\ t.req = conn[c].req /\ t.status = st /\ t.body = b
<1> DEFINE s == conn[c]
           t == Rec("done", s.req, s.obj, s.res, st, b)
<1>1. conn' = [conn EXCEPT ![c] = t]
  BY Moves DEF Inv
<1>2. /\ t.pc = "done" /\ t.req = s.req /\ t.status = st /\ t.body = b /\ t.obj = s.obj
  BY Fields
<1>3. t \in Handlers
  BY StepTypes, Fields DEF PC, Body
<1>4. Fine(c, s) /\ s.req \in Requests[c]
  BY StepTypes
<1> HIDE DEF t
<1>5. Fine(c, t)
  BY <1>2, <1>3, <1>4 DEF Fine
<1> QED BY <1>1, <1>2, <1>5 DEF t

LEMMA ForbiddenGoes ==
  ASSUME Inv, NEW c \in Conn, Forbidden(c)
  PROVE  \E t : Goes(c, t)
<1> DEFINE t == Rec("done", conn[c].req, conn[c].obj, conn[c].res, 403, "none")
<1>1. /\ conn' = [conn EXCEPT ![c] = t] /\ Fine(c, t)
      /\ t.pc = "done" /\ t.req = conn[c].req /\ t.status = 403
  BY ReplyGoes DEF Forbidden, At
<1>2. ~Permitted(t.req)
  BY <1>1 DEF Forbidden
<1> HIDE DEF t
<1>3. Honest(t, err')
  BY <1>1, <1>2 DEF Honest
<1> QED BY <1>1, <1>3 DEF Goes

\* A lookup gives the handler a pointer, or ends it.
LEMMA KeepGoes ==
  ASSUME Inv, NEW c \in Conn, conn[c].pc = "start",
         NEW p \in {"marshal", "iterate", "forget", "flag"}, NEW o \in S!Obj, o # Nil,
         p = "marshal" => conn[c].req.route = "get" /\ o.man.id = conn[c].req.id,
         p = "iterate" => conn[c].req.route = "self",
         p = "forget" => conn[c].req.route = "delete" /\ Permitted(conn[c].req),
         p = "flag" => /\ conn[c].req.route \in {"suspend", "unsuspend"}
                       /\ Permitted(conn[c].req) /\ o.man.ip = HostIP(conn[c].req),
         Keep(c, p, o)
  PROVE  \E t : Goes(c, t) /\ t.pc = p /\ t.obj = o
<1> DEFINE s == conn[c]
           t == Rec(p, s.req, o, s.res, s.status, s.body)
<1>1. conn' = [conn EXCEPT ![c] = t]
  BY Moves DEF Inv
<1>2. /\ t.pc = p /\ t.req = s.req /\ t.body = s.body /\ t.obj = o
  BY Fields
<1>3. t \in Handlers
  BY StepTypes, Fields DEF PC
<1>4. Fine(c, s) /\ s.req \in Requests[c]
  BY StepTypes
<1> HIDE DEF t
<1>5. Fine(c, t)
  BY <1>2, <1>3, <1>4 DEF Fine
<1>6. Honest(t, err')
  BY <1>2 DEF Honest
<1> QED BY <1>1, <1>2, <1>5, <1>6 DEF Goes

LEMMA GotoGoes ==
  ASSUME Inv, NEW c \in Conn, NEW p \in PC, Goto(c, p)
  PROVE  LET s == conn[c]
             t == Rec(p, s.req, s.obj, s.res, s.status, s.body)
         IN /\ conn' = [conn EXCEPT ![c] = t] /\ t \in Handlers
            /\ t.pc = p /\ t.req = s.req /\ t.obj = s.obj /\ t.res = s.res
            /\ t.status = s.status /\ t.body = s.body
BY Moves, Fields, StepTypes DEF Inv

LEMMA GetFindGoes ==
  ASSUME Inv, NEW c \in Conn, GetFind(c)
  PROVE  \E t : Goes(c, t)
<1> DEFINE r == conn[c].req
           o == S!Find(r.id)
<1>1. conn[c].pc = "start" /\ r.route = "get"
  BY DEF GetFind, Enter, At
<1>2. r \in Requests[c] /\ r.id \in ID
  BY <1>1, StepTypes, RequestFields
<1>3. CASE o = Nil
  <2> DEFINE t == Rec("done", r, conn[c].obj, conn[c].res, 404, "none")
  <2>1. Reply(c, 404, "none")
    BY <1>3 DEF GetFind
  <2>2. /\ conn' = [conn EXCEPT ![c] = t] /\ Fine(c, t)
        /\ t.pc = "done" /\ t.req = r /\ t.status = 404
    BY <1>1, <2>1, ReplyGoes
  <2> HIDE DEF t
  <2>3. Honest(t, err')
    BY <1>1, <2>2 DEF Honest
  <2> QED BY <2>2, <2>3 DEF Goes
<1>4. CASE o # Nil
  <2>1. Keep(c, "marshal", o)
    BY <1>4 DEF GetFind
  <2>2. o \in S!Obj /\ o.man.id = r.id
    BY <1>2, <1>4, Found DEF Inv
  <2> QED BY <1>1, <1>4, <2>1, <2>2, KeepGoes
<1> QED BY <1>3, <1>4

LEMMA DeleteLookupGoes ==
  ASSUME Inv, NEW c \in Conn, DeleteLookup(c)
  PROVE  \E t : Goes(c, t)
<1> DEFINE r == conn[c].req
           o == S!Find(r.id)
<1>1. conn[c].pc = "start" /\ r.route = "delete" /\ Permitted(r)
  BY DEF DeleteLookup, Enter, At
<1>2. r \in Requests[c] /\ r.id \in ID
  BY <1>1, StepTypes, RequestFields
<1>3. CASE o = Nil
  <2> DEFINE t == Rec("done", r, conn[c].obj, conn[c].res, 204, "none")
  <2>1. Reply(c, 204, "none")
    BY <1>3 DEF DeleteLookup
  <2>2. /\ conn' = [conn EXCEPT ![c] = t] /\ Fine(c, t) /\ t.pc = "done" /\ t.req = r
    BY <1>1, <2>1, ReplyGoes
  <2> HIDE DEF t
  <2>3. Honest(t, err')
    BY <1>1, <2>2 DEF Honest
  <2> QED BY <2>2, <2>3 DEF Goes
<1>4. CASE o # Nil
  <2>1. Keep(c, "forget", o)
    BY <1>4 DEF DeleteLookup
  <2>2. o \in S!Obj
    BY <1>2, <1>4, Found DEF Inv
  <2> QED BY <1>1, <1>4, <2>1, <2>2, KeepGoes
<1> QED BY <1>3, <1>4

LEMMA SelfGoes ==
  ASSUME Inv, NEW c \in Conn, NEW p,
         \/ SelfManifest(c) /\ p = "iterate"
         \/ FlagLookup(c) /\ p = "flag"
  PROVE  \/ \E t : Goes(c, t) /\ t.pc = "done"
         \/ \E t : /\ Goes(c, t) /\ t.pc = p /\ t.obj = S!FindByIP(HostIP(conn[c].req))
                   /\ t.obj # Nil /\ HostIP(conn[c].req) \in IP
<1> DEFINE r == conn[c].req
           a == HostIP(r)
           o == S!FindByIP(a)
<1>1. /\ conn[c].pc = "start" /\ Permitted(r)
      /\ \/ r.route = "self" /\ p = "iterate"
         \/ r.route \in {"suspend", "unsuspend"} /\ p = "flag"
  BY DEF SelfManifest, FlagLookup, Enter, At
<1>2. r \in Requests[c] /\ a \in IP \cup {BadIP}
  BY <1>1, StepTypes, RequestFields
<1>3. SelfLookup(c, p)
  BY DEF SelfManifest, FlagLookup
<1>4. CASE a = BadIP \/ o = Nil
  <2>1. PICK st \in {404, 500} : Reply(c, st, "none")
    BY <1>3, <1>4 DEF SelfLookup
  <2> DEFINE t == Rec("done", r, conn[c].obj, conn[c].res, st, "none")
  <2>2. /\ conn' = [conn EXCEPT ![c] = t] /\ Fine(c, t) /\ t.pc = "done" /\ t.req = r
    <3>1. /\ st \in {0, 200, 201, 204, 400, 403, 404, 500}
          /\ "none" \in {"none", conn[c].body} /\ conn[c].pc # "idle"
      BY <1>1, <2>1
    <3> QED BY <2>1, <3>1, ReplyGoes
  <2> HIDE DEF t
  <2>3. Honest(t, err')
    BY <1>1, <2>2 DEF Honest
  <2> QED BY <2>2, <2>3 DEF Goes
<1>5. CASE a # BadIP /\ o # Nil
  <2>1. Keep(c, p, o)
    BY <1>3, <1>5 DEF SelfLookup
  <2>2. o \in S!Obj /\ o.man.ip = a /\ a \in IP
    BY <1>2, <1>5, Found DEF Inv
  <2>3. \E t : Goes(c, t) /\ t.pc = p /\ t.obj = o
    BY <1>1, <1>5, <2>1, <2>2, KeepGoes
  <2> QED BY <1>5, <2>2, <2>3
<1> QED BY <1>4, <1>5

LEMMA ListAllGoes ==
  ASSUME Inv, NEW c \in Conn, ListAll(c)
  PROVE  \E t : Goes(c, t)
<1> DEFINE s == conn[c]
           t == Rec("iterate", s.req, s.obj, s.res, s.status, s.body)
<1>1. s.pc = "start" /\ s.req.route = "list" /\ Goto(c, "iterate")
  BY DEF ListAll, Enter, At
<1>2. /\ conn' = [conn EXCEPT ![c] = t] /\ t \in Handlers
      /\ t.pc = "iterate" /\ t.req = s.req /\ t.body = s.body
  <2>1. "iterate" \in PC
    BY DEF PC
  <2> QED BY <1>1, <2>1, GotoGoes
<1>3. Fine(c, s)
  BY StepTypes
<1> HIDE DEF t
<1>4. Fine(c, t) /\ Honest(t, err')
  BY <1>1, <1>2, <1>3 DEF Fine, Honest
<1> QED BY <1>2, <1>4 DEF Goes

LEMMA MarshalGoes ==
  ASSUME Inv, NEW c \in Conn, Marshal(c)
  PROVE  \E t : Goes(c, t)
<1> DEFINE s == conn[c]
           one == s.pc = "marshal"
           fails == MarshalFails(c, IF one THEN {s.obj} ELSE {manifests[i] : i \in ID} \ {Nil})
           b == IF fails THEN "empty" ELSE IF one THEN "one" ELSE "all"
           t == Rec("marshalled", s.req, s.obj, s.res, s.status, b)
<1>1. /\ s.pc \in {"marshal", "iterate"}
      /\ err' = IF fails THEN "error" ELSE Nil
      /\ conn' = [conn EXCEPT ![c].pc = "marshalled", ![c].body = b]
  BY DEF Marshal
<1> HIDE DEF fails
<1>2. s = Rec(s.pc, s.req, s.obj, s.res, s.status, s.body) /\ DOMAIN conn = Conn
  BY Moves DEF Inv, Shape
<1>3. conn' = [conn EXCEPT ![c] = [[s EXCEPT !.pc = "marshalled"] EXCEPT !.body = b]]
  <2>1. DOMAIN s = {"pc", "req", "obj", "res", "status", "body"}
    BY StepTypes DEF Handlers
  <2> HIDE DEF b
  <2> QED BY <1>1, <1>2, <2>1
<1> HIDE DEF b
<1>4. conn' = [conn EXCEPT ![c] = t]
  <2>1. [s EXCEPT !.pc = "marshalled"]
        = Rec("marshalled", s.req, s.obj, s.res, s.status, s.body)
    BY <1>2 DEF Rec
  <2>2. [Rec("marshalled", s.req, s.obj, s.res, s.status, s.body) EXCEPT !.body = b] = t
    BY DEF Rec
  <2>3. [[s EXCEPT !.pc = "marshalled"] EXCEPT !.body = b] = t
    BY <2>1, <2>2, Zenon
  <2> QED BY <1>3, <2>3
<1>5. /\ b = "empty" <=> fails
      /\ b \in {"empty", "one", "all"}
  BY DEF b
<1>6. /\ t.pc = "marshalled" /\ t.req = s.req /\ t.obj = s.obj /\ t.body = b
      /\ t \in Handlers
  BY <1>5, StepTypes, Fields DEF PC, Body
<1>7. Fine(c, s) /\ s.req \in Requests[c]
  BY <1>1, StepTypes
<1> HIDE DEF t
<1>8. (b = "one" => s.pc = "marshal") /\ (b = "all" => s.pc = "iterate")
  BY <1>1, <1>5 DEF b
<1>9. Fine(c, t)
  BY <1>1, <1>5, <1>6, <1>7, <1>8 DEF Fine
<1>10. Honest(t, err')
  BY <1>1, <1>5, <1>6, RequestsAssumption DEF Honest
<1> QED BY <1>4, <1>9, <1>10 DEF Goes

LEMMA MarshalledGoes ==
  ASSUME Inv, NEW c \in Conn, Marshalled(c)
  PROVE  \E t : Goes(c, t)
<1> DEFINE s == conn[c]
<1>1. s.pc = "marshalled" /\ err' = err
  BY DEF Marshalled
<1>2. Fine(c, s) /\ s.req.route \in {"get", "list", "self"} /\ s.req \in Requests[c]
  BY <1>1, StepTypes DEF Fine
<1>3. CASE err = Nil
  <2> DEFINE t == Rec("done", s.req, s.obj, s.res, 200, s.body)
  <2>1. Reply(c, 200, s.body)
    BY <1>3 DEF Marshalled
  <2>2. /\ conn' = [conn EXCEPT ![c] = t] /\ Fine(c, t)
        /\ t.pc = "done" /\ t.req = s.req /\ t.status = 200 /\ t.body = s.body
    <3>1. /\ 200 \in {0, 200, 201, 204, 400, 403, 404, 500}
          /\ s.body \in {"none", s.body} /\ s.pc # "idle"
      BY <1>1
    <3> QED BY <2>1, <3>1, ReplyGoes
  <2> HIDE DEF t
  <2>3. Honest(s, err) => Honest(t, err')
    BY <1>1, <1>2, <1>3, <2>2 DEF Honest
  <2> QED BY <2>2, <2>3 DEF Goes
<1>4. CASE err # Nil
  <2> DEFINE t == Rec("report", s.req, s.obj, s.res, s.status, s.body)
  <2>1. Goto(c, "report")
    BY <1>4 DEF Marshalled
  <2>2. /\ conn' = [conn EXCEPT ![c] = t] /\ t \in Handlers
        /\ t.pc = "report" /\ t.req = s.req /\ t.obj = s.obj /\ t.body = s.body
    <3>1. "report" \in PC
      BY DEF PC
    <3> QED BY <2>1, <3>1, GotoGoes
  <2> HIDE DEF t
  <2>3. Fine(c, t) /\ Honest(t, err')
    BY <1>1, <1>2, <1>4, <2>2 DEF Fine, Honest
  <2> QED BY <2>2, <2>3 DEF Goes
<1> QED BY <1>3, <1>4

\* The steps of PUT up to its answer.
LEMMA PutGoes ==
  ASSUME Inv, NEW c \in Conn,
         PutDecode(c) \/ PutDecoded(c) \/ PutAssign(c) \/ PutAssigned(c)
  PROVE  \E t : Goes(c, t)
<1> DEFINE s == conn[c]
           T(p) == Rec(p, s.req, s.obj, s.res, s.status, s.body)
<1>0. Fine(c, s) /\ s.res \in {Nil, "error"}
  BY StepTypes
<1>1. ASSUME NEW p \in PC, Goto(c, p)
      PROVE  /\ conn' = [conn EXCEPT ![c] = T(p)] /\ T(p) \in Handlers
             /\ T(p).pc = p /\ T(p).req = s.req /\ T(p).obj = s.obj /\ T(p).res = s.res
             /\ T(p).body = s.body
  BY <1>1, GotoGoes
<1> HIDE DEF T
<1>2. CASE PutDecode(c)
  <2>1. /\ s.pc = "start" /\ s.req.route = "put" /\ Permitted(s.req)
        /\ err' = (IF s.req.ok THEN Nil ELSE "error") /\ Goto(c, "parsed")
    BY <1>2 DEF PutDecode, Enter, At
  <2>2. /\ conn' = [conn EXCEPT ![c] = T("parsed")] /\ T("parsed") \in Handlers
        /\ T("parsed").pc = "parsed" /\ T("parsed").req = s.req
        /\ T("parsed").body = s.body /\ T("parsed").obj = s.obj
    BY <1>1, <2>1 DEF PC
  <2>3. Fine(c, T("parsed"))
    BY <1>0, <2>1, <2>2 DEF Fine
  <2>4. Honest(T("parsed"), err')
    BY <2>1, <2>2, RequestsAssumption DEF Honest
  <2> QED BY <2>2, <2>3, <2>4 DEF Goes
<1>3. CASE PutDecoded(c)
  <2> DEFINE p == IF err = Nil THEN "put" ELSE "report"
  <2>1. s.pc = "parsed" /\ s.req.route = "put" /\ err' = err /\ Goto(c, p)
    BY <1>3 DEF PutDecoded, At
  <2>2. p \in PC /\ (err = Nil => p = "put") /\ (err # Nil => p = "report")
    BY DEF PC
  <2> HIDE DEF p
  <2>3. /\ conn' = [conn EXCEPT ![c] = T(p)] /\ T(p) \in Handlers
        /\ T(p).pc = p /\ T(p).req = s.req /\ T(p).obj = s.obj /\ T(p).body = s.body
    BY <1>1, <2>1, <2>2
  <2>4. Fine(c, T(p))
    BY <1>0, <2>1, <2>2, <2>3 DEF Fine
  <2>5. Honest(s, err) => Honest(T(p), err')
    BY <1>0, <2>1, <2>2, <2>3 DEF Honest, Fine
  <2> QED BY <2>3, <2>4, <2>5 DEF Goes
<1>4. CASE PutAssign(c)
  <2>1. s.pc = "stored" /\ s.req.route = "put" /\ err' = s.res /\ Goto(c, "assigned")
    BY <1>4 DEF PutAssign, At
  <2>2. /\ conn' = [conn EXCEPT ![c] = T("assigned")] /\ T("assigned") \in Handlers
        /\ T("assigned").pc = "assigned" /\ T("assigned").req = s.req
        /\ T("assigned").body = s.body /\ T("assigned").obj = s.obj
    BY <1>1, <2>1 DEF PC
  <2>3. Fine(c, T("assigned"))
    BY <1>0, <2>1, <2>2 DEF Fine
  <2>4. Honest(s, err) => Honest(T("assigned"), err')
    BY <2>1, <2>2 DEF Honest
  <2> QED BY <2>2, <2>3, <2>4 DEF Goes
<1>5. CASE PutAssigned(c)
  <2>1. s.pc = "assigned" /\ s.req.route = "put" /\ err' = err
    BY <1>5 DEF PutAssigned, At
  <2>2. CASE err = Nil
    <3> DEFINE t == Rec("done", s.req, s.obj, s.res, 201, "none")
    <3>1. Reply(c, 201, "none")
      BY <1>5, <2>2 DEF PutAssigned
    <3>2. /\ conn' = [conn EXCEPT ![c] = t] /\ Fine(c, t)
          /\ t.pc = "done" /\ t.req = s.req /\ t.status = 201
      BY <2>1, <3>1, ReplyGoes
    <3> HIDE DEF t
    <3>3. Honest(s, err) => Honest(t, err')
      BY <1>0, <2>1, <2>2, <3>2 DEF Honest, Fine
    <3> QED BY <3>2, <3>3 DEF Goes
  <2>3. CASE err # Nil
    <3>1. Goto(c, "report")
      BY <1>5, <2>3 DEF PutAssigned
    <3>2. /\ conn' = [conn EXCEPT ![c] = T("report")] /\ T("report") \in Handlers
          /\ T("report").pc = "report" /\ T("report").req = s.req
          /\ T("report").body = s.body /\ T("report").obj = s.obj
      BY <1>1, <3>1 DEF PC
    <3>3. Fine(c, T("report"))
      BY <1>0, <2>1, <3>2 DEF Fine
    <3>4. Honest(s, err) => Honest(T("report"), err')
      BY <1>0, <2>1, <2>3, <3>2 DEF Honest, Fine
    <3> QED BY <3>2, <3>3, <3>4 DEF Goes
  <2> QED BY <2>2, <2>3
<1> QED BY <1>2, <1>3, <1>4, <1>5

LEMMA PutStoreGoes ==
  ASSUME Inv, NEW c \in Conn, PutStore(c)
  PROVE  \E t : Goes(c, t)
<1> DEFINE s == conn[c]
           v == IF S!Rejected(s.req.man) THEN "error" ELSE Nil
           t == Rec("stored", s.req, s.obj, v, s.status, s.body)
<1>1. /\ s.pc = "put" /\ s.req.route = "put" /\ err' = err
      /\ conn' = [conn EXCEPT ![c].pc = "stored", ![c].res = v]
  BY DEF PutStore, At
<1>2. v \in {Nil, "error"} /\ (v = Nil <=> ~S!Rejected(s.req.man))
  BY RequestsAssumption
<1> HIDE DEF v
<1>3. s = Rec(s.pc, s.req, s.obj, s.res, s.status, s.body) /\ DOMAIN conn = Conn
  BY Moves DEF Inv, Shape
<1>4. conn' = [conn EXCEPT ![c] = [[s EXCEPT !.pc = "stored"] EXCEPT !.res = v]]
  <2>1. DOMAIN s = {"pc", "req", "obj", "res", "status", "body"}
    BY StepTypes DEF Handlers
  <2> QED BY <1>1, <1>3, <2>1
<1>5. conn' = [conn EXCEPT ![c] = t]
  <2>1. [s EXCEPT !.pc = "stored"] = Rec("stored", s.req, s.obj, s.res, s.status, s.body)
    BY <1>3 DEF Rec
  <2>2. [Rec("stored", s.req, s.obj, s.res, s.status, s.body) EXCEPT !.res = v] = t
    BY DEF Rec
  <2>3. [[s EXCEPT !.pc = "stored"] EXCEPT !.res = v] = t
    BY <2>1, <2>2, Zenon
  <2> QED BY <1>4, <2>3
<1>6. /\ t.pc = "stored" /\ t.req = s.req /\ t.obj = s.obj /\ t.body = s.body /\ t.res = v
      /\ t \in Handlers
  BY <1>2, StepTypes, Fields DEF PC
<1>7. Fine(c, s)
  BY StepTypes
<1> HIDE DEF t
<1>8. Fine(c, t)
  BY <1>1, <1>6, <1>7 DEF Fine
<1>9. Honest(s, err) => Honest(t, err')
  BY <1>1, <1>2, <1>6 DEF Honest
<1> QED BY <1>5, <1>8, <1>9 DEF Goes

LEMMA ReportGoes ==
  ASSUME Inv, NEW c \in Conn, Report(c)
  PROVE  \E t : Goes(c, t)
<1> DEFINE s == conn[c]
           st == IF err = Nil THEN 0 ELSE IF s.req.route = "put" THEN 400 ELSE 500
           t == Rec("done", s.req, s.obj, s.res, st, "none")
<1>1. s.pc = "report" /\ err' = err /\ Reply(c, st, "none")
  BY DEF Report
<1>2. /\ st \in {0, 200, 201, 204, 400, 403, 404, 500}
      /\ err # Nil => st = IF s.req.route = "put" THEN 400 ELSE 500
  OBVIOUS
<1> HIDE DEF st
<1>3. /\ conn' = [conn EXCEPT ![c] = t] /\ Fine(c, t)
      /\ t.pc = "done" /\ t.req = s.req /\ t.status = st
  BY <1>1, <1>2, ReplyGoes
<1> HIDE DEF t
<1>4. Honest(s, err) => Honest(t, err')
  BY <1>1, <1>2, <1>3 DEF Honest
<1> QED BY <1>3, <1>4 DEF Goes

LEMMA ChangeGoes ==
  ASSUME Inv, NEW c \in Conn, DeleteForget(c) \/ FlagWrite(c)
  PROVE  \E t : Goes(c, t) /\ t.pc = "done"
<1> DEFINE s == conn[c]
<1>1. PICK st \in {200, 204} : Reply(c, st, "none")
  BY DEF DeleteForget, FlagWrite
<1>2. s.pc \in {"forget", "flag"} /\ s.req.route \in {"delete", "suspend", "unsuspend"}
  BY DEF DeleteForget, FlagWrite, At
<1> DEFINE t == Rec("done", s.req, s.obj, s.res, st, "none")
<1>3. /\ conn' = [conn EXCEPT ![c] = t] /\ Fine(c, t) /\ t.pc = "done" /\ t.req = s.req
  BY <1>1, <1>2, ReplyGoes
<1> HIDE DEF t
<1>4. Honest(t, err')
  BY <1>2, <1>3 DEF Honest
<1> QED BY <1>3, <1>4 DEF Goes

\* A request comes in, or its answer has gone out.
LEMMA FreshGoes ==
  ASSUME Inv, NEW c \in Conn,
         Finish(c) \/ \E r \in Requests[c] : Accept(c, r)
  PROVE  \E t : Goes(c, t) /\ t.pc \in {"idle", "start"}
<1>1. Fresh = Rec("idle", Nil, Nil, Nil, 0, "none")
  BY DEF Fresh, Rec
<1>2. CASE Finish(c)
  <2> DEFINE t == Rec("idle", Nil, Nil, Nil, 0, "none")
  <2>1. conn' = [conn EXCEPT ![c] = t]
    BY <1>1, <1>2 DEF Finish
  <2>2. t.pc = "idle" /\ t.req = Nil /\ t.body = "none" /\ t \in Handlers
    BY Fields DEF PC, Body
  <2> HIDE DEF t
  <2>3. Fine(c, t) /\ Honest(t, err')
    BY <2>2 DEF Fine, Honest
  <2> QED BY <2>1, <2>2, <2>3 DEF Goes
<1>3. ASSUME NEW r \in Requests[c], Accept(c, r)
      PROVE  \E t : Goes(c, t) /\ t.pc \in {"idle", "start"}
  <2> DEFINE t == Rec("start", r, Nil, Nil, 0, "none")
  <2>0. [Fresh EXCEPT !.pc = "start", !.req = r] = t
    <3>1. [Fresh EXCEPT !.pc = "start", !.req = r] = [[Fresh EXCEPT !.pc = "start"] EXCEPT !.req = r]
      OBVIOUS
    <3>2. [Fresh EXCEPT !.pc = "start"] = Rec("start", Nil, Nil, Nil, 0, "none")
      BY DEF Fresh, Rec
    <3>3. [Rec("start", Nil, Nil, Nil, 0, "none") EXCEPT !.req = r] = t
      BY DEF Rec
    <3> QED BY <3>1, <3>2, <3>3, Zenon
  <2>1. conn' = [conn EXCEPT ![c] = t]
    BY <1>3, <2>0 DEF Accept
  <2>2. t.pc = "start" /\ t.req = r /\ t.body = "none" /\ t \in Handlers
    BY Fields, RequestFields DEF PC, Body
  <2> HIDE DEF t
  <2>3. Fine(c, t) /\ Honest(t, err')
    BY <2>2 DEF Fine, Honest
  <2> QED BY <2>1, <2>2, <2>3 DEF Goes
<1> QED BY <1>2, <1>3

LEMMA StepGoes ==
  ASSUME Inv, NEW c \in Conn, Step(c)
  PROVE  \E t : Goes(c, t)
BY ForbiddenGoes, GetFindGoes, ListAllGoes, SelfGoes, MarshalGoes, MarshalledGoes,
   PutGoes, PutStoreGoes, ReportGoes, DeleteLookupGoes, ChangeGoes
DEF Step

-----------------------------------------------------------------------------
(* The store behind the API *)

LEMMA SameCall ==
  ASSUME NEW c, conn'[c] = conn[c]
  PROVE  CallOf(c)' = CallOf(c)
BY DEF CallOf

LEMMA NoCall ==
  ASSUME NEW c
  PROVE  /\ conn[c].pc \notin {"forget", "flag"} => CallOf(c) = S!Idle
         /\ conn'[c].pc \notin {"forget", "flag"} => CallOf(c)' = S!Idle
BY DEF CallOf, S!Idle

\* The calls when the handler of c moves.
LEMMA CallsMove ==
  ASSUME Shape, NEW c \in Conn, NEW t, conn' = [conn EXCEPT ![c] = t]
  PROVE  [d \in Conn |-> CallOf(d)]' = [[d \in Conn |-> CallOf(d)] EXCEPT ![c] = CallOf(c)']
<1>1. \A d \in Conn : d # c => CallOf(d)' = CallOf(d)
  BY OneMoves, SameCall
<1> QED BY <1>1

\* A handler that is not in the store before or after its step is not seen.
LEMMA Aside ==
  ASSUME Shape, NEW c \in Conn, NEW t, conn' = [conn EXCEPT ![c] = t], UNCHANGED server,
         conn[c].pc \notin {"forget", "flag"}, t.pc \notin {"forget", "flag"}
  PROVE  UNCHANGED S!vars
<1>1. conn'[c] = t
  BY OneMoves
<1>2. CallOf(c)' = CallOf(c)
  BY <1>1, NoCall
<1>3. UNCHANGED [d \in Conn |-> CallOf(d)]
  BY <1>2, CallsMove
<1> QED BY <1>3 DEF server, S!vars

LEMMA HelperAside ==
  ASSUME Inv, NEW c \in Conn, UNCHANGED server, conn[c].pc \notin {"forget", "flag"},
         \/ \E p : Goto(c, p) /\ p \notin {"forget", "flag"}
         \/ \E st, b : Reply(c, st, b)
         \/ \E p, o : Keep(c, p, o) /\ p \notin {"forget", "flag"}
  PROVE  UNCHANGED S!vars
<1> DEFINE s == conn[c]
<1>0. Shape
  BY DEF Inv
<1>1. ASSUME NEW p, NEW o, NEW st, NEW b, p \notin {"forget", "flag"},
             conn' = [conn EXCEPT ![c] = Rec(p, s.req, o, s.res, st, b)]
      PROVE  UNCHANGED S!vars
  <2>1. Rec(p, s.req, o, s.res, st, b).pc = p
    BY Fields
  <2> QED BY <1>0, <1>1, <2>1, Aside
<1>2. ASSUME NEW p, Goto(c, p), p \notin {"forget", "flag"} PROVE UNCHANGED S!vars
  BY <1>0, <1>1, <1>2, Moves
<1>3. ASSUME NEW st, NEW b, Reply(c, st, b) PROVE UNCHANGED S!vars
  BY <1>0, <1>1, <1>3, Moves
<1>4. ASSUME NEW p, NEW o, Keep(c, p, o), p \notin {"forget", "flag"} PROVE UNCHANGED S!vars
  BY <1>0, <1>1, <1>4, Moves
<1> QED BY <1>2, <1>3, <1>4

LEMMA MarshalAside ==
  ASSUME Inv, NEW c \in Conn, Marshal(c)
  PROVE  UNCHANGED S!vars
<1>1. conn[c].pc \in {"marshal", "iterate"} /\ UNCHANGED server
  BY DEF Marshal
<1>2. conn'[c].pc = "marshalled" /\ \A d \in Conn : d # c => conn'[d] = conn[d]
  BY DEF Marshal, Inv, Shape, Handlers
<1>3. \A d \in Conn : CallOf(d)' = CallOf(d)
  BY <1>1, <1>2, SameCall, NoCall
<1> QED BY <1>1, <1>3 DEF server, S!vars

LEMMA DeleteLookupMoves ==
  ASSUME Inv, NEW c \in Conn, DeleteLookup(c)
  PROVE  [S!Next]_(S!vars)
<1> DEFINE s == conn[c]
           o == S!Find(s.req.id)
<1>1. s.pc = "start" /\ UNCHANGED server /\ Shape
  BY DEF DeleteLookup, Enter, At, Inv
<1>2. S!Loaded /\ s.req.id \in ID
  BY <1>1, StepTypes, RequestFields DEF Inv, Serving
<1>3. CASE o = Nil
  <2>1. Reply(c, 204, "none")
    BY <1>3 DEF DeleteLookup
  <2> QED BY <1>1, <2>1, HelperAside
<1>4. CASE o # Nil
  <2> DEFINE t == Rec("forget", s.req, o, s.res, s.status, s.body)
  <2>1. conn' = [conn EXCEPT ![c] = t]
    BY <1>1, <1>4, Moves DEF DeleteLookup
  <2>0. t.pc = "forget" /\ t.obj = o
    BY Fields
  <2>2. conn'[c].pc = "forget" /\ conn'[c].obj = o
    <3> HIDE DEF t
    <3> QED BY <1>1, <2>0, <2>1, OneMoves
  <2> HIDE DEF t
  <2>3. CallOf(c) = S!Idle /\ CallOf(c)' = [op |-> "forget", obj |-> o]
    BY <1>1, <2>2, NoCall DEF CallOf
  <2>4. [d \in Conn |-> CallOf(d)]' =
          [[d \in Conn |-> CallOf(d)] EXCEPT ![c] = [op |-> "forget", obj |-> o]]
    BY <1>1, <2>1, <2>3, CallsMove
  <2>5. S!ForgetLookup(c, s.req.id)
    BY <1>1, <1>2, <1>4, <2>3, <2>4 DEF S!ForgetLookup, server
  <2> QED BY <1>2, <2>5 DEF S!Next
<1> QED BY <1>3, <1>4

LEMMA FlagLookupMoves ==
  ASSUME Inv, NEW c \in Conn, FlagLookup(c)
  PROVE  [S!Next]_(S!vars)
<1> DEFINE s == conn[c]
           a == HostIP(s.req)
           o == S!FindByIP(a)
           op == s.req.route
<1>1. /\ s.pc = "start" /\ UNCHANGED server /\ Shape /\ op \in {"suspend", "unsuspend"}
      /\ SelfLookup(c, "flag")
  BY DEF FlagLookup, Enter, At, Inv
<1>2. S!Loaded /\ a \in IP \cup {BadIP}
  BY <1>1, StepTypes, RequestFields DEF Inv, Serving
<1>3. CASE a = BadIP \/ o = Nil
  <2>1. \E st : Reply(c, st, "none")
    BY <1>1, <1>3 DEF SelfLookup
  <2> QED BY <1>1, <2>1, HelperAside
<1>4. CASE a # BadIP /\ o # Nil
  <2> DEFINE t == Rec("flag", s.req, o, s.res, s.status, s.body)
  <2>1. conn' = [conn EXCEPT ![c] = t]
    BY <1>1, <1>4, Moves DEF SelfLookup
  <2>0. t.pc = "flag" /\ t.obj = o /\ t.req = s.req
    BY Fields
  <2>2. conn'[c].pc = "flag" /\ conn'[c].obj = o /\ conn'[c].req = s.req
    <3> HIDE DEF t
    <3> QED BY <1>1, <2>0, <2>1, OneMoves
  <2> HIDE DEF t
  <2>3. CallOf(c) = S!Idle /\ CallOf(c)' = [op |-> op, obj |-> o]
    BY <1>1, <2>2, NoCall DEF CallOf
  <2>4. [d \in Conn |-> CallOf(d)]' =
          [[d \in Conn |-> CallOf(d)] EXCEPT ![c] = [op |-> op, obj |-> o]]
    BY <1>1, <2>1, <2>3, CallsMove
  <2>5. S!FlagLookup(c, a, op)
    BY <1>1, <1>2, <1>4, <2>3, <2>4 DEF S!FlagLookup, server
  <2> QED BY <1>1, <1>2, <1>4, <2>5 DEF S!Next
<1> QED BY <1>3, <1>4

LEMMA PutStoreMoves ==
  ASSUME Inv, NEW c \in Conn, PutStore(c)
  PROVE  S!Next
<1> DEFINE m == conn[c].req.man
<1>1. conn[c].pc = "put" /\ conn[c].req.route = "put" /\ S!PutManifest(m) /\ todo' = todo
  BY DEF PutStore, At
<1>2. S!Loaded /\ m \in Inputs
  BY <1>1, StepTypes, RequestFields DEF Inv, Serving
<1>3. conn'[c].pc = "stored" /\ \A d \in Conn : d # c => conn'[d] = conn[d]
  BY DEF PutStore, Inv, Shape, Handlers
<1>4. \A d \in Conn : CallOf(d)' = CallOf(d)
  BY <1>1, <1>3, SameCall, NoCall
<1>5. S!Put(m)
  BY <1>1, <1>2, <1>4 DEF S!Put
<1> QED BY <1>2, <1>5 DEF S!Next

LEMMA ChangeMoves ==
  ASSUME Inv, NEW c \in Conn, DeleteForget(c) \/ FlagWrite(c)
  PROVE  S!Next
<1> DEFINE s == conn[c]
<1>1. PICK st : Reply(c, st, "none")
  BY DEF DeleteForget, FlagWrite
<1>2. Shape /\ todo' = todo
  BY DEF Inv, DeleteForget, FlagWrite
<1> DEFINE t == Rec("done", s.req, s.obj, s.res, st, "none")
<1>3. conn' = [conn EXCEPT ![c] = t]
  BY <1>1, <1>2, Moves
<1>4. conn'[c].pc = "done"
  <2>1. t.pc = "done"
    BY Fields
  <2> HIDE DEF t
  <2> QED BY <1>2, <1>3, <2>1, OneMoves
<1>5. [d \in Conn |-> CallOf(d)]' = [[d \in Conn |-> CallOf(d)] EXCEPT ![c] = S!Idle]
  BY <1>2, <1>3, <1>4, CallsMove, NoCall
<1>6. CASE DeleteForget(c)
  <2>1. s.pc = "forget" /\ S!Remove(s.obj)
    BY <1>6 DEF DeleteForget, At
  <2>2. CallOf(c) = [op |-> "forget", obj |-> s.obj]
    BY <2>1 DEF CallOf
  <2>3. S!ForgetDelete(c)
    BY <1>2, <1>5, <2>1, <2>2 DEF S!ForgetDelete
  <2> QED BY <2>3 DEF S!Next
<1>7. CASE FlagWrite(c)
  <2>1. /\ s.pc = "flag" /\ s.req.route \in {"suspend", "unsuspend"}
        /\ S!WriteSuspended(s.obj, s.req.route = "suspend")
    BY <1>7 DEF FlagWrite, At
  <2>2. CallOf(c) = [op |-> s.req.route, obj |-> s.obj]
    BY <2>1 DEF CallOf
  <2>3. S!FlagWrite(c)
    BY <1>2, <1>5, <2>1, <2>2 DEF S!FlagWrite
  <2> QED BY <2>3 DEF S!Next
<1> QED BY <1>6, <1>7

LEMMA StoreMoves == Inv /\ [Next]_vars => [S!Next]_(S!vars)
<1> SUFFICES ASSUME Inv, [Next]_vars PROVE [S!Next]_(S!vars)
  OBVIOUS
<1>1. CASE LoadFile
  BY <1>1 DEF LoadFile, S!Next
<1>2. ASSUME NEW c \in Conn, Step(c) PROVE [S!Next]_(S!vars)
  <2>1. CASE Forbidden(c)
    BY <2>1, HelperAside DEF Forbidden, At
  <2>2. CASE GetFind(c)
    BY <2>2, HelperAside DEF GetFind, Enter, At
  <2>3. CASE ListAll(c)
    BY <2>3, HelperAside DEF ListAll, Enter, At
  <2>4. CASE SelfManifest(c)
    BY <2>4, HelperAside DEF SelfManifest, SelfLookup, Enter, At
  <2>5. CASE Marshalled(c)
    BY <2>5, HelperAside DEF Marshalled
  <2>6. CASE PutDecode(c)
    BY <2>6, HelperAside DEF PutDecode, Enter, At
  <2>7. CASE PutDecoded(c)
    <3>1. PICK p : Goto(c, p) /\ p \in {"put", "report"}
      BY <2>7 DEF PutDecoded
    <3> QED BY <2>7, <3>1, HelperAside DEF PutDecoded, At
  <2>8. CASE PutAssign(c)
    BY <2>8, HelperAside DEF PutAssign, At
  <2>9. CASE PutAssigned(c)
    BY <2>9, HelperAside DEF PutAssigned, At
  <2>10. CASE Report(c)
    <3>1. \E st : Reply(c, st, "none")
      BY <2>10 DEF Report
    <3> QED BY <2>10, <3>1, HelperAside DEF Report
  <2> QED BY <1>2, <2>1, <2>2, <2>3, <2>4, <2>5, <2>6, <2>7, <2>8, <2>9, <2>10,
             MarshalAside, DeleteLookupMoves, FlagLookupMoves, PutStoreMoves, ChangeMoves
          DEF Step
<1>3. ASSUME NEW c \in Conn, Finish(c) \/ \E r \in Requests[c] : Accept(c, r)
      PROVE  UNCHANGED S!vars
  <2>1. PICK t : Goes(c, t) /\ t.pc \in {"idle", "start"}
    BY <1>3, FreshGoes
  <2>2. UNCHANGED server /\ conn[c].pc \in {"idle", "done"} /\ Shape
    BY <1>3 DEF Finish, Accept, Inv
  <2> QED BY <2>1, <2>2, Aside DEF Goes
<1>4. CASE Restart
  BY <1>4 DEF Restart, S!Next
<1>5. CASE UNCHANGED <<server, conn>>
  BY <1>5, SameCall DEF server, S!vars
<1> QED BY <1>1, <1>2, <1>3, <1>4, <1>5 DEF Next, MapRace, vars, server

-----------------------------------------------------------------------------
(* The invariant *)

\* What every step of a handler leaves alone.
LEMMA StepFrame ==
  ASSUME Inv, NEW c \in Conn, Step(c)
  PROVE  /\ todo' = todo /\ up' = up /\ up /\ conn[c].pc # "idle"
         /\ err' \in {Nil, "error"}
<1>1. err \in {Nil, "error"} /\ conn[c].res \in {Nil, "error"}
  BY StepTypes DEF Inv
<1>2. todo' = todo /\ up' = up
  BY DEF Step, Forbidden, GetFind, ListAll, SelfManifest, Marshal, Marshalled, PutDecode,
         PutDecoded, PutStore, PutAssign, PutAssigned, Report, DeleteLookup, DeleteForget,
         FlagLookup, FlagWrite, server
<1>3. up /\ conn[c].pc # "idle"
  BY DEF Step, Forbidden, GetFind, ListAll, SelfManifest, Marshal, Marshalled, PutDecode,
         PutDecoded, PutStore, PutAssign, PutAssigned, Report, DeleteLookup, DeleteForget,
         FlagLookup, FlagWrite, Enter, At
<1>4. err' \in {err, Nil, "error", conn[c].res}
  BY DEF Step, Forbidden, GetFind, ListAll, SelfManifest, Marshal, Marshalled, PutDecode,
         PutDecoded, PutStore, PutAssign, PutAssigned, Report, DeleteLookup, DeleteForget,
         FlagLookup, FlagWrite
<1> QED BY <1>1, <1>2, <1>3, <1>4

\* A restart, and the start, leave every handler fresh.
LEMMA FreshFine ==
  /\ Fresh \in Handlers /\ Fresh.pc = "idle"
  /\ \A c, e : Fine(c, Fresh) /\ Honest(Fresh, e)
<1>1. Fresh = Rec("idle", Nil, Nil, Nil, 0, "none")
  BY DEF Fresh, Rec
<1>2. /\ Fresh \in Handlers /\ Fresh.pc = "idle" /\ Fresh.req = Nil /\ Fresh.body = "none"
  BY <1>1, Fields DEF PC, Body
<1>3. ASSUME NEW c, NEW e PROVE Fine(c, Fresh) /\ Honest(Fresh, e)
  BY <1>2 DEF Fine, Honest
<1> QED BY <1>2, <1>3

LEMMA InitInv == Init => Inv
<1> SUFFICES ASSUME Init PROVE Inv
  OBVIOUS
<1>1. conn = [c \in Conn |-> Fresh] /\ err = Nil /\ up = TRUE /\ P!Init
  BY SameStore DEF Init
<1>2. StoreInv
  BY <1>1, StoreAssumed, P!InitType, P!InitSound DEF StoreInv
<1>3. Shape
  BY <1>1, FreshFine DEF Shape
<1>4. \A c \in Conn : conn[c] = Fresh
  BY <1>1
<1>5. AllFine /\ Serving
  BY <1>4, FreshFine DEF AllFine, Serving
<1> QED BY <1>1, <1>2, <1>3, <1>5 DEF Inv

LEMMA NextStoreInv == Inv /\ [Next]_vars => StoreInv'
<1> SUFFICES ASSUME Inv, [Next]_vars PROVE StoreInv'
  OBVIOUS
<1>1. [P!Next]_(P!vars)
  <2>1. CASE S!Next
    BY <2>1, SameStore
  <2>2. CASE UNCHANGED S!vars
    BY <2>2 DEF S!vars, P!vars
  <2> QED BY <2>1, <2>2, StoreMoves
<1>2. P!TypeOK /\ P!IndexSound
  BY DEF Inv, StoreInv
<1> QED BY <1>1, <1>2, StoreAssumed, P!NextType, P!NextSound DEF StoreInv

\* One handler moves, and requests are served only once everything is loaded.
LEMMA OneServing ==
  ASSUME Inv, NEW c \in Conn, NEW t, conn' = [conn EXCEPT ![c] = t], todo' = todo,
         t.pc # "idle" => S!Loaded
  PROVE  Serving'
<1>1. S!Loaded' <=> S!Loaded
  BY DEF S!Loaded
<1>2. conn'[c] = t /\ \A d \in Conn : d # c => conn'[d] = conn[d]
  BY OneMoves DEF Inv
<1> QED BY <1>1, <1>2 DEF Inv, Serving

LEMMA NextInv == Inv /\ [Next]_vars => Inv'
<1> SUFFICES ASSUME Inv, [Next]_vars PROVE Inv'
  OBVIOUS
<1>0. StoreInv'
  BY NextStoreInv
\* The handlers do not move.
<1>1. ASSUME UNCHANGED <<conn, err>>, up' \in BOOLEAN,
             todo' = todo \/ \A c \in Conn : conn[c].pc = "idle"
      PROVE  Inv'
  <2>1. Shape' /\ AllFine'
    BY <1>1 DEF Inv, Shape, AllFine, Fine, Handlers, S!Obj
  <2>2. Serving'
    BY <1>1 DEF Inv, Serving, S!Loaded
  <2> QED BY <1>0, <1>1, <2>1, <2>2 DEF Inv
<1>2. CASE LoadFile
  <2>1. ~S!Loaded /\ UNCHANGED <<conn, err, up>>
    BY <1>2 DEF LoadFile, S!LoadFile
  <2>2. \A c \in Conn : conn[c].pc = "idle"
    BY <2>1 DEF Inv, Serving
  <2> QED BY <1>1, <2>1, <2>2 DEF Inv
<1>3. ASSUME NEW c \in Conn, Step(c) PROVE Inv'
  <2>1. PICK t : Goes(c, t)
    BY <1>3, StepGoes
  <2>2. todo' = todo /\ up' = up /\ conn[c].pc # "idle" /\ err' \in {Nil, "error"}
    BY <1>3, StepFrame
  <2>3. S!Loaded
    BY <2>2 DEF Inv, Serving
  <2>4. Shape' /\ AllFine' /\ Serving'
    BY <2>1, <2>2, <2>3, OneFine, OneServing DEF Goes
  <2> QED BY <1>0, <2>2, <2>4 DEF Inv
<1>4. ASSUME NEW c \in Conn, Finish(c) \/ \E r \in Requests[c] : Accept(c, r) PROVE Inv'
  <2>1. PICK t : Goes(c, t)
    BY <1>4, FreshGoes
  <2>2. todo' = todo /\ up' = up /\ err' = err /\ (conn[c].pc # "idle" \/ S!Loaded)
    BY <1>4 DEF Finish, Accept, server
  <2>3. S!Loaded
    BY <2>2 DEF Inv, Serving
  <2>4. Shape' /\ AllFine' /\ Serving'
    BY <2>1, <2>2, <2>3, OneFine, OneServing DEF Goes
  <2> QED BY <1>0, <2>2, <2>4 DEF Inv
<1>5. ASSUME NEW c \in Conn, MapRace(c) PROVE Inv'
  BY <1>1, <1>5 DEF MapRace, server
<1>6. CASE Restart
  <2>1. conn' = [c \in Conn |-> Fresh] /\ err' = Nil /\ up' = TRUE
    BY <1>6 DEF Restart
  <2>2. Shape'
    BY <2>1, FreshFine DEF Shape, Handlers, S!Obj
  <2>3. \A c \in Conn : conn'[c] = Fresh
    BY <2>1
  <2>4. \A c \in Conn : Fine(c, Fresh)
    BY FreshFine
  <2>5. AllFine'
    BY <2>3, <2>4 DEF AllFine, Fine, Handlers, S!Obj
  <2>6. Serving'
    BY <2>3, FreshFine DEF Serving
  <2> QED BY <1>0, <2>1, <2>2, <2>5, <2>6 DEF Inv
<1>7. CASE UNCHANGED vars
  BY <1>1, <1>7 DEF vars, Inv
<1> QED BY <1>2, <1>3, <1>4, <1>5, <1>6, <1>7 DEF Next

LEMMA InvHolds == Spec => []Inv
BY InitInv, NextInv, PTL DEF Spec

\* The handlers' program counters, pointers and answers stay in range, a
\* request is held exactly by a busy handler, and a handler about to marshal,
\* delete or flag has a pointer: none of them dereferences nil.
THEOREM TypeCorrect == Spec => []TypeOK
<1>1. Inv => TypeOK
  <2> SUFFICES ASSUME Inv PROVE TypeOK
    OBVIOUS
  <2>1. conn \in [Conn -> Handlers] /\ err \in {Nil, "error"} /\ up \in BOOLEAN
    BY DEF Inv, Shape
  <2>2. ASSUME NEW c \in Conn
        PROVE  /\ conn[c].req = Nil <=> conn[c].pc = "idle"
               /\ conn[c].pc \in {"marshal", "forget", "flag"} => conn[c].obj # Nil
               /\ conn[c].body = "one" => conn[c].obj # Nil
    BY StepTypes DEF Fine
  <2> QED BY <2>1, <2>2 DEF TypeOK, Handlers
<1> QED BY <1>1, InvHolds, PTL

\* Whatever the handlers of any number of connections do, the store behind
\* the API only makes the steps of Store.
THEOREM ApiImplementsStore == Spec => ImplementsStore
<1>1. Init => S!Init
  BY DEF Init
<1>2. Inv /\ [Next]_vars => [S!Next]_(S!vars)
  BY StoreMoves
<1> QED BY <1>1, <1>2, InvHolds, PTL DEF Spec, ImplementsStore, S!Spec

-----------------------------------------------------------------------------
(* Who may change the store *)

\* A restart before anything was put changes nothing.
LEMMA NothingMade ==
  ASSUME StoreInv, ver = 0
  PROVE  /\ manifests = [i \in ID |-> Nil]
         /\ ip = [a \in IP |-> Nil]
         /\ mac = [x \in MAC |-> Nil]
         /\ suspended = {}
<1>1. \A o \in P!Live : o \in P!Obj /\ o.ver <= 0
  BY StoreAssumed, P!LiveObj DEF StoreInv, P!TypeOK
<1>2. P!Live = {}
  BY <1>1, StoreAssumed DEF P!Obj, P!FilesAssumption
<1>3. /\ \A i \in ID : manifests[i] = Nil
      /\ \A a \in IP : ip[a] = Nil
      /\ \A x \in MAC : mac[x] = Nil
  BY <1>2 DEF P!Live, P!Served
<1>4. suspended = {}
  BY DEF StoreInv, P!TypeOK
<1> QED BY <1>3, <1>4 DEF StoreInv, P!TypeOK

PermittedStep ==
  up' /\ S!Loaded' /\ todo' = todo /\ ver' >= ver =>
      \/ UNCHANGED <<manifests, ip, mac, suspended>>
      \/ \E c \in Conn :
           /\ conn'[c] # conn[c]
           /\ LET r == conn[c].req
              IN \/ r.route \in {"put", "delete"} /\ r.auth = Authorization
                 \/ /\ r.route \in {"suspend", "unsuspend"}
                    /\ UNCHANGED <<manifests, ip, mac>>
                    /\ r.spoof # Nil => r.auth = Authorization
                    /\ conn[c].obj.man.ip = HostIP(r)

LEMMA PutStorePermitted ==
  ASSUME Inv, NEW c \in Conn, PutStore(c)
  PROVE  PermittedStep
<1>1. conn[c].pc = "put" /\ conn[c].req.route = "put"
  BY DEF PutStore, At
<1>2. Permitted(conn[c].req)
  BY <1>1, StepTypes DEF Fine
<1>3. conn'[c].pc = "stored"
  BY DEF PutStore, Inv, Shape, Handlers
<1>4. conn[c].req.auth = Authorization
  BY <1>1, <1>2 DEF Permitted, Privileged, Manage
<1> QED BY <1>1, <1>3, <1>4 DEF PermittedStep

LEMMA ChangePermitted ==
  ASSUME Inv, NEW c \in Conn, DeleteForget(c) \/ FlagWrite(c)
  PROVE  PermittedStep
<1> DEFINE s == conn[c]
           r == conn[c].req
<1>1. PICK t : Goes(c, t) /\ t.pc = "done"
  BY ChangeGoes
<1>2. conn'[c].pc = "done"
  BY <1>1, OneMoves DEF Goes, Inv
<1>3. Fine(c, s)
  BY StepTypes
<1>4. CASE DeleteForget(c)
  <2>1. s.pc = "forget" /\ r.route = "delete"
    BY <1>4 DEF DeleteForget, At
  <2>2. Permitted(r)
    BY <1>3, <2>1 DEF Fine
  <2>3. r.auth = Authorization
    BY <2>1, <2>2 DEF Permitted, Privileged, Manage
  <2>4. conn'[c] # conn[c]
    BY <1>2, <2>1
  <2> QED BY <2>1, <2>3, <2>4 DEF PermittedStep
<1>5. CASE FlagWrite(c)
  <2>1. s.pc = "flag" /\ r.route \in {"suspend", "unsuspend"}
    BY <1>5 DEF FlagWrite, At
  <2>2. Permitted(r) /\ s.obj.man.ip = HostIP(r)
    BY <1>3, <2>1 DEF Fine
  <2>3. r.spoof # Nil => r.auth = Authorization
    BY <2>2 DEF Permitted, Privileged
  <2>4. conn'[c] # conn[c]
    BY <1>2, <2>1
  <2>5. UNCHANGED <<manifests, ip, mac>>
    BY <1>5 DEF FlagWrite, S!WriteSuspended
  <2> QED BY <2>1, <2>2, <2>3, <2>4, <2>5 DEF PermittedStep
<1> QED BY <1>4, <1>5

\* Every step of the handlers that is not one of the three that change the
\* store leaves it alone.
LEMMA StepServer ==
  ASSUME NEW c \in Conn, Step(c)
  PROVE  PutStore(c) \/ DeleteForget(c) \/ FlagWrite(c) \/ UNCHANGED server
BY DEF Step, Forbidden, GetFind, ListAll, SelfManifest, Marshal, Marshalled, PutDecode,
       PutDecoded, PutAssign, PutAssigned, Report, DeleteLookup, FlagLookup

LEMMA NextPermitted == Inv /\ [Next]_vars => PermittedStep
<1> SUFFICES ASSUME Inv, [Next]_vars PROVE PermittedStep
  OBVIOUS
<1>1. CASE LoadFile
  <2>1. todo' = todo + 1 /\ todo \in Nat
    BY <1>1, StoreAssumed DEF LoadFile, S!LoadFile, Inv, StoreInv, P!TypeOK
  <2> QED BY <2>1 DEF PermittedStep
<1>2. ASSUME UNCHANGED server PROVE PermittedStep
  BY <1>2 DEF PermittedStep, server
<1>3. ASSUME NEW c \in Conn, Step(c) PROVE PermittedStep
  BY <1>2, <1>3, StepServer, PutStorePermitted, ChangePermitted
<1>4. CASE Restart
  <2>1. /\ manifests' = [i \in ID |-> Nil] /\ ip' = [a \in IP |-> Nil]
        /\ mac' = [x \in MAC |-> Nil] /\ suspended' = {} /\ ver' = 0
    BY <1>4 DEF Restart, S!Restart
  <2>2. CASE ver = 0
    <3>1. UNCHANGED <<manifests, ip, mac, suspended>>
      BY <2>1, <2>2, NothingMade DEF Inv
    <3> QED BY <3>1 DEF PermittedStep
  <2>3. CASE ver # 0
    <3>1. ver \in Nat
      BY StoreAssumed DEF Inv, StoreInv, P!TypeOK, P!FilesAssumption
    <3> QED BY <2>1, <2>3, <3>1 DEF PermittedStep
  <2> QED BY <2>2, <2>3
<1> QED BY <1>1, <1>2, <1>3, <1>4 DEF Next, Finish, Accept, MapRace, vars, server

\* Once the directory is loaded, registered manifests change only while a PUT
\* or DELETE that presented the configured Authorization is served, and a
\* Suspended flag only for the address the caller has or may speak for:
\* however the check at the start of a handler and its later steps interleave
\* with the other handlers.
THEOREM OnlyPermittedChanges == Spec => OnlyPermittedChange
<1>1. Inv /\ [Next]_vars => [PermittedStep]_vars
  BY NextPermitted
<1> QED BY <1>1, InvHolds, PTL DEF Spec, OnlyPermittedChange, PermittedStep

-----------------------------------------------------------------------------
(* What holds while handlers do not share err *)

\* Only one connection sends requests whose handlers assign to NewServer's
\* err: no second such request is under way at any time.
Unshared ==
  \A c, d \in Conn :
    (\E r \in Requests[c] : r.route \in UsesErr) /\ (\E r \in Requests[d] : r.route \in UsesErr)
      => c = d

AllHonest == \A c \in Conn : Honest(conn[c], err)

\* The handlers of the other requests do not look at err.
LEMMA ErrUnread ==
  ASSUME NEW c, NEW s, Fine(c, s), s.pc = "idle" \/ s.req.route \notin UsesErr,
         NEW e, NEW f, Honest(s, e)
  PROVE  Honest(s, f)
BY DEF Fine, Honest, UsesErr

LEMMA ErrAssigned ==
  ASSUME Inv, NEW c \in Conn, Step(c)
  PROVE  err' = err \/ conn[c].req.route \in UsesErr
<1>1. \/ err' = err \/ Marshal(c) \/ PutDecode(c) \/ PutAssign(c)
  BY DEF Step, Forbidden, GetFind, ListAll, SelfManifest, Marshalled, PutDecoded, PutStore,
         PutAssigned, Report, DeleteLookup, DeleteForget, FlagLookup, FlagWrite
<1>2. CASE Marshal(c)
  <2>1. conn[c].pc \in {"marshal", "iterate"}
    BY <1>2 DEF Marshal
  <2> QED BY <2>1, StepTypes DEF Fine, UsesErr
<1>3. CASE PutDecode(c) \/ PutAssign(c)
  BY <1>3 DEF PutDecode, PutAssign, Enter, At, UsesErr
<1> QED BY <1>1, <1>2, <1>3

LEMMA InitHonest == Init => AllHonest
<1> SUFFICES ASSUME Init PROVE AllHonest
  OBVIOUS
<1>1. \A c \in Conn : conn[c] = Fresh
  BY DEF Init
<1> QED BY <1>1, FreshFine DEF AllHonest

\* The handler of c moves, and err changes only if no other handler has a
\* use for it.
LEMMA OneHonest ==
  ASSUME Inv, AllHonest, NEW c \in Conn, NEW t, Goes(c, t),
         \A d \in Conn : d # c =>
           err' = err \/ conn[d].pc = "idle" \/ conn[d].req.route \notin UsesErr
  PROVE  AllHonest'
<1>1. conn'[c] = t /\ \A d \in Conn : d # c => conn'[d] = conn[d]
  BY OneMoves DEF Inv, Goes
<1>2. Honest(t, err')
  BY DEF AllHonest, Goes
<1>3. ASSUME NEW d \in Conn, d # c PROVE Honest(conn[d], err')
  <2>1. Honest(conn[d], err) /\ Fine(d, conn[d])
    BY StepTypes DEF AllHonest
  <2> QED BY <1>3, <2>1, ErrUnread
<1>4. \A d \in Conn : Honest(conn'[d], err')
  BY <1>1, <1>2, <1>3
<1> QED BY <1>4 DEF AllHonest, Honest, Permitted, Privileged, S!Rejected

LEMMA NextHonest ==
  ASSUME Unshared
  PROVE  Inv /\ AllHonest /\ [Next]_vars => AllHonest'
<1> SUFFICES ASSUME Inv, AllHonest, [Next]_vars PROVE AllHonest'
  OBVIOUS
<1>1. ASSUME UNCHANGED <<conn, err>> PROVE AllHonest'
  BY <1>1 DEF AllHonest, Honest, Permitted, Privileged, S!Rejected
<1>2. ASSUME NEW c \in Conn, Step(c) PROVE AllHonest'
  <2>1. PICK t : Goes(c, t)
    BY <1>2, StepGoes
  <2>2. conn[c].req \in Requests[c]
    BY <1>2, StepFrame, StepTypes
  <2>3. ASSUME NEW d \in Conn, d # c
        PROVE  err' = err \/ conn[d].pc = "idle" \/ conn[d].req.route \notin UsesErr
    BY <1>2, <2>2, <2>3, ErrAssigned, StepTypes DEF Unshared
  <2> QED BY <2>1, <2>3, OneHonest
<1>3. ASSUME NEW c \in Conn, Finish(c) \/ \E r \in Requests[c] : Accept(c, r)
      PROVE  AllHonest'
  <2>1. PICK t : Goes(c, t)
    BY <1>3, FreshGoes
  <2>2. err' = err
    BY <1>3 DEF Finish, Accept
  <2> QED BY <2>1, <2>2, OneHonest
<1>4. CASE Restart
  <2>1. \A c \in Conn : conn'[c] = Fresh
    BY <1>4 DEF Restart
  <2>2. \A c \in Conn : Honest(conn'[c], err')
    BY <2>1, FreshFine
  <2> QED BY <2>2 DEF AllHonest, Honest, Permitted, Privileged, S!Rejected
<1> QED BY <1>1, <1>2, <1>3, <1>4 DEF Next, LoadFile, MapRace, vars

LEMMA HonestHolds ==
  ASSUME Unshared
  PROVE  Spec => []AllHonest
<1>1. Inv /\ AllHonest /\ [Next]_vars => AllHonest'
  BY NextHonest
<1> QED BY <1>1, InitHonest, InvHolds, PTL DEF Spec

\* A PUT is answered 201 exactly when its manifest was decoded and stored,
\* 400 when it was not and 403 when it was not allowed, as long as only one
\* connection uses err at a time.
THEOREM PutHonest ==
  ASSUME Unshared
  PROVE  Spec => []PutAnswerHonest
<1>1. AllHonest => PutAnswerHonest
  BY DEF AllHonest, Honest, PutAnswerHonest
<1> QED BY <1>1, HonestHolds, PTL

\* A GET that is answered 200 carries the manifest of the ID asked for, or
\* the whole dictionary, and is never answered with a dropped connection, as
\* long as only one connection uses err at a time.
THEOREM GetHonest ==
  ASSUME Unshared
  PROVE  Spec => []GetAnswerHonest
<1>1. Inv /\ AllHonest => GetAnswerHonest
  <2> SUFFICES ASSUME Inv, AllHonest, NEW c \in Conn, conn[c].pc = "done",
                      conn[c].req.route \in {"get", "list"}
               PROVE  /\ conn[c].status \in {200, 403, 404, 500}
                      /\ conn[c].status = 200 =>
                           \/ conn[c].body = "one" /\ conn[c].obj.man.id = conn[c].req.id
                           \/ conn[c].body = "all" /\ conn[c].req.route = "list"
    BY DEF GetAnswerHonest
  <2>1. Honest(conn[c], err) /\ Fine(c, conn[c])
    BY StepTypes DEF AllHonest
  <2>2. /\ conn[c].status \in {200, 403, 404, 500}
        /\ conn[c].status = 200 => conn[c].body \in {"one", "all"}
    BY <2>1 DEF Honest
  <2>3. /\ conn[c].body = "one" => conn[c].obj.man.id = conn[c].req.id
        /\ conn[c].body = "all" => conn[c].req.route \in {"list", "self"}
    BY <2>1 DEF Fine
  <2> QED BY <2>2, <2>3
<1> QED BY <1>1, InvHolds, HonestHolds, PTL

-----------------------------------------------------------------------------
(* Only valid manifests are stored *)

LEMMA PutServed ==
  ASSUME StoreInv, OnlyValidServed, NEW m \in Inputs, m.valid, S!PutManifest(m)
  PROVE  OnlyValidServed'
<1>1. CASE S!Rejected(m)
  BY <1>1 DEF S!PutManifest, S!store, OnlyValidServed, S!Served
<1>2. CASE ~S!Rejected(m)
  <2> DEFINE o == [ver |-> ver + 1, man |-> m]
  <2>1. o.man.valid
    OBVIOUS
  <2>2. S!Insert(m, o)
    BY <1>2 DEF S!PutManifest
  <2> HIDE DEF o
  <2>3. \A x \in S!Served' : x \in S!Served \/ x = o
    BY <2>2 DEF S!Insert, S!Served, StoreInv, P!TypeOK
  <2> QED BY <2>1, <2>3 DEF OnlyValidServed
<1> QED BY <1>1, <1>2

LEMMA NextValid ==
  ASSUME Inv, AllHonest, OnlyValidServed, [Next]_vars
  PROVE  OnlyValidServed'
<1>1. ASSUME S!Served' \subseteq S!Served PROVE OnlyValidServed'
  BY <1>1 DEF OnlyValidServed
<1>2. ASSUME UNCHANGED <<manifests, ip, mac>> PROVE OnlyValidServed'
  BY <1>1, <1>2 DEF S!Served
<1>3. CASE LoadFile
  <2>1. CASE Files[todo].ok
    <3>1. S!PutManifest(Files[todo].man)
      BY <1>3, <2>1 DEF LoadFile, S!LoadFile
    <3>2. todo \in DOMAIN Files /\ Files[todo].man \in Inputs
      <4>1. todo \in 1..Len(Files) /\ Files \in Seq([ok : BOOLEAN, man : Inputs])
        BY <1>3, StoreAssumed
        DEF LoadFile, S!LoadFile, S!Loaded, Inv, StoreInv, P!TypeOK, P!FilesAssumption
      <4>2. DOMAIN Files = 1..Len(Files)
        BY <4>1
      <4>3. Files[todo] \in [ok : BOOLEAN, man : Inputs]
        BY <4>1, ElementOfSeq
      <4> QED BY <4>1, <4>2, <4>3
    <3>3. Files[todo].man.valid
      BY <2>1, <3>2, RequestsAssumption
    <3> QED BY <3>1, <3>2, <3>3, PutServed DEF Inv
  <2>2. CASE ~Files[todo].ok
    BY <1>2, <1>3, <2>2 DEF LoadFile, S!LoadFile, S!store
  <2> QED BY <2>1, <2>2
<1>4. ASSUME NEW c \in Conn, PutStore(c) PROVE OnlyValidServed'
  <2> DEFINE r == conn[c].req
  <2>1. conn[c].pc = "put" /\ r.route = "put" /\ S!PutManifest(r.man)
    BY <1>4 DEF PutStore, At
  <2>2. r.ok /\ r \in Requests[c]
    BY <2>1, StepTypes DEF AllHonest, Honest
  <2>3. r.man \in Inputs /\ r.man.valid
    BY <2>1, <2>2, RequestsAssumption
  <2> HIDE DEF r
  <2> QED BY <2>1, <2>3, PutServed DEF Inv
<1>5. ASSUME NEW c \in Conn, DeleteForget(c) PROVE OnlyValidServed'
  <2>1. PICK o : S!Remove(o)
    BY <1>5 DEF DeleteForget
  <2>2. S!Served' \subseteq S!Served
    BY <2>1 DEF S!Remove, S!Served, Inv, StoreInv, P!TypeOK
  <2> QED BY <1>1, <2>2
<1>6. ASSUME NEW c \in Conn, FlagWrite(c) PROVE OnlyValidServed'
  BY <1>2, <1>6 DEF FlagWrite, S!WriteSuspended
<1>7. CASE Restart
  BY <1>7 DEF Restart, S!Restart, S!Served, OnlyValidServed
<1>8. CASE UNCHANGED server
  BY <1>2, <1>8 DEF server
<1> QED BY <1>3, <1>4, <1>5, <1>6, <1>7, <1>8, StepServer
        DEF Next, Accept, Finish, MapRace, vars, server

\* Whatever lookups can return was decoded and validated without error, from
\* a file or from a PUT, as long as only one connection uses err at a time.
THEOREM ValidServed ==
  ASSUME Unshared
  PROVE  Spec => []OnlyValidServed
<1>1. Init => OnlyValidServed
  BY DEF Init, S!Init, S!Empty, OnlyValidServed, S!Served
<1>2. Inv /\ AllHonest /\ OnlyValidServed /\ [Next]_vars => OnlyValidServed'
  BY NextValid
<1> QED BY <1>1, <1>2, InvHolds, HonestHolds, PTL DEF Spec
=============================================================================
