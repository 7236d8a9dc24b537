-------------------------------- MODULE Api --------------------------------
(***************************************************************************)
(* The HTTP API server (api/server.go) on top of the store.                *)
(*                                                                         *)
(* net/http serves each connection in a goroutine of its own; conn[c] is   *)
(* the handler goroutine of connection c: its program counter, the request *)
(* it serves, the pointer a lookup gave it, the outcome of its own last    *)
(* call, and its response.  All handlers are closures of NewServer and     *)
(* assign the results of decoding, storing and marshalling to NewServer's  *)
(* named result `err', which is therefore ONE variable shared by all       *)
(* goroutines: assignment, test and the later err.Error() are separate     *)
(* steps.  GetAll hands out the live map, which json/yaml then walk        *)
(* without the store's mutex; the Go runtime aborts the process when it    *)
(* notices a map write during such a walk.                                 *)
(***************************************************************************)
EXTENDS Naturals, Sequences, FiniteSets

CONSTANTS ID, IP, MAC, Nil, Inputs, Files, MaxPuts,   \* see Store
          Conn,            \* client connections
          Requests,        \* Requests[c]: what the client of c may send
          Authorization,   \* api.authorization of the configuration
          BadIP            \* an address net.ParseIP refuses

VARIABLES manifests, ip, mac, suspended, ver, todo,   \* see Store
          conn,            \* handler goroutines
          err,             \* NewServer's err: Nil or "error"
          up               \* the process runs

server == <<manifests, ip, mac, suspended, ver, todo>>
vars == <<manifests, ip, mac, suspended, ver, todo, conn, err, up>>

\* What goroutine c carries between two critical sections of the store.
CallOf(c) ==
  CASE conn[c].pc = "forget" -> [op |-> "forget", obj |-> conn[c].obj]
    [] conn[c].pc = "flag" -> [op |-> conn[c].req.route, obj |-> conn[c].obj]
    [] OTHER -> [op |-> "idle", obj |-> Nil]

S == INSTANCE Store WITH Caller <- Conn, call <- [c \in Conn |-> CallOf(c)]

ASSUME StoreAssumption == S!InputsAssumption /\ S!FilesAssumption /\ S!NilAssumption

Manage == {"get", "list", "put", "delete"}
Self == {"suspend", "unsuspend", "self"}

\* id: {id} of the URL; auth: the Authorization header; spoof: the query
\* parameter (Nil if absent); remote: the peer's address; json: the encoding
\* asked for; man: what decoding the body leaves in m, ok: with no error.
Request == [route : Manage \cup Self, id : ID, auth : {Authorization, "other"},
            spoof : IP \cup {Nil, BadIP}, remote : IP \cup {BadIP},
            json : BOOLEAN, man : Inputs \cup {Nil}, ok : BOOLEAN]

\* Decoding leaves some manifest in m; one that decodes with no error has
\* passed Validate, in a request as in a file.
ASSUME RequestsAssumption ==
  /\ \A c \in Conn : /\ Nil \notin Requests[c]
                     /\ Requests[c] \subseteq Request
                     /\ \A r \in Requests[c] :
                          r.route = "put" => r.man \in Inputs /\ (r.ok => r.man.valid)
  /\ \A k \in DOMAIN Files : Files[k].ok => Files[k].man.valid
  /\ Nil # "error"

\* A response carries the manifest in obj ("one"), the dictionary ("all"), what
\* a failed marshalling left in b ("empty"), or just a text ("none").
Body == {"none", "one", "all", "empty"}

PC == {"idle", "start", "marshal", "iterate", "marshalled", "parsed", "put",
       "stored", "assigned", "forget", "flag", "report", "done"}

Fresh == [pc |-> "idle", req |-> Nil, obj |-> Nil, res |-> Nil,
          status |-> 0, body |-> "none"]

-----------------------------------------------------------------------------
(* Helpers of the handlers *)

\* Mutant of Privileged: anyone may spoof.
PrivilegedNoSpoof(r) == r.route \in Manage

\* The management routes always compare the header, the self routes only
\* when the caller speaks for another host.
Privileged(r) == r.route \in Manage \/ r.spoof # Nil
Permitted(r) == Privileged(r) => r.auth = Authorization

HostIP(r) == IF r.spoof # Nil THEN r.spoof ELSE r.remote

\* Goroutine c moves to program counter p.
Goto(c, p) == conn' = [conn EXCEPT ![c].pc = p]

Reply(c, status, body) ==
  conn' = [conn EXCEPT ![c].pc = "done", ![c].status = status, ![c].body = body]

Keep(c, p, o) == conn' = [conn EXCEPT ![c].pc = p, ![c].obj = o]

\* c is at p serving one of the routes, and the process is running.
At(c, p, routes) == up /\ conn[c].pc = p /\ conn[c].req.route \in routes

\* c enters the body of its handler, the authorization check passed.
Enter(c, routes) == At(c, "start", routes) /\ Permitted(conn[c].req)

-----------------------------------------------------------------------------
(* Requests come in and are refused *)

\* Manifests still to be stored by requests under way (keeps MaxPuts from
\* blocking a handler half way).
PendingPuts == {c \in Conn : /\ conn[c].pc \in {"start", "parsed", "put"}
                             /\ conn[c].req.route = "put"}

Accept(c, r) ==
  /\ up /\ S!Loaded
  /\ conn[c].pc = "idle"
  /\ r.route = "put" => ver + Cardinality(PendingPuts) < MaxPuts
  /\ conn' = [conn EXCEPT ![c] = [Fresh EXCEPT !.pc = "start", !.req = r]]
  /\ UNCHANGED <<server, err, up>>

Forbidden(c) ==
  /\ At(c, "start", Manage \cup Self)
  /\ ~Permitted(conn[c].req)
  /\ Reply(c, 403, "none")
  /\ UNCHANGED <<server, err, up>>

-----------------------------------------------------------------------------
(* GET /api/manifests/{id}, GET /api/manifests, GET /api/self/manifest *)

\* Mutant of GetFind: the test for nil is missing.
GetFindUnchecked(c) ==
  /\ Enter(c, {"get"})
  /\ Keep(c, "marshal", S!Find(conn[c].req.id))
  /\ UNCHANGED <<server, err, up>>

GetFind(c) ==
  /\ Enter(c, {"get"})
  /\ LET m == S!Find(conn[c].req.id)
     IN IF m = Nil THEN Reply(c, 404, "none") ELSE Keep(c, "marshal", m)
  /\ UNCHANGED <<server, err, up>>

\* GetAll returns the map itself.
ListAll(c) ==
  /\ Enter(c, {"list"})
  /\ Goto(c, "iterate")
  /\ UNCHANGED <<server, err, up>>

\* FindByIP for the self routes: 500 for an address that does not parse, 404
\* for an unknown one, otherwise on to next with the pointer.
SelfLookup(c, next) ==
  LET a == HostIP(conn[c].req)
  IN IF a = BadIP THEN Reply(c, 500, "none")
     ELSE IF S!FindByIP(a) = Nil THEN Reply(c, 404, "none")
     ELSE Keep(c, next, S!FindByIP(a))

\* The handler looks its manifest up but then marshals GetAll().
SelfManifest(c) ==
  /\ Enter(c, {"self"})
  /\ SelfLookup(c, "iterate")
  /\ UNCHANGED <<server, err, up>>

\* encoding/json refuses nested YAML mappings in Manifest.Vars.
MarshalFails(c, objs) == conn[c].req.json /\ \E o \in objs : ~o.man.json

\* b, err = Marshal(...): one manifest, or a walk of the whole map.
Marshal(c) ==
  /\ up /\ conn[c].pc \in {"marshal", "iterate"}
  /\ LET one == conn[c].pc = "marshal"
         objs == IF one THEN {conn[c].obj}
                 ELSE {manifests[i] : i \in ID} \ {Nil}
         fails == MarshalFails(c, objs)
     IN /\ err' = IF fails THEN "error" ELSE Nil
        /\ conn' = [conn EXCEPT
             ![c].pc = "marshalled",
             ![c].body = IF fails THEN "empty"
                         ELSE IF one THEN "one" ELSE "all"]
  /\ UNCHANGED <<server, up>>

\* Mutant of Marshalled: err is not tested.
MarshalledUnchecked(c) ==
  /\ up /\ conn[c].pc = "marshalled"
  /\ Reply(c, 200, conn[c].body)
  /\ UNCHANGED <<server, err, up>>

\* if err != nil { 500 } else { 200, b }
Marshalled(c) ==
  /\ up /\ conn[c].pc = "marshalled"
  /\ IF err = Nil THEN Reply(c, 200, conn[c].body) ELSE Goto(c, "report")
  /\ UNCHANGED <<server, err, up>>

-----------------------------------------------------------------------------
(* PUT /api/manifests/{id}: the ID of the URL is not looked at *)

\* m, err = ManifestFromJson/ManifestFromYaml, Validate included.
PutDecode(c) ==
  /\ Enter(c, {"put"})
  /\ err' = IF conn[c].req.ok THEN Nil ELSE "error"
  /\ Goto(c, "parsed")
  /\ UNCHANGED <<server, up>>

\* Mutant of PutDecoded: err is not tested.
PutDecodedUnchecked(c) ==
  /\ At(c, "parsed", {"put"})
  /\ Goto(c, "put")
  /\ UNCHANGED <<server, err, up>>

PutDecoded(c) ==
  /\ At(c, "parsed", {"put"})
  /\ Goto(c, IF err = Nil THEN "put" ELSE "report")
  /\ UNCHANGED <<server, err, up>>

\* store.PutManifest(m) returns ...
PutStore(c) ==
  /\ At(c, "put", {"put"})
  /\ S!PutManifest(conn[c].req.man)
  /\ conn' = [conn EXCEPT
       ![c].pc = "stored",
       ![c].res = IF S!Rejected(conn[c].req.man) THEN "error" ELSE Nil]
  /\ UNCHANGED <<todo, err, up>>

\* ... and its result is assigned to err.
PutAssign(c) ==
  /\ At(c, "stored", {"put"})
  /\ err' = conn[c].res
  /\ Goto(c, "assigned")
  /\ UNCHANGED <<server, up>>

\* Mutant of PutAssigned: the result of PutManifest is not tested.
PutAssignedUnchecked(c) ==
  /\ At(c, "assigned", {"put"})
  /\ Reply(c, 201, "none")
  /\ UNCHANGED <<server, err, up>>

PutAssigned(c) ==
  /\ At(c, "assigned", {"put"})
  /\ IF err = Nil THEN Reply(c, 201, "none") ELSE Goto(c, "report")
  /\ UNCHANGED <<server, err, up>>

\* http.Error(w, ... + err.Error(), ...): err is read once more.  If it has
\* become nil the handler panics and net/http drops the connection (status 0).
Report(c) ==
  /\ up /\ conn[c].pc = "report"
  /\ Reply(c, IF err = Nil THEN 0
              ELSE IF conn[c].req.route = "put" THEN 400 ELSE 500, "none")
  /\ UNCHANGED <<server, err, up>>

-----------------------------------------------------------------------------
(* DELETE /api/manifests/{id}, /api/self/suspend-boot and unsuspend-boot *)

\* Mutant of DeleteLookup: no answer for an ID that does not exist.
DeleteLookupFound(c) ==
  /\ Enter(c, {"delete"})
  /\ S!Find(conn[c].req.id) # Nil
  /\ Keep(c, "forget", S!Find(conn[c].req.id))
  /\ UNCHANGED <<server, err, up>>

DeleteLookup(c) ==
  /\ Enter(c, {"delete"})
  /\ LET m == S!Find(conn[c].req.id)
     IN IF m = Nil THEN Reply(c, 204, "none") ELSE Keep(c, "forget", m)
  /\ UNCHANGED <<server, err, up>>

DeleteForget(c) ==
  /\ At(c, "forget", {"delete"})
  /\ S!Remove(conn[c].obj)
  /\ Reply(c, 204, "none")
  /\ UNCHANGED <<todo, err, up>>

FlagLookup(c) ==
  /\ Enter(c, {"suspend", "unsuspend"})
  /\ SelfLookup(c, "flag")
  /\ UNCHANGED <<server, err, up>>

FlagWrite(c) ==
  /\ At(c, "flag", {"suspend", "unsuspend"})
  /\ S!WriteSuspended(conn[c].obj, conn[c].req.route = "suspend")
  /\ Reply(c, 200, "none")
  /\ UNCHANGED <<todo, err, up>>

-----------------------------------------------------------------------------
(* The process *)

\* The response is on the wire; the connection may carry another request.
Finish(c) ==
  /\ up /\ conn[c].pc = "done"
  /\ conn' = [conn EXCEPT ![c] = Fresh]
  /\ UNCHANGED <<server, err, up>>

LoadFile ==
  /\ up
  /\ UNCHANGED <<conn, err, up>>
  /\ S!LoadFile

\* Goroutine c writes store.manifests while another walks it: the runtime
\* may notice and abort the process.
Writing(c) ==
  \/ conn[c].pc = "put" /\ ~S!Rejected(conn[c].req.man)
  \/ conn[c].pc = "forget"

MapRace(c) ==
  /\ up /\ Writing(c)
  /\ \E d \in Conn : conn[d].pc = "iterate"
  /\ up' = FALSE
  /\ UNCHANGED <<server, conn, err>>

\* The operator starts (or restarts) the daemon.
Restart ==
  /\ conn' = [c \in Conn |-> Fresh]
  /\ err' = Nil
  /\ up' = TRUE
  /\ S!Restart

Init ==
  /\ conn = [c \in Conn |-> Fresh]
  /\ err = Nil
  /\ up = TRUE
  /\ S!Init

\* One step of the handler of c.
Step(c) ==
  \/ Forbidden(c)
  \/ GetFind(c) \/ ListAll(c) \/ SelfManifest(c) \/ Marshal(c) \/ Marshalled(c)
  \/ PutDecode(c) \/ PutDecoded(c) \/ PutStore(c) \/ PutAssign(c) \/ PutAssigned(c)
  \/ Report(c)
  \/ DeleteLookup(c) \/ DeleteForget(c)
  \/ FlagLookup(c) \/ FlagWrite(c)

Next ==
  \/ LoadFile
  \/ \E c \in Conn : \E r \in Requests[c] : Accept(c, r)
  \/ \E c \in Conn : Step(c)
  \/ \E c \in Conn : Finish(c)
  \/ \E c \in Conn : MapRace(c)
  \/ Restart

Spec == Init /\ [][Next]_vars

\* The Go scheduler runs every runnable goroutine eventually; nothing makes a
\* client send a request or an operator restart the daemon.
FairSpec == Spec /\ \A c \in Conn : WF_vars(Step(c))

-----------------------------------------------------------------------------
(* Properties *)

\* Type invariant of the handlers; a pointer is held exactly where a handler
\* needs one.
TypeOK ==
  /\ conn \in [Conn -> [pc : PC, req : Request \cup {Nil}, obj : S!Obj \cup {Nil},
                        res : {Nil, "error"},
                        status : {0, 200, 201, 204, 400, 403, 404, 500},
                        body : Body]]
  /\ err \in {Nil, "error"}
  /\ up \in BOOLEAN
  /\ \A c \in Conn : /\ conn[c].req = Nil <=> conn[c].pc = "idle"
                     /\ conn[c].pc \in {"marshal", "forget", "flag"} => conn[c].obj # Nil
                     /\ conn[c].body = "one" => conn[c].obj # Nil

\* Every step of the API server is a step of the store's callers or leaves
\* the store alone, so what is proved of Store holds of the store behind the
\* API: handlers reach the store only through its methods and through the
\* Suspended field.
ImplementsStore == S!Spec

\* api/server.go:28 "requires privileged operation callers to present
\* Authorization header with this content": whoever changes the registered
\* manifests presented the configured value in the request being served, and
\* a Suspended flag is only written for the caller's own address or by an
\* authorized spoof.
OnlyPermittedChange ==
  [][up' /\ S!Loaded' /\ todo' = todo /\ ver' >= ver =>
      \/ UNCHANGED <<manifests, ip, mac, suspended>>
      \/ \E c \in Conn :
           /\ conn'[c] # conn[c]
           /\ LET r == conn[c].req
              IN \/ r.route \in {"put", "delete"} /\ r.auth = Authorization
                 \/ /\ r.route \in {"suspend", "unsuspend"}
                    /\ UNCHANGED <<manifests, ip, mac>>
                    /\ r.spoof # Nil => r.auth = Authorization
                    /\ conn[c].obj.man.ip = HostIP(r)]_vars

\* README.md:180-181 of PUT /api/manifests/{id}: "201 Created on success",
\* "400 for malformed request (invalid manifest)".
PutAnswerHonest ==
  \A c \in Conn : conn[c].pc = "done" /\ conn[c].req.route = "put" =>
    conn[c].status = IF ~Permitted(conn[c].req) THEN 403
                     ELSE IF conn[c].req.ok /\ ~S!Rejected(conn[c].req.man)
                       THEN 201 ELSE 400

\* README.md:169-170 of GET /api/manifests/{id}: "200 for successful
\* response": a 200 carries the manifest with the ID asked for, and no
\* connection is dropped without an answer.
GetAnswerHonest ==
  \A c \in Conn : conn[c].pc = "done" /\ conn[c].req.route \in {"get", "list"} =>
    /\ conn[c].status \in {200, 403, 404, 500}
    /\ conn[c].status = 200 =>
         \/ conn[c].body = "one" /\ conn[c].obj.man.id = conn[c].req.id
         \/ conn[c].body = "all" /\ conn[c].req.route = "list"

\* Only manifests that decoded and validated without error are served.
OnlyValidServed == \A o \in S!Served : o.man.valid

\* README.md:156 of GET /api/manifests: "Returns a dictionary of all manifests
\* keyed by their ID."  Listing does not take the daemon down.
StaysUp == up

\* Every request gets an answer, or loses its connection to a restart or an
\* abort of the process.
EveryRequestAnswered ==
  \A c \in Conn : conn[c].pc = "start" ~> (conn[c].pc \in {"done", "idle"} \/ ~up)
=============================================================================
