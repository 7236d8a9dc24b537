----------------------------- MODULE StoreLocks -----------------------------
(***************************************************************************)
(* The methods of store/store.go one map statement at a time, with the     *)
(* sync.RWMutex that is to make each critical section look like the single *)
(* step it is in module Store.                                             *)
(*                                                                         *)
(* manifests, ip and mac are the maps in memory: between two statements of *)
(* PutManifest or ForgetManifest they disagree.  gs[g] is goroutine g: its *)
(* program counter, the call it makes, the pointer it found or puts, and   *)
(* the MAC addresses its loop has still to visit.                          *)
(***************************************************************************)
EXTENDS Naturals, FiniteSets

CONSTANTS ID, IP, MAC, Nil, Inputs, MaxPuts,   \* see Store
          Caller,         \* goroutines
          Calls           \* [op, arg]: the calls they make

\* What each method of the store is called with; a process has finitely many
\* goroutines.
ASSUME CallsAssumption ==
  /\ \A c \in Calls : \/ c.op = "put" /\ c.arg \in Inputs
                      \/ c.op \in {"find", "forget"} /\ c.arg \in ID
                      \/ c.op \in {"findByIP", "suspend", "unsuspend"} /\ c.arg \in IP
                      \/ c.op = "findByMAC" /\ c.arg \in MAC
                      \/ c.op = "getAll"
  /\ IsFiniteSet(Caller)
  /\ Nil \notin Caller

VARIABLES manifests, ip, mac, suspended, ver,  \* see Store
          gs,             \* the goroutines
          rw              \* Store.mutex

maps == <<manifests, ip, mac>>
vars == <<manifests, ip, mac, suspended, ver, gs, rw>>

Fresh == [pc |-> "idle", call |-> Nil, obj |-> Nil, left |-> {}]

PC == {"idle", "rlock", "blocked", "read", "runlock", "flag",
       "lock", "drain", "byID", "byIP", "byMAC"}

-----------------------------------------------------------------------------
(* How the maps look from outside the mutex *)

InSection(g) == gs[g].pc \in {"byID", "byIP", "byMAC"}
Writers == {g \in Caller : InSection(g)}

\* What g assigns to each key of its object: the object, or nothing.
Value(g) == IF gs[g].call.op = "put" THEN gs[g].obj ELSE Nil

\* The critical section of a writer counts as done when it is entered.
Settled(map, Writes(_, _)) ==
  [k \in DOMAIN map |->
     IF \E g \in Writers : Writes(g, k)
       THEN Value(CHOOSE g \in Writers : Writes(g, k))
       ELSE map[k]]

WritesID(g, i) == gs[g].obj.man.id = i
WritesIP(g, a) == gs[g].obj.man.ip = a
WritesMAC(g, x) == x \in gs[g].left

\* The pointer a ForgetManifest or a suspend handler carries to its second
\* half.
Carries(g) ==
  /\ gs[g].obj # Nil
  /\ \/ gs[g].call.op = "forget" /\ gs[g].pc \in {"runlock", "lock", "drain"}
     \/ gs[g].call.op \in {"suspend", "unsuspend"} /\ gs[g].pc \in {"runlock", "flag"}

CallOf(g) == IF Carries(g) THEN [op |-> gs[g].call.op, obj |-> gs[g].obj]
             ELSE [op |-> "idle", obj |-> Nil]

\* The maps once the writer, if there is one, is through.
byID == Settled(manifests, WritesID)
byIP == Settled(ip, WritesIP)
byMAC == Settled(mac, WritesMAC)

S == INSTANCE Store WITH manifests <- byID, ip <- byIP, mac <- byMAC,
                         call <- [g \in Caller |-> CallOf(g)],
                         Files <- <<>>, todo <- 1

ASSUME StoreAssumption == S!InputsAssumption /\ S!FilesAssumption /\ S!NilAssumption

-----------------------------------------------------------------------------
(* A call begins *)

At(g, p) == gs[g].pc = p
Goto(g, p) == gs' = [gs EXCEPT ![g].pc = p]

\* Puts that have not made their object yet (keeps MaxPuts from blocking a
\* goroutine half way).
PendingPuts == {g \in Caller : /\ gs[g].pc \in {"lock", "drain"}
                               /\ gs[g].call.op = "put"}

\* PutManifest returns at once for a manifest it refuses; otherwise it goes
\* for the write lock.  Everything else starts with a lookup.
Begin(g, c) ==
  /\ At(g, "idle")
  /\ c.op = "put" => /\ ~S!Rejected(c.arg)
                     /\ ver + Cardinality(PendingPuts) < MaxPuts
  /\ gs' = [gs EXCEPT ![g].pc = IF c.op = "put" THEN "lock" ELSE "rlock",
                      ![g].call = c]
  /\ UNCHANGED <<maps, suspended, ver, rw>>

-----------------------------------------------------------------------------
(* Reading: Find, FindByIP, FindByMAC, GetAll, first half of ForgetManifest *)

\* Mutant of RLock: the lookup does not take the lock.
RLockMissing(g) ==
  /\ At(g, "rlock")
  /\ Goto(g, "read")
  /\ UNCHANGED <<maps, suspended, ver, rw>>

\* mutex.RLock(): behind a writer that waits or writes, a reader blocks.
RLock(g) ==
  /\ At(g, "rlock")
  /\ IF rw.writer = Nil
       THEN /\ rw' = [rw EXCEPT !.readers = @ \cup {g}]
            /\ Goto(g, "read")
       ELSE /\ rw' = [rw EXCEPT !.blocked = @ \cup {g}]
            /\ Goto(g, "blocked")
  /\ UNCHANGED <<maps, suspended, ver>>

\* GetAll returns the map itself and looks at nothing.
Found(c) ==
  CASE c.op \in {"find", "forget"} -> manifests[c.arg]
    [] c.op \in {"findByIP", "suspend", "unsuspend"} -> ip[c.arg]
    [] c.op = "findByMAC" -> mac[c.arg]
    [] c.op = "getAll" -> Nil

Read(g) ==
  /\ At(g, "read")
  /\ gs' = [gs EXCEPT ![g].obj = Found(gs[g].call), ![g].pc = "runlock"]
  /\ UNCHANGED <<maps, suspended, ver, rw>>

\* Where a goroutine goes after its lookup: ForgetManifest and the suspend
\* handlers return when nothing was found.
AfterLookup(g) ==
  CASE gs[g].obj # Nil /\ gs[g].call.op = "forget" -> [gs[g] EXCEPT !.pc = "lock"]
    [] gs[g].obj # Nil /\ gs[g].call.op \in {"suspend", "unsuspend"} ->
         [gs[g] EXCEPT !.pc = "flag"]
    [] OTHER -> Fresh

\* Mutant of RUnlock: ForgetManifest defers it to its end.
RUnlockDeferred(g) ==
  /\ At(g, "runlock")
  /\ rw' = IF AfterLookup(g).pc = "lock" THEN rw ELSE [rw EXCEPT !.readers = @ \ {g}]
  /\ gs' = [gs EXCEPT ![g] = AfterLookup(g)]
  /\ UNCHANGED <<maps, suspended, ver>>

\* Mutant of RUnlock: it is not reached when nothing was found.
RUnlockIfFound(g) ==
  /\ At(g, "runlock")
  /\ rw' = IF gs[g].obj = Nil THEN rw ELSE [rw EXCEPT !.readers = @ \ {g}]
  /\ gs' = [gs EXCEPT ![g] = AfterLookup(g)]
  /\ UNCHANGED <<maps, suspended, ver>>

RUnlock(g) ==
  /\ At(g, "runlock")
  /\ rw' = [rw EXCEPT !.readers = @ \ {g}]
  /\ gs' = [gs EXCEPT ![g] = AfterLookup(g)]
  /\ UNCHANGED <<maps, suspended, ver>>

-----------------------------------------------------------------------------
(* Writing: PutManifest and the second half of ForgetManifest *)

\* mutex.Lock(), first half: writers queue for RWMutex.w.  From here on new
\* readers block.
LockWriters(g) ==
  /\ At(g, "lock")
  /\ rw.writer = Nil
  /\ rw' = [rw EXCEPT !.writer = g]
  /\ Goto(g, "drain")
  /\ UNCHANGED <<maps, suspended, ver>>

\* Second half: the readers that were there before have left.
Acquire(g) ==
  /\ At(g, "drain")
  /\ rw.readers = {}
  /\ IF gs[g].call.op = "put"
       THEN LET m == gs[g].call.arg
            IN /\ ver' = ver + 1
               /\ suspended' = suspended \cup (IF m.suspended THEN {ver + 1} ELSE {})
               /\ gs' = [gs EXCEPT ![g].pc = "byID", ![g].left = m.macs,
                                   ![g].obj = [ver |-> ver + 1, man |-> m]]
       ELSE /\ gs' = [gs EXCEPT ![g].pc = "byID", ![g].left = gs[g].obj.man.macs]
            /\ UNCHANGED <<ver, suspended>>
  /\ UNCHANGED <<maps, rw>>

\* s.manifests[m.ID] = &m, or delete(s.manifests, m.ID)
WriteByID(g) ==
  /\ At(g, "byID")
  /\ manifests' = [manifests EXCEPT ![gs[g].obj.man.id] = Value(g)]
  /\ Goto(g, "byIP")
  /\ UNCHANGED <<ip, mac, suspended, ver, rw>>

\* Mutant of WriteByIP: ForgetManifest leaves the entry.
WriteByIPPutOnly(g) ==
  /\ At(g, "byIP")
  /\ ip' = IF Value(g) = Nil THEN ip ELSE [ip EXCEPT ![gs[g].obj.man.ip] = Value(g)]
  /\ Goto(g, "byMAC")
  /\ UNCHANGED <<manifests, mac, suspended, ver, rw>>

WriteByIP(g) ==
  /\ At(g, "byIP")
  /\ ip' = [ip EXCEPT ![gs[g].obj.man.ip] = Value(g)]
  /\ Goto(g, "byMAC")
  /\ UNCHANGED <<manifests, mac, suspended, ver, rw>>

\* One iteration of the loop over m.MAC.
WriteByMAC(g, x) ==
  /\ At(g, "byMAC")
  /\ x \in gs[g].left
  /\ mac' = [mac EXCEPT ![x] = Value(g)]
  /\ gs' = [gs EXCEPT ![g].left = @ \ {x}]
  /\ UNCHANGED <<manifests, ip, suspended, ver, rw>>

\* The deferred mutex.Unlock(): every reader that blocked meanwhile is let in
\* before another writer.
Unlock(g) ==
  /\ At(g, "byMAC")
  /\ gs[g].left = {}
  /\ rw' = [readers |-> rw.readers \cup rw.blocked, blocked |-> {}, writer |-> Nil]
  /\ gs' = [h \in Caller |-> IF h = g THEN Fresh
                             ELSE IF h \in rw.blocked THEN [gs[h] EXCEPT !.pc = "read"]
                             ELSE gs[h]]
  /\ UNCHANGED <<maps, suspended, ver>>

\* m.Suspended = true / false, with no lock held.
WriteFlag(g) ==
  /\ At(g, "flag")
  /\ suspended' = IF gs[g].call.op = "suspend" THEN suspended \cup {gs[g].obj.ver}
                  ELSE suspended \ {gs[g].obj.ver}
  /\ gs' = [gs EXCEPT ![g] = Fresh]
  /\ UNCHANGED <<maps, ver, rw>>

-----------------------------------------------------------------------------

Unlocked == [readers |-> {}, blocked |-> {}, writer |-> Nil]

Init ==
  /\ manifests = [i \in ID |-> Nil]
  /\ ip = [a \in IP |-> Nil]
  /\ mac = [x \in MAC |-> Nil]
  /\ suspended = {}
  /\ ver = 0
  /\ gs = [g \in Caller |-> Fresh]
  /\ rw = Unlocked

\* The process is started again, whatever its goroutines were doing.
Restart ==
  /\ manifests' = [i \in ID |-> Nil]
  /\ ip' = [a \in IP |-> Nil]
  /\ mac' = [x \in MAC |-> Nil]
  /\ suspended' = {}
  /\ ver' = 0
  /\ gs' = [g \in Caller |-> Fresh]
  /\ rw' = Unlocked

\* A step of g other than the wait for other writers.
Step(g) ==
  \/ RLock(g) \/ Read(g) \/ RUnlock(g)
  \/ Acquire(g) \/ WriteByID(g) \/ WriteByIP(g) \/ Unlock(g)
  \/ \E x \in MAC : WriteByMAC(g, x)
  \/ WriteFlag(g)

Next ==
  \/ \E g \in Caller, c \in Calls : Begin(g, c)
  \/ \E g \in Caller : Step(g)
  \/ \E g \in Caller : LockWriters(g)
  \/ Restart

Spec == Init /\ [][Next]_vars

\* Runnable goroutines run; the mutex writers queue for hands itself over in
\* order of arrival once somebody has waited a millisecond (sync.Mutex,
\* "starvation mode"), so no writer is passed over for ever.
FairSpec ==
  /\ Spec
  /\ \A g \in Caller : WF_vars(Step(g)) /\ SF_vars(LockWriters(g))

-----------------------------------------------------------------------------
(* Properties *)

\* Type invariant; who holds or awaits the lock is who is at the statements
\* that need it, so that no return path leaves the lock behind.
TypeOK ==
  /\ manifests \in [ID -> S!Obj \cup {Nil}]
  /\ ip \in [IP -> S!Obj \cup {Nil}]
  /\ mac \in [MAC -> S!Obj \cup {Nil}]
  /\ ver \in 0..MaxPuts
  /\ suspended \in SUBSET (1..ver)
  /\ gs \in [Caller -> [pc : PC, call : Calls \cup {Nil}, obj : S!Obj \cup {Nil},
                        left : SUBSET MAC]]
  /\ rw.readers = {g \in Caller : gs[g].pc \in {"read", "runlock"}}
  /\ rw.blocked = {g \in Caller : gs[g].pc = "blocked"}
  /\ {rw.writer} \ {Nil} = {g \in Caller : gs[g].pc = "drain"} \cup Writers

\* A lookup runs on maps that no PutManifest or ForgetManifest is half way
\* through: what it returns is what the three maps agree on, and no map is
\* read while it is written.
LookupsSeeWhole ==
  \A g \in Caller : gs[g].pc = "read" =>
    manifests = byID /\ ip = byIP /\ mac = byMAC

\* The statements under the mutex implement the atomic steps of module Store,
\* on which every other module builds.
ImplementsStore == S!Spec

\* No call of the store waits for ever: readers that come while a writer
\* waits, writers that wait for readers, and ForgetManifest, which takes the
\* lock twice, never block each other for good.
EveryCallReturns == \A g \in Caller : gs[g].pc # "idle" ~> gs[g].pc = "idle"
=============================================================================
