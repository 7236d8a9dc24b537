------------------------------- MODULE Store -------------------------------
(***************************************************************************)
(* The in-memory manifest store (store/store.go) and the goroutines that   *)
(* use it.                                                                 *)
(*                                                                         *)
(* A Go pointer *Manifest is a record [ver, man]: man holds the fields     *)
(* nobody writes after the object was made, ver is its identity (one per   *)
(* successful PutManifest).  Manifest.Suspended is the one field that is   *)
(* written later, through a pointer a lookup returned and outside the      *)
(* store's mutex: `suspended' is the set of identities whose flag is set.  *)
(* A Go map is a total function whose absent keys map to Nil.              *)
(*                                                                         *)
(* Each critical section of store.mutex is one step.  ForgetManifest has   *)
(* two of them, and a suspend/unsuspend handler looks an object up in one  *)
(* step and writes its flag in a later one; call[c] is what goroutine c    *)
(* carries across.                                                         *)
(***************************************************************************)
EXTENDS Naturals, Sequences

CONSTANTS ID, IP, MAC,  \* manifest IDs, normalised IPv4 and MAC addresses
          Nil,          \* Go's nil (also: an empty ID, a missing IPv4)
          Inputs,       \* the manifests callers may put
          Files,        \* the manifest directory, in os.ReadDir order
          Caller,       \* goroutines
          MaxPuts       \* bound on the objects made between two restarts

\* A manifest has at least the fields the store looks at; further fields
\* are opaque to it.
ASSUME InputsAssumption ==
  /\ Nil \notin ID \cup IP \cup MAC
  /\ \A m \in Inputs : /\ m.id \in ID \cup {Nil}
                       /\ m.ip \in IP \cup {Nil}
                       /\ m.macs \in SUBSET MAC
                       /\ m.suspended \in BOOLEAN

\* ok: a regular .yml/.yaml file that could be read, parsed and validated.
ASSUME FilesAssumption ==
  /\ MaxPuts \in Nat
  /\ Files \in Seq([ok : BOOLEAN, man : Inputs])
  /\ Len(Files) <= MaxPuts

Obj == [ver : 1..MaxPuts, man : Inputs]

\* A pointer is not nil.
ASSUME NilAssumption == Nil \notin Obj

VARIABLES manifests,    \* Store.manifests
          ip,           \* Store.ip
          mac,          \* Store.mac
          suspended,    \* identities whose Suspended field is true
          ver,          \* identity of the newest object
          todo,         \* next entry of Files LoadFromDirectory looks at
          call          \* call[c]: what goroutine c is in the middle of

maps == <<manifests, ip, mac>>
store == <<manifests, ip, mac, suspended, ver>>
vars == <<manifests, ip, mac, suspended, ver, todo, call>>

Idle == [op |-> "idle", obj |-> Nil]
Ops == {"idle", "forget", "suspend", "unsuspend"}

-----------------------------------------------------------------------------
(* Store methods *)

\* PutManifest refuses a manifest without an IPv4 address or an ID.
Rejected(m) == m.ip = Nil \/ m.id = Nil

\* Mutant of Insert: the MAC addresses of the manifest that is replaced are
\* carried over to the new one.
InsertCarriesMacs(m, o) ==
  /\ manifests' = [manifests EXCEPT ![m.id] = o]
  /\ ip' = [ip EXCEPT ![m.ip] = o]
  /\ mac' = [x \in MAC |->
              IF x \in m.macs \/ (mac[x] # Nil /\ mac[x].man.id = m.id) THEN o ELSE mac[x]]

\* Mutant of Insert: a MAC address that is taken is left alone.
InsertFirstWins(m, o) ==
  /\ manifests' = [manifests EXCEPT ![m.id] = o]
  /\ ip' = [ip EXCEPT ![m.ip] = o]
  /\ mac' = [x \in MAC |-> IF x \in m.macs /\ mac[x] = Nil THEN o ELSE mac[x]]

\* The critical section of PutManifest: the three maps get the new object.
Insert(m, o) ==
  /\ manifests' = [manifests EXCEPT ![m.id] = o]
  /\ ip' = [ip EXCEPT ![m.ip] = o]
  /\ mac' = [x \in MAC |-> IF x \in m.macs THEN o ELSE mac[x]]

PutManifest(m) ==
  \/ Rejected(m) /\ UNCHANGED store
  \/ /\ ~Rejected(m)
     /\ ver < MaxPuts
     /\ ver' = ver + 1
     /\ Insert(m, [ver |-> ver + 1, man |-> m])
     /\ suspended' = suspended \cup (IF m.suspended THEN {ver + 1} ELSE {})

\* Mutant of Remove: only the map by ID checks that the object is still the
\* one that was looked up.
RemoveIfSameID(o) ==
  /\ manifests' = [manifests EXCEPT ![o.man.id] = IF @ = o THEN Nil ELSE @]
  /\ ip' = [ip EXCEPT ![o.man.ip] = Nil]
  /\ mac' = [x \in MAC |-> IF x \in o.man.macs THEN Nil ELSE mac[x]]
  /\ UNCHANGED <<suspended, ver>>

\* Mutant of Remove: only the indexes check.
RemoveIfSameIndex(o) ==
  /\ manifests' = [manifests EXCEPT ![o.man.id] = Nil]
  /\ ip' = [ip EXCEPT ![o.man.ip] = IF @ = o THEN Nil ELSE @]
  /\ mac' = [x \in MAC |-> IF mac[x] = o THEN Nil ELSE mac[x]]
  /\ UNCHANGED <<suspended, ver>>

\* Mutant of Remove: the loop over the MAC addresses is missing.
RemoveKeepsMacs(o) ==
  /\ manifests' = [manifests EXCEPT ![o.man.id] = Nil]
  /\ ip' = [ip EXCEPT ![o.man.ip] = Nil]
  /\ UNCHANGED <<mac, suspended, ver>>

\* The second critical section of ForgetManifest: every key of the object
\* found in the first one is deleted from the maps as they are now.
Remove(o) ==
  /\ manifests' = [manifests EXCEPT ![o.man.id] = Nil]
  /\ ip' = [ip EXCEPT ![o.man.ip] = Nil]
  /\ mac' = [x \in MAC |-> IF x \in o.man.macs THEN Nil ELSE mac[x]]
  /\ UNCHANGED <<suspended, ver>>

\* Mutant of FindByMAC: an unknown client gets some registered manifest.
FindByMACDefault(x) ==
  IF mac[x] # Nil \/ \A i \in ID : manifests[i] = Nil THEN mac[x]
  ELSE manifests[CHOOSE i \in ID : manifests[i] # Nil]

\* Mutant of FindByIP: an unknown address gets some registered manifest.
FindByIPDefault(a) ==
  IF ip[a] # Nil \/ \A i \in ID : manifests[i] = Nil THEN ip[a]
  ELSE manifests[CHOOSE i \in ID : manifests[i] # Nil]

Find(id) == manifests[id]
FindByIP(a) == ip[a]
FindByMAC(x) == mac[x]

\* m.Suspended = true / false through the pointer a lookup returned.
WriteSuspended(o, b) ==
  /\ suspended' = IF b THEN suspended \cup {o.ver} ELSE suspended \ {o.ver}
  /\ UNCHANGED <<manifests, ip, mac, ver>>

-----------------------------------------------------------------------------
(* The process: load the directory, then serve; a restart starts over *)

\* NewStore.
Empty ==
  /\ manifests = [i \in ID |-> Nil]
  /\ ip = [a \in IP |-> Nil]
  /\ mac = [x \in MAC |-> Nil]
  /\ suspended = {}
  /\ ver = 0

Init ==
  /\ Empty
  /\ todo = 1
  /\ call = [c \in Caller |-> Idle]

Loaded == todo > Len(Files)

\* The k-th entry of the directory makes it into the store.
Accepted(k) == Files[k].ok /\ ~Rejected(Files[k].man)

\* Mutant of LoadFile: an error ends the loop instead of the iteration.
LoadFileStops ==
  /\ ~Loaded
  /\ IF Files[todo].ok THEN PutManifest(Files[todo].man) ELSE UNCHANGED store
  /\ todo' = IF Accepted(todo) THEN todo + 1 ELSE Len(Files) + 1
  /\ UNCHANGED call

\* One iteration of LoadFromDirectory: a file that is not a manifest, or
\* that PutManifest refuses, is logged and passed over.
LoadFile ==
  /\ ~Loaded
  /\ IF Files[todo].ok THEN PutManifest(Files[todo].man) ELSE UNCHANGED store
  /\ todo' = todo + 1
  /\ UNCHANGED call

Put(m) ==
  /\ Loaded
  /\ PutManifest(m)
  /\ UNCHANGED <<todo, call>>

\* Mutant of ForgetLookup: the result is not compared with nil.
ForgetLookupUnchecked(c, id) ==
  /\ Loaded
  /\ call[c] = Idle
  /\ call' = [call EXCEPT ![c] = [op |-> "forget", obj |-> Find(id)]]
  /\ UNCHANGED <<manifests, ip, mac, suspended, ver, todo>>

\* First half of ForgetManifest; an unknown ID returns here.
ForgetLookup(c, id) ==
  /\ Loaded
  /\ call[c] = Idle
  /\ Find(id) # Nil
  /\ call' = [call EXCEPT ![c] = [op |-> "forget", obj |-> Find(id)]]
  /\ UNCHANGED <<manifests, ip, mac, suspended, ver, todo>>

ForgetDelete(c) ==
  /\ call[c].op = "forget"
  /\ Remove(call[c].obj)
  /\ call' = [call EXCEPT ![c] = Idle]
  /\ UNCHANGED todo

\* /api/self/suspend-boot and unsuspend-boot: lookup, then the write.
FlagLookup(c, a, op) ==
  /\ Loaded
  /\ call[c] = Idle
  /\ FindByIP(a) # Nil
  /\ call' = [call EXCEPT ![c] = [op |-> op, obj |-> FindByIP(a)]]
  /\ UNCHANGED <<manifests, ip, mac, suspended, ver, todo>>

FlagWrite(c) ==
  /\ call[c].op \in {"suspend", "unsuspend"}
  /\ WriteSuspended(call[c].obj, call[c].op = "suspend")
  /\ call' = [call EXCEPT ![c] = Idle]
  /\ UNCHANGED todo

\* The process stops or crashes and is started again: nothing persists.
Restart ==
  /\ manifests' = [i \in ID |-> Nil]
  /\ ip' = [a \in IP |-> Nil]
  /\ mac' = [x \in MAC |-> Nil]
  /\ suspended' = {}
  /\ ver' = 0
  /\ todo' = 1
  /\ call' = [c \in Caller |-> Idle]

Next ==
  \/ LoadFile
  \/ \E m \in Inputs : Put(m)
  \/ \E c \in Caller, id \in ID : ForgetLookup(c, id)
  \/ \E c \in Caller : ForgetDelete(c)
  \/ \E c \in Caller, a \in IP, op \in {"suspend", "unsuspend"} :
       FlagLookup(c, a, op)
  \/ \E c \in Caller : FlagWrite(c)
  \/ Restart

Spec == Init /\ [][Next]_vars

-----------------------------------------------------------------------------
(* Properties *)

\* Pointers a lookup can return, and those a goroutine still holds as well.
Served ==
  ({manifests[i] : i \in ID} \cup {ip[a] : a \in IP} \cup {mac[x] : x \in MAC})
    \ {Nil}
Live == Served \cup ({call[c].obj : c \in Caller} \ {Nil})

\* Type invariant of the store's fields and of the pending calls; no pointer
\* and no flag refers to an object that has not been made since the restart.
TypeOK ==
  /\ manifests \in [ID -> Obj \cup {Nil}]
  /\ ip \in [IP -> Obj \cup {Nil}]
  /\ mac \in [MAC -> Obj \cup {Nil}]
  /\ ver \in 0..MaxPuts
  /\ suspended \in SUBSET (1..ver)
  /\ todo \in 1..(Len(Files) + 1)
  /\ call \in [Caller -> [op : Ops, obj : Obj \cup {Nil}]]
  /\ \A c \in Caller : call[c].obj = Nil <=> call[c].op = "idle"
  /\ \A o \in Live : o.ver <= ver

\* Whatever Find, FindByIP or FindByMAC returns does carry the key it was
\* looked up by, and has both an ID and an address.
IndexSound ==
  /\ \A i \in ID : manifests[i] # Nil => manifests[i].man.id = i
  /\ \A a \in IP : ip[a] # Nil => ip[a].man.ip = a
  /\ \A x \in MAC : mac[x] # Nil => x \in mac[x].man.macs
  /\ \A o \in Live : ~Rejected(o.man)

\* Under each of its keys, an object in use has been deleted or is found,
\* or something newer is.
Supersedes(e, o) == e = Nil \/ (e.ver >= o.ver /\ (e.ver = o.ver => e = o))

\* PutManifest and ForgetManifest never bring an older manifest back: none
\* of the keys of a pointer still held anywhere leads to an older object, and
\* an identity belongs to one object.  What a goroutine holds from an earlier
\* lookup may be out of date, but is never ahead of what is served.
NeverOlder ==
  \A o \in Live :
    /\ Supersedes(manifests[o.man.id], o)
    /\ Supersedes(ip[o.man.ip], o)
    /\ \A x \in o.man.macs : Supersedes(mac[x], o)

\* k is the last of the first n entries of the directory that gives its ID.
LastOfID(k, n) ==
  /\ Accepted(k)
  /\ \A j \in (k+1)..n : Accepted(j) => Files[j].man.id # Files[k].man.id

\* The store holds what the first n entries say.
Reflects(n) ==
  \A k \in 1..n : LastOfID(k, n) => /\ manifests[Files[k].man.id] # Nil
                                    /\ manifests[Files[k].man.id].man = Files[k].man

\* LoadFromDirectory passes over what it cannot read, parse or register, and
\* nothing else: when it is done, every ID some entry gives leads to the
\* manifest of the last such entry, whatever lay before and between.
DirectoryLoaded == [][~Loaded /\ Loaded' => Reflects(Len(Files))']_vars

Valid == {m \in Inputs : ~Rejected(m)}

\* An address that only one ID ever claims.
UniqueIP(a) == \A m, n \in Valid : m.ip = a /\ n.ip = a => m.id = n.id
UniqueMAC(x) == \A m, n \in Valid : x \in m.macs /\ x \in n.macs => m.id = n.id

\* An address that the ID i has whenever it is put.
KeepsIP(i, a) == \A m \in Valid : m.id = i => m.ip = a
KeepsMAC(i, x) == \A m \in Valid : m.id = i => x \in m.macs

\* Every manifest that Find knows is also the one its IPv4 address and each
\* of its MAC addresses lead to, if no other ID claims that address; whatever
\* puts happened between the two critical sections of a ForgetManifest, and
\* wherever the ID had its other addresses before.
Reachable ==
  \A i \in ID : manifests[i] # Nil =>
    LET o == manifests[i]
    IN /\ UniqueIP(o.man.ip) => ip[o.man.ip] = o
       /\ \A x \in o.man.macs : UniqueMAC(x) => mac[x] = o

\* A lookup by an address that its manifest's ID keeps only ever finds a
\* manifest that is registered under that ID: nothing a ForgetManifest was
\* meant to remove is still served, whoever else claims the address.
Coherent ==
  /\ \A a \in IP : ip[a] # Nil /\ KeepsIP(ip[a].man.id, a) =>
       manifests[ip[a].man.id] = ip[a]
  /\ \A x \in MAC : mac[x] # Nil /\ KeepsMAC(mac[x].man.id, x) =>
       manifests[mac[x].man.id] = mac[x]

\* The IDs that keep all their addresses and share none, and these addresses.
Tidy ==
  {i \in ID : \A m \in Valid : m.id = i =>
     /\ UniqueIP(m.ip) /\ KeepsIP(i, m.ip)
     /\ \A x \in m.macs : UniqueMAC(x) /\ KeepsMAC(i, x)}
TidyInputs == {m \in Valid : m.id \in Tidy}
TidyIP == {a \in IP : \E m \in TidyInputs : m.ip = a}
TidyMAC == {x \in MAC : \E m \in TidyInputs : x \in m.macs}

R == INSTANCE Registry WITH
       ID <- Tidy, IP <- TidyIP, MAC <- TidyMAC,
       Obj <- [ver : 1..MaxPuts, man : TidyInputs],
       reg <- [i \in Tidy |-> manifests[i]],
       byIP <- [a \in TidyIP |-> ip[a]],
       byMAC <- [x \in TidyMAC |-> mac[x]]

\* For the tidy IDs the store, with its two-step ForgetManifest, implements
\* one atomic registry whose indexes follow the map by ID, whatever is done
\* with the other IDs meanwhile.
ImplementsRegistry == R!Spec
=============================================================================
