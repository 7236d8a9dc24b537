------------------------------ MODULE Registry ------------------------------
(***************************************************************************)
(* What the manifest store promises: ONE map from manifest ID to manifest, *)
(* and two indexes, by IPv4 address and by MAC address, that are functions *)
(* of that map.  A lookup by address can therefore never find a manifest   *)
(* that is no longer registered, nor miss one that is.                     *)
(*                                                                         *)
(* Store implements this specification for the IDs that share no address   *)
(* with another one and keep their own (see Store!Tidy).                   *)
(***************************************************************************)
CONSTANTS ID, IP, MAC, Nil,
          Obj         \* the manifest objects that can be registered

VARIABLES reg,        \* ID  -> Obj or Nil
          byIP,       \* IP  -> Obj or Nil
          byMAC       \* MAC -> Obj or Nil

regVars == <<reg, byIP, byMAC>>

\* The registered objects of registry r.
Registered(r) == {r[i] : i \in ID} \ {Nil}

\* The object of r that satisfies its key, Nil if there is none.
IndexIP(r) ==
  [a \in IP |->
     IF \E o \in Registered(r) : o.man.ip = a
       THEN CHOOSE o \in Registered(r) : o.man.ip = a
       ELSE Nil]

IndexMAC(r) ==
  [x \in MAC |->
     IF \E o \in Registered(r) : x \in o.man.macs
       THEN CHOOSE o \in Registered(r) : x \in o.man.macs
       ELSE Nil]

\* Both indexes follow the registry in the very step that changes it.
Reindex ==
  /\ byIP' = IndexIP(reg')
  /\ byMAC' = IndexMAC(reg')

Init ==
  /\ reg = [i \in ID |-> Nil]
  /\ byIP = [a \in IP |-> Nil]
  /\ byMAC = [x \in MAC |-> Nil]

Put(o) ==
  /\ reg' = [reg EXCEPT ![o.man.id] = o]
  /\ Reindex

Delete(i) ==
  /\ reg' = [reg EXCEPT ![i] = Nil]
  /\ Reindex

\* The registry lives in memory only: a restart empties it.
Reset ==
  /\ reg' = [i \in ID |-> Nil]
  /\ Reindex

Next ==
  \/ \E o \in Obj : Put(o)
  \/ \E i \in ID : Delete(i)
  \/ Reset

Spec == Init /\ [][Next]_regVars
=============================================================================
