----------------------------- MODULE DhcpProofs -----------------------------
(***************************************************************************)
(* Proofs about Dhcp, for every set of manifests and datagrams, any number *)
(* of goroutines, and all that the rest of the process and the kernel do   *)
(* meanwhile.                                                              *)
(***************************************************************************)
EXTENDS Dhcp, TLAPS

\* What is proved of the store holds of the store behind the DHCP server.
P == INSTANCE StoreProofs

-----------------------------------------------------------------------------
(* The store *)

StoreInv == P!TypeOK /\ P!IndexSound

LEMMA StoreAssumed == P!InputsAssumption /\ P!FilesAssumption /\ P!NilAssumption
BY StoreAssumption
DEF S!InputsAssumption, S!FilesAssumption, S!NilAssumption, S!Obj,
    P!InputsAssumption, P!FilesAssumption, P!NilAssumption, P!Obj

LEMMA StoreMoves == Next => [P!Next]_(P!vars)
<1> SUFFICES ASSUME Next PROVE [P!Next]_(P!vars)
  OBVIOUS
<1>1. CASE UNCHANGED server
  BY <1>1 DEF server, P!vars
<1>2. CASE Restart
  BY <1>2 DEF Restart, S!Restart, S!Idle, P!Next, P!Restart, P!Idle
<1>3. CASE StoreStep
  <2>1. CASE S!LoadFile
    BY <2>1 DEF S!LoadFile, S!Loaded, S!PutManifest, S!Insert, S!Rejected, S!store,
                P!Next, P!LoadFile, P!Loaded, P!PutManifest, P!Insert, P!Rejected, P!store
  <2>2. ASSUME NEW m \in Inputs, S!Put(m) PROVE P!Next
    BY <2>2 DEF S!Put, S!Loaded, S!PutManifest, S!Insert, S!Rejected, S!store,
                P!Next, P!Put, P!Loaded, P!PutManifest, P!Insert, P!Rejected, P!store
  <2>3. ASSUME NEW c \in Caller, NEW id \in ID, S!ForgetLookup(c, id) PROVE P!Next
    BY <2>3 DEF S!ForgetLookup, S!Loaded, S!Idle, S!Find,
                P!Next, P!ForgetLookup, P!Loaded, P!Idle, P!Find
  <2>4. ASSUME NEW c \in Caller, S!ForgetDelete(c) PROVE P!Next
    BY <2>4 DEF S!ForgetDelete, S!Remove, S!Idle, P!Next, P!ForgetDelete, P!Remove, P!Idle
  <2>5. ASSUME NEW c \in Caller, NEW a \in IP, NEW op \in {"suspend", "unsuspend"},
               S!FlagLookup(c, a, op)
        PROVE  P!Next
    BY <2>5 DEF S!FlagLookup, S!Loaded, S!Idle, S!FindByIP,
                P!Next, P!FlagLookup, P!Loaded, P!Idle, P!FindByIP
  <2>6. ASSUME NEW c \in Caller, S!FlagWrite(c) PROVE P!Next
    BY <2>6 DEF S!FlagWrite, S!WriteSuspended, S!Idle,
                P!Next, P!FlagWrite, P!WriteSuspended, P!Idle
  <2> QED BY <1>3, <2>1, <2>2, <2>3, <2>4, <2>5, <2>6 DEF StoreStep
<1>4. ASSUME NEW h \in Handler, HandleMsg4(h) PROVE UNCHANGED server
  BY <1>4 DEF HandleMsg4, Discard, IgnoreUnknown, IgnoreOther, Answer, TftpServerName,
              BootFile, PeerKnown, InjectArp, InjectFails, Write, Return, Drop, Local
<1> QED BY <1>1, <1>2, <1>3, <1>4 DEF Next, Receive, Local, ReadFailed, ArpExpire

LEMMA InitStore == Init => P!Init
BY DEF Init, S!Init, S!Empty, S!Idle, P!Init, P!Empty, P!Idle

LEMMA NextStore == StoreInv /\ [Next]_vars => StoreInv'
<1> SUFFICES ASSUME StoreInv, [Next]_vars PROVE StoreInv'
  OBVIOUS
<1>1. [P!Next]_(P!vars)
  BY StoreMoves DEF vars, P!vars
<1> QED BY <1>1, StoreAssumed, P!NextType, P!NextSound DEF StoreInv

\* What FindByMAC returns.
LEMMA FoundByMAC ==
  ASSUME StoreInv, NEW x \in MAC, S!FindByMAC(x) # Nil
  PROVE  LET o == S!FindByMAC(x)
         IN /\ o \in S!Obj /\ o.ver <= ver
            /\ o.man \in Inputs /\ x \in o.man.macs
            /\ o.man.ip \in IP
<1> DEFINE o == S!FindByMAC(x)
<1>1. o = mac[x] /\ o \in P!Obj /\ o \in P!Live /\ x \in o.man.macs
  BY DEF S!FindByMAC, StoreInv, P!TypeOK, P!IndexSound, P!Live, P!Served
<1>2. o.ver <= ver /\ ~P!Rejected(o.man)
  BY <1>1 DEF StoreInv, P!TypeOK, P!IndexSound
<1>3. o.man \in Inputs /\ o.man.ip \in IP \cup {Nil}
  BY <1>1, StoreAssumed, P!ObjFields
<1> QED BY <1>1, <1>2, <1>3 DEF P!Rejected, P!Obj, S!Obj

-----------------------------------------------------------------------------
(* A step changes one handler, and the history of the others *)

Fields == {"pc", "req", "obj", "sid", "yiaddr", "opts", "file", "peer", "woob", "to",
           "seen"}

Shape == DOMAIN hs = Handler /\ \A h \in Handler : DOMAIN hs[h] = Fields

\* Two states of a handler that agree on all but the history.
Agree(s, t) ==
  /\ DOMAIN s = Fields
  /\ s.pc = t.pc /\ s.req = t.req /\ s.obj = t.obj /\ s.sid = t.sid /\ s.yiaddr = t.yiaddr
  /\ s.opts = t.opts /\ s.file = t.file /\ s.peer = t.peer /\ s.woob = t.woob
  /\ s.to = t.to

\* What Watched makes of the history.
Records(s, t) ==
  /\ t.seen \subseteq s.seen
  /\ t.pc \in {"tftp", "boot"} /\ t.req.asks \cap NBP # {} =>
       /\ t.obj.ver \in suspended' => TRUE \in s.seen
       /\ t.obj.ver \notin suspended' => FALSE \in s.seen

\* While the flag is still to be read, its present value is in the history.
Remembered ==
  \A h \in Handler : hs[h].pc \in {"tftp", "boot"} /\ hs[h].req.asks \cap NBP # {} =>
    /\ hs[h].obj.ver \in suspended => TRUE \in hs[h].seen
    /\ hs[h].obj.ver \notin suspended => FALSE \in hs[h].seen

LEMMA WatchedEffect ==
  ASSUME NEW f, NEW h \in Handler, DOMAIN f[h] = Fields, hs' = Watched(f)
  PROVE  Agree(hs'[h], f[h]) /\ Records(hs'[h], f[h])
<1> DEFINE t == f[h]
           quiet == t.pc \notin {"tftp", "boot"} \/ t.req.asks \cap NBP = {}
           b == t.obj.ver \in suspended'
<1>1. CASE quiet
  <2>1. hs'[h] = t
    BY <1>1 DEF Watched
  <2> QED BY <1>1, <2>1 DEF Agree, Records
<1>2. CASE ~quiet
  <2>1. hs'[h] = [t EXCEPT !.seen = @ \cup {b}]
    BY <1>2 DEF Watched
  <2>2. (b => b = TRUE) /\ (~b => b = FALSE)
    OBVIOUS
  <2> HIDE DEF b, t
  <2>3. Agree(hs'[h], t) /\ hs'[h].seen = t.seen \cup {b}
    BY <2>1 DEF Agree, Fields, t
  <2>4. (b => TRUE \in hs'[h].seen) /\ (~b => FALSE \in hs'[h].seen)
    BY <2>2, <2>3
  <2> QED BY <2>3, <2>4 DEF Records, t, b
<1> QED BY <1>1, <1>2
-----------------------------------------------------------------------------
(* The inductive invariant of a handler in state s, with ver = v *)

Holding == {"tftp", "boot", "peer", "write", "sent"}

\* It holds a manifest from the lookup on, one that lists the client, and
\* offers that manifest's address.
Holds(s, v) ==
  /\ s.pc \in PC
  /\ s.req \in Packets \cup {Nil}
  /\ s.pc # "idle" => s.req \in Packets
  /\ s.obj \in S!Obj \cup {Nil}
  /\ s.obj # Nil <=> s.pc \in Holding
  /\ s.obj # Nil => /\ s.obj.ver <= v
                    /\ s.obj.man \in Inputs
                    /\ s.req.mac \in s.obj.man.macs
                    /\ s.yiaddr = s.obj.man.ip
                    /\ s.yiaddr \in IP
  /\ s.obj = Nil => s.yiaddr = Nil

\* What the reply says comes from that manifest.
Says(s) ==
  /\ s.file # Nil => "bootfile" \in s.opts
  /\ s.pc \notin Holding => s.file = Nil
  /\ s.pc \in Holding => /\ s.file \in {Nil, BootFileName(s.req, s.obj.man)}
                         /\ "lease-time" \in s.opts <=> s.obj.man.lease

\* Option x was decided by a value the flag had since the lookup.
Decided(s, x) ==
  /\ x \in s.opts => x \in s.req.asks /\ FALSE \in s.seen
  /\ x \in s.req.asks /\ x \notin s.opts => TRUE \in s.seen

Flagged(s) ==
  /\ s.pc = "tftp" => s.opts \cap NBP = {}
  /\ s.pc = "boot" => "bootfile" \notin s.opts
  /\ s.pc \in {"boot", "peer", "write", "sent"} => Decided(s, "tftp-server-name")
  /\ s.pc \in {"peer", "write", "sent"} => Decided(s, "bootfile")

\* It leaves where the request came in.
Routed(s) ==
  /\ s.pc \in Holding => HasLocalIP(s.req) /\ s.sid = LocalIP[IfIndex(s.req)]
  /\ s.pc \in {"write", "sent"} => s.woob = Woob(s.req, s.peer)

HandlerInv(s, v) == Holds(s, v) /\ Says(s) /\ Flagged(s) /\ Routed(s)

Inv ==
  /\ StoreInv
  /\ Shape
  /\ Remembered
  /\ \A h \in Handler : HandlerInv(hs[h], ver)
  /\ arp \in [IP -> MAC \cup {Nil}]
  /\ up \in BOOLEAN

\* The history and a growing ver disturb nothing.
LEMMA StillInv ==
  ASSUME NEW s, NEW t, NEW v \in Nat, NEW w \in Nat, v <= w,
         HandlerInv(t, v), Agree(s, t), Records(s, t)
  PROVE  HandlerInv(s, w)
<1>1. Holds(s, w)
  <2>1. t.obj # Nil => t.obj.ver \in Nat
    BY StoreAssumed DEF HandlerInv, Holds, S!Obj, P!FilesAssumption
  <2> QED BY <2>1 DEF HandlerInv, Holds, Agree
<1>2. Says(s)
  BY DEF HandlerInv, Says, Agree
<1>3. Flagged(s)
  BY DEF HandlerInv, Flagged, Decided, Agree, Records
<1>4. Routed(s)
  BY DEF HandlerInv, Routed, Agree
<1> QED BY <1>1, <1>2, <1>3, <1>4 DEF HandlerInv

\* A step of one handler.
LEMMA OneMoves ==
  ASSUME Inv, NEW h \in Handler, NEW t, DOMAIN t = Fields,
         UNCHANGED server, hs' = Watched([hs EXCEPT ![h] = t]),
         Agree(hs'[h], t) /\ Records(hs'[h], t) => HandlerInv(hs'[h], ver)
  PROVE  Shape' /\ Remembered' /\ \A g \in Handler : HandlerInv(hs'[g], ver')
<1> DEFINE f == [hs EXCEPT ![h] = t]
<1>1. f[h] = t /\ \A g \in Handler : g # h => f[g] = hs[g]
  BY DEF Inv, Shape
<1>2. \A g \in Handler : DOMAIN f[g] = Fields
  BY <1>1 DEF Inv, Shape
<1> HIDE DEF f
<1>3. hs' = Watched(f)
  BY DEF f
<1>4. \A g \in Handler : Agree(hs'[g], f[g]) /\ Records(hs'[g], f[g])
  BY <1>2, <1>3, WatchedEffect
<1>5. Shape'
  <2>1. DOMAIN hs' = Handler
    BY <1>3 DEF Watched
  <2> QED BY <1>4, <2>1 DEF Shape, Agree
<1>6. ver \in Nat /\ ver' = ver
  BY StoreAssumed DEF Inv, StoreInv, P!TypeOK, P!FilesAssumption, server
<1>7. HandlerInv(hs'[h], ver')
  BY <1>1, <1>4, <1>6
<1>8. ASSUME NEW g \in Handler, g # h PROVE HandlerInv(hs'[g], ver')
  <2>1. HandlerInv(hs[g], ver) /\ Agree(hs'[g], hs[g]) /\ Records(hs'[g], hs[g])
    BY <1>1, <1>4, <1>8 DEF Inv
  <2>2. ver <= ver'
    BY <1>6
  <2> QED BY <1>6, <2>1, <2>2, StillInv
<1>9. Remembered'
  BY <1>4 DEF Remembered, Agree, Records
<1> QED BY <1>5, <1>7, <1>8, <1>9

\* The rest of the process moves.
LEMMA OthersMove ==
  ASSUME Inv, ver' \in Nat, ver <= ver', hs' = Watched(hs)
  PROVE  Shape' /\ Remembered' /\ \A g \in Handler : HandlerInv(hs'[g], ver')
<1>1. \A g \in Handler : Agree(hs'[g], hs[g]) /\ Records(hs'[g], hs[g])
  BY WatchedEffect DEF Inv, Shape
<1>2. Shape'
  <2>1. DOMAIN hs' = Handler
    BY DEF Watched
  <2> QED BY <1>1, <2>1 DEF Shape, Agree
<1>3. ver \in Nat
  BY StoreAssumed DEF Inv, StoreInv, P!TypeOK, P!FilesAssumption
<1>4. ASSUME NEW g \in Handler PROVE HandlerInv(hs'[g], ver')
  <2>1. HandlerInv(hs[g], ver) /\ Agree(hs'[g], hs[g]) /\ Records(hs'[g], hs[g])
    BY <1>1 DEF Inv
  <2> QED BY <1>3, <2>1, StillInv
<1>5. Remembered'
  BY <1>1 DEF Remembered, Agree, Records
<1> QED BY <1>2, <1>4, <1>5

LEMMA FreshInv ==
  ASSUME NEW v
  PROVE  DOMAIN Fresh = Fields /\ HandlerInv(Fresh, v)
<1>1. DOMAIN Fresh = Fields
  BY DEF Fresh, Fields
<1>2. Fresh.pc = "idle" /\ Fresh.req = Nil /\ Fresh.obj = Nil /\ Fresh.yiaddr = Nil
      /\ Fresh.file = Nil
  BY DEF Fresh
<1> QED BY <1>1, <1>2 DEF HandlerInv, Holds, Says, Flagged, Routed, PC, Holding

LEMMA InitInv == Init => Inv
<1> SUFFICES ASSUME Init PROVE Inv
  OBVIOUS
<1>1. StoreInv
  BY InitStore, StoreAssumed, P!InitType, P!InitSound DEF StoreInv
<1>2. Shape /\ Remembered /\ \A h \in Handler : HandlerInv(hs[h], ver)
  BY FreshInv DEF Init, Shape, Remembered, Fresh
<1> QED BY <1>1, <1>2 DEF Init, Inv

-----------------------------------------------------------------------------
(* The steps of a handler *)

LEMMA StepTypes ==
  ASSUME Inv, NEW h \in Handler
  PROVE  /\ DOMAIN hs[h] = Fields
         /\ HandlerInv(hs[h], ver)
         /\ hs[h].pc # "idle" => hs[h].req \in Packets /\ hs[h].req.mac \in MAC
  BY PacketsAssumption DEF Inv, Shape, HandlerInv, Holds

\* A handler that only moves on, or picks its way to the client.
LEMMA MovesOn ==
  ASSUME Inv, NEW h \in Handler, NEW t, DOMAIN t = Fields,
         UNCHANGED server, hs' = Watched([hs EXCEPT ![h] = t]),
         HandlerInv(t, ver)
  PROVE  Shape' /\ Remembered' /\ \A g \in Handler : HandlerInv(hs'[g], ver')
<1>1. ver \in Nat
  BY StoreAssumed DEF Inv, StoreInv, P!TypeOK, P!FilesAssumption
<1>2. Agree(hs'[h], t) /\ Records(hs'[h], t) => HandlerInv(hs'[h], ver)
  BY <1>1, StillInv
<1> QED BY <1>2, OneMoves
LEMMA ReceiveInv ==
  ASSUME Inv, NEW h \in Handler, NEW r \in Packets, Receive(h, r)
  PROVE  Shape' /\ Remembered' /\ \A g \in Handler : HandlerInv(hs'[g], ver')
<1> DEFINE t == [Fresh EXCEPT !.pc = "packet", !.req = r]
<1>1. /\ DOMAIN t = Fields /\ t.pc = "packet" /\ t.req = r /\ t.obj = Nil
      /\ t.yiaddr = Nil /\ t.file = Nil
  BY DEF Fresh, Fields
<1>2. HandlerInv(t, ver)
  BY <1>1 DEF HandlerInv, Holds, Says, Flagged, Routed, PC, Holding
<1>3. UNCHANGED server /\ hs' = Watched([hs EXCEPT ![h] = t])
  BY DEF Receive, Local
<1> QED BY <1>1, <1>2, <1>3, MovesOn

LEMMA DropInv ==
  ASSUME Inv, NEW h \in Handler, hs[h].pc = "packet", Drop(h)
  PROVE  Shape' /\ Remembered' /\ \A g \in Handler : HandlerInv(hs'[g], ver')
<1> DEFINE t == [hs[h] EXCEPT !.pc = "dropped"]
<1>1. HandlerInv(hs[h], ver) /\ DOMAIN hs[h] = Fields
  BY StepTypes
<1>2. /\ DOMAIN t = Fields /\ t.pc = "dropped" /\ t.req = hs[h].req
      /\ t.obj = hs[h].obj /\ t.yiaddr = hs[h].yiaddr /\ t.file = hs[h].file
      /\ t.opts = hs[h].opts
  BY <1>1 DEF Fields
<1> HIDE DEF t
<1>3. HandlerInv(t, ver)
  BY <1>1, <1>2 DEF HandlerInv, Holds, Says, Flagged, Routed, PC, Holding
<1>4. UNCHANGED server /\ hs' = Watched([hs EXCEPT ![h] = t])
  BY DEF Drop, Local, t
<1> QED BY <1>2, <1>3, <1>4, MovesOn

LEMMA AnswerInv ==
  ASSUME Inv, NEW h \in Handler, Answer(h)
  PROVE  Shape' /\ Remembered' /\ \A g \in Handler : HandlerInv(hs'[g], ver')
<1> DEFINE r == hs[h].req
           o == S!FindByMAC(r.mac)
           t == [hs[h] EXCEPT !.pc = "tftp", !.obj = o, !.sid = LocalIP[IfIndex(r)],
                              !.yiaddr = o.man.ip, !.opts = Options(r, o.man)]
<1>1. /\ HandlerInv(hs[h], ver) /\ DOMAIN hs[h] = Fields
      /\ hs[h].pc = "packet" /\ r \in Packets /\ r.mac \in MAC
  BY StepTypes DEF Answer, At
<1>2. /\ o # Nil /\ o \in S!Obj /\ o.ver <= ver
      /\ o.man \in Inputs /\ r.mac \in o.man.macs /\ o.man.ip \in IP
  BY <1>1, FoundByMAC DEF Answer, Inv
<1>3. /\ DOMAIN t = Fields /\ t.pc = "tftp" /\ t.req = r /\ t.obj = o
      /\ t.sid = LocalIP[IfIndex(r)] /\ t.yiaddr = o.man.ip /\ t.file = hs[h].file
      /\ t.opts = Options(r, o.man)
  BY <1>1 DEF Fields
<1>4. hs' = Watched([hs EXCEPT ![h] = t]) /\ UNCHANGED server /\ HasLocalIP(r)
  BY DEF Answer, Local, Discarded
<1>5. hs[h].file = Nil
  BY <1>1 DEF HandlerInv, Says, Holding
<1> HIDE DEF r, o, t
<1>6. /\ "lease-time" \in t.opts <=> t.obj.man.lease
      /\ t.opts \cap NBP = {}
  BY <1>3 DEF Options, NBP
<1>7. Holds(t, ver) /\ Says(t)
  BY <1>1, <1>2, <1>3, <1>5, <1>6 DEF Holds, Says, PC, Holding
<1>8. Flagged(t) /\ Routed(t)
  BY <1>3, <1>4, <1>6 DEF Flagged, Routed
<1>9. HandlerInv(t, ver)
  BY <1>7, <1>8 DEF HandlerInv
<1> QED BY <1>3, <1>4, <1>9, MovesOn

\* The flag is read, and what was read becomes part of the history.
LEMMA TftpServerNameInv ==
  ASSUME Inv, NEW h \in Handler, TftpServerName(h)
  PROVE  Shape' /\ Remembered' /\ \A g \in Handler : HandlerInv(hs'[g], ver')
<1> DEFINE s == hs[h]
           x == "tftp-server-name"
           off == s.obj.ver \in suspended
           t == [s EXCEPT !.pc = "boot",
                          !.opts = @ \cup (IF x \in s.req.asks /\ ~off THEN {x} ELSE {})]
<1>1. HandlerInv(s, ver) /\ DOMAIN s = Fields /\ s.pc = "tftp"
  BY StepTypes DEF TftpServerName, At
<1>2. UNCHANGED server /\ hs' = Watched([hs EXCEPT ![h] = t]) /\ suspended' = suspended
  BY DEF TftpServerName, Local, Manifest, server
<1>3. /\ DOMAIN t = Fields /\ t.pc = "boot" /\ t.req = s.req /\ t.obj = s.obj
      /\ t.sid = s.sid /\ t.yiaddr = s.yiaddr /\ t.file = s.file /\ t.seen = s.seen
      /\ t.opts = s.opts \cup (IF x \in s.req.asks /\ ~off THEN {x} ELSE {})
  BY <1>1 DEF Fields
<1> HIDE DEF s, t
<1>4. ASSUME Agree(hs'[h], t), Records(hs'[h], t) PROVE HandlerInv(hs'[h], ver)
  <2> DEFINE u == hs'[h]
  <2>1. /\ u.pc = "boot" /\ u.req = s.req /\ u.obj = s.obj
        /\ u.sid = s.sid /\ u.yiaddr = s.yiaddr /\ u.file = s.file
        /\ u.opts = s.opts \cup (IF x \in s.req.asks /\ ~off THEN {x} ELSE {})
    BY <1>3, <1>4 DEF Agree
  <2>2. x \in s.req.asks => /\ off => TRUE \in u.seen
                            /\ ~off => FALSE \in u.seen
    BY <1>2, <1>3, <1>4 DEF Records, NBP
  <2> HIDE DEF u
  <2>3. Holds(u, ver) /\ Says(u) /\ Routed(u)
    BY <1>1, <2>1 DEF HandlerInv, Holds, Says, Routed, PC, Holding
  <2>4. x \notin s.opts /\ "bootfile" \notin s.opts
    BY <1>1 DEF HandlerInv, Flagged, NBP
  <2>5. Flagged(u)
    BY <2>1, <2>2, <2>4 DEF Flagged, Decided
  <2> QED BY <2>3, <2>5 DEF HandlerInv, u
<1> QED BY <1>2, <1>3, <1>4, OneMoves

LEMMA BootFileInv ==
  ASSUME Inv, NEW h \in Handler, BootFile(h)
  PROVE  Shape' /\ Remembered' /\ \A g \in Handler : HandlerInv(hs'[g], ver')
<1> DEFINE s == hs[h]
           x == "bootfile"
           off == s.obj.ver \in suspended
           told == x \in s.req.asks /\ ~off
           name == BootFileName(s.req, s.obj.man)
           t == IF told THEN [s EXCEPT !.pc = "peer", !.opts = @ \cup {x}, !.file = name]
                ELSE [s EXCEPT !.pc = "peer"]
<1>1. HandlerInv(s, ver) /\ DOMAIN s = Fields /\ s.pc = "boot"
  BY StepTypes DEF BootFile, At
<1>5. x \in s.req.asks => /\ off => TRUE \in s.seen
                          /\ ~off => FALSE \in s.seen
  BY <1>1 DEF Inv, Remembered, NBP
<1>2. UNCHANGED server /\ hs' = Watched([hs EXCEPT ![h] = t]) /\ suspended' = suspended
  BY DEF BootFile, Local, Manifest, server
<1>3. /\ DOMAIN t = Fields /\ t.pc = "peer" /\ t.req = s.req /\ t.obj = s.obj
      /\ t.sid = s.sid /\ t.yiaddr = s.yiaddr /\ t.seen = s.seen
      /\ told => t.opts = s.opts \cup {x} /\ t.file = name
      /\ ~told => t.opts = s.opts /\ t.file = s.file
  BY <1>1 DEF Fields
<1> HIDE DEF s, t
<1>4. ASSUME Agree(hs'[h], t), Records(hs'[h], t) PROVE HandlerInv(hs'[h], ver)
  <2> DEFINE u == hs'[h]
  <2>1. /\ u.pc = "peer" /\ u.req = s.req /\ u.obj = s.obj
        /\ u.sid = s.sid /\ u.yiaddr = s.yiaddr /\ s.seen \subseteq u.seen
        /\ told => u.opts = s.opts \cup {x} /\ u.file = name
        /\ ~told => u.opts = s.opts /\ u.file = s.file
    BY <1>3, <1>4 DEF Agree, Records
  <2>2. x \in s.req.asks => /\ off => TRUE \in u.seen
                            /\ ~off => FALSE \in u.seen
    BY <1>1, <1>5, <2>1
  <2> HIDE DEF u
  <2>3. Holds(u, ver) /\ Says(u) /\ Routed(u)
    BY <1>1, <2>1 DEF HandlerInv, Holds, Says, Routed, PC, Holding
  <2>4. x \notin s.opts /\ Decided(s, "tftp-server-name")
    BY <1>1 DEF HandlerInv, Flagged
  <2>5. Flagged(u)
    BY <2>1, <2>2, <2>4 DEF Flagged, Decided
  <2> QED BY <2>3, <2>5 DEF HandlerInv, u
<1> QED BY <1>2, <1>3, <1>4, OneMoves

\* Whichever way to the client is picked.
LEMMA PeerInv ==
  ASSUME Inv, NEW h \in Handler, hs[h].pc = "peer", NEW a, UNCHANGED server,
         hs' = Watched([hs EXCEPT ![h] = [hs[h] EXCEPT !.pc = "write", !.peer = a,
                                                       !.woob = Woob(hs[h].req, a)]])
  PROVE  Shape' /\ Remembered' /\ \A g \in Handler : HandlerInv(hs'[g], ver')
<1> DEFINE s == hs[h]
           t == [s EXCEPT !.pc = "write", !.peer = a, !.woob = Woob(s.req, a)]
<1>1. HandlerInv(s, ver) /\ DOMAIN s = Fields /\ s.pc = "peer"
  BY StepTypes
<1>2. /\ DOMAIN t = Fields /\ t.pc = "write" /\ t.req = s.req /\ t.obj = s.obj
      /\ t.sid = s.sid /\ t.yiaddr = s.yiaddr /\ t.seen = s.seen /\ t.opts = s.opts
      /\ t.file = s.file
      /\ t.peer = a /\ t.woob = Woob(s.req, a)
  BY <1>1 DEF Fields
<1> HIDE DEF s, t
<1>3. HandlerInv(t, ver)
  BY <1>1, <1>2 DEF HandlerInv, Holds, Says, Flagged, Decided, Routed, PC, Holding
<1>4. hs' = Watched([hs EXCEPT ![h] = t])
  BY DEF s, t
<1> QED BY <1>2, <1>3, <1>4, MovesOn

LEMMA WriteInv ==
  ASSUME Inv, NEW h \in Handler, Write(h)
  PROVE  Shape' /\ Remembered' /\ \A g \in Handler : HandlerInv(hs'[g], ver')
<1>1. PICK a : /\ hs' = Watched([hs EXCEPT ![h] = [hs[h] EXCEPT !.pc = "sent", !.to = a]])
               /\ UNCHANGED server
  BY DEF Write, Local
<1> DEFINE s == hs[h]
           t == [s EXCEPT !.pc = "sent", !.to = a]
<1>2. HandlerInv(s, ver) /\ DOMAIN s = Fields /\ s.pc = "write"
  BY StepTypes DEF Write, At
<1>3. /\ DOMAIN t = Fields /\ t.pc = "sent" /\ t.req = s.req /\ t.obj = s.obj
      /\ t.sid = s.sid /\ t.yiaddr = s.yiaddr /\ t.seen = s.seen /\ t.opts = s.opts
      /\ t.file = s.file
      /\ t.peer = s.peer /\ t.woob = s.woob
  BY <1>2 DEF Fields
<1> HIDE DEF s, t
<1>4. HandlerInv(t, ver)
  BY <1>2, <1>3 DEF HandlerInv, Holds, Says, Flagged, Decided, Routed, PC, Holding
<1>5. hs' = Watched([hs EXCEPT ![h] = t])
  BY <1>1 DEF s, t
<1> QED BY <1>1, <1>3, <1>4, <1>5, MovesOn
\* The client's address fits: it is in a manifest, and it came in a datagram.
LEMMA ArpFits ==
  ASSUME Inv, NEW h \in Handler, hs[h].pc = "peer"
  PROVE  /\ FitsSockaddr(hs[h].req.mac)
         /\ hs[h].yiaddr \in IP /\ hs[h].req.mac \in MAC
<1>1. /\ hs[h].req \in Packets /\ hs[h].req.mac \in MAC
      /\ hs[h].obj.man \in Inputs /\ hs[h].req.mac \in hs[h].obj.man.macs
      /\ hs[h].yiaddr \in IP
  BY StepTypes DEF HandlerInv, Holds, Holding
<1>2. HwLen[hs[h].req.mac] \in {0, 6, 8, 20} /\ HwLen[hs[h].req.mac] \in 0..16
  BY <1>1, HwLenAssumption
<1> QED BY <1>1, <1>2 DEF FitsSockaddr

LEMMA InjectArpInv ==
  ASSUME Inv, NEW h \in Handler, InjectArp(h)
  PROVE  /\ Shape' /\ Remembered' /\ \A g \in Handler : HandlerInv(hs'[g], ver')
         /\ arp' = [arp EXCEPT ![hs[h].yiaddr] = hs[h].req.mac]
         /\ up' = TRUE
<1> DEFINE s == hs[h]
           a == s.yiaddr
<1>1. s.pc = "peer" /\ DOMAIN s = Fields /\ DOMAIN hs = Handler
  BY StepTypes DEF InjectArp, NeedsArp, At, Inv, Shape
<1>2. UNCHANGED server
  BY DEF InjectArp
<1>3. [hs EXCEPT ![h].pc = "write", ![h].peer = a, ![h].woob = Woob(s.req, a)]
      = [hs EXCEPT ![h] = [s EXCEPT !.pc = "write", !.peer = a, !.woob = Woob(s.req, a)]]
  BY <1>1 DEF Fields
<1>4. hs' = Watched([hs EXCEPT ![h] = [s EXCEPT !.pc = "write", !.peer = a,
                                                !.woob = Woob(s.req, a)]])
  BY <1>3 DEF InjectArp
<1>5. Shape' /\ Remembered' /\ \A g \in Handler : HandlerInv(hs'[g], ver')
  BY <1>1, <1>2, <1>4, PeerInv
<1> QED BY <1>1, <1>5, ArpFits DEF InjectArp

LEMMA NextInv == Inv /\ [Next]_vars => Inv'
<1> SUFFICES ASSUME Inv, [Next]_vars PROVE Inv'
  OBVIOUS
<1>0. StoreInv'
  BY NextStore DEF Inv
<1> DEFINE Fine == Shape' /\ Remembered' /\ \A g \in Handler : HandlerInv(hs'[g], ver')
<1>1. ASSUME Fine, UNCHANGED <<arp, up>> PROVE Inv'
  BY <1>0, <1>1 DEF Inv
<1> HIDE DEF Fine
<1>2. ASSUME NEW h \in Handler, NEW r \in Packets, Receive(h, r) PROVE Inv'
  <2>1. Fine
    BY <1>2, ReceiveInv DEF Fine
  <2> QED BY <1>1, <1>2, <2>1 DEF Receive, Local
<1>3. ASSUME NEW h \in Handler, HandleMsg4(h) PROVE Inv'
  <2>1. CASE Discard(h) \/ IgnoreUnknown(h) \/ IgnoreOther(h)
    <3>1. Fine
      BY <2>1, DropInv DEF Discard, IgnoreUnknown, IgnoreOther, At, Fine
    <3> QED BY <1>1, <2>1, <3>1 DEF Discard, IgnoreUnknown, IgnoreOther, Drop, Local
  <2>2. CASE Answer(h)
    BY <1>1, <2>2, AnswerInv DEF Answer, Local, Fine
  <2>3. CASE TftpServerName(h)
    BY <1>1, <2>3, TftpServerNameInv DEF TftpServerName, Local, Fine
  <2>4. CASE BootFile(h)
    BY <1>1, <2>4, BootFileInv DEF BootFile, Local, Fine
  <2>5. CASE PeerKnown(h) \/ InjectFails(h)
    <3>1. PICK a : Local(h, [hs[h] EXCEPT !.pc = "write", !.peer = a,
                                          !.woob = Woob(hs[h].req, a)])
      BY <2>5 DEF PeerKnown, InjectFails
    <3>2. hs[h].pc = "peer"
      BY <2>5 DEF PeerKnown, InjectFails, NeedsArp, At
    <3>3. Fine
      BY <3>1, <3>2, PeerInv DEF Local, Fine
    <3> QED BY <1>1, <3>1, <3>3 DEF Local
  <2>6. CASE InjectArp(h)
    <3>1. /\ Fine /\ up' = TRUE
          /\ arp' = [arp EXCEPT ![hs[h].yiaddr] = hs[h].req.mac]
      BY <2>6, InjectArpInv DEF Fine
    <3>2. hs[h].yiaddr \in IP /\ hs[h].req.mac \in MAC
      BY <2>6, ArpFits DEF InjectArp, NeedsArp, At
    <3> QED BY <1>0, <3>1, <3>2 DEF Inv, Fine
  <2>7. CASE Write(h)
    BY <1>1, <2>7, WriteInv DEF Write, Local, Fine
  <2>8. CASE Return(h)
    <3>1. Fine
      BY <2>8, FreshInv, MovesOn DEF Return, Local, Fine
    <3> QED BY <1>1, <2>8, <3>1 DEF Return, Local
  <2> QED BY <1>3, <2>1, <2>2, <2>3, <2>4, <2>5, <2>6, <2>7, <2>8 DEF HandleMsg4
<1>4. CASE ReadFailed \/ \E a \in IP : ArpExpire(a)
  <2>1. hs' = hs /\ ver' = ver /\ up' \in BOOLEAN /\ arp' \in [IP -> MAC \cup {Nil}]
    BY <1>4 DEF ReadFailed, ArpExpire, server, Inv
  <2>2. suspended' = suspended
    BY <1>4 DEF ReadFailed, ArpExpire, server
  <2> QED BY <1>0, <2>1, <2>2 DEF Inv, Shape, Remembered
<1>5. CASE StoreStep
  <2>1. ver \in Nat /\ ver' \in Nat
    BY <1>0, StoreAssumed DEF Inv, StoreInv, P!TypeOK, P!FilesAssumption
  <2>2. ver' \in {ver, ver + 1}
    BY <1>5 DEF StoreStep, S!LoadFile, S!Put, S!PutManifest, S!store, S!ForgetLookup,
                S!ForgetDelete, S!Remove, S!FlagLookup, S!FlagWrite, S!WriteSuspended
  <2>3. Fine
    BY <1>5, <2>1, <2>2, OthersMove DEF StoreStep, Fine
  <2> QED BY <1>1, <1>5, <2>3 DEF StoreStep
<1>6. CASE Restart
  <2>1. Fine
    BY <1>6, FreshInv DEF Restart, Shape, Remembered, Fresh, Fine
  <2> QED BY <1>0, <1>6, <2>1 DEF Inv, Fine, Restart
<1>7. CASE UNCHANGED vars
  BY <1>0, <1>7 DEF vars, Inv, Shape, Remembered
<1> QED BY <1>2, <1>3, <1>4, <1>5, <1>6, <1>7 DEF Next

LEMMA InvHolds == Spec => []Inv
BY InitInv, NextInv, PTL DEF Spec

-----------------------------------------------------------------------------
(* What follows for replies *)

\* The handlers and the ARP table keep their types; a handler that answers
\* holds a manifest made since the last restart.
THEOREM TypeCorrect == Spec => []TypeOK
<1>1. Inv => TypeOK
  <2> SUFFICES ASSUME Inv, NEW h \in Handler
               PROVE  /\ hs[h].pc \in PC
                      /\ hs[h].req \in Packets \cup {Nil}
                      /\ hs[h].obj \in S!Obj \cup {Nil}
                      /\ hs[h].obj # Nil => hs[h].obj.ver <= ver
                      /\ hs[h].yiaddr \in IP \cup {Nil}
                      /\ hs[h].file # Nil => "bootfile" \in hs[h].opts
                      /\ hs[h].pc \in {"tftp", "boot", "peer", "write", "sent"} =>
                           hs[h].obj # Nil /\ hs[h].yiaddr # Nil
    BY DEF Inv, TypeOK
  <2>1. HandlerInv(hs[h], ver)
    BY DEF Inv
  <2>2. Nil \notin IP
    BY StoreAssumed DEF P!InputsAssumption
  <2> QED BY <2>1, <2>2 DEF HandlerInv, Holds, Says, Holding
<1> QED BY <1>1, InvHolds, PTL

\* A reply is made from one manifest that lists the client's MAC address, for
\* every interleaving of its handler with puts, forgets and other handlers.
THEOREM RepliesFromOneManifest == Spec => []FromOneManifest
<1>1. Inv => FromOneManifest
  <2> SUFFICES ASSUME Inv, NEW h \in Handler, hs[h].pc = "sent"
               PROVE  \E m \in Inputs : /\ hs[h].req.mac \in m.macs
                                        /\ hs[h].yiaddr = m.ip
                                        /\ hs[h].file \in {Nil, BootFileName(hs[h].req, m)}
                                        /\ "lease-time" \in hs[h].opts <=> m.lease
    BY DEF FromOneManifest
  <2>1. HandlerInv(hs[h], ver)
    BY DEF Inv
  <2>2. hs[h].obj.man \in Inputs
    BY <2>1 DEF HandlerInv, Holds, Holding
  <2> QED BY <2>1, <2>2 DEF HandlerInv, Holds, Says, Holding
<1> QED BY <1>1, InvHolds, PTL

\* Suspending and unsuspending while a request is handled: a flag that did not
\* change decides about all NBP options, one way or the other.
THEOREM SuspensionRespected == Spec => []SuspendRespected
<1>1. Inv => SuspendRespected
  <2> SUFFICES ASSUME Inv, NEW h \in Handler, hs[h].pc = "sent"
               PROVE  /\ hs[h].seen = {TRUE} => hs[h].opts \cap NBP = {}
                      /\ hs[h].seen = {FALSE} =>
                           hs[h].opts \cap NBP = hs[h].req.asks \cap NBP
    BY DEF SuspendRespected
  <2>1. Decided(hs[h], "tftp-server-name") /\ Decided(hs[h], "bootfile")
    BY DEF Inv, HandlerInv, Flagged
  <2>2. FALSE \notin {TRUE} /\ TRUE \notin {FALSE}
    OBVIOUS
  <2> QED BY <2>1, <2>2 DEF Decided, NBP
<1> QED BY <1>1, InvHolds, PTL

\* Every reply names the address of the interface its request came in on as
\* the server's, and broadcast and link-local replies leave by it, bound or not.
THEOREM RepliesLeaveArrivalInterface == Spec => []LeavesArrivalInterface
<1>1. Inv => LeavesArrivalInterface
  <2> SUFFICES ASSUME Inv, NEW h \in Handler, hs[h].pc = "sent"
               PROVE  /\ hs[h].sid = LocalIP[hs[h].req.via]
                      /\ hs[h].peer = Broadcast \/ hs[h].peer \in LinkLocal =>
                           hs[h].woob = hs[h].req.via
    BY DEF LeavesArrivalInterface
  <2>1. hs[h].req \in Packets /\ HasLocalIP(hs[h].req)
    BY DEF Inv, HandlerInv, Holds, Routed, Holding
  <2>2. IfIndex(hs[h].req) = hs[h].req.via
    BY <2>1, PacketsAssumption DEF HasLocalIP, IfIndex
  <2> QED BY <2>2 DEF Inv, HandlerInv, Routed, Holding, Woob
<1> QED BY <1>1, InvHolds, PTL

\* No hardware address, however long, makes the ARP injection panic.
THEOREM ArpNeverPanics == Spec => NoArpPanic
<1>1. Inv /\ [Next]_vars => [\A h \in Handler : InjectArp(h) => up']_vars
  BY InjectArpInv
<1> QED BY <1>1, InvHolds, PTL DEF Spec, NoArpPanic
-----------------------------------------------------------------------------
(* Who is answered *)

\* An ID never gives up a MAC address.
KeptMACs ==
  \A m, n \in Inputs :
    ~S!Rejected(m) /\ ~S!Rejected(n) /\ m.id = n.id => m.macs = n.macs

\* No two IDs claim the same MAC address.
UniqueMACs ==
  \A m, n \in Inputs :
    ~S!Rejected(m) /\ ~S!Rejected(n) /\ m.id # n.id => m.macs \cap n.macs = {}

\* If an ID never gives up a MAC address, only clients that a registered
\* manifest lists are answered, also while manifests are being deleted.
THEOREM OnlyKnownAnswered ==
  ASSUME KeptMACs
  PROVE  Spec => RespondsOnlyToKnown
<1>1. Init => P!Coherent
  BY InitStore, StoreAssumed, P!InitCoherent
<1>2. Inv /\ P!Coherent /\ [Next]_vars => P!Coherent'
  <2>1. [Next]_vars => [P!Next]_(P!vars)
    BY StoreMoves DEF vars, P!vars
  <2> QED BY <2>1, StoreAssumed, P!NextCoherent DEF Inv, StoreInv
<1>3. Inv /\ P!Coherent /\ [Next]_vars =>
        [\A h \in Handler : Answer(h) =>
           \E i \in ID : manifests[i] # Nil /\ hs[h].req.mac \in manifests[i].man.macs]_vars
  <2> SUFFICES ASSUME Inv, P!Coherent, NEW h \in Handler, Answer(h)
               PROVE  \E i \in ID : /\ manifests[i] # Nil
                                    /\ hs[h].req.mac \in manifests[i].man.macs
    OBVIOUS
  <2> DEFINE x == hs[h].req.mac
  <2>1. x \in MAC /\ mac[x] # Nil
    BY StepTypes DEF Answer, At, S!FindByMAC
  <2>2. x \in mac[x].man.macs /\ mac[x] \in P!Obj /\ mac[x] \in P!Live
    BY <2>1 DEF Inv, StoreInv, P!TypeOK, P!IndexSound, P!Live, P!Served
  <2>3. mac[x].man.id \in ID
    BY <2>2, StoreAssumed, P!ObjFields DEF Inv, StoreInv, P!IndexSound, P!Rejected
  <2>4. P!KeepsMAC(mac[x].man.id, x)
    <3>1. mac[x].man \in Inputs /\ ~S!Rejected(mac[x].man)
      BY <2>2, StoreAssumed, P!ObjFields DEF Inv, StoreInv, P!IndexSound, P!Rejected, S!Rejected
    <3> QED BY <2>2, <3>1 DEF KeptMACs, P!KeepsMAC, P!Valid, P!Rejected, S!Rejected
  <2>5. manifests[mac[x].man.id] = mac[x]
    BY <2>1, <2>4 DEF P!Coherent
  <2> QED BY <2>1, <2>2, <2>3, <2>5
<1> QED BY <1>1, <1>2, <1>3, InvHolds, PTL DEF Spec, RespondsOnlyToKnown

\* If no two IDs claim the same MAC address, no client that a registered manifest
\* lists is ignored as unknown, also while its manifest is being replaced.
THEOREM NoKnownIgnored ==
  ASSUME UniqueMACs
  PROVE  Spec => KnownNotIgnored
<1>1. Init => P!Reachable
  BY InitStore, StoreAssumed, P!InitReachable
<1>2. Inv /\ P!Reachable /\ [Next]_vars => P!Reachable'
  <2>1. [Next]_vars => [P!Next]_(P!vars)
    BY StoreMoves DEF vars, P!vars
  <2> QED BY <2>1, StoreAssumed, P!NextReachable DEF Inv, StoreInv
<1>3. Inv /\ P!Reachable /\ [Next]_vars =>
        [\A h \in Handler : IgnoreUnknown(h) =>
           \A i \in ID : manifests[i] # Nil =>
             hs[h].req.mac \notin manifests[i].man.macs]_vars
  <2>1. \A x : P!UniqueMAC(x)
    BY DEF UniqueMACs, P!UniqueMAC, P!Valid, P!Rejected, S!Rejected
  <2> QED BY <2>1 DEF P!Reachable, IgnoreUnknown, S!FindByMAC
<1> QED BY <1>1, <1>2, <1>3, InvHolds, PTL DEF Spec, KnownNotIgnored

-----------------------------------------------------------------------------
(* Unicast to a client without an address *)

\* Some manifest lists x for the address a.
Listed(a, x) == \E m \in Inputs : m.ip = a /\ x \in m.macs

\* Every entry this server made is for a client the address belongs to.
TableListed == \A a \in IP : arp[a] # Nil => Listed(a, arp[a])

\* The handler of s relies on the ARP table.
Injected(s) == s.req.giaddr = Nil /\ s.req.ciaddr = Nil /\ s.peer # Broadcast

\* It then sends to the address it offers; and where it sent to is listed.
Aims(s) ==
  /\ s.pc = "write" /\ Injected(s) => s.peer = s.yiaddr
  /\ s.pc = "sent" /\ s.to # Nil => Listed(s.peer, s.to)

UnicastInv == TableListed /\ \A h \in Handler : Aims(hs[h])

\* A step that leaves handlers in the states f, up to their history.
LEMMA AimsStill ==
  ASSUME NEW f, \A g \in Handler : DOMAIN f[g] = Fields /\ Aims(f[g]), hs' = Watched(f)
  PROVE  \A g \in Handler : Aims(hs'[g])
<1> SUFFICES ASSUME NEW g \in Handler PROVE Aims(hs'[g])
  OBVIOUS
<1>1. Agree(hs'[g], f[g])
  BY WatchedEffect
<1> QED BY <1>1 DEF Aims, Injected, Agree

\* A step of one handler.
LEMMA AimsLocal ==
  ASSUME Inv, UnicastInv, NEW h \in Handler, NEW t, DOMAIN t = Fields, Aims(t),
         hs' = Watched([hs EXCEPT ![h] = t])
  PROVE  \A g \in Handler : Aims(hs'[g])
<1> DEFINE f == [hs EXCEPT ![h] = t]
<1>1. f[h] = t /\ \A g \in Handler : g # h => f[g] = hs[g]
  BY DEF Inv, Shape
<1>2. hs' = Watched(f)
  OBVIOUS
<1> HIDE DEF f
<1>3. \A g \in Handler : DOMAIN f[g] = Fields /\ Aims(f[g])
  BY <1>1 DEF Inv, Shape, UnicastInv
<1> QED BY <1>2, <1>3, AimsStill

LEMMA InjectArpAims ==
  ASSUME Inv, UnicastInv, NEW h \in Handler, InjectArp(h)
  PROVE  UnicastInv'
<1> DEFINE s == hs[h]
           a == s.yiaddr
           t == [s EXCEPT !.pc = "write", !.peer = a, !.woob = Woob(s.req, a)]
<1>1. s.pc = "peer" /\ DOMAIN s = Fields /\ DOMAIN hs = Handler
  BY StepTypes DEF InjectArp, NeedsArp, At, Inv, Shape
<1>2. [hs EXCEPT ![h].pc = "write", ![h].peer = a, ![h].woob = Woob(s.req, a)]
      = [hs EXCEPT ![h] = t]
  BY <1>1 DEF Fields
<1>3. hs' = Watched([hs EXCEPT ![h] = t])
  BY <1>2 DEF InjectArp
<1>4. /\ arp' = [arp EXCEPT ![a] = s.req.mac]
      /\ a \in IP /\ arp \in [IP -> MAC \cup {Nil}]
  BY <1>1, InjectArpInv, ArpFits DEF Inv
<1>5. Listed(a, s.req.mac)
  <2>1. s.obj.man \in Inputs /\ s.req.mac \in s.obj.man.macs /\ a = s.obj.man.ip
    BY <1>1 DEF Inv, HandlerInv, Holds, Holding
  <2> QED BY <2>1 DEF Listed
<1>6. DOMAIN t = Fields /\ t.pc = "write" /\ t.yiaddr = a /\ t.peer = a
  BY <1>1 DEF Fields
<1> HIDE DEF t, s
<1>7. Aims(t)
  BY <1>6 DEF Aims
<1>8. \A g \in Handler : Aims(hs'[g])
  BY <1>3, <1>6, <1>7, AimsLocal
<1>9. TableListed'
  BY <1>4, <1>5 DEF UnicastInv, TableListed, Listed
<1> QED BY <1>8, <1>9 DEF UnicastInv

LEMMA NextAims == Inv /\ UnicastInv /\ [Next]_vars => UnicastInv'
<1> SUFFICES ASSUME Inv, UnicastInv, [Next]_vars PROVE UnicastInv'
  OBVIOUS
<1>1. \A h \in Handler : DOMAIN hs[h] = Fields /\ Aims(hs[h])
  BY DEF Inv, Shape, UnicastInv
<1>2. DOMAIN Fresh = Fields /\ Aims(Fresh)
  BY DEF Fresh, Fields, Aims
\* A handler takes a step that leaves the table alone.
<1>3. ASSUME NEW h \in Handler, NEW t, DOMAIN t = Fields, Local(h, t), Aims(t)
      PROVE  UnicastInv'
  <2>1. \A g \in Handler : Aims(hs'[g])
    BY <1>3, AimsLocal DEF Local
  <2> QED BY <1>3, <2>1 DEF Local, UnicastInv, TableListed, Listed
\* It neither writes the reply nor has done so.
<1>a. ASSUME NEW h \in Handler, NEW t, DOMAIN t = Fields, Local(h, t),
             t.pc \notin {"write", "sent"}
      PROVE  UnicastInv'
  <2>1. Aims(t)
    BY <1>a DEF Aims
  <2> QED BY <1>3, <1>a, <2>1
<1>4. ASSUME NEW h \in Handler, NEW r \in Packets, Receive(h, r) PROVE UnicastInv'
  <2> DEFINE t == [Fresh EXCEPT !.pc = "packet", !.req = r]
  <2>1. DOMAIN t = Fields /\ t.pc = "packet"
    BY DEF Fresh, Fields
  <2>2. Local(h, t)
    BY <1>4 DEF Receive
  <2> QED BY <1>a, <2>1, <2>2
<1>5. ASSUME NEW h \in Handler, HandleMsg4(h) PROVE UnicastInv'
  <2> DEFINE s == hs[h]
  <2>0. DOMAIN s = Fields
    BY <1>1
  <2>1. CASE Discard(h) \/ IgnoreUnknown(h) \/ IgnoreOther(h)
    <3>1. Local(h, [s EXCEPT !.pc = "dropped"])
      BY <2>1 DEF Discard, IgnoreUnknown, IgnoreOther, Drop
    <3> QED BY <1>a, <2>0, <3>1 DEF Fields
  <2>2. CASE Answer(h)
    <3>1. PICK o, i, a, x : Local(h, [s EXCEPT !.pc = "tftp", !.obj = o, !.sid = i,
                                               !.yiaddr = a, !.opts = x])
      BY <2>2 DEF Answer
    <3> QED BY <1>a, <2>0, <3>1 DEF Fields
  <2>3. CASE TftpServerName(h)
    <3>1. PICK x : Local(h, [s EXCEPT !.pc = "boot", !.opts = @ \cup x])
      BY <2>3 DEF TftpServerName
    <3> QED BY <1>a, <2>0, <3>1 DEF Fields
  <2>4. CASE BootFile(h)
    <3>1. PICK t : /\ Local(h, t)
                   /\ t \in {[s EXCEPT !.pc = "peer", !.opts = @ \cup {"bootfile"},
                                       !.file = BootFileName(s.req, Manifest(h).man)],
                             [s EXCEPT !.pc = "peer"]}
      BY <2>4 DEF BootFile
    <3>2. DOMAIN t = Fields /\ t.pc = "peer"
      BY <2>0, <3>1 DEF Fields
    <3> QED BY <1>a, <3>1, <3>2
  <2>5. CASE PeerKnown(h) \/ InjectFails(h)
    <3>1. PICK a : /\ Local(h, [s EXCEPT !.pc = "write", !.peer = a,
                                         !.woob = Woob(s.req, a)])
                   /\ s.req.giaddr # Nil \/ s.req.ciaddr # Nil \/ a = Broadcast
      BY <2>5 DEF PeerKnown, InjectFails
    <3> DEFINE t == [s EXCEPT !.pc = "write", !.peer = a, !.woob = Woob(s.req, a)]
    <3>2. DOMAIN t = Fields /\ t.pc = "write" /\ t.req = s.req /\ t.peer = a
      BY <2>0 DEF Fields
    <3>3. Local(h, t)
      BY <3>1
    <3> HIDE DEF t
    <3>4. Aims(t)
      BY <3>1, <3>2 DEF Aims, Injected
    <3> QED BY <1>3, <3>2, <3>3, <3>4
  <2>6. CASE InjectArp(h)
    BY <2>6, InjectArpAims
  <2>7. CASE Write(h)
    <3>1. s.pc = "write" /\ Aims(s) /\ s.yiaddr \in IP
      BY <1>1, <2>7 DEF Write, At, Inv, HandlerInv, Holds, Holding
    <3>2. PICK x : /\ Local(h, [s EXCEPT !.pc = "sent", !.to = x])
                   /\ IF Injected(s) THEN x = arp[s.peer] ELSE x = Nil
      BY <2>7, <3>1 DEF Write, Injected
    <3> DEFINE t == [s EXCEPT !.pc = "sent", !.to = x]
    <3>3. DOMAIN t = Fields /\ t.pc = "sent" /\ t.peer = s.peer /\ t.to = x
      BY <2>0 DEF Fields
    <3>4. Local(h, t)
      BY <3>2
    <3> HIDE DEF t
    <3>5. x # Nil => Listed(s.peer, x)
      BY <3>1, <3>2 DEF Aims, UnicastInv, TableListed
    <3>6. Aims(t)
      BY <3>3, <3>5 DEF Aims
    <3> QED BY <1>3, <3>3, <3>4, <3>6
  <2>8. CASE Return(h)
    BY <1>2, <1>3, <2>8 DEF Return
  <2> QED BY <1>5, <2>1, <2>2, <2>3, <2>4, <2>5, <2>6, <2>7, <2>8 DEF HandleMsg4
<1>6. CASE ReadFailed \/ UNCHANGED vars
  BY <1>6 DEF ReadFailed, vars, UnicastInv, TableListed, Listed, Aims, Injected
<1>7. ASSUME NEW a \in IP, ArpExpire(a) PROVE UnicastInv'
  <2>1. hs' = hs /\ \A b \in IP : arp'[b] \in {Nil, arp[b]}
    BY <1>7 DEF ArpExpire, Inv
  <2> QED BY <2>1 DEF UnicastInv, TableListed, Listed, Aims, Injected
<1>8. CASE StoreStep
  <2>1. arp' = arp /\ hs' = Watched(hs)
    BY <1>8 DEF StoreStep
  <2>2. \A g \in Handler : Aims(hs'[g])
    BY <1>1, <2>1, AimsStill
  <2> QED BY <2>1, <2>2 DEF UnicastInv, TableListed, Listed
<1>9. CASE Restart
  <2>1. arp' = arp /\ hs' = [h \in Handler |-> Fresh]
    BY <1>9 DEF Restart
  <2> QED BY <1>2, <2>1 DEF UnicastInv, TableListed, Listed
<1> QED BY <1>4, <1>5, <1>6, <1>7, <1>8, <1>9 DEF Next

\* Whatever handlers, restarts and earlier processes left in the ARP table, a
\* unicast reply goes to a client some manifest lists for the address, or to
\* nobody; for any number of clients per address.
THEOREM UnicastStaysListed == Spec => []UnicastToListed
<1>1. Init => UnicastInv
  BY DEF Init, Fresh, UnicastInv, TableListed, Aims
<1>2. UnicastInv => UnicastToListed
  BY DEF UnicastInv, Aims, Listed, UnicastToListed
<1> QED BY <1>1, <1>2, InvHolds, NextAims, PTL DEF Spec
=============================================================================
