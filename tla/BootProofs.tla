----------------------------- MODULE BootProofs -----------------------------
(***************************************************************************)
(* Proofs about Boot, for every set of manifests and machines, any number  *)
(* of goroutines, and any losses, retries, restarts and changes of the     *)
(* manifests on the way.                                                   *)
(***************************************************************************)
EXTENDS Boot, TLAPS

\* What is proved of the DHCP server holds of the one the machines talk to.
Q == INSTANCE DhcpProofs

-----------------------------------------------------------------------------
(* The DHCP server *)

LEMMA DhcpAssumed ==
  /\ Q!HwLenAssumption /\ Q!PacketsAssumption /\ Q!StoreAssumption
BY DhcpAssumption
DEF D!HwLenAssumption, D!PacketsAssumption, D!StoreAssumption, D!S!InputsAssumption,
    D!S!FilesAssumption, D!S!NilAssumption, D!S!Obj,
    Q!HwLenAssumption, Q!PacketsAssumption, Q!StoreAssumption, Q!S!InputsAssumption,
    Q!S!FilesAssumption, Q!S!NilAssumption, Q!S!Obj

LEMMA InitDhcp == Init => Q!Inv
<1>1. Init => Q!Init
  BY DEF Init, D!Init, D!Fresh, D!S!Init, D!S!Empty, D!S!Idle,
         Q!Init, Q!Fresh, Q!S!Init, Q!S!Empty, Q!S!Idle
<1> QED BY <1>1, DhcpAssumed, Q!InitInv

\* Every step of the whole is a step of the DHCP server or leaves it alone.
LEMMA ReceiveMoves ==
  ASSUME NEW h \in Handler, NEW r \in Packets, D!Receive(h, r)
  PROVE  Q!Next
BY DEF D!Receive, D!S!Loaded, D!At, D!Local, D!server, D!Watched, D!NBP, D!Fresh,
       Q!Next, Q!Receive, Q!S!Loaded, Q!At, Q!Local, Q!server, Q!Watched, Q!NBP, Q!Fresh

LEMMA HandleMsg4Moves ==
  ASSUME NEW h \in Handler, D!HandleMsg4(h)
  PROVE  Q!Next
<1> SUFFICES Q!HandleMsg4(h)
  BY DEF Q!Next
<1> USE DEF D!At, D!Local, D!server, D!Watched, D!NBP, D!Discarded, D!HasLocalIP,
            D!IfIndex, D!S!FindByMAC, D!Drop, D!Manifest,
            Q!At, Q!Local, Q!server, Q!Watched, Q!NBP, Q!Discarded, Q!HasLocalIP,
            Q!IfIndex, Q!S!FindByMAC, Q!Drop, Q!Manifest, Q!HandleMsg4
<1>1. CASE D!Discard(h)
  BY <1>1 DEF D!Discard, Q!Discard
<1>2. CASE D!IgnoreUnknown(h)
  BY <1>2 DEF D!IgnoreUnknown, Q!IgnoreUnknown
<1>3. CASE D!IgnoreOther(h)
  BY <1>3 DEF D!IgnoreOther, Q!IgnoreOther, D!OtherServer, Q!OtherServer
<1>4. CASE D!Answer(h)
  BY <1>4 DEF D!Answer, Q!Answer, D!OtherServer, Q!OtherServer, D!Options, Q!Options
<1>5. CASE D!TftpServerName(h)
  BY <1>5 DEF D!TftpServerName, Q!TftpServerName
<1>6. CASE D!BootFile(h)
  BY <1>6 DEF D!BootFile, Q!BootFile, D!BootFileName, Q!BootFileName
<1>7. CASE D!PeerKnown(h)
  BY <1>7 DEF D!PeerKnown, Q!PeerKnown, D!Broadcast, Q!Broadcast, D!Woob, Q!Woob
<1>8. CASE D!InjectArp(h)
  BY <1>8 DEF D!InjectArp, Q!InjectArp, D!NeedsArp, Q!NeedsArp, D!Broadcast, Q!Broadcast,
              D!Woob, Q!Woob, D!FitsSockaddr, Q!FitsSockaddr
<1>9. CASE D!InjectFails(h)
  BY <1>9 DEF D!InjectFails, Q!InjectFails, D!NeedsArp, Q!NeedsArp, D!Broadcast,
              Q!Broadcast, D!Woob, Q!Woob
<1>10. CASE D!Write(h)
  BY <1>10 DEF D!Write, Q!Write, D!Broadcast, Q!Broadcast
<1>11. CASE D!Return(h)
  BY <1>11 DEF D!Return, Q!Return, D!Fresh, Q!Fresh
<1> QED BY <1>1, <1>2, <1>3, <1>4, <1>5, <1>6, <1>7, <1>8, <1>9, <1>10, <1>11
        DEF D!HandleMsg4

LEMMA StoreStepMoves == D!StoreStep => Q!Next
<1> SUFFICES ASSUME D!StoreStep PROVE Q!StoreStep
  BY DEF Q!Next
<1>1. up /\ hs' = Q!Watched(hs) /\ UNCHANGED <<arp, up>>
  BY DEF D!StoreStep, D!Watched, D!NBP, Q!Watched, Q!NBP
<1>2. CASE D!S!LoadFile
  <2>1. Q!S!LoadFile
    BY <1>2 DEF D!S!LoadFile, D!S!Loaded, D!S!PutManifest, D!S!Insert, D!S!Rejected,
                D!S!store, Q!S!LoadFile, Q!S!Loaded, Q!S!PutManifest, Q!S!Insert,
                Q!S!Rejected, Q!S!store
  <2> QED BY <1>1, <2>1 DEF Q!StoreStep
<1>3. ASSUME NEW m \in Inputs, D!S!Put(m) PROVE Q!StoreStep
  <2>1. Q!S!Put(m)
    BY <1>3 DEF D!S!Put, D!S!Loaded, D!S!PutManifest, D!S!Insert, D!S!Rejected,
                D!S!store, Q!S!Put, Q!S!Loaded, Q!S!PutManifest, Q!S!Insert,
                Q!S!Rejected, Q!S!store
  <2> QED BY <1>1, <2>1 DEF Q!StoreStep
<1>4. ASSUME NEW c \in Caller, NEW id \in ID, D!S!ForgetLookup(c, id) PROVE Q!StoreStep
  <2>1. Q!S!ForgetLookup(c, id)
    BY <1>4 DEF D!S!ForgetLookup, D!S!Loaded, D!S!Idle, D!S!Find,
                Q!S!ForgetLookup, Q!S!Loaded, Q!S!Idle, Q!S!Find
  <2> QED BY <1>1, <2>1 DEF Q!StoreStep
<1>5. ASSUME NEW c \in Caller, D!S!ForgetDelete(c) PROVE Q!StoreStep
  <2>1. Q!S!ForgetDelete(c)
    BY <1>5 DEF D!S!ForgetDelete, D!S!Remove, D!S!Idle,
                Q!S!ForgetDelete, Q!S!Remove, Q!S!Idle
  <2> QED BY <1>1, <2>1 DEF Q!StoreStep
<1>6. ASSUME NEW c \in Caller, NEW a \in IP, NEW op \in {"suspend", "unsuspend"},
             D!S!FlagLookup(c, a, op)
      PROVE  Q!StoreStep
  <2>1. Q!S!FlagLookup(c, a, op)
    BY <1>6 DEF D!S!FlagLookup, D!S!Loaded, D!S!Idle, D!S!FindByIP,
                Q!S!FlagLookup, Q!S!Loaded, Q!S!Idle, Q!S!FindByIP
  <2> QED BY <1>1, <2>1 DEF Q!StoreStep
<1>7. ASSUME NEW c \in Caller, D!S!FlagWrite(c) PROVE Q!StoreStep
  <2>1. Q!S!FlagWrite(c)
    BY <1>7 DEF D!S!FlagWrite, D!S!WriteSuspended, D!S!Idle,
                Q!S!FlagWrite, Q!S!WriteSuspended, Q!S!Idle
  <2> QED BY <1>1, <2>1 DEF Q!StoreStep
<1> QED BY <1>2, <1>3, <1>4, <1>5, <1>6, <1>7 DEF D!StoreStep

-----------------------------------------------------------------------------
(* The machines *)

Rec(p, l, a, f) == [phase |-> p, loader |-> l, addr |-> a, file |-> f]

Shape ==
  /\ cl = [c \in Client |-> cl[c]]
  /\ \A c \in Client :
       /\ cl[c] = Rec(cl[c].phase, cl[c].loader, cl[c].addr, cl[c].file)
       /\ cl[c].loader \in {"pxe", "ipxe"}

\* One manifest lists c and has the address of s, and c was told to load what
\* that manifest says.
Told(c, s) ==
  /\ s.addr \in IP
  /\ \E m \in Inputs : /\ c \in m.macs /\ m.ip = s.addr
                       /\ s.file = D!BootFileName(Packet(c, s.loader, "request"), m)

\* What the machine knows, by phase.
Knows(c, s) ==
  /\ s.phase \in {"discover", "request", "fetch", "booted"}
  /\ s.phase \in {"discover", "request"} => s.file = Nil
  /\ s.phase \in {"fetch", "booted"} => Told(c, s)
  /\ s.phase = "booted" => \E n \in Inputs : s.file \in n.serves

Inv == Q!Inv /\ Shape /\ \A c \in Client : Knows(c, cl[c])

LEMMA NextDhcp == Q!Inv /\ Shape /\ [Next]_vars => Q!Inv'
<1> SUFFICES ASSUME Q!Inv, Shape, [Next]_vars PROVE Q!Inv'
  OBVIOUS
<1>1. ASSUME UNCHANGED server PROVE UNCHANGED Q!vars
  BY <1>1 DEF server, Q!vars
<1>2. ASSUME NEW c \in Client, NEW h \in Handler, Send(c, h)
      PROVE  Q!Next
  <2>1. Asking(c) \in Packets
    BY <1>2 DEF Shape, Send, Asking, Packets
  <2> QED BY <1>2, <2>1, ReceiveMoves DEF Send
<1>3. ASSUME NEW c \in Client, NEW h \in Handler, Offer(c, h) \/ Ack(c, h) PROVE Q!Next
  <2>1. D!Return(h)
    BY <1>3 DEF Offer, Ack
  <2>2. D!HandleMsg4(h)
    BY <2>1 DEF D!HandleMsg4
  <2> QED BY <2>2, HandleMsg4Moves
<1>4. ASSUME NEW c \in Client, Fetch(c) \/ GiveUp(c) \/ Reboot(c) PROVE UNCHANGED server
  BY <1>4 DEF Fetch, GiveUp, Reboot, server
<1>5. ASSUME Serve PROVE Q!Next
  BY <1>5, HandleMsg4Moves DEF Serve
<1>6. ASSUME Manage PROVE Q!Next
  BY <1>6, StoreStepMoves DEF Manage
<1>7. ASSUME Restart PROVE Q!Next
  BY <1>7 DEF Restart, D!Restart, D!S!Restart, D!S!Idle, D!Fresh,
              Q!Next, Q!Restart, Q!S!Restart, Q!S!Idle, Q!Fresh
<1> QED BY <1>1, <1>2, <1>3, <1>4, <1>5, <1>6, <1>7, DhcpAssumed, Q!NextInv
        DEF Next, vars, server, Q!vars

\* A reply says what one manifest for the client says.
LEMMA Replied ==
  ASSUME Q!Inv, NEW h \in Handler, hs[h].pc = "sent"
  PROVE  /\ hs[h].yiaddr \in IP
         /\ \E m \in Inputs : /\ hs[h].req.mac \in m.macs
                              /\ m.ip = hs[h].yiaddr
                              /\ hs[h].file \in {Nil, D!BootFileName(hs[h].req, m)}
<1>1. Q!HandlerInv(hs[h], ver)
  BY DEF Q!Inv
<1>2. /\ hs[h].obj.man \in Inputs /\ hs[h].req.mac \in hs[h].obj.man.macs
      /\ hs[h].yiaddr = hs[h].obj.man.ip /\ hs[h].yiaddr \in IP
  BY <1>1 DEF Q!HandlerInv, Q!Holds, Q!Holding
<1>3. hs[h].file \in {Nil, Q!BootFileName(hs[h].req, hs[h].obj.man)}
  BY <1>1 DEF Q!HandlerInv, Q!Says, Q!Holding
<1>4. hs[h].file \in {Nil, D!BootFileName(hs[h].req, hs[h].obj.man)}
  BY <1>3 DEF Q!BootFileName, D!BootFileName
<1> QED BY <1>2, <1>4

\* What the TFTP server serves belongs to some manifest.
LEMMA ServedFile ==
  ASSUME Q!Inv, NEW a \in IP, NEW f, TftpRead(a, f) = "file"
  PROVE  \E n \in Inputs : f \in n.serves
<1> DEFINE o == D!S!FindByIP(a)
<1>1. o = Nil \/ o.man \in Inputs
  BY DEF D!S!FindByIP, Q!Inv, Q!StoreInv, Q!P!TypeOK, Q!P!Obj
<1>2. o # Nil /\ f \in o.man.serves
  BY DEF TftpRead
<1> QED BY <1>1, <1>2

LEMMA Fields ==
  ASSUME NEW p, NEW l, NEW a, NEW f
  PROVE  LET x == Rec(p, l, a, f)
         IN x.phase = p /\ x.loader = l /\ x.addr = a /\ x.file = f
BY DEF Rec

\* One machine moves on to what it may know.
LEMMA OneMoves ==
  ASSUME Inv, NEW c \in Client, NEW p, NEW l \in {"pxe", "ipxe"}, NEW a, NEW f,
         Knows(c, Rec(p, l, a, f)), cl' = [cl EXCEPT ![c] = Rec(p, l, a, f)]
  PROVE  Shape' /\ \A d \in Client : Knows(d, cl'[d])
<1> DEFINE x == Rec(p, l, a, f)
<1>1. x = Rec(x.phase, x.loader, x.addr, x.file) /\ x.loader \in {"pxe", "ipxe"}
  BY Fields
<1>2. cl = [d \in Client |-> cl[d]]
  BY DEF Inv, Shape
<1> HIDE DEF x
<1>3. cl' = [d \in Client |-> IF d = c THEN x ELSE cl[d]]
  BY <1>2 DEF x
<1>4. \A d \in Client : cl'[d] = IF d = c THEN x ELSE cl[d]
  BY <1>3
<1>5. Shape'
  <2>1. cl' = [d \in Client |-> cl'[d]]
    BY <1>3
  <2>2. \A d \in Client :
          /\ cl'[d] = Rec(cl'[d].phase, cl'[d].loader, cl'[d].addr, cl'[d].file)
          /\ cl'[d].loader \in {"pxe", "ipxe"}
    BY <1>1, <1>4 DEF Inv, Shape
  <2> QED BY <2>1, <2>2 DEF Shape, Rec
<1>6. \A d \in Client : Knows(d, cl'[d])
  BY <1>4 DEF Inv, x
<1> QED BY <1>5, <1>6

LEMMA PowerOnKnows ==
  /\ PowerOn = Rec("discover", "pxe", Nil, Nil)
  /\ [PowerOn EXCEPT !.loader = "ipxe"] = Rec("discover", "ipxe", Nil, Nil)
  /\ \A c, l : Knows(c, Rec("discover", l, Nil, Nil))
<1>1. \A c, l : Knows(c, Rec("discover", l, Nil, Nil))
  <2> SUFFICES ASSUME NEW c, NEW l PROVE Knows(c, Rec("discover", l, Nil, Nil))
    OBVIOUS
  <2> DEFINE x == Rec("discover", l, Nil, Nil)
  <2>1. x.phase = "discover" /\ x.file = Nil
    BY Fields
  <2> HIDE DEF x
  <2>2. Knows(c, x)
    BY <2>1 DEF Knows
  <2> QED BY <2>2 DEF x
<1> QED BY <1>1 DEF PowerOn, Rec

LEMMA StartOver ==
  ASSUME Inv, NEW c \in Client, cl' = [cl EXCEPT ![c] = PowerOn]
  PROVE  Shape' /\ \A d \in Client : Knows(d, cl'[d])
BY PowerOnKnows, OneMoves

\* The reply that reaches c is the answer to its question.
LEMMA Answered ==
  ASSUME Inv, NEW c \in Client, NEW h \in Handler, Reaches(h, c),
         NEW t \in {"discover", "request"}, cl[c].phase = t
  PROVE  /\ hs[h].pc = "sent" /\ hs[h].yiaddr \in IP
         /\ hs[h].req = Packet(c, cl[c].loader, t)
         /\ \E m \in Inputs : /\ c \in m.macs /\ m.ip = hs[h].yiaddr
                              /\ hs[h].file \in {Nil, D!BootFileName(hs[h].req, m)}
<1>1. hs[h].pc = "sent" /\ hs[h].req = Packet(c, cl[c].loader, t)
  BY DEF Reaches, Asking
<1>2. hs[h].req.mac = c
  BY <1>1, PacketAssumption DEF Inv, Shape
<1> QED BY <1>1, <1>2, Replied DEF Inv

LEMMA OfferKnows ==
  ASSUME Inv, NEW c \in Client, NEW h \in Handler, Offer(c, h)
  PROVE  Shape' /\ \A d \in Client : Knows(d, cl'[d])
<1> DEFINE x == cl[c]
           y == Rec("request", x.loader, hs[h].yiaddr, x.file)
<1>1. /\ x = Rec(x.phase, x.loader, x.addr, x.file) /\ x.loader \in {"pxe", "ipxe"}
      /\ Knows(c, x) /\ x.phase = "discover" /\ c \in DOMAIN cl
  BY DEF Inv, Shape, Offer
<1>2. cl' = [cl EXCEPT ![c] = y]
  <2>1. cl' = [cl EXCEPT ![c] = [[x EXCEPT !.phase = "request"] EXCEPT !.addr = hs[h].yiaddr]]
    BY <1>1 DEF Offer
  <2>2. [x EXCEPT !.phase = "request"] = Rec("request", x.loader, x.addr, x.file)
    BY <1>1 DEF Rec
  <2>3. [Rec("request", x.loader, x.addr, x.file) EXCEPT !.addr = hs[h].yiaddr] = y
    BY DEF Rec
  <2> QED BY <2>1, <2>2, <2>3
<1>3. y.phase = "request" /\ y.file = x.file
  BY Fields
<1>4. x.file = Nil
  BY <1>1 DEF Knows
<1> HIDE DEF y
<1>5. Knows(c, y)
  BY <1>3, <1>4 DEF Knows
<1> QED BY <1>1, <1>2, <1>5, OneMoves DEF y

LEMMA AckKnows ==
  ASSUME Inv, NEW c \in Client, NEW h \in Handler, Ack(c, h)
  PROVE  Shape' /\ \A d \in Client : Knows(d, cl'[d])
<1> DEFINE x == cl[c]
           y == Rec("fetch", x.loader, hs[h].yiaddr, hs[h].file)
<1>1. /\ x = Rec(x.phase, x.loader, x.addr, x.file) /\ x.loader \in {"pxe", "ipxe"}
      /\ x.phase = "request" /\ c \in DOMAIN cl
  BY DEF Inv, Shape, Ack
<1>2. CASE hs[h].file = Nil
  BY <1>2, StartOver DEF Ack
<1>3. CASE hs[h].file # Nil
  <2>1. cl' = [cl EXCEPT ![c] = [[[x EXCEPT !.phase = "fetch"] EXCEPT !.addr = hs[h].yiaddr]
                                                               EXCEPT !.file = hs[h].file]]
    BY <1>1, <1>3 DEF Ack
  <2>2. [x EXCEPT !.phase = "fetch"] = Rec("fetch", x.loader, x.addr, x.file)
    BY <1>1 DEF Rec
  <2>3. [Rec("fetch", x.loader, x.addr, x.file) EXCEPT !.addr = hs[h].yiaddr]
        = Rec("fetch", x.loader, hs[h].yiaddr, x.file)
    BY DEF Rec
  <2>4. [Rec("fetch", x.loader, hs[h].yiaddr, x.file) EXCEPT !.file = hs[h].file] = y
    BY DEF Rec
  <2>5. cl' = [cl EXCEPT ![c] = y]
    BY <2>1, <2>2, <2>3, <2>4
  <2>6. /\ hs[h].yiaddr \in IP
        /\ \E m \in Inputs :
             /\ c \in m.macs /\ m.ip = hs[h].yiaddr
             /\ hs[h].file = D!BootFileName(Packet(c, x.loader, "request"), m)
    BY <1>1, <1>3, Answered DEF Ack
  <2>7. /\ y.phase = "fetch" /\ y.loader = x.loader /\ y.addr = hs[h].yiaddr
        /\ y.file = hs[h].file
    BY Fields
  <2> HIDE DEF y
  <2>8. Knows(c, y)
    BY <2>6, <2>7 DEF Knows, Told
  <2> QED BY <1>1, <2>5, <2>8, OneMoves DEF y
<1> QED BY <1>2, <1>3

LEMMA FetchKnows ==
  ASSUME Inv, NEW c \in Client, Fetch(c)
  PROVE  Shape' /\ \A d \in Client : Knows(d, cl'[d])
<1> DEFINE x == cl[c]
           y == Rec("booted", x.loader, x.addr, x.file)
           v == TftpRead(x.addr, x.file)
<1>1. /\ x = Rec(x.phase, x.loader, x.addr, x.file) /\ x.loader \in {"pxe", "ipxe"}
      /\ Knows(c, x) /\ x.phase = "fetch" /\ c \in DOMAIN cl
  BY DEF Inv, Shape, Fetch
<1>2. v \in {"loader", "file", "error"}
  BY DEF TftpRead
<1>3. cl' = [cl EXCEPT ![c] = CASE v = "loader" -> [PowerOn EXCEPT !.loader = "ipxe"]
                                [] v = "file" -> [x EXCEPT !.phase = "booted"]
                                [] v = "error" -> PowerOn]
  BY <1>1 DEF Fetch
<1> HIDE DEF v
<1>4. CASE v = "loader"
  <2>1. cl' = [cl EXCEPT ![c] = Rec("discover", "ipxe", Nil, Nil)]
    BY <1>3, <1>4, PowerOnKnows
  <2> QED BY <2>1, PowerOnKnows, OneMoves
<1>5. CASE v = "file"
  <2>1. [x EXCEPT !.phase = "booted"] = y
    BY <1>1 DEF Rec
  <2>2. cl' = [cl EXCEPT ![c] = [x EXCEPT !.phase = "booted"]]
    BY <1>3, <1>5
  <2>3. Told(c, x) /\ x.addr \in IP
    BY <1>1 DEF Knows, Told
  <2>4. \E n \in Inputs : x.file \in n.serves
    BY <1>5, <2>3, ServedFile DEF v, Inv
  <2>5. y.phase = "booted" /\ y.loader = x.loader /\ y.addr = x.addr /\ y.file = x.file
    BY Fields
  <2> HIDE DEF y
  <2>6. Knows(c, y)
    BY <2>3, <2>4, <2>5 DEF Knows, Told
  <2> QED BY <1>1, <2>1, <2>2, <2>6, OneMoves DEF y
<1>6. CASE v = "error"
  <2>1. cl' = [cl EXCEPT ![c] = PowerOn]
    BY <1>3, <1>6
  <2> QED BY <2>1, StartOver
<1> QED BY <1>2, <1>4, <1>5, <1>6

LEMMA InitInv == Init => Inv
<1> SUFFICES ASSUME Init PROVE Inv
  OBVIOUS
<1>1. \A c \in Client : cl[c] = PowerOn
  BY DEF Init
<1>2. PowerOn = Rec(PowerOn.phase, PowerOn.loader, PowerOn.addr, PowerOn.file)
      /\ PowerOn.loader = "pxe"
  BY PowerOnKnows, Fields
<1>3. Shape
  BY <1>1, <1>2 DEF Init, Shape
<1> QED BY <1>1, <1>3, InitDhcp, PowerOnKnows DEF Inv

LEMMA NextInv == Inv /\ [Next]_vars => Inv'
<1> SUFFICES ASSUME Inv, [Next]_vars PROVE Inv'
  OBVIOUS
<1>1. Q!Inv'
  BY NextDhcp DEF Inv
<1> DEFINE Fine == Shape' /\ \A d \in Client : Knows(d, cl'[d])
<1>2. ASSUME UNCHANGED cl PROVE Fine
  BY <1>2 DEF Inv, Shape
<1>3. ASSUME NEW c \in Client, Fetch(c) \/ GiveUp(c) \/ Reboot(c) PROVE Fine
  BY <1>3, FetchKnows, StartOver DEF GiveUp, Reboot
<1>4. ASSUME NEW c \in Client, NEW h \in Handler, Offer(c, h) \/ Ack(c, h) PROVE Fine
  BY <1>4, OfferKnows, AckKnows
<1> HIDE DEF Fine
<1>5. Fine
  BY <1>2, <1>3, <1>4 DEF Next, Send, Serve, Manage, Restart, vars
<1>6. (\A c \in Client : Knows(c, cl[c]))'
  BY <1>5 DEF Fine, Knows, Told, D!BootFileName
<1> QED BY <1>1, <1>5, <1>6 DEF Inv, Fine

LEMMA InvHolds == Spec => []Inv
BY InitInv, NextInv, PTL DEF Spec

-----------------------------------------------------------------------------

\* The names of the bundled loaders are used for nothing else: no manifest
\* gives one as its bootFilename, and no mount serves a file by such a name.
OwnNames == \A m \in Inputs : m.file \notin Loaders /\ m.serves \cap Loaders = {}

\* The file c is told to load is its manifest's, or the bundled loader when
\* it is not iPXE that asks.
LEMMA FileOrLoader ==
  ASSUME NEW c \in Client, NEW s, s.loader \in {"pxe", "ipxe"}, Told(c, s), OwnNames
  PROVE  \/ /\ s.file \notin Loaders
            /\ \E m \in Inputs : c \in m.macs /\ m.ip = s.addr /\ m.file = s.file
         \/ s.file \in Loaders /\ s.loader = "pxe"
<1> DEFINE r == Packet(c, s.loader, "request")
<1>1. PICK m \in Inputs : c \in m.macs /\ m.ip = s.addr /\ s.file = D!BootFileName(r, m)
  BY DEF Told
<1>2. r.ipxe <=> s.loader = "ipxe"
  BY PacketAssumption
<1> HIDE DEF r
<1>3. CASE r.ipxe \/ ~m.ipxe
  BY <1>1, <1>3 DEF D!BootFileName, OwnNames
<1>4. CASE ~(r.ipxe \/ ~m.ipxe)
  <2>1. s.file \in Loaders
    BY <1>1, <1>4 DEF D!BootFileName, Loaders
  <2> QED BY <1>2, <1>4, <2>1
<1> QED BY <1>3, <1>4

\* README.md:100-101, dhcpd/handler.go:136-152: a machine that runs iPXE is
\* never told to load iPXE again, by no reply to a request of its ROM, repeated
\* or late, and whatever is done to its manifest between the two rounds.
THEOREM BootLoopBroken ==
  ASSUME OwnNames
  PROVE  Spec => []NoBootLoop
<1>1. Inv => NoBootLoop
  <2> SUFFICES ASSUME Inv, NEW c \in Client, cl[c].loader = "ipxe"
               PROVE  cl[c].file \notin Loaders
    BY DEF NoBootLoop
  <2>1. Knows(c, cl[c])
    BY DEF Inv
  <2>2. CASE cl[c].phase \in {"discover", "request"}
    BY <2>1, <2>2, PacketAssumption DEF Knows
  <2>3. CASE cl[c].phase \in {"fetch", "booted"}
    BY <2>1, <2>3, FileOrLoader DEF Knows
  <2> QED BY <2>1, <2>2, <2>3 DEF Knows
<1> QED BY <1>1, InvHolds, PTL

\* A machine boots the file of a manifest that lists it, under the address of
\* that manifest, although DHCP and TFTP look its manifest up at different
\* times and by different keys.
THEOREM OwnFileBooted ==
  ASSUME OwnNames
  PROVE  Spec => []BootsOwnFile
<1>1. Inv => BootsOwnFile
  <2> SUFFICES ASSUME Inv, NEW c \in Client, cl[c].phase = "booted"
               PROVE  /\ \E m \in Inputs : /\ c \in m.macs /\ m.ip = cl[c].addr
                                           /\ m.file = cl[c].file
                      /\ cl[c].file \notin Loaders
    BY DEF BootsOwnFile
  <2>1. Told(c, cl[c]) /\ cl[c].file \notin Loaders /\ cl[c].loader \in {"pxe", "ipxe"}
    BY DEF Inv, Shape, Knows, OwnNames
  <2> QED BY <2>1, FileOrLoader
<1> QED BY <1>1, InvHolds, PTL

\* README.md:28-29: an address is allocated to one machine.  (That machine may
\* be given another address, at any time.)
AddressKept == \A m, n \in Inputs : m.ip = n.ip => m.macs = n.macs

\* The manifest TFTP finds by the address a machine was given lists the
\* machine, although DHCP found the address by other means and earlier, and
\* the machine's manifest may have moved to another address since.
THEOREM OwnManifestServes ==
  ASSUME AddressKept
  PROVE  Spec => FilesOfOwnManifest
<1>1. Inv /\ [Next]_vars =>
        [\A c \in Client : Boots(c) => c \in D!S!FindByIP(cl[c].addr).man.macs]_vars
  <2> SUFFICES ASSUME Inv, NEW c \in Client, Boots(c)
               PROVE  c \in D!S!FindByIP(cl[c].addr).man.macs
    OBVIOUS
  <2> DEFINE a == cl[c].addr
             o == D!S!FindByIP(a)
  <2>1. cl[c].phase = "fetch" /\ a \in IP
    BY DEF Boots, Fetch, Inv, Knows, Told
  <2>2. PICK m \in Inputs : c \in m.macs /\ m.ip = a
    BY <2>1 DEF Inv, Knows, Told
  <2>3. o # Nil
    <3>1. SUFFICES ASSUME o = Nil PROVE FALSE
      OBVIOUS
    <3>2. TftpRead(a, cl[c].file) = "error"
      BY <3>1 DEF TftpRead
    <3>3. cl'[c] = PowerOn
      BY <3>2 DEF Boots, Fetch, Inv, Shape
    <3> QED BY <3>3 DEF Boots, PowerOn
  <2>4. o = ip[a] /\ o.man \in Inputs /\ o.man.ip = a
    BY <2>1, <2>3 DEF D!S!FindByIP, Inv, Q!Inv, Q!StoreInv, Q!P!TypeOK, Q!P!Obj,
                      Q!P!IndexSound
  <2> QED BY <2>2, <2>4 DEF AddressKept
<1> QED BY <1>1, InvHolds, PTL DEF Spec, FilesOfOwnManifest
=============================================================================
