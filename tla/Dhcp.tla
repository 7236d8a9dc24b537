-------------------------------- MODULE Dhcp --------------------------------
(***************************************************************************)
(* The DHCP server (dhcpd/server.go, dhcpd/handler.go, dhcpd/arp) on top   *)
(* of the store.                                                           *)
(*                                                                         *)
(* Serve starts one goroutine running HandleMsg4 per datagram; hs[h] is    *)
(* one of them.  Between taking the manifest's pointer from the store and  *)
(* writing the reply, HandleMsg4 reads Manifest.Suspended twice and, for a *)
(* client that has no address yet, puts an entry into the kernel's ARP     *)
(* table, which all goroutines share and which outlives the process.  The  *)
(* other goroutines of the process act on the store as in module Store.    *)
(***************************************************************************)
EXTENDS Naturals, Sequences

CONSTANTS ID, IP, MAC, Nil, Inputs, Files, Caller, MaxPuts,   \* see Store
          Handler,      \* goroutines running HandleMsg4
          Packets,      \* the datagrams clients may send
          Interface,    \* index of the interface bound to, 0 if none
          LocalIP,      \* interface index -> its first IPv4 address
          LinkLocal,    \* link-local unicast addresses
          HwLen         \* MAC -> number of octets

\* ParseMAC accepts 6, 8 or 20 octets (and UnmarshalText an empty text); the
\* chaddr field of a datagram has at most 16.
ASSUME HwLenAssumption ==
  /\ \A m \in Inputs : \A x \in m.macs : HwLen[x] \in {0, 6, 8, 20}
  /\ \A r \in Packets : HwLen[r.mac] \in 0..16

\* An interface has a positive index: net.InterfaceByIndex refuses 0.  A
\* server bound to an interface gets the datagrams of that one and asks for no
\* control messages; one that is not gets them with the interface's index,
\* or without.
ASSUME PacketsAssumption ==
  /\ Nil \notin Packets
  /\ \A r \in Packets : /\ r.mac \in MAC
                         /\ IF Interface # 0 THEN r.via = Interface /\ r.oob = 0
                            ELSE r.oob \in {0, r.via}
  /\ 0 \notin DOMAIN LocalIP

VARIABLES manifests, ip, mac, suspended, ver, todo, call,     \* see Store
          hs,           \* the handlers
          arp,          \* the kernel's ARP table: IP -> MAC or Nil
          up            \* the process runs

S == INSTANCE Store

ASSUME StoreAssumption == S!InputsAssumption /\ S!FilesAssumption /\ S!NilAssumption

server == <<manifests, ip, mac, suspended, ver, todo, call>>
vars == <<manifests, ip, mac, suspended, ver, todo, call, hs, arp, up>>

Broadcast == "255.255.255.255"
NBP == {"tftp-server-name", "bootfile"}

\* valid: FromBytes and NewReplyFromRequest accept it; via: the interface it
\* came in on; oob: what the control message says of it, 0 if there is none;
\* siaddr, giaddr, ciaddr:
\* Nil for 0.0.0.0; asks: the options IsOptionRequested reports; ipxe: the
\* user class is "iPXE"; uefi: the first client architecture is positive;
\* arm: the class identifier names architecture 00011.
\* In a handler's state sid (siaddr and the server identifier), yiaddr, opts
\* and file are what is set in the reply, peer, woob and to where it goes; seen collects (as history) the values the
\* Suspended flag of obj had between the lookup and the last read of it.
Fresh == [pc |-> "idle", req |-> Nil, obj |-> Nil, sid |-> Nil, yiaddr |-> Nil,
          opts |-> {}, file |-> Nil, peer |-> Nil, woob |-> 0, to |-> Nil, seen |-> {}]

PC == {"idle", "packet", "tftp", "boot", "peer", "write", "sent", "dropped"}

-----------------------------------------------------------------------------
(* Helpers of HandleMsg4 *)

\* The interface whose address identifies the server to this client.
IfIndex(r) == IF Interface # 0 THEN Interface ELSE r.oob

\* getIpv4ForInterface finds an address.
HasLocalIP(r) == IfIndex(r) \in DOMAIN LocalIP

\* Dropped before the store is asked: what does not parse, is no
\* BOOTREQUEST, is neither DISCOVER nor REQUEST, or came in where the server
\* has no address.
Discarded(r) ==
  \/ ~r.valid
  \/ r.op # "request"
  \/ r.type \notin {"discover", "request"}
  \/ ~HasLocalIP(r)

OtherServer(r) == r.siaddr # Nil /\ r.siaddr # LocalIP[IfIndex(r)]

\* The options of the reply that do not depend on Suspended.
Options(r, m) ==
  {"server-id", "subnet-mask"}
    \cup (IF m.lease THEN {"lease-time"} ELSE {})
    \cup (r.asks \cap {"hostname", "dns", "router", "ntp"})
    \cup (IF r.ipxe THEN {"no-pxedhcp"} ELSE {})

\* Mutant of BootFileName: the user class is not looked at.
BootFileNameNoClass(r, m) ==
  IF ~m.ipxe THEN m.file ELSE "ipxe.efi"

BootFileName(r, m) ==
  IF r.ipxe \/ ~m.ipxe THEN m.file
  ELSE IF ~r.uefi THEN "undionly.kpxe"
  ELSE IF r.arm THEN "ipxe_arm64.efi" ELSE "ipxe.efi"

\* Mutant of Woob: link-local addresses are left to the routing table.
WoobBroadcastOnly(r, a) == IF a = Broadcast THEN IfIndex(r) ELSE 0

\* Mutant of Woob: the interface the server is bound to is not looked at.
WoobOob(r, a) == IF a = Broadcast \/ a \in LinkLocal THEN r.oob ELSE 0

\* The interface a reply to address a is bound to; 0: the routing table.
Woob(r, a) == IF a = Broadcast \/ a \in LinkLocal THEN IfIndex(r) ELSE 0

\* Mutant of Manifest: the store is asked again.
ManifestAgain(h) ==
  IF S!FindByMAC(hs[h].req.mac) # Nil THEN S!FindByMAC(hs[h].req.mac) ELSE hs[h].obj

\* The pointer whose fields the second half of HandleMsg4 reads.
Manifest(h) == hs[h].obj

-----------------------------------------------------------------------------
(* Steps of a handler *)

\* f with the present value of the flag of each manifest held between the
\* lookup and the last read of its flag added to seen, where it matters.  (seen is history: no
\* step depends on it.)
Watched(f) ==
  [h \in Handler |->
     IF f[h].pc \notin {"tftp", "boot"} \/ f[h].req.asks \cap NBP = {} THEN f[h]
     ELSE [f[h] EXCEPT !.seen = @ \cup {f[h].obj.ver \in suspended'}]]

At(h, p) == up /\ hs[h].pc = p

\* A handler step that leaves the store and the ARP table alone.
Local(h, r) ==
  /\ UNCHANGED <<server, arp, up>>
  /\ hs' = Watched([hs EXCEPT ![h] = r])

\* Serve reads a datagram and starts a goroutine for it.
Receive(h, r) ==
  /\ S!Loaded
  /\ At(h, "idle")
  /\ Local(h, [Fresh EXCEPT !.pc = "packet", !.req = r])

\* ReadFrom failed: peer is nil, its type assertion panics and takes the
\* process down.
ReadFailed ==
  /\ up /\ S!Loaded
  /\ up' = FALSE
  /\ UNCHANGED <<server, hs, arp>>

Drop(h) == Local(h, [hs[h] EXCEPT !.pc = "dropped"])

Discard(h) ==
  /\ At(h, "packet")
  /\ Discarded(hs[h].req)
  /\ Drop(h)

\* Mutant of IgnoreUnknown: resp is not set to nil on the way to response.
IgnoreUnknownReplies(h) ==
  /\ At(h, "packet")
  /\ ~Discarded(hs[h].req)
  /\ S!FindByMAC(hs[h].req.mac) = Nil
  /\ Local(h, [hs[h] EXCEPT !.pc = "peer"])

\* FindByMAC finds nothing.
IgnoreUnknown(h) ==
  /\ At(h, "packet")
  /\ ~Discarded(hs[h].req)
  /\ S!FindByMAC(hs[h].req.mac) = Nil
  /\ Drop(h)

\* A client that is talking to another server.
IgnoreOther(h) ==
  /\ At(h, "packet")
  /\ ~Discarded(hs[h].req)
  /\ S!FindByMAC(hs[h].req.mac) # Nil
  /\ OtherServer(hs[h].req)
  /\ Drop(h)

Answer(h) ==
  /\ At(h, "packet")
  /\ ~Discarded(hs[h].req)
  /\ S!FindByMAC(hs[h].req.mac) # Nil
  /\ ~OtherServer(hs[h].req)
  /\ LET o == S!FindByMAC(hs[h].req.mac)
     IN Local(h, [hs[h] EXCEPT !.pc = "tftp", !.obj = o,
                               !.sid = LocalIP[IfIndex(hs[h].req)],
                               !.yiaddr = o.man.ip, !.opts = Options(hs[h].req, o.man)])

\* First read of Suspended.
TftpServerName(h) ==
  /\ At(h, "tftp")
  /\ LET wanted == "tftp-server-name" \in hs[h].req.asks
         off == Manifest(h).ver \in suspended
     IN Local(h, [hs[h] EXCEPT
          !.pc = "boot",
          !.opts = @ \cup (IF wanted /\ ~off THEN {"tftp-server-name"} ELSE {})])

\* Mutant of BootFile: Suspended is tested for the server name only.
BootFileAlways(h) ==
  /\ At(h, "boot")
  /\ Local(h, IF "bootfile" \in hs[h].req.asks
       THEN [hs[h] EXCEPT !.pc = "peer", !.opts = @ \cup {"bootfile"},
                          !.file = BootFileName(hs[h].req, Manifest(h).man)]
       ELSE [hs[h] EXCEPT !.pc = "peer"])

\* Second read of Suspended.
BootFile(h) ==
  /\ At(h, "boot")
  /\ LET wanted == "bootfile" \in hs[h].req.asks
         off == Manifest(h).ver \in suspended
     IN Local(h, IF wanted /\ ~off
          THEN [hs[h] EXCEPT !.pc = "peer", !.opts = @ \cup {"bootfile"},
                             !.file = BootFileName(hs[h].req, Manifest(h).man)]
          ELSE [hs[h] EXCEPT !.pc = "peer"])

\* To the relay agent, to the address the client has, or to everyone.
PeerKnown(h) ==
  /\ At(h, "peer")
  /\ LET r == hs[h].req
         known == r.giaddr # Nil \/ r.ciaddr # Nil \/ r.bcast
         a == IF r.giaddr # Nil THEN r.giaddr
              ELSE IF r.ciaddr # Nil THEN r.ciaddr ELSE Broadcast
     IN /\ known
        /\ Local(h, [hs[h] EXCEPT !.pc = "write", !.peer = a, !.woob = Woob(r, a)])

NeedsArp(h) ==
  /\ At(h, "peer")
  /\ LET r == hs[h].req IN r.giaddr = Nil /\ r.ciaddr = Nil /\ ~r.bcast

\* RawSockaddr.Data has room for the hardware address; an index behind its
\* end panics.
FitsSockaddr(x) == HwLen[x] <= 14

\* InjectArpFd: the entry for yiaddr is set, whatever it was.
InjectArp(h) ==
  /\ NeedsArp(h)
  /\ IfIndex(hs[h].req) # 0
  /\ LET fits == FitsSockaddr(hs[h].req.mac)
     IN /\ arp' = [arp EXCEPT ![hs[h].yiaddr] = IF fits THEN hs[h].req.mac ELSE @]
        /\ up' = fits
  /\ UNCHANGED server
  /\ hs' = Watched([hs EXCEPT ![h].pc = "write", ![h].peer = hs[h].yiaddr,
                              ![h].woob = Woob(hs[h].req, hs[h].yiaddr)])

\* Mutant of InjectFails: the reply is sent to the address all the same.
InjectFailsIgnored(h) ==
  /\ NeedsArp(h)
  /\ Local(h, [hs[h] EXCEPT !.pc = "write", !.peer = hs[h].yiaddr,
                            !.woob = Woob(hs[h].req, hs[h].yiaddr)])

\* No device, no permission, or not Linux: fall back to broadcast.
InjectFails(h) ==
  /\ NeedsArp(h)
  /\ Local(h, [hs[h] EXCEPT !.pc = "write", !.peer = Broadcast,
                            !.woob = Woob(hs[h].req, Broadcast)])

\* WriteTo: a datagram for an address this handler put into the ARP table
\* goes to whatever hardware address the table holds now.
Write(h) ==
  /\ At(h, "write")
  /\ LET r == hs[h].req
         injected == r.giaddr = Nil /\ r.ciaddr = Nil /\ hs[h].peer # Broadcast
     IN Local(h, [hs[h] EXCEPT !.pc = "sent",
                               !.to = IF injected THEN arp[hs[h].peer] ELSE Nil])

\* HandleMsg4 returns.
Return(h) ==
  /\ hs[h].pc \in {"sent", "dropped"}
  /\ up
  /\ Local(h, Fresh)

-----------------------------------------------------------------------------
(* The rest of the process and the kernel *)

\* Other goroutines use the store.
StoreStep ==
  /\ up
  /\ \/ S!LoadFile
     \/ \E m \in Inputs : S!Put(m)
     \/ \E c \in Caller, id \in ID : S!ForgetLookup(c, id)
     \/ \E c \in Caller : S!ForgetDelete(c)
     \/ \E c \in Caller, a \in IP, op \in {"suspend", "unsuspend"} :
          S!FlagLookup(c, a, op)
     \/ \E c \in Caller : S!FlagWrite(c)
  /\ hs' = Watched(hs)
  /\ UNCHANGED <<arp, up>>

\* The kernel drops an entry that is old or does not answer.
ArpExpire(a) ==
  /\ arp[a] # Nil
  /\ arp' = [arp EXCEPT ![a] = Nil]
  /\ UNCHANGED <<server, hs, up>>

\* The daemon is started again; the ARP table stays.
Restart ==
  /\ S!Restart
  /\ hs' = [h \in Handler |-> Fresh]
  /\ up' = TRUE
  /\ UNCHANGED arp

Init ==
  /\ S!Init
  /\ hs = [h \in Handler |-> Fresh]
  /\ arp = [a \in IP |-> Nil]
  /\ up = TRUE

HandleMsg4(h) ==
  \/ Discard(h) \/ IgnoreUnknown(h) \/ IgnoreOther(h) \/ Answer(h)
  \/ TftpServerName(h) \/ BootFile(h)
  \/ PeerKnown(h) \/ InjectArp(h) \/ InjectFails(h)
  \/ Write(h) \/ Return(h)

Next ==
  \/ \E h \in Handler : \E r \in Packets : Receive(h, r)
  \/ \E h \in Handler : HandleMsg4(h)
  \/ ReadFailed
  \/ StoreStep
  \/ \E a \in IP : ArpExpire(a)
  \/ Restart

Spec == Init /\ [][Next]_vars

-----------------------------------------------------------------------------
(* Properties *)

\* Type invariant of the handlers and the ARP table; a handler that answers
\* holds the manifest the answer is made from, and no handler one that was
\* made before the last restart.
TypeOK ==
  /\ \A h \in Handler :
       /\ hs[h].pc \in PC
       /\ hs[h].req \in Packets \cup {Nil}
       /\ hs[h].obj \in S!Obj \cup {Nil}
       /\ hs[h].obj # Nil => hs[h].obj.ver <= ver
       /\ hs[h].yiaddr \in IP \cup {Nil}
       /\ hs[h].file # Nil => "bootfile" \in hs[h].opts
       /\ hs[h].pc \in {"tftp", "boot", "peer", "write", "sent"} =>
            hs[h].obj # Nil /\ hs[h].yiaddr # Nil
  /\ arp \in [IP -> MAC \cup {Nil}]
  /\ up \in BOOLEAN

\* A reply is made from ONE manifest that lists the client's MAC address:
\* its address and its boot file never come from two manifests, even when the
\* manifest is replaced while HandleMsg4 runs.
FromOneManifest ==
  \A h \in Handler : hs[h].pc = "sent" =>
    \E m \in Inputs : /\ hs[h].req.mac \in m.macs
                      /\ hs[h].yiaddr = m.ip
                      /\ hs[h].file \in {Nil, BootFileName(hs[h].req, m)}
                      /\ "lease-time" \in hs[h].opts <=> m.lease

\* README.md:27 "will respond ONLY to MAC addresses found in one of the
\* manifests": when HandleMsg4 takes a manifest for a client, a registered
\* manifest lists the client's MAC address.  (Needs IDs that never give up a
\* MAC address.)
RespondsOnlyToKnown ==
  [][\A h \in Handler : Answer(h) =>
       \E i \in ID : manifests[i] # Nil /\ hs[h].req.mac \in manifests[i].man.macs]_vars

\* The converse: a client is ignored as unknown only if no registered
\* manifest lists its MAC address.  (Needs MAC addresses that no two IDs claim.)
KnownNotIgnored ==
  [][\A h \in Handler : IgnoreUnknown(h) =>
       \A i \in ID : manifests[i] # Nil => hs[h].req.mac \notin manifests[i].man.macs]_vars

\* README.md:195 of suspend-boot: "it only removes NBP information from DHCP
\* responses".  If the manifest's flag did not change while the request was
\* handled, the reply has all the NBP options the client asked for, or none
\* when it was set.
SuspendRespected ==
  \A h \in Handler : hs[h].pc = "sent" =>
    /\ hs[h].seen = {TRUE} => hs[h].opts \cap NBP = {}
    /\ hs[h].seen = {FALSE} => hs[h].opts \cap NBP = hs[h].req.asks \cap NBP

\* dhcpd/handler.go:212-213 "Direct broadcasts and link-local to the interface
\* the request was received on": no such reply is left to the routing table
\* or sent out of another interface; and whichever way a reply goes, the
\* server identifies itself by the address of the interface the request was
\* received on, whether it is bound to it or learns it from the datagram.
LeavesArrivalInterface ==
  \A h \in Handler : hs[h].pc = "sent" =>
    /\ hs[h].sid = LocalIP[hs[h].req.via]
    /\ hs[h].peer = Broadcast \/ hs[h].peer \in LinkLocal => hs[h].woob = hs[h].req.via

\* dhcpd/handler.go:183 "we must inject ARP to unicast to IP/MAC that's not on
\* the network yet": the reply that is unicast then goes to the hardware
\* address of the client that asked or, when the kernel dropped the entry, to
\* nobody.
UnicastReachesClient ==
  \A h \in Handler : hs[h].pc = "sent" => hs[h].to \in {Nil, hs[h].req.mac}

\* The ARP entry of an address outlives the handler that set it, its manifest
\* and the process; still a unicast reply only ever goes to a hardware address
\* that some manifest lists for the address it is sent to, whichever handlers
\* and whichever earlier process wrote the entry.
UnicastToListed ==
  \A h \in Handler : hs[h].pc = "sent" /\ hs[h].to # Nil =>
    \E m \in Inputs : m.ip = hs[h].peer /\ hs[h].to \in m.macs

\* dhcpd/arp copies the client's hardware address octet by octet into the 14
\* bytes of struct arpreq.  A datagram may carry 16 octets, but no injection
\* takes the daemon down: the address was found in a manifest before, and
\* ParseMAC accepts no length between 14 and 16.
NoArpPanic == [][\A h \in Handler : InjectArp(h) => up']_vars
=============================================================================
