-------------------------------- MODULE Boot --------------------------------
(***************************************************************************)
(* A machine that boots from the network: the DHCP server of module Dhcp,  *)
(* the store behind it, the first decisions of the TFTP server, and the    *)
(* client.                                                                 *)
(*                                                                         *)
(* The client is not part of the repository.  It is modelled as netbootd   *)
(* expects it (README.md:99-106): the network card's PXE ROM runs          *)
(* DISCOVER/OFFER/REQUEST/ACK and loads the file it is given; when that is *)
(* the bundled iPXE, iPXE runs DHCP again under the user class "iPXE" and  *)
(* loads bootFilename.  A request that goes unanswered is sent again, so   *)
(* several goroutines may handle the same one; replies may be lost, late   *)
(* or superfluous; the daemon may be restarted and the machine's manifest  *)
(* replaced, deleted or suspended at any point of a boot.                  *)
(***************************************************************************)
EXTENDS Naturals, Sequences

CONSTANTS ID, IP, MAC, Nil, Inputs, Files, Caller, MaxPuts,   \* see Store
          Handler, Interface, LocalIP, LinkLocal, HwLen,      \* see Dhcp
          Client,         \* the MAC addresses of booting machines
          Packet(_, _, _) \* the datagram of a client, by loader and type

VARIABLES manifests, ip, mac, suspended, ver, todo, call,     \* see Store
          hs, arp, up,    \* see Dhcp
          cl              \* the clients

Loaders == {"undionly.kpxe", "ipxe.efi", "ipxe_arm64.efi"}
Packets == {Packet(c, l, t) : c \in Client, l \in {"pxe", "ipxe"},
                              t \in {"discover", "request"}}

D == INSTANCE Dhcp

ASSUME DhcpAssumption == D!HwLenAssumption /\ D!PacketsAssumption /\ D!StoreAssumption

\* A datagram carries the client's address, and iPXE names itself in it.
ASSUME PacketAssumption ==
  /\ \A c \in Client, l \in {"pxe", "ipxe"}, t \in {"discover", "request"} :
       Packet(c, l, t).mac = c /\ (Packet(c, l, t).ipxe <=> l = "ipxe")
  /\ Nil \notin Loaders

server == <<manifests, ip, mac, suspended, ver, todo, call, hs, arp, up>>
vars == <<manifests, ip, mac, suspended, ver, todo, call, hs, arp, up, cl>>

\* loader: what runs on the machine; addr: the address it was offered or
\* given; file: the boot file it was told to load, or has loaded.
PowerOn == [phase |-> "discover", loader |-> "pxe", addr |-> Nil, file |-> Nil]

-----------------------------------------------------------------------------
(* The client *)

\* What client c is asking for at present.  Requests of the ROM and of iPXE
\* differ in their transaction ID, as well as in the user class.
Asking(c) == Packet(c, cl[c].loader, cl[c].phase)

\* Send, or send again.
Send(c, h) ==
  /\ cl[c].phase \in {"discover", "request"}
  /\ D!Receive(h, Asking(c))
  /\ UNCHANGED cl

\* The reply of handler h reaches c and belongs to what c is asking for.
Reaches(h, c) ==
  /\ hs[h].pc = "sent"
  /\ hs[h].req = Asking(c)
  /\ hs[h].peer = D!Broadcast \/ hs[h].to = c

\* OFFER: without a boot file a network boot passes it over.
Offer(c, h) ==
  /\ cl[c].phase = "discover"
  /\ Reaches(h, c)
  /\ hs[h].file # Nil
  /\ cl' = [cl EXCEPT ![c].phase = "request", ![c].addr = hs[h].yiaddr]
  /\ D!Return(h)

\* ACK: its address and boot file count; without the latter, start over.
Ack(c, h) ==
  /\ cl[c].phase = "request"
  /\ Reaches(h, c)
  /\ cl' = [cl EXCEPT ![c] = IF hs[h].file = Nil THEN PowerOn
                             ELSE [@ EXCEPT !.phase = "fetch", !.addr = hs[h].yiaddr,
                                            !.file = hs[h].file]]
  /\ D!Return(h)

\* The client runs out of time or of retries, or a transfer breaks off.
GiveUp(c) ==
  /\ cl[c].phase # "booted"
  /\ cl[c] # PowerOn
  /\ cl' = [cl EXCEPT ![c] = PowerOn]
  /\ UNCHANGED server

Reboot(c) ==
  /\ cl[c].phase = "booted"
  /\ cl' = [cl EXCEPT ![c] = PowerOn]
  /\ UNCHANGED server

-----------------------------------------------------------------------------
(* The TFTP server *)

\* What tftpReadHandler makes of the request: the embedded loader, the file
\* of a mount (serves: the names a manifest's mounts match), or an error.
TftpRead(a, f) ==
  LET m == D!S!FindByIP(a)
  IN CASE m = Nil -> "error"
       [] m # Nil /\ m.man.ipxe /\ f \in Loaders -> "loader"
       [] m # Nil /\ ~(m.man.ipxe /\ f \in Loaders) ->
            IF f \in m.man.serves THEN "file" ELSE "error"

\* The client loads its file and runs it; after an error it starts over.
Fetch(c) ==
  /\ cl[c].phase = "fetch"
  /\ up /\ D!S!Loaded
  /\ cl' = [cl EXCEPT ![c] =
       CASE TftpRead(@.addr, @.file) = "loader" -> [PowerOn EXCEPT !.loader = "ipxe"]
         [] TftpRead(@.addr, @.file) = "file" -> [@ EXCEPT !.phase = "booted"]
         [] TftpRead(@.addr, @.file) = "error" -> PowerOn]
  /\ UNCHANGED server

-----------------------------------------------------------------------------

Init ==
  /\ D!Init
  /\ cl = [c \in Client |-> PowerOn]

\* The daemon's own steps; a reply whose handler returns without Offer or
\* Ack is lost or not wanted.
Serve == (\E h \in Handler : D!HandleMsg4(h)) /\ UNCHANGED cl
Manage == D!StoreStep /\ UNCHANGED cl
Restart == D!Restart /\ UNCHANGED cl

Next ==
  \/ \E c \in Client, h \in Handler : Send(c, h) \/ Offer(c, h) \/ Ack(c, h)
  \/ \E c \in Client : Fetch(c) \/ GiveUp(c) \/ Reboot(c)
  \/ Serve
  \/ Manage
  \/ Restart

Spec == Init /\ [][Next]_vars

\* Goroutines run.  A client repeats its requests, and of the replies sent to
\* it again and again not all are lost: these steps are not enabled all the
\* time, hence strong fairness.
FairSpec ==
  /\ Spec
  /\ \A h \in Handler : WF_vars(D!HandleMsg4(h) /\ UNCHANGED cl)
  /\ \A c \in Client : /\ SF_vars(\E h \in Handler : Send(c, h))
                       /\ SF_vars(\E h \in Handler : Offer(c, h))
                       /\ SF_vars(\E h \in Handler : Ack(c, h))
                       /\ WF_vars(Fetch(c))

-----------------------------------------------------------------------------
(* Properties *)

\* README.md:100-101 "When iPXE is loaded, it does DHCP again and netbootd
\* detects its client string to break the boot loop": a machine that runs
\* iPXE is never told to load iPXE again, not even by the reply to a request
\* of its ROM that is still being handled.
NoBootLoop ==
  \A c \in Client : cl[c].loader = "ipxe" => cl[c].file \notin Loaders

\* Whatever happens to the manifests during a boot, a machine ends up with
\* the address and the boot file of one manifest that lists it, and with no
\* bundled loader in place of that file.
BootsOwnFile ==
  \A c \in Client : cl[c].phase = "booted" =>
    /\ \E m \in Inputs : c \in m.macs /\ m.ip = cl[c].addr /\ m.file = cl[c].file
    /\ cl[c].file \notin Loaders

\* The file a machine boots.
Boots(c) == Fetch(c) /\ cl'[c].phase = "booted"

\* DHCP chooses a manifest by MAC address, TFTP by IP address and later: no
\* lease ties the two together, and between OFFER, ACK and transfer the
\* manifest may have moved to another address, been replaced or been deleted.
\* Still the manifest whose mounts the machine boots from lists that machine.
\* (Needs README.md:28-29 "IPs are implied to be statically allocated": an
\* address that is not handed over from one machine to another.)
FilesOfOwnManifest ==
  [][\A c \in Client : Boots(c) => c \in D!S!FindByIP(cl[c].addr).man.macs]_vars

\* The manifest c would be answered from is complete and not suspended.
Bootable(c) ==
  LET o == D!S!FindByMAC(c)
  IN /\ up
     /\ o # Nil
     /\ o.ver \notin suspended
     /\ D!S!FindByIP(o.man.ip) = o
     /\ o.man.file \in o.man.serves

\* A machine that keeps trying boots in the end, and again after every reboot,
\* if from some point on its manifest stays registered and not suspended:
\* lost, late and repeated replies, ARP injection that fails, earlier
\* suspensions, replacements and restarts only delay it.
EventuallyBoots ==
  \A c \in Client :
    <>[]Bootable(c) /\ <>[][~GiveUp(c)]_vars => []<>(cl[c].phase = "booted")
=============================================================================
