------------------------------- MODULE MCDhcp -------------------------------
(* Small instances of Dhcp: two machines, their manifests and datagrams.   *)
EXTENDS Dhcp, TLC

M(i, a, xs, px, f) == [id |-> i, ip |-> a, macs |-> xs, suspended |-> FALSE,
                       ipxe |-> px, file |-> f, lease |-> px]
A == M("a", "p", {"x"}, TRUE, "a.ipxe")
ANew == M("a", "p", {"x"}, FALSE, "a.bin")
B == [M("b", "q", {"y"}, TRUE, "b.ipxe") EXCEPT !.suspended = TRUE]
Shifted == M("c", "q", {"x", "y"}, FALSE, "c.bin")

\* Each machine keeps its addresses; one has two interfaces.
TwoNics == M("a", "p", {"x", "w"}, TRUE, "a.ipxe")
PlainInputs == {TwoNics, B}
AnyInputs == {A, ANew, B, Shifted}
File(m) == [ok |-> TRUE, man |-> m]
FileA == <<File(A)>>
FileTwoNics == <<File(TwoNics)>>

Asks == {"hostname", "domain", "tftp-server-name", "bootfile"}
Discover(x) ==
  [valid |-> TRUE, op |-> "request", type |-> "discover", mac |-> x,
   via |-> 2, oob |-> 2,
   siaddr |-> Nil, giaddr |-> Nil, ciaddr |-> Nil, bcast |-> FALSE,
   asks |-> Asks, ipxe |-> FALSE, uefi |-> TRUE, arm |-> FALSE]
ByIpxe(r) == [r EXCEPT !.type = "request", !.ipxe = TRUE]

\* One datagram per way HandleMsg4 can go.
VariedPackets ==
  LET d == Discover("x")
  IN {d, ByIpxe(d), Discover("y"),
      [d EXCEPT !.bcast = TRUE, !.arm = TRUE],
      [d EXCEPT !.giaddr = "relay", !.uefi = FALSE],
      [d EXCEPT !.ciaddr = "p", !.via = 3, !.oob = 3],
      [d EXCEPT !.siaddr = "10.0.0.9"],
      [d EXCEPT !.siaddr = "10.0.0.2", !.asks = {"bootfile"}],
      [d EXCEPT !.oob = 0, !.bcast = TRUE],
      Discover("z"),
      [d EXCEPT !.type = "release"],
      [d EXCEPT !.op = "reply"],
      [d EXCEPT !.valid = FALSE]}
\* Clients without an address of their own that want no NBP information.
Discovers == {[Discover(x) EXCEPT !.asks = {}, !.oob = 0] : x \in {"x", "w", "y"}}

\* "z" fills the chaddr field.
Octets == "x" :> 6 @@ "w" :> 6 @@ "y" :> 8 @@ "z" :> 16
OneAddress == 2 :> "10.0.0.2" @@ 3 :> "10.0.0.3"
=============================================================================
