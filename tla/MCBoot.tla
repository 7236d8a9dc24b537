------------------------------- MODULE MCBoot -------------------------------
(* A small instance of Boot: one machine, its manifest with and without    *)
(* iPXE, and the manifest of another one.                                  *)
EXTENDS Boot, TLC

M(i, a, x, px, f) == [id |-> i, ip |-> a, macs |-> {x}, suspended |-> FALSE,
                      ipxe |-> px, file |-> f, serves |-> {f}, lease |-> FALSE]
\* The machine moves to another address when iPXE is switched off; the other
\* one's boot file has the same name as its first one.
A == M("a", "p", "x", TRUE, "boot.ipxe")
ANew == M("a", "q", "x", FALSE, "a.bin")
B == M("b", "r", "y", TRUE, "boot.ipxe")
MCInputs == {A, ANew, B}
MCFiles == <<[ok |-> TRUE, man |-> A]>>

MCPacket(c, l, t) ==
  [valid |-> TRUE, op |-> "request", type |-> t, mac |-> c, via |-> 2, oob |-> 0,
   siaddr |-> Nil, giaddr |-> Nil, ciaddr |-> Nil, bcast |-> FALSE,
   asks |-> {"bootfile"}, ipxe |-> l = "ipxe", uefi |-> TRUE, arm |-> FALSE]

OneAddress == 2 :> "10.0.0.2"
Octets == "x" :> 6 @@ "y" :> 6
=============================================================================
