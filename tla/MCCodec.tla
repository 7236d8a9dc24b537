------------------------------ MODULE MCCodec ------------------------------
(* Every netmask, MAC addresses of several lengths, and every list of at   *)
(* most three mounts.                                                      *)
EXTENDS Codec

Written(format, ipv4, hw, nested, mounts) ==
  [format |-> format, ipv4 |-> ipv4, hw |-> hw, nested |-> nested, mounts |-> mounts]

Cidr(n) == [addr |-> "p", mask |-> Decimal(n)]
Mac(n) == [octets |-> n, form |-> "dashes"]
MountOf(p, pre, d) == [path |-> p, prefix |-> pre, suffix |-> FALSE,
                       proxy |-> None, content |-> "text", dir |-> d]
Unset == <<>>

PathA == <<"/", "a">>
MountLists ==
  BoundedSeq({MountOf(<<"/">>, TRUE, Unset), MountOf(PathA, TRUE, Unset),
              MountOf(PathA \o <<"b">>, TRUE, Unset), MountOf(PathA, FALSE, Unset)}, 3)

Formats == {"json", "yaml"}
MCDocs ==
  {Written(f, Cidr(n), Mac(6), b, <<>>) : f \in Formats, n \in 0..33, b \in BOOLEAN}
    \cup {Written(f, t, Mac(6), FALSE, <<>>) : f \in Formats,
            t \in {None, [addr |-> "localhost", mask |-> <<8>>],
                   [addr |-> "p", mask |-> <<15, 15>>]}}
    \cup {Written("yaml", Cidr(24), h, FALSE, <<>>) : h \in {None, Mac(7), Mac(8), Mac(20)}}
    \cup {Written("yaml", Cidr(24), Mac(6), FALSE, <<MountOf(PathA, TRUE, d)>>) :
            d \in {<<"f">>, <<"/", "s">>}}
    \cup {Written("yaml", Cidr(24), Mac(6), FALSE, ms) : ms \in MountLists}
=============================================================================
