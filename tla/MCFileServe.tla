---------------------------- MODULE MCFileServe ----------------------------
(* A small instance of FileServe.  "u" stands for undionly.kpxe.           *)
EXTENDS FileServe

MountOf(p, pre) == [path |-> p, prefix |-> pre, suffix |-> FALSE,
                    proxy |-> None, content |-> None, dir |-> <<>>]
Content(mount, c) == [mount EXCEPT !.content = c]
Proxy(mount, q) == [mount EXCEPT !.proxy = [base |-> "url", query |-> q]]
Dir(mount, d) == [mount EXCEPT !.dir = d]
Appended(mount) == [mount EXCEPT !.suffix = TRUE]

M(i, a, px, ms) == [id |-> i, ip |-> a, macs |-> {a}, suspended |-> FALSE,
                    ipxe |-> px, mounts |-> ms]

Srv == <<"/", "s">>
Root == <<"r">>

\* Mounts of every kind: suffixes appended to a proxy, with and without a
\* query, and to an absolute and a relative directory; a proxy and a content
\* in one mount; an empty one.
A == M("a", "p", TRUE,
       <<Appended(Proxy(MountOf(<<"/", "a">>, TRUE), <<>>)),
         Content(MountOf(<<"/", "a", "b">>, FALSE), "text"),
         Appended(Dir(MountOf(<<"/", "d">>, TRUE), Srv)),
         Appended(Dir(MountOf(<<"/", "e">>, TRUE), <<"f">>)),
         Content(Proxy(MountOf(<<"g">>, FALSE), <<>>), "text"),
         Appended(Proxy(MountOf(<<"/", "h">>, TRUE), <<"v">>)),
         MountOf(<<"k">>, FALSE)>>)
B == M("b", "q", FALSE, <<Content(MountOf(<<"/">>, TRUE), "other")>>)
BothInputs == {A, B}

FileA == <<[ok |-> TRUE, man |-> A]>>

Req(proto, name) == [proto |-> proto, name |-> name, query |-> <<>>,
                     remote |-> "p", spoof |-> Nil]
Http(name) == Req("http", <<"/">> \o name)
Tftp(name) == Req("tftp", name)
Spoof(r, a) == [r EXCEPT !.spoof = a, !.query = <<"spoof">>]

\* HTTP paths begin with a slash, TFTP names may.
AX == <<"a", "/", "x">>
AB == <<"a", "b">>
DX == <<"d", "/", "x">>
Slashed(name) == <<"/">> \o name
BothRequests ==
  {Http(n) : n \in {<<"u">>, Dot, AX, AB, DX, <<"d", "/", ".", ".">>}}
    \cup {Spoof(Http(AB), a) : a \in {"q", BadIP}}
    \cup {Tftp(n) : n \in {<<"u">>, Dot, Slashed(AX), AB, Slashed(DX),
                           <<"e", "/", ".", "/", "x">>, <<"g">>, <<"h", "x">>, <<"k">>}}

StaticU == {<<"u">>}

Symmetric == Permutations(Transfer)
=============================================================================
