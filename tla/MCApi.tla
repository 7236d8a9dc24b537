------------------------------- MODULE MCApi -------------------------------
(* Small instances of Api: which connection sends which requests.          *)
EXTENDS Api, TLC

CONSTANTS c1, c2, c3

\* json: encoding/json can marshal it; valid: decoding and Validate succeed.
M(i, a, x, js, v) == [id |-> i, ip |-> a, macs |-> {x}, suspended |-> FALSE,
                      json |-> js, valid |-> v]
Plain == M("a", "p", "x", TRUE, TRUE)
Nested == M("b", "q", "y", FALSE, TRUE)
Invalid == M("a", "p", "x", TRUE, FALSE)
NoIP == M("b", Nil, "y", TRUE, TRUE)
MCInputs == {Plain, Nested, Invalid, NoIP}
MCFiles == <<[ok |-> TRUE, man |-> Nested], [ok |-> FALSE, man |-> Invalid]>>

Req(route, i) ==
  [route |-> route, id |-> i, auth |-> Authorization, spoof |-> Nil,
   remote |-> "p", json |-> TRUE, man |-> Nil, ok |-> FALSE]
PutReq(m) == [Req("put", "a") EXCEPT !.man = m, !.ok = m.valid]
Unauth(r) == [r EXCEPT !.auth = "other"]
Spoof(r, a) == [r EXCEPT !.spoof = a]

Puts == {PutReq(Plain), PutReq(Invalid), PutReq(NoIP), Unauth(PutReq(Plain))}
Gets == {Req("get", "a"), Req("get", "b"), [Req("get", "b") EXCEPT !.json = FALSE]}
Lists == {Req("list", "a"), Unauth(Req("list", "a"))}
Deletes == {Req("delete", "a"), Req("delete", "b"), Unauth(Req("delete", "b"))}
Flags == {Req("suspend", "a"), Req("unsuspend", "a"), Spoof(Req("suspend", "a"), "q"),
          Unauth(Spoof(Req("suspend", "a"), "q")), Spoof(Req("suspend", "a"), BadIP)}
Selfs == {Req("self", "a"), [Spoof(Req("self", "a"), "q") EXCEPT !.json = FALSE]}

\* One connection decodes, stores and marshals; the others only delete and
\* (un)suspend, and so never touch err.
OneWriter == c1 :> Puts \cup Gets \cup Lists \cup Selfs @@ c2 :> Deletes @@ c3 :> Flags
TwoPuts == c1 :> {PutReq(Plain), PutReq(Invalid)} @@ c2 :> {PutReq(Plain), PutReq(Invalid)}
PutAndList == c1 :> {PutReq(Plain)} @@ c2 :> Lists
=============================================================================
