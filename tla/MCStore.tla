------------------------------ MODULE MCStore ------------------------------
(* A small instance of Store: two IDs that share addresses and move        *)
(* between them, and one that does neither.                                *)
EXTENDS Store, TLC

M(i, a, xs) == [id |-> i, ip |-> a, macs |-> xs, suspended |-> FALSE]
NoID == M(Nil, "p", {"x"})
NoIP == M("a", Nil, {"x"})
Suspended(m) == [m EXCEPT !.suspended = TRUE]

\* "a" moves between p, which it has for itself, and q; it keeps x, which "b"
\* claims too, and has y for itself at times.  "c" is tidy.
A == M("a", "p", {"x"})
AMoved == M("a", "q", {"x", "y"})
MCInputs == {A, AMoved, Suspended(M("b", "q", {"x"})), M("c", "r", {"z"}), NoID, NoIP}

File(ok, m) == [ok |-> ok, man |-> m]
MCFiles == <<File(FALSE, NoID), File(TRUE, AMoved), File(TRUE, NoIP), File(TRUE, A)>>

Symmetric == Permutations(Caller)
=============================================================================
