---------------------------- MODULE MCStoreLocks ----------------------------
(* A small instance of StoreLocks: a manifest with two MAC addresses, and  *)
(* three goroutines: two that write and one that looks up meanwhile.       *)
EXTENDS StoreLocks

M(i, a, xs) == [id |-> i, ip |-> a, macs |-> xs, suspended |-> FALSE]
A == M("a", "p", {"x", "y"})
MCInputs == {A}

Call(op, arg) == [op |-> op, arg |-> arg]
MCCalls == {Call("put", A), Call("forget", "a"), Call("suspend", "p"),
            Call("findByMAC", "y")}
=============================================================================
