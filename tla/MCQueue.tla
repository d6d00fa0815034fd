------------------------------ MODULE MCQueue ------------------------------
(* A small tree of prefixes for the runs of Queue. *)
EXTENDS Queue, TLC

CONSTANTS r, a, b, w1, w2, w3

Tree == (r :> {a, b}) @@ (a :> {}) @@ (b :> {})
=============================================================================
