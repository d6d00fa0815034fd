---------------------------- MODULE MCGenerator ----------------------------
(* Bounds of the run of Generator. *)
EXTENDS Generator

CONSTANTS w1, w2
=============================================================================
