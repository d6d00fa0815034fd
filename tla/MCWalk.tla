------------------------------- MODULE MCWalk -------------------------------
(* A small tree for the run of Walk. *)
EXTENDS Walk, TLC

CONSTANTS r, a, b, c, d, o1, o2, o3, o4, o5

PageOf(objects, prefixes) == [objs |-> objects, subs |-> prefixes]

\* Sub-prefixes on the first and on the last of two pages, a subtree two levels down, pages
\* without objects; up to three walks at once for two slots.
SmallTree ==
    (r :> <<PageOf(<<o1>>, {a, d}), PageOf(<<o2>>, {b})>>) @@
    (a :> <<PageOf(<<o3, o4>>, {}), PageOf(<<>>, {c})>>) @@
    (b :> <<PageOf(<<>>, {})>>) @@
    (c :> <<PageOf(<<o5>>, {})>>) @@
    (d :> <<PageOf(<<>>, {})>>)

\* What the theorems ask of the tree.
ASSUME ListingIsATree == KeysOnOnePage /\ \E height \in [Prefix -> 0 .. 2] : Descends(height)
=============================================================================
