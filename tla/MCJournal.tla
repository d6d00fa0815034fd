----------------------------- MODULE MCJournal -----------------------------
(* Small buckets and the bounds of the runs of Journal. *)
EXTENDS JournalInv, TLC

CONSTANTS r, a, b, o1, o2, w1, w2, c1, none

PageOf(objects, prefixes) == [objs |-> objects, subs |-> prefixes]

\* A sub-prefix on a last page without objects; a resume may list it twice at the same time.
LatePages == (r :> <<PageOf({o1}, {}), PageOf({}, {a})>>) @@ (a :> <<PageOf({o2}, {})>>)
\* The same for a sub-prefix with its object between two pages without objects.
TwinPages == (r :> <<PageOf({o1}, {a})>>) @@
             (a :> <<PageOf({}, {}), PageOf({o2}, {}), PageOf({}, {})>>)
\* A page of two objects, for interruptions in its middle.
WidePages == (r :> <<PageOf({o1, o2}, {a}), PageOf({}, {})>>) @@ (a :> <<PageOf({}, {})>>)
\* A first page that reveals a sub-prefix and holds no object.
BarePages == (r :> <<PageOf({}, {a}), PageOf({o1}, {})>>) @@ (a :> <<PageOf({o2}, {})>>)
\* Two sub-prefixes that a resume seeds side by side (section 7 of the README).
FanPages  == (r :> <<PageOf({}, {a, b})>>) @@
             (a :> <<PageOf({o1}, {})>>) @@ (b :> <<PageOf({o2}, {})>>)
ASSUME BucketIsListed == RootReachesAll /\ RootReachesEveryPrefix

\* The token of the first page of a holds the field separator.
MCPipe == {<<a, 1>>}
Symmetric == Permutations({w1, w2})
=============================================================================
