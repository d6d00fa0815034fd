------------------------------ MODULE MCBackup ------------------------------
(* Buckets and input lists for the model checker. *)
EXTENDS Backup

CONSTANTS k1, k2

Regular(n) == [multi |-> FALSE, cut |-> <<0>>, size |-> n]
Multi(n)   == [multi |-> TRUE, cut |-> <<0, 1>>, size |-> n]
Of(k, s)   == [key |-> k, shape |-> s, cut |-> IF s = "multipart" THEN <<0, 1>> ELSE <<>>]
OnePart(k) == [Of(k, "multipart") EXCEPT !.cut = <<0>>]

\* k1 may be rewritten, shrink to its first part or become regular; k2 is empty.
Rewritten == [k \in Key |-> IF k = k1 THEN <<Multi(2), Multi(2), Multi(1), Regular(2)>>
                            ELSE <<Regular(0)>>]
\* The same object twice, as in a union of several check runs.
TwiceLines == <<Of(k1, "multipart"), Of(k1, "multipart"), Of(k2, "regular")>>

\* A malformed line, two lines of an object that is regular by now (calls that
\* end with the HEAD), a relay in one part; nothing after the long line is read.
MixedLines == <<Of(k2, "malformed"), Of(k2, "multipart"), Of(k2, "multipart"),
                OnePart(k1), Of(k2, "long"), Of(k1, "regular")>>
Plain == [k \in Key |-> IF k = k1 THEN <<[Multi(1) EXCEPT !.cut = <<0>>]>>
                        ELSE <<Regular(1)>>]

ASSUME ListIsFresh == ObjectsExist
=============================================================================
