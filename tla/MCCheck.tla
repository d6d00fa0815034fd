------------------------------ MODULE MCCheck -------------------------------
(* Configurations, inputs and buckets for Check: every object and every    *)
(* ETag of a small size, one at a time, and a few runs with two workers.   *)
EXTENDS Check

MCTask == 1 .. 2
MCOrder == <<"parse_failed", "corrupted", "mp", "list_parse_failed", "corrupted_mp", "ok_mp",
             "ok_objects", "check_failed", "mp_check_failed">>
MCFile == {MCOrder[i] : i \in DOMAIN MCOrder}
MCRoot == {"parse_failed", "list_parse_failed", "check_failed", "mp_check_failed"}
MCLine == [file : MCFile, task : MCTask]
MCOwnerDir == [l \in MCLine |-> "owner"]

NoETag == [count |-> 0, offs |-> <<>>]

EndOfPart(size, cuts, i) == IF i < Len(cuts) THEN cuts[i + 1] ELSE size

\* A chunk header at the start of a part, a trailer at its end, where they fit.
Places(size, cuts) ==
    UNION {{cuts[i], EndOfPart(size, cuts, i) - MarkLength} :
               i \in {i \in DOMAIN cuts : EndOfPart(size, cuts, i) - cuts[i] >= MarkLength}}

MCSize == {0, 1, 2, 3, 5, 8}
MCCuts == {<<0>>, <<0, 1>>, <<0, 2>>, <<0, 3>>, <<0, 5>>, <<0, 3, 4>>, <<0, 2, 5>>, <<0, 4, 7>>}

CutsFor(size) == {cuts \in MCCuts : \A i \in 2 .. Len(cuts) : cuts[i] < size}

Plains == UNION {{[multi |-> FALSE, size |-> s, cuts |-> <<0>>, marks |-> m, etag |-> NoETag] :
                     m \in SUBSET Places(s, <<0>>)} : s \in MCSize}
Multis == UNION {UNION {{[multi |-> TRUE, size |-> s, cuts |-> cuts, marks |-> m,
                          etag |-> [count |-> Len(cuts), offs |-> cuts]] :
                             m \in SUBSET Places(s, cuts)} : cuts \in CutsFor(s)} : s \in MCSize}

\* ETags that are not what the server should send.
BadETags == {NoETag, [count |-> 2, offs |-> <<0>>], [count |-> 2, offs |-> <<1, 2>>],
             [count |-> 2, offs |-> <<0, 0>>], [count |-> 2, offs |-> <<0, 9>>],
             [count |-> 2, offs |-> <<0, 5>>], [count |-> 3, offs |-> <<0, 3, 2>>]}
Oddities == {[multi |-> TRUE, size |-> 5, cuts |-> <<0, 3>>, marks |-> {3}, etag |-> e] : e \in BadETags}

Conf(mode, input, threshold) ==
    [mode |-> mode, input |-> input, threshold |-> threshold, segment |-> 3,
     okLog |-> mode # "off", mpOkLog |-> mode = "offset"]

Quiet == [faults |-> 0, changes |-> 0, flushes |-> 0, opens |-> 0, signals |-> 0]

Line1(t, multi, offs) == [id |-> t, multi |-> multi, count |-> Len(offs), offs |-> offs]

One(c, o, l) ==
    [conf |-> c, bucket |-> [t \in MCTask |-> o], later |-> [t \in MCTask |-> o],
     input |-> <<l>>, checkers |-> {"c1"}, bounds |-> Quiet]

\* One object, one worker, nothing goes wrong: what the probes see.
Listed == {One(Conf(m, "none", t), o, Line1(1, FALSE, <<>>)) :
               m \in {"off", "offset", "segment"}, t \in {0, 3}, o \in Plains \union Multis \union Oddities}
FromFile == {One(Conf("off", "check", 0), o, Line1(1, offs # <<>>, offs)) :
                 o \in Plains \union Multis,
                 offs \in {<<>>, <<0>>, <<0, 3>>, <<0, 4, 12>>, <<1, 2>>}}
            \union {One(Conf("segment", "list", 0), o, Line1(1, offs # <<>>, offs)) :
                       o \in Plains \union Oddities, offs \in {<<>>, <<0, 3>>}}

\* Two workers, faults, changes, signals.
Sound == [multi |-> FALSE, size |-> 3, cuts |-> <<0>>, marks |-> {}, etag |-> NoETag]
Marked == [multi |-> TRUE, size |-> 5, cuts |-> <<0, 3>>, marks |-> {3},
           etag |-> [count |-> 2, offs |-> <<0, 3>>]]

Busy(c, bucket, later, bounds) ==
    [conf |-> c, bucket |-> bucket, later |-> later,
     input |-> <<Line1(1, FALSE, <<>>), Line1(2, TRUE, <<0, 3>>)>>, checkers |-> {"c1", "c2"},
     bounds |-> bounds]

Runs == {Busy(Conf("offset", "none", 0), <<Marked, Marked>>, <<Sound, Sound>>,
              [Quiet EXCEPT !.faults = 1, !.flushes = 1, !.opens = 1]),
         Busy(Conf("segment", "none", 0), <<Sound, Marked>>, <<Marked, Sound>>,
              [Quiet EXCEPT !.signals = 2]),
         Busy(Conf("off", "check", 0), <<Sound, Marked>>, <<Marked, Sound>>,
              [Quiet EXCEPT !.changes = 1, !.signals = 2])}

Everything == Listed \union FromFile \union Runs

\* -check-file with multipart_check_mode=1, a regular line whose object is multipart (section 7
\* of the README).
Drift == {One(Conf("offset", "check", 0), Marked, Line1(1, FALSE, <<>>))}

\* What the theorems ask of the scenarios; the assumption of Check covers all of them.
ASSUME ScenariosAreProper ==
    /\ InputDistinct /\ NoOffsetCheckFile /\ MarksAtPartEnds
=============================================================================
