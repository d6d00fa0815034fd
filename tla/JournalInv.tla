----------------------------- MODULE JournalInv -----------------------------
(***************************************************************************)
(* The inductive invariants behind the theorems about Journal: IInv,       *)
(* CourseOK with Resumable, and ClosingOK.                                 *)
(*                                                                         *)
(* IInv is the one behind FrontierClosed.  It holds of a                   *)
(* deployment that keeps one output directory for all runs, whose journal  *)
(* is cut by a kill only between two lines and never in its first batch,   *)
(* and meets no short write in the first batch of a process or in the      *)
(* batch after another short write; and on a bucket where every page that  *)
(* reveals sub-prefixes and is not the last one holds an object.  Each     *)
(* condition is needed: FrontierClosed is violated on MCJournal's buckets  *)
(* when any one of them is dropped.                                        *)
(***************************************************************************)
EXTENDS Journal

RevealsHaveObjects ==
    \A p \in Prefix : \A k \in PageNumbers(p) :
        k < Len(Pages[p]) /\ Pages[p][k].subs # {} => Pages[p][k].objs # {}

SafeDeployment ==
    /\ SameDir /\ ~FirstBatchMayFail /\ ~RetryMayFail /\ ~FirstBatchMayTear /\ ~LineMayTear
    /\ RevealsHaveObjects

\* Object is what the original command lists: every set of pages closed under
\* listing from the root has a page of each object.
RootReachesAll ==
    \A S \in SUBSET AllPages : ListedFrom({<<Root, 0>>}, S) =>
        \A o \in Object : \E pg \in S : o \in Pages[pg[1]][pg[2]].objs

Objs(p, k) == Pages[p][k].objs
Subs(p, k) == Pages[p][k].subs
Done     == pushed \cup written      \* objects whose result line is at least in a channel
Recorded == journaled \cup pend      \* prefixes the journal holds or will hold
Page(p, s) == IF next[p][s] = 0 THEN Len(Pages[p]) ELSE next[p][s]
Seqs(p) == 1 .. Len(left[p])

\* A page whose results and discoveries are durable.
Settled(p, k) == Objs(p, k) \subseteq written /\ Subs(p, k) \subseteq journaled
SettledTo(p, t) == \A k \in PageNumbers(p) : k <= t => Settled(p, k)
Covered(p) == \A k \in PageNumbers(p) : Settled(p, k)

\* Ranges the code relies on: tokens name a page that exists.
InRange(p, t) == t < Len(Pages[p])
TrackerRange ==
    \A p \in Prefix : InRange(p, base[p]) /\ \A s \in Seqs(p) : InRange(p, next[p][s])
SeedRange == \A s \in toSeed : InRange(s[1], s[2])
QueueRange == \A i \in 1 .. Len(queue) : InRange(queue[i][1], queue[i][2])
WorkerRange == \A w \in Worker : InRange(cur[w], tok[w])
SnapRange == \A c \in snap.cursors : InRange(c[1], c[2])
FileRange == \A p \in Prefix : InRange(p, jtok[p])
RangeOK == TrackerRange /\ SeedRange /\ QueueRange /\ WorkerRange /\ SnapRange /\ FileRange

\* Until the root is recorded nothing has been listed.
RootOK ==
    /\ \/ Root \in Recorded
       \/ /\ journaled = {} /\ pend = {} /\ tracked = {} /\ queue = <<>>
          /\ toSeed \subseteq {<<Root, 0>>}
          /\ \A w \in Worker : pc[w] \in {"pop", "exit"}
    /\ snap = NoBatch \/ Root \in journaled \cup snap.disc
    /\ journaled # {} => Root \in journaled

FileOK ==
    /\ ending = "whole"
    /\ retired \subseteq journaled
    /\ \A p \in jdone \cup retired : Covered(p)
    /\ \A p \in Prefix : SettledTo(p, jtok[p])

SeedOK ==
    /\ \A s \in toSeed : SettledTo(s[1], s[2])
    /\ \A i \in 1 .. Len(queue) : SettledTo(queue[i][1], queue[i][2])
    /\ \A p \in Prefix : SettledTo(p, base[p])

\* What a snapshot claims: after the flush, durably.
Lines == IF ckpt = "flush" THEN Done ELSE written
Claimed(p, k) == Objs(p, k) \subseteq Lines /\ Subs(p, k) \subseteq journaled \cup snap.disc
SnapOK ==
    /\ ckpt = "idle" => snap = NoBatch
    /\ ckpt = "commit" => snap.disc \subseteq journaled
    /\ \A c \in snap.cursors : \A k \in PageNumbers(c[1]) : k <= c[2] => Claimed(c[1], k)
    /\ \A p \in snap.dones : \A k \in PageNumbers(p) : Claimed(p, k)

\* Listing never runs ahead of a page that is neither settled nor registered.
Listing(w) == pc[w] \in {"list", "page"}
Reached(p, k, n) == Settled(p, k) \/ \E s \in 1 .. n : Page(p, s) = k
OrderOK ==
    /\ \A p \in Prefix : \A s \in Seqs(p) : \A k \in PageNumbers(p) :
          k < Page(p, s) => Reached(p, k, s - 1)
    /\ \A w \in Worker : Listing(w) => \A k \in PageNumbers(cur[w]) :
          k <= tok[w] => Reached(cur[w], k, Len(left[cur[w]]))

\* Who still has to report an object of page seq s: a slot is a checker or a
\* place in objCh.
Holds(w, p, s) == pc[w] = "page" /\ cur[w] = p /\ seq[w] = s
IsTask(t, o, p, s) == t # NoTask /\ t.obj = o /\ t.prefix = p /\ t.seq = s
HasTask(o, p, s) ==
    \/ \E i \in 1 .. Len(objCh) : IsTask(objCh[i], o, p, s)
    \/ \E c \in Checker : IsTask(chk[c], o, p, s)
Live(p, s) ==
    {o \in Objs(p, Page(p, s)) :
        \/ o \notin Done
        \/ HasTask(o, p, s)
        \/ \E w \in Worker : Holds(w, p, s) /\ o \in todo[w]}

\* Until a prefix is covered, a task and a held page belong to one page seq.
ValidTask(t) == t.seq \in Seqs(t.prefix) /\ t.obj \in Objs(t.prefix, Page(t.prefix, t.seq))
TaskOK ==
    /\ \A i \in 1 .. Len(objCh) : ~Covered(objCh[i].prefix) =>
          /\ ValidTask(objCh[i])
          /\ \A j \in 1 .. Len(objCh) : objCh[j] = objCh[i] => j = i
          /\ \A c \in Checker : chk[c] # objCh[i]
    /\ \A c \in Checker : chk[c] # NoTask /\ ~Covered(chk[c].prefix) =>
          /\ ValidTask(chk[c])
          /\ \A d \in Checker : chk[d] = chk[c] => d = c
    /\ \A c \in handled : chk[c] # NoTask /\ chk[c].obj \in Done

PageOK ==
    /\ \A w \in Worker : pc[w] = "page" =>
          /\ todo[w] \subseteq Objs(cur[w], tok[w] + 1)
          /\ new[w] # {} => todo[w] = Objs(cur[w], tok[w] + 1)
    /\ \A w \in Worker : pc[w] = "page" /\ ~Covered(cur[w]) =>
          /\ seq[w] \in Seqs(cur[w]) /\ Page(cur[w], seq[w]) = tok[w] + 1
          /\ \A o \in todo[w] : ~HasTask(o, cur[w], seq[w])
          /\ \A v \in Worker : Holds(v, cur[w], seq[w]) => v = w

\* The count of a page never falls below its unfinished objects, so a page the
\* position has passed is finished.
CountOK ==
    \A p \in Prefix : ~Covered(p) =>
        \A s \in Seqs(p) : Cardinality(Live(p, s)) <= left[p][s]
PosOK == \A p \in Prefix : \A s \in 1 .. pos[p] : left[p][s] = 0

\* Discoveries are recorded or about to be, by the worker that holds the page.
DiscoveryOK ==
    /\ \A p \in Prefix : \A s \in Seqs(p) : \A q \in Subs(p, Page(p, s)) :
          q \in Recorded \/ \E w \in Worker : Holds(w, p, s) /\ q \in new[w]
    /\ \A p \in Prefix : pagDone[p] /\ ~Covered(p) =>
          /\ Subs(p, Len(Pages[p])) \subseteq Recorded
          /\ \A k \in PageNumbers(p) : Reached(p, k, Len(left[p]))

IInv ==
    /\ TypeOK /\ RangeOK /\ RootOK /\ FileOK /\ SeedOK /\ SnapOK /\ OrderOK
    /\ TaskOK /\ PageOK /\ CountOK /\ PosOK /\ DiscoveryOK

-----------------------------------------------------------------------------
(* The invariant behind InterruptedRunResumable, of every deployment: what a *)
(* process has under way, from the seeds to the end of run().                *)

Listers == {w \in Worker : Listing(w)}

\* inflight counts at least what is queued or listed, so that the worker that takes it to
\* zero leaves nothing behind when it closes the queue.
FlowOK ==
    /\ inflight >= Len(queue) + Cardinality(Listers)
    /\ closed \/ ~seeded => queue = <<>> /\ Listers = {}
    /\ \A w \in Worker : pc[w] = "exit" => sig > 0 \/ closed

AllQuiet ==
    /\ \A w \in Worker : pc[w] = "exit"
    /\ queue = <<>> /\ objCh = <<>> /\ \A c \in Checker : chk[c] = NoTask

MainOK ==
    /\ toSeed # {} => main = "seeding"
    /\ main \in {"down", "closing", "ended"} => ckpt = "idle"
    /\ ckpt # "idle" => /\ ckptFor = "trigger" => main = "trigger"
                        /\ ckptFor = "final" => main = "stopping"
    /\ main \in {"stopping", "closing", "ended"} => AllQuiet
    /\ main = "ended" => pushed \subseteq written

FirstRun ==
    /\ runs = 0 => main = "down" /\ journaled = {}
    /\ runs = 1 /\ toSeed # {} => toSeed = {<<Root, 0>>} /\ ~seeded /\ ~closed

\* What a worker has still to do is on the page it holds.
PageShape ==
    \A w \in Worker : pc[w] = "page" =>
        /\ todo[w] \subseteq Objs(cur[w], tok[w] + 1)
        /\ new[w] \subseteq subs[w] /\ subs[w] \subseteq Subs(cur[w], tok[w] + 1)

HandledOK == \A c \in handled : chk[c].obj \in Done

CourseOK == FlowOK /\ MainOK /\ FirstRun /\ PageShape /\ HandledOK

\* What is still to be listed: the seeds, recorded or queued, the next page of every
\* worker, and the sub-prefixes it has not enqueued.
NextSeed(w) == <<cur[w], IF pc[w] = "page" THEN tok[w] + 1 ELSE tok[w]>>
Revealed(w) == IF pc[w] = "page" THEN {<<s, 0>> : s \in subs[w]} ELSE {}
Queued == {queue[i] : i \in DOMAIN queue}
Open ==
    toSeed \cup listFailed \cup Queued \cup {NextSeed(w) : w \in Listers}
        \cup UNION {Revealed(w) : w \in Worker}

InHand(o) ==
    \/ \E w \in Worker : pc[w] = "page" /\ o \in todo[w]
    \/ \E i \in DOMAIN objCh : objCh[i].obj = o
    \/ \E c \in Checker : chk[c] # NoTask /\ chk[c].obj = o

OnPage(o, S) == \E pg \in S : o \in Objs(pg[1], pg[2])

\* Whatever is listed from there on finds every object that nobody has in hand.
Resumable ==
    runs = 1 /\ main # "down" =>
        \A S \in SUBSET AllPages : ListedFrom(Open, S) =>
            \A o \in Object : o \in Done \/ InHand(o) \/ OnPage(o, S)
-----------------------------------------------------------------------------
(* The invariant behind CleanRunJournalsAll, of deployments where no short   *)
(* write follows another.                                                    *)

\* Every prefix is one that the original command lists.
RootReachesEveryPrefix ==
    \A S \in SUBSET AllPages : ListedFrom({<<Root, 0>>}, S) =>
        \A p \in Prefix \ {Root} : \E pg \in S : p \in Subs(pg[1], pg[2])

\* No signal, no LIST error, and no prefix that was counted and then not pushed because
\* the queue was closed: what is counted is queued or listed.
Excess == inflight - (Len(queue) + Cardinality(Listers))
Smooth == sig = 0 /\ listFailed = {} /\ Excess = 0

\* Finished is what this process journaled as done, and Due what it has still to.
Finished == IF fd = "start" THEN {} ELSE jdone
Due == (journaled \ jdone) \cup (pend \ Finished)

\* The fragment that a kill left can only swallow a line that a seed or a discovery wrote:
\* the first batch of a process has one.
TornOK ==
    ending = "torn" =>
        /\ fd = "start" /\ (ckpt = "commit" => snap = NoBatch)
        /\ snap = NoBatch \/ snap.disc # {}
        /\ pend = {} => tracked = {} /\ queue = <<>> /\ Listers = {}

BatchOK ==
    /\ ckpt = "idle" => snap = NoBatch
    /\ snap.disc \subseteq pend /\ snap.dones \cup {c[1] : c \in snap.cursors} \subseteq tracked
    /\ ckpt = "commit" => snap.dones \subseteq Finished

\* A position stops only before a page with a count, and a count is at most the number of
\* reports still to come, by workers, from objCh and by checkers.
StopOK == \A p \in Prefix : pos[p] < Len(left[p]) => left[p][pos[p] + 1] # 0
Unsent(p, s)  == {t \in Worker \X Object : Holds(t[1], p, s) /\ t[2] \in todo[t[1]]}
Waiting(p, s) == {i \in DOMAIN objCh : objCh[i].prefix = p /\ objCh[i].seq = s}
Judged(p, s)  == {c \in Checker : chk[c] # NoTask /\ chk[c].prefix = p /\ chk[c].seq = s}
Reports(p, s) == Cardinality(Unsent(p, s)) + Cardinality(Waiting(p, s)) + Cardinality(Judged(p, s))
ReportsOK == \A p \in Prefix : \A s \in Seqs(p) : left[p][s] <= Reports(p, s)

\* A tracked prefix is queued or being listed, or paginated to its end; a worker is on a
\* page of a tracked prefix, or of one that was journaled as done meanwhile.
Awaited(p) ==
    (\E i \in DOMAIN queue : queue[i][1] = p) \/ \E w \in Worker : pc[w] = "list" /\ cur[w] = p
Paginated(p) ==
    left[p] # <<>> /\ (pagDone[p] \/ \E w \in Worker : pc[w] = "page" /\ cur[w] = p)
PaginationOK == \A p \in tracked : Awaited(p) \/ Paginated(p)
HeldOK == \A w \in Worker : pc[w] = "page" => cur[w] \in tracked \cup Finished

\* What is due is tracked, or will be listed.
Named(p, S) == (\E i \in Open : i[1] = p) \/ \E pg \in S : p \in Subs(pg[1], pg[2])
DueOK ==
    main # "down" =>
        \A S \in SUBSET AllPages : ListedFrom(Open, S) => \A p \in Due : p \in tracked \/ Named(p, S)

\* The last batch holds all there is, and what it says is done is all that is journaled.
LastOK ==
    /\ main = "stopping" /\ ckpt # "idle" /\ ckptFor = "final" =>
          /\ snap = [disc |-> pend, cursors |-> {}, dones |-> tracked]
          /\ ckpt = "commit" => journaled = jdone
    /\ main \in {"closing", "ended"} /\ fd # "stale" =>
          journaled = jdone /\ tracked = {} /\ pend = {}

ClosingOK ==
    /\ TornOK /\ BatchOK /\ StopOK /\ HeldOK
    /\ Smooth => ReportsOK /\ PaginationOK /\ DueOK /\ LastOK
=============================================================================
