------------------------------ MODULE Journal ------------------------------
(***************************************************************************)
(* Mode 2 scan with the kill -9 resume journal.  List workers page through *)
(* the prefixes of the BFS queue, checkers judge the objects they emit,    *)
(* the JournalTracker accounts for both at page granularity, and a         *)
(* checkpoint goroutine persists the accounting in journal.txt.  The       *)
(* process may be killed at any moment and started again from the journal. *)
(*                                                                         *)
(* Go source: chunked_check_tool/journal.go, lister.go, main.go (run),     *)
(* checker.go (the deferred Terminal report) and queue.go.                 *)
(*                                                                         *)
(* A continuation token is the number of pages that precede the page it    *)
(* asks for, so 0 is the empty token (from the top, or no further page).   *)
(* Page sequence numbers count from 1 and pos is the number of leading     *)
(* pages that are fully terminal: one more than the Go fields.             *)
(***************************************************************************)
EXTENDS Integers, Sequences, FiniteSets

CONSTANTS
    Prefix,             \* prefixes of the bucket
    Root,               \* the prefix the original command scans
    Object,             \* objects of the bucket
    Pages,              \* Pages[p]: the LIST pages of p, [objs, subs] each
    PipeKey,            \* objects whose key holds the field separator
    PipeToken,          \* <<prefix, token>> pairs whose token breaks the cursor grammar
    Worker,             \* list workers
    Checker,            \* check workers
    NoTask,             \* the value of a checker without a task
    ChCap,              \* capacity of objCh
    IsCheck,            \* is_check of the configuration
    SameDir,            \* output_dir_timestamp off: every run appends to one directory
    FirstBatchMayFail,  \* a short write may hit the first batch of a reopened journal
    RetryMayFail,       \* a short write may hit the batch that follows a short write
    FirstBatchMayTear,  \* a kill may cut the first batch of an empty journal
    LineMayTear,        \* a kill may cut a batch inside a line
    MaxRuns,            \* bound: processes started
    MaxSignals,         \* bound: signals per process (the code counts two)
    MaxListErrors,      \* bound: prefixes in list_failed through LIST errors
    MaxShortWrites      \* bound: failed batch appends

Token == Nat
Seed  == Prefix \X Token
Task  == [obj : Object, prefix : Prefix, seq : Nat]
PageNumbers(p) == 1 .. Len(Pages[p])
NextToken(p, k) == IF k = Len(Pages[p]) THEN 0 ELSE k

ASSUME BucketAssumption ==
    /\ Root \in Prefix
    /\ Pages \in [Prefix -> Seq([objs : SUBSET Object, subs : SUBSET Prefix])]
    /\ \A p \in Prefix : Len(Pages[p]) > 0
    /\ \A p \in Prefix : \A k \in PageNumbers(p) : IsFiniteSet(Pages[p][k].objs)
    /\ PipeKey \subseteq Object
    /\ PipeToken \subseteq Prefix \X Token

ASSUME ConfigAssumption ==
    /\ IsFiniteSet(Worker) /\ Worker # {} /\ IsFiniteSet(Checker)
    /\ ChCap \in Nat \ {0}
    /\ IsCheck \in BOOLEAN /\ SameDir \in BOOLEAN
    /\ FirstBatchMayFail \in BOOLEAN /\ RetryMayFail \in BOOLEAN
    /\ FirstBatchMayTear \in BOOLEAN /\ LineMayTear \in BOOLEAN
    /\ MaxRuns \in Nat /\ MaxSignals \in 0 .. 2
    /\ MaxListErrors \in Nat /\ MaxShortWrites \in Nat
    /\ NoTask \notin Task

VARIABLES
    \* the main goroutine and the signals
    main,        \* where run() stands
    toSeed,      \* seeds the seeding loop has still to push
    seeded,      \* run()'s flag of the same name
    sig,         \* signals received: 1 cancels listCtx, 2 cancels hardCtx
    runs,        \* processes started so far
    \* the queue
    queue, closed, inflight,
    \* the list workers
    pc, cur, tok, seq,
    new,         \* sub-prefixes of the page not yet recorded as discovered
    todo,        \* objects of the page not yet emitted
    subs,        \* sub-prefixes of the page not yet enqueued
    \* the pipeline to the checkers
    objCh, chk, handled,
    \* the JournalTracker: pendingDiscovered, and states with its fields
    pend, tracked, base, pagDone, left, next, pos,
    \* the checkpoint goroutine
    ckpt, ckptFor, snap, fd,
    \* what journal.txt replays to, and how it ends
    journaled, jdone, jtok,
    ending,      \* whole, torn (its last line is a fragment) or broken (replay refuses it)
    retired,     \* history: prefixes some resume skipped because they were done
    shortWrites, \* history: appends that failed
    \* the result files
    pushed,      \* objects whose result line this process put into an output channel
    written,     \* objects whose result line is in a file
    listFailed   \* history: <<prefix, token>> lines of list_failed.txt, all runs

mainVars   == <<main, toSeed, seeded, sig, runs>>
queueVars  == <<queue, closed, inflight>>
workerVars == <<pc, cur, tok, seq, new, todo, subs>>
checkVars  == <<objCh, chk, handled>>
stateVars  == <<tracked, base, pagDone, left, next, pos>>
ckptVars   == <<ckpt, ckptFor, snap, fd>>
fileVars   == <<journaled, jdone, jtok, ending, retired, shortWrites>>
outVars    == <<pushed, written, listFailed>>
vars == <<mainVars, queueVars, workerVars, checkVars, pend, stateVars, ckptVars,
          fileVars, outVars>>

Up == main \notin {"down", "ended"}
Ending == {"whole", "torn", "broken"}
Batch == [disc : SUBSET Prefix, cursors : SUBSET Seed, dones : SUBSET Prefix]
NoBatch == [disc |-> {}, cursors |-> {}, dones |-> {}]

-----------------------------------------------------------------------------
(* JournalTracker *)

\* advance(): the least position from n on whose next page is not terminal.
Stops(l, n) == {m \in n .. Len(l) : m = Len(l) \/ l[m + 1] # 0}
Advance(l, n) == CHOOSE m \in Stops(l, n) : \A m2 \in Stops(l, n) : m <= m2

RecordSeed(p, t) ==
    /\ pend' = pend \cup {p}
    /\ tracked' = tracked \cup {p}
    /\ base' = [base EXCEPT ![p] = t]
    /\ UNCHANGED <<pagDone, left, next, pos>>

RegisterPage(p, n, t) ==
    /\ tracked' = tracked \cup {p}
    /\ left' = [left EXCEPT ![p] = Append(@, n)]
    /\ next' = [next EXCEPT ![p] = Append(@, t)]
    /\ pos' = [pos EXCEPT ![p] = Advance(Append(left[p], n), @)]
    /\ UNCHANGED <<base, pagDone>>

\* A late or duplicate report finds no outstanding count and is ignored.
Reported(l, s) == IF s \in 1 .. Len(l) /\ l[s] > 0 THEN [l EXCEPT ![s] = @ - 1] ELSE l

Terminal(p, s) ==
    /\ left' = [left EXCEPT ![p] = Reported(@, s)]
    /\ pos' = [pos EXCEPT ![p] = Advance(Reported(left[p], s), @)]
    /\ UNCHANGED <<tracked, base, pagDone, next>>

MarkPaginationDone(p) ==
    /\ pagDone' = [pagDone EXCEPT ![p] = @ \/ p \in tracked]
    /\ UNCHANGED <<tracked, base, left, next, pos>>

Continuation(p) == IF pos[p] > 0 THEN next[p][pos[p]] ELSE base[p]
\* Mutant: a prefix whose pages so far are terminal counts as done.
DoneEarly(p) == left[p] # <<>> /\ pos[p] = Len(left[p])
IsDone(p) == pagDone[p] /\ left[p] # <<>> /\ pos[p] = Len(left[p])

TakeSnapshot ==
    [disc    |-> pend,
     cursors |-> {c \in {<<p, Continuation(p)>> : p \in {q \in tracked : ~IsDone(q)}} :
                    c[2] # 0 /\ c \notin PipeToken},
     dones   |-> {p \in tracked : IsDone(p)}]

\* Mutant: the state of a done prefix keeps its position.
CommitKeepsPosition ==
    /\ pend' = pend \ snap.disc
    /\ tracked' = tracked \ snap.dones
    /\ left' = [p \in Prefix |-> IF p \in snap.dones THEN <<>> ELSE left[p]]
    /\ next' = [p \in Prefix |-> IF p \in snap.dones THEN <<>> ELSE next[p]]
    /\ UNCHANGED <<base, pagDone, pos>>

\* Commit forgets what the batch persisted.
Commit ==
    /\ pend' = pend \ snap.disc
    /\ tracked' = tracked \ snap.dones
    /\ base' = [p \in Prefix |-> IF p \in snap.dones THEN 0 ELSE base[p]]
    /\ pagDone' = [p \in Prefix |-> IF p \in snap.dones THEN FALSE ELSE pagDone[p]]
    /\ left' = [p \in Prefix |-> IF p \in snap.dones THEN <<>> ELSE left[p]]
    /\ next' = [p \in Prefix |-> IF p \in snap.dones THEN <<>> ELSE next[p]]
    /\ pos' = [p \in Prefix |-> IF p \in snap.dones THEN 0 ELSE pos[p]]

-----------------------------------------------------------------------------
(* List workers: Lister.Run and processPrefix *)

Push(item) == queue' = IF closed THEN queue ELSE Append(queue, item)

Seeding ==
    /\ main = "seeding"
    /\ \E s \in toSeed :
         /\ toSeed' = toSeed \ {s}
         /\ RecordSeed(s[1], s[2])
         /\ inflight' = inflight + 1
         /\ Push(s)
    /\ seeded' = TRUE
    /\ UNCHANGED <<main, sig, runs, closed, workerVars, checkVars, ckptVars, fileVars,
                   outVars>>

\* The queue hands out an item without looking at listCtx: a worker whose loop
\* checked it before the signal may still pop.
Pop(w) ==
    /\ pc[w] = "pop" /\ queue # <<>>
    /\ queue' = Tail(queue)
    /\ cur' = [cur EXCEPT ![w] = Head(queue)[1]]
    /\ tok' = [tok EXCEPT ![w] = Head(queue)[2]]
    /\ pc' = [pc EXCEPT ![w] = "list"]
    /\ UNCHANGED <<mainVars, closed, inflight, seq, new, todo, subs, checkVars, pend,
                   stateVars, ckptVars, fileVars, outVars>>

PopFails(w) ==
    /\ pc[w] = "pop"
    /\ sig > 0 \/ (closed /\ queue = <<>>)
    /\ pc' = [pc EXCEPT ![w] = "exit"]
    /\ UNCHANGED <<mainVars, queueVars, cur, tok, seq, new, todo, subs, checkVars, pend,
                   stateVars, ckptVars, fileVars, outVars>>

\* Mutant: the last worker out leaves the queue open.
LeaveOpen(w) ==
    /\ inflight' = inflight - 1
    /\ pc' = [pc EXCEPT ![w] = "pop"]
    /\ UNCHANGED <<closed, cur, tok, seq, new, todo, subs>>

\* processPrefix returned: the worker that takes inflight to zero closes the queue.
Leave(w) ==
    /\ inflight' = inflight - 1
    /\ closed' = (closed \/ inflight = 1)
    /\ pc' = [pc EXCEPT ![w] = IF inflight = 1 THEN "exit" ELSE "pop"]
    /\ cur' = [cur EXCEPT ![w] = Root]
    /\ tok' = [tok EXCEPT ![w] = 0]
    /\ seq' = [seq EXCEPT ![w] = 0]
    /\ new' = [new EXCEPT ![w] = {}]
    /\ todo' = [todo EXCEPT ![w] = {}]
    /\ subs' = [subs EXCEPT ![w] = {}]

ListPage(w) ==
    LET p == cur[w]
        k == tok[w] + 1
    IN  /\ pc[w] = "list"
        /\ RegisterPage(p, Cardinality(Pages[p][k].objs), NextToken(p, k))
        /\ seq' = [seq EXCEPT ![w] = Len(left[p]) + 1]
        /\ new' = [new EXCEPT ![w] = Pages[p][k].subs]
        /\ todo' = [todo EXCEPT ![w] = Pages[p][k].objs]
        /\ subs' = [subs EXCEPT ![w] = Pages[p][k].subs]
        /\ pc' = [pc EXCEPT ![w] = "page"]
        /\ UNCHANGED <<mainVars, queueVars, cur, tok, checkVars, pend, ckptVars, fileVars,
                       outVars>>

ListFails(w) ==
    /\ pc[w] = "list"
    /\ Cardinality(listFailed) < MaxListErrors
    /\ listFailed' = listFailed \cup {<<cur[w], tok[w]>>}
    /\ Leave(w)
    /\ UNCHANGED <<mainVars, queue, checkVars, pend, stateVars, ckptVars, fileVars,
                   pushed, written>>

AddDiscovered(w) ==
    /\ pc[w] = "page"
    /\ \E s \in new[w] :
         /\ pend' = pend \cup {s}
         /\ new' = [new EXCEPT ![w] = @ \ {s}]
    /\ UNCHANGED <<mainVars, queueVars, pc, cur, tok, seq, todo, subs, checkVars,
                   stateVars, ckptVars, fileVars, outVars>>

\* Check mode: the object becomes a task, sent when objCh has room.
Emit(w) ==
    /\ pc[w] = "page" /\ new[w] = {} /\ IsCheck
    /\ Len(objCh) < ChCap
    /\ \E o \in todo[w] \ PipeKey :
         /\ objCh' = Append(objCh, [obj |-> o, prefix |-> cur[w], seq |-> seq[w]])
         /\ todo' = [todo EXCEPT ![w] = @ \ {o}]
    /\ UNCHANGED <<mainVars, queueVars, pc, cur, tok, seq, new, subs, chk, handled, pend,
                   stateVars, ckptVars, fileVars, outVars>>

\* A key with the separator goes to invalid_keys, a list-only object to the
\* counters: the lister reports their terminal itself.
EmitLocally(w) ==
    /\ pc[w] = "page" /\ new[w] = {}
    /\ \E o \in todo[w] :
         /\ \/ /\ o \in PipeKey
               /\ pushed' = pushed \cup {o}
               /\ UNCHANGED written
            \/ /\ o \notin PipeKey /\ ~IsCheck
               /\ written' = written \cup {o}
               /\ UNCHANGED pushed
         /\ todo' = [todo EXCEPT ![w] = @ \ {o}]
    /\ Terminal(cur[w], seq[w])
    /\ UNCHANGED <<mainVars, queueVars, pc, cur, tok, seq, new, subs, checkVars, pend,
                   ckptVars, fileVars, listFailed>>

\* The second signal interrupts a send: the page's own cursor is recorded.
HardAbort(w) ==
    /\ pc[w] = "page" /\ new[w] = {} /\ IsCheck
    /\ sig = 2 /\ todo[w] \ PipeKey # {}
    /\ listFailed' = listFailed \cup {<<cur[w], tok[w]>>}
    /\ Leave(w)
    /\ UNCHANGED <<mainVars, queue, checkVars, pend, stateVars, ckptVars, fileVars,
                   pushed, written>>

Enqueue(w) ==
    /\ pc[w] = "page" /\ new[w] = {} /\ todo[w] = {}
    /\ \E s \in subs[w] :
         /\ subs' = [subs EXCEPT ![w] = @ \ {s}]
         /\ Push(<<s, 0>>)
    /\ inflight' = inflight + 1
    /\ UNCHANGED <<mainVars, closed, pc, cur, tok, seq, new, todo, checkVars, pend,
                   stateVars, ckptVars, fileVars, outVars>>

PageDone(w) == pc[w] = "page" /\ new[w] = {} /\ todo[w] = {} /\ subs[w] = {}

TurnPage(w) ==
    /\ PageDone(w) /\ tok[w] + 1 < Len(Pages[cur[w]])
    /\ tok' = [tok EXCEPT ![w] = @ + 1]
    /\ pc' = [pc EXCEPT ![w] = "list"]
    /\ UNCHANGED <<mainVars, queueVars, cur, seq, new, todo, subs, checkVars, pend,
                   stateVars, ckptVars, fileVars, outVars>>

LastPage(w) ==
    /\ PageDone(w) /\ tok[w] + 1 = Len(Pages[cur[w]])
    /\ MarkPaginationDone(cur[w])
    /\ Leave(w)
    /\ UNCHANGED <<mainVars, queue, checkVars, pend, ckptVars, fileVars, outVars>>

ListWorker(w) ==
    \/ Pop(w) \/ PopFails(w) \/ ListPage(w) \/ AddDiscovered(w) \/ Emit(w)
    \/ EmitLocally(w) \/ HardAbort(w) \/ Enqueue(w) \/ TurnPage(w) \/ LastPage(w)

-----------------------------------------------------------------------------
(* Check workers: receive, Handle, and the Terminal report Handle defers *)

Receive(c) ==
    /\ chk[c] = NoTask /\ objCh # <<>>
    /\ chk' = [chk EXCEPT ![c] = Head(objCh)]
    /\ objCh' = Tail(objCh)
    /\ UNCHANGED <<mainVars, queueVars, workerVars, handled, pend, stateVars, ckptVars,
                   fileVars, outVars>>

\* Mutant: after the second signal the checker gives up on pushing the line.
HandleGivesUp(c) ==
    /\ chk[c] # NoTask /\ c \notin handled
    /\ pushed' = IF sig = 2 THEN pushed ELSE pushed \cup {chk[c].obj}
    /\ handled' = handled \cup {c}
    /\ UNCHANGED <<mainVars, queueVars, workerVars, objCh, chk, pend, stateVars, ckptVars,
                   fileVars, written, listFailed>>

\* Every verdict has its line: a probe that the second signal interrupted gives a
\* line of check_failed.  A verdict for which the configuration has no file (a sound
\* object without is_success_log) counts as a line too.
Handle(c) ==
    /\ chk[c] # NoTask /\ c \notin handled
    /\ pushed' = pushed \cup {chk[c].obj}
    /\ handled' = handled \cup {c}
    /\ UNCHANGED <<mainVars, queueVars, workerVars, objCh, chk, pend, stateVars, ckptVars,
                   fileVars, written, listFailed>>

Report(c) ==
    /\ c \in handled
    /\ Terminal(chk[c].prefix, chk[c].seq)
    /\ chk' = [chk EXCEPT ![c] = NoTask]
    /\ handled' = handled \ {c}
    /\ UNCHANGED <<mainVars, queueVars, workerVars, objCh, pend, ckptVars, fileVars, outVars>>

CheckWorker(c) == Receive(c) \/ Handle(c) \/ Report(c)

\* A result writer flushes a line, on its own ticker or because its buffer is full.
WriterFlush ==
    /\ \E o \in pushed \ written : written' = written \cup {o}
    /\ UNCHANGED <<mainVars, queueVars, workerVars, checkVars, pend, stateVars, ckptVars,
                   fileVars, pushed, listFailed>>

-----------------------------------------------------------------------------
(* The checkpoint goroutine: snapshot, flush, append, commit *)

\* A tick (or the startup checkpoint), main's CheckpointNow, or Stop's last one,
\* after which the goroutine is gone.
Snapshot(why) ==
    /\ Up /\ ckpt = "idle"
    /\ \/ why = "tick" /\ main # "closing"
       \/ why = "trigger" /\ main = "trigger"
       \/ why = "final" /\ main = "stopping"
    /\ snap' = TakeSnapshot
    /\ ckpt' = "flush" /\ ckptFor' = why
    /\ UNCHANGED <<mainVars, queueVars, workerVars, checkVars, pend, stateVars, fd,
                   fileVars, outVars>>

\* Mutant: the checkpoint does not wait for the writers.
NoFlush ==
    /\ ckpt = "flush"
    /\ ckpt' = "append"
    /\ UNCHANGED <<mainVars, queueVars, workerVars, checkVars, pend, stateVars, ckptFor, snap,
                   fd, fileVars, outVars>>

FlushAndWait ==
    /\ ckpt = "flush"
    /\ written' = written \cup pushed
    /\ ckpt' = "append"
    /\ UNCHANGED <<mainVars, queueVars, workerVars, checkVars, pend, stateVars, ckptFor, snap,
                   fd, fileVars, pushed, listFailed>>

\* What a batch, or the part of it that reached the file, does to the replay.
Replay(b) ==
    /\ journaled' = journaled \cup b.disc \cup {c[1] : c \in b.cursors} \cup b.dones
    /\ jdone' = (jdone \ {c[1] : c \in b.cursors}) \cup b.dones
    /\ jtok' = [p \in Prefix |-> IF \E c \in b.cursors : c[1] = p
                                 THEN (CHOOSE c \in b.cursors : c[1] = p)[2]
                                 ELSE jtok[p]]

\* The lines of a batch are discovered, then cursors, then dones.
TornBatches(b) ==
    {[NoBatch EXCEPT !.disc = d] : d \in SUBSET b.disc}
      \cup {[b EXCEPT !.cursors = c, !.dones = {}] : c \in SUBSET b.cursors}
      \cup {[b EXCEPT !.dones = d] : d \in SUBSET b.dones}

\* The file is reopened for appending as it is: the first line of the next batch
\* continues a fragment, and the line they form names no prefix of the bucket or
\* has no verb that replay knows.
LoseFirstLine(b) ==
    IF b.disc # {} THEN {[b EXCEPT !.disc = @ \ {p}] : p \in b.disc}
    ELSE IF b.cursors # {} THEN {[b EXCEPT !.cursors = @ \ {c}] : c \in b.cursors}
    ELSE {[b EXCEPT !.dones = @ \ {p}] : p \in b.dones}
Glues(b) == ending = "torn" /\ b # NoBatch
ReachesFile(b) == IF Glues(b) THEN LoseFirstLine(b) ELSE {b}
Endings(b) == IF Glues(b) THEN {"whole", "broken"} ELSE {ending}
CutBatch == \E b \in ReachesFile(snap) : \E cut \in TornBatches(b) : Replay(cut)

AppendBatch ==
    /\ ckpt = "append"
    /\ \E b \in ReachesFile(snap) : Replay(b)
    /\ ending' \in Endings(snap)
    /\ fd' = IF snap = NoBatch THEN fd ELSE "end"
    /\ ckpt' = "commit"
    /\ UNCHANGED <<mainVars, queueVars, workerVars, checkVars, pend, stateVars, ckptFor, snap,
                   retired, shortWrites, outVars>>

\* The goroutine answers whoever asked for this checkpoint.
CheckpointReturns ==
    /\ ckpt' = "idle" /\ ckptFor' = "tick"
    /\ snap' = NoBatch
    /\ main' = CASE ckptFor = "trigger" -> "seeded"
                 [] ckptFor = "final"   -> "closing"
                 [] OTHER               -> main
    /\ UNCHANGED <<toSeed, seeded, sig, runs>>

\* Mutant: a failed append is committed all the same.
CommitAnyway ==
    /\ ckpt = "append" /\ snap # NoBatch
    /\ shortWrites < MaxShortWrites
    /\ Commit
    /\ fd' = "stale"
    /\ shortWrites' = shortWrites + 1
    /\ CheckpointReturns
    /\ UNCHANGED <<queueVars, workerVars, checkVars, journaled, jdone, jtok, ending, retired,
                   outVars>>

EmptyJournal ==
    journaled' = {} /\ jdone' = {} /\ jtok' = [p \in Prefix |-> 0] /\ ending' = "whole"

\* A short write is rolled back to the offset Seek returned before it.  That is 0
\* when this process has not written yet, whatever the reopened file holds; after
\* a short write it still counts the bytes of that one, so as much of this batch
\* stays (or the gap is filled with zeros: a fragment).
ShortWrite ==
    /\ ckpt = "append" /\ snap # NoBatch
    /\ shortWrites < MaxShortWrites
    /\ \/ fd = "end" /\ UNCHANGED <<journaled, jdone, jtok, ending>>
       \/ /\ fd = "start" /\ (FirstBatchMayFail \/ journaled = {})
          /\ EmptyJournal
       \/ /\ fd = "stale" /\ RetryMayFail
          /\ CutBatch /\ ending' \in Endings(snap) \cup {"torn"}
    /\ fd' = "stale"
    /\ shortWrites' = shortWrites + 1
    /\ CheckpointReturns
    /\ UNCHANGED <<queueVars, workerVars, checkVars, pend, stateVars, retired, outVars>>

\* Mutant: the commit forgets every prefix that is done by now, and what is pending.
CommitAll ==
    /\ ckpt = "commit"
    /\ pend' = {}
    /\ tracked' = {p \in tracked : ~IsDone(p)}
    /\ UNCHANGED <<base, pagDone, left, next, pos>>
    /\ CheckpointReturns
    /\ UNCHANGED <<queueVars, workerVars, checkVars, fd, fileVars, outVars>>

CommitBatch ==
    /\ ckpt = "commit"
    /\ Commit
    /\ CheckpointReturns
    /\ UNCHANGED <<queueVars, workerVars, checkVars, fd, fileVars, outVars>>

Checkpointing == FlushAndWait \/ AppendBatch \/ ShortWrite \/ CommitBatch

-----------------------------------------------------------------------------
(* The main goroutine *)

CheckpointNow ==
    /\ main = "seeding" /\ toSeed = {}
    /\ main' = "trigger"
    /\ UNCHANGED <<toSeed, seeded, sig, runs, queueVars, workerVars, checkVars, pend,
                   stateVars, ckptVars, fileVars, outVars>>

CloseIfUnseeded ==
    /\ main = "seeded"
    /\ closed' = (closed \/ ~seeded)
    /\ main' = "await"
    /\ UNCHANGED <<toSeed, seeded, sig, runs, queue, inflight, workerVars, checkVars, pend,
                   stateVars, ckptVars, fileVars, outVars>>

\* Mutant: the queue is dropped without a record.
DropQueue == queue' = <<>> /\ UNCHANGED listFailed

\* After a signal, the prefixes that no worker popped are recorded.
DrainQueuedPrefixes ==
    \/ /\ sig > 0
       /\ listFailed' = listFailed \cup {queue[i] : i \in DOMAIN queue}
       /\ queue' = <<>>
    \/ sig = 0 /\ UNCHANGED <<listFailed, queue>>

\* listWg.Wait, drainQueuedPrefixes, close(objCh), checkWg.Wait, journalRun.Stop.
AllWorkDone ==
    /\ main = "await"
    /\ \A w \in Worker : pc[w] = "exit"
    /\ objCh = <<>> /\ \A c \in Checker : chk[c] = NoTask
    /\ DrainQueuedPrefixes
    /\ main' = "stopping"
    /\ UNCHANGED <<toSeed, seeded, sig, runs, closed, inflight, workerVars, checkVars, pend,
                   stateVars, ckptVars, fileVars, pushed, written>>

CloseOutput ==
    /\ main = "closing"
    /\ written' = written \cup pushed
    /\ main' = "ended"
    /\ UNCHANGED <<toSeed, seeded, sig, runs, queueVars, workerVars, checkVars, pend,
                   stateVars, ckptVars, fileVars, pushed, listFailed>>

MainStep == Seeding \/ CheckpointNow \/ CloseIfUnseeded \/ AllWorkDone \/ CloseOutput

Signal ==
    /\ Up /\ sig < MaxSignals
    /\ sig' = sig + 1
    /\ UNCHANGED <<main, toSeed, seeded, runs, queueVars, workerVars, checkVars, pend,
                   stateVars, ckptVars, fileVars, outVars>>

-----------------------------------------------------------------------------
(* Death and rebirth of the process *)

\* A new process: nothing is listed, tracked or queued, every goroutine starts over.
Reboot ==
    /\ seeded' = FALSE /\ sig' = 0
    /\ queue' = <<>> /\ closed' = FALSE /\ inflight' = 0
    /\ pc' = [w \in Worker |-> "pop"] /\ cur' = [w \in Worker |-> Root]
    /\ tok' = [w \in Worker |-> 0] /\ seq' = [w \in Worker |-> 0]
    /\ new' = [w \in Worker |-> {}] /\ todo' = [w \in Worker |-> {}]
    /\ subs' = [w \in Worker |-> {}]
    /\ objCh' = <<>> /\ chk' = [c \in Checker |-> NoTask] /\ handled' = {}
    /\ pend' = {} /\ tracked' = {} /\ base' = [p \in Prefix |-> 0]
    /\ pagDone' = [p \in Prefix |-> FALSE]
    /\ left' = [p \in Prefix |-> <<>>] /\ next' = [p \in Prefix |-> <<>>]
    /\ pos' = [p \in Prefix |-> 0]
    /\ ckpt' = "idle" /\ ckptFor' = "tick" /\ snap' = NoBatch /\ fd' = "start"
    /\ pushed' = {}

\* kill -9: lines still in a channel or a buffer are lost, and a batch being
\* appended may be cut anywhere (its last, unterminated line is not replayed).
Kill ==
    /\ Up
    /\ main' = "down" /\ toSeed' = {}
    /\ Reboot
    /\ \/ UNCHANGED <<journaled, jdone, jtok, ending>>
       \/ /\ ckpt = "append" /\ (FirstBatchMayTear \/ journaled # {})
          /\ CutBatch
          /\ ending' \in Endings(snap) \cup (IF LineMayTear THEN {"torn"} ELSE {})
    /\ UNCHANGED <<runs, retired, shortWrites, written, listFailed>>

\* With a time-stamped output directory the new process opens a new journal.
OpenJournal ==
    IF SameDir THEN UNCHANGED <<journaled, jdone, jtok, ending>> ELSE EmptyJournal

Start(seeds) ==
    /\ ~Up /\ runs < MaxRuns
    /\ runs' = runs + 1
    /\ main' = "seeding" /\ toSeed' = seeds
    /\ Reboot
    /\ OpenJournal
    /\ UNCHANGED <<shortWrites, written, listFailed>>

\* The original scan command.
StartScan == Start({<<Root, 0>>}) /\ UNCHANGED retired

\* -resume-journal: loadJournalForResume refuses an empty or a broken journal.
Resume ==
    /\ journaled # {} /\ ending # "broken"
    /\ Start({<<p, jtok[p]>> : p \in journaled \ jdone})
    /\ retired' = retired \cup jdone

Terminated == ~Up /\ runs = MaxRuns /\ UNCHANGED vars

-----------------------------------------------------------------------------
Init ==
    /\ main = "down" /\ toSeed = {} /\ runs = 0
    /\ seeded = FALSE /\ sig = 0
    /\ queue = <<>> /\ closed = FALSE /\ inflight = 0
    /\ pc = [w \in Worker |-> "pop"] /\ cur = [w \in Worker |-> Root]
    /\ tok = [w \in Worker |-> 0] /\ seq = [w \in Worker |-> 0]
    /\ new = [w \in Worker |-> {}] /\ todo = [w \in Worker |-> {}]
    /\ subs = [w \in Worker |-> {}]
    /\ objCh = <<>> /\ chk = [c \in Checker |-> NoTask] /\ handled = {}
    /\ pend = {} /\ tracked = {} /\ base = [p \in Prefix |-> 0]
    /\ pagDone = [p \in Prefix |-> FALSE]
    /\ left = [p \in Prefix |-> <<>>] /\ next = [p \in Prefix |-> <<>>]
    /\ pos = [p \in Prefix |-> 0]
    /\ ckpt = "idle" /\ ckptFor = "tick" /\ snap = NoBatch /\ fd = "start"
    /\ pushed = {}
    /\ journaled = {} /\ jdone = {} /\ jtok = [p \in Prefix |-> 0]
    /\ ending = "whole" /\ retired = {} /\ shortWrites = 0
    /\ written = {} /\ listFailed = {}

Next ==
    \/ \E w \in Worker : ListWorker(w) \/ ListFails(w)
    \/ \E c \in Checker : CheckWorker(c)
    \/ WriterFlush
    \/ \E why \in {"tick", "trigger", "final"} : Snapshot(why)
    \/ Checkpointing
    \/ MainStep \/ Signal \/ Kill \/ StartScan \/ Resume
    \/ Terminated

Spec == Init /\ [][Next]_vars

\* Goroutines are scheduled, S3 and the file system answer, and Go's select does
\* not starve a ready case (the ticker fires once in ten minutes): the triggered
\* and the final checkpoint win against ticks that recur.  Nothing makes a LIST
\* fail, a signal arrive, the process die or an operator start it again.
Fairness ==
    /\ \A w \in Worker : WF_vars(ListWorker(w))
    /\ \A c \in Checker : WF_vars(CheckWorker(c))
    /\ WF_vars(Checkpointing)
    /\ SF_vars(Snapshot("trigger")) /\ SF_vars(Snapshot("final"))
    /\ WF_vars(MainStep)

FairSpec == Spec /\ Fairness

-----------------------------------------------------------------------------
(* Properties *)

MainTypes ==
    /\ main \in {"down", "seeding", "trigger", "seeded", "await", "stopping", "closing",
                "ended"}
    /\ toSeed \subseteq Seed /\ seeded \in BOOLEAN /\ sig \in 0 .. 2 /\ runs \in Nat
QueueTypes == queue \in Seq(Seed) /\ closed \in BOOLEAN /\ inflight \in Int
WorkerTypes ==
    /\ pc \in [Worker -> {"pop", "list", "page", "exit"}]
    /\ cur \in [Worker -> Prefix] /\ tok \in [Worker -> Token] /\ seq \in [Worker -> Nat]
    /\ new \in [Worker -> SUBSET Prefix] /\ subs \in [Worker -> SUBSET Prefix]
    /\ todo \in [Worker -> SUBSET Object]
CheckTypes ==
    /\ objCh \in Seq(Task) /\ chk \in [Checker -> Task \cup {NoTask}]
    /\ handled \subseteq {c \in Checker : chk[c] # NoTask}
StateTypes ==
    /\ pend \subseteq Prefix /\ tracked \subseteq Prefix
    /\ base \in [Prefix -> Token] /\ pagDone \in [Prefix -> BOOLEAN]
    /\ left \in [Prefix -> Seq(Nat)] /\ next \in [Prefix -> Seq(Token)]
    /\ pos \in [Prefix -> Nat]
    /\ \A p \in Prefix : Len(next[p]) = Len(left[p]) /\ pos[p] <= Len(left[p])
CkptTypes ==
    /\ ckpt \in {"idle", "flush", "append", "commit"}
    /\ ckptFor \in {"tick", "trigger", "final"} /\ fd \in {"start", "end", "stale"}
    /\ snap \in Batch
FileTypes ==
    /\ journaled \subseteq Prefix /\ jdone \subseteq journaled /\ jtok \in [Prefix -> Token]
    /\ ending \in Ending /\ retired \subseteq Prefix /\ shortWrites \in Nat
OutTypes == pushed \subseteq Object /\ written \subseteq Object /\ listFailed \subseteq Seed

\* Every variable keeps its type, the position of a prefix never passes the
\* pages registered for it, and only a checker with a task has handled one.
TypeOK ==
    /\ MainTypes /\ QueueTypes /\ WorkerTypes /\ CheckTypes /\ StateTypes
    /\ CkptTypes /\ FileTypes /\ OutTypes

\* Prefixes accounted for: in the journal, or done in the journal of a run the
\* current one resumed.
Known == journaled \cup retired
Skips(p, k) == p \in jdone \cup retired \/ (p \in journaled /\ k <= jtok[p])

\* Whatever a resume would skip is finished: the result lines of every object on
\* a skipped page are in the files, and every sub-prefix the page revealed is
\* itself accounted for (journal.go, "never objects silently skipped").
FrontierClosed ==
    journaled # {} =>
      /\ Root \in Known
      /\ \A p \in Known : \A k \in PageNumbers(p) : Skips(p, k) =>
            /\ Pages[p][k].objs \subseteq written
            /\ Pages[p][k].subs \subseteq Known

\* The pages a set of seeds makes a run list: a seed's pages after its token, and
\* every page of a prefix that a listed page reveals.
AllPages == UNION {{<<p, k>> : k \in PageNumbers(p)} : p \in Prefix}
ListedFrom(seeds, S) ==
    /\ \A s \in seeds : \A k \in PageNumbers(s[1]) : k > s[2] => <<s[1], k>> \in S
    /\ \A pg \in S : \A q \in Pages[pg[1]][pg[2]].subs :
          \A k \in PageNumbers(q) : <<q, k>> \in S

\* The seeds leave no object behind: in every set of pages closed under listing
\* from them stands a page of each object that is in no result file yet.
Covers(seeds) ==
    \A S \in SUBSET AllPages : ListedFrom(seeds, S) =>
        \A o \in Object \ written : \E pg \in S : o \in Pages[pg[1]][pg[2]].objs

\* kill -9 at this very moment loses no object: those without a line in the
\* result files are listed again by a resume from the journal as it now stands.
NothingLost == journaled # {} => Covers({<<p, jtok[p]>> : p \in journaled \ jdone})

\* A run that ends without signal, LIST error or failed append, and that lost no
\* seed (inflight is back to zero), leaves a journal on which nothing is open and
\* a tracker that has dropped every prefix (drop-after-commit).
CleanRunJournalsAll ==
    (main = "ended" /\ sig = 0 /\ listFailed = {} /\ inflight = 0 /\ fd # "stale") =>
        /\ journaled = jdone
        /\ tracked = {} /\ pend = {}

\* When the first run ends by itself after signals or LIST errors, the list_failed
\* lines cover every object without a result line (main.go, two-stage shutdown).
InterruptedRunResumable == (main = "ended" /\ runs = 1) => Covers(listFailed)

\* A run comes to its end unless the process dies: neither the queue, objCh, the
\* checkpoint handshakes nor the final checkpoint block for ever.
RunEnds == (main = "seeding") ~> ~Up
=============================================================================
