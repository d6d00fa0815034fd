--------------------------- MODULE Journal_proofs ---------------------------
(***************************************************************************)
(* Theorems of Journal and their proofs.                                   *)
(***************************************************************************)
EXTENDS JournalInv, LeastElement, TLAPS, FiniteSetTheorems, SequenceTheorems

-----------------------------------------------------------------------------
(* The operators of the tracker *)

\* advance() stops at the end of the pages or before one that is not terminal,
\* and passes terminal pages only.
LEMMA AdvanceStops ==
    ASSUME NEW l \in Seq(Nat), NEW n \in 0 .. Len(l)
    PROVE  /\ Advance(l, n) \in n .. Len(l)
           /\ Advance(l, n) = Len(l) \/ l[Advance(l, n) + 1] # 0
           /\ \A i \in n + 1 .. Advance(l, n) : l[i] = 0
<1> DEFINE S == Stops(l, n)
<1>1. S \subseteq Nat /\ Len(l) \in S
  BY DEF Stops
<1>2. PICK m \in S : \A m2 \in S : m <= m2
  BY <1>1, LeastElementExists
<1>3. Advance(l, n) \in S /\ \A m2 \in S : Advance(l, n) <= m2
  BY <1>2 DEF Advance
<1>4. ASSUME NEW i \in n + 1 .. Advance(l, n), l[i] # 0
      PROVE  FALSE
  <2>1. i - 1 \in S
    BY <1>3, <1>4 DEF Stops
  <2>2. Advance(l, n) <= i - 1 /\ Advance(l, n) \in Nat
    BY <1>1, <1>3, <2>1
  <2> QED
    BY <2>2
<1> QED
  BY <1>3, <1>4 DEF Stops

\* A report keeps the number of pages; it lowers one count or none.
LEMMA ReportedCounts ==
    ASSUME NEW l \in Seq(Nat), NEW s \in Nat
    PROVE  /\ Reported(l, s) \in Seq(Nat)
           /\ Len(Reported(l, s)) = Len(l)
           /\ \A i \in 1 .. Len(l) : Reported(l, s)[i] =
                IF i = s /\ l[i] > 0 THEN l[i] - 1 ELSE l[i]
<1>1. CASE s \in 1 .. Len(l) /\ l[s] > 0
  <2>1. l[s] \in Nat /\ l[s] - 1 \in Nat
    BY <1>1
  <2> QED
    BY <1>1, <2>1, ExceptSeq DEF Reported
<1>2. CASE ~(s \in 1 .. Len(l) /\ l[s] > 0)
  BY <1>2 DEF Reported
<1> QED
  BY <1>1, <1>2

-----------------------------------------------------------------------------
(* Type correctness *)

\* A group of variables that does not change keeps its types.
LEMMA Frames ==
    /\ MainTypes /\ UNCHANGED mainVars => MainTypes'
    /\ QueueTypes /\ UNCHANGED queueVars => QueueTypes'
    /\ WorkerTypes /\ UNCHANGED workerVars => WorkerTypes'
    /\ CheckTypes /\ UNCHANGED checkVars => CheckTypes'
    /\ StateTypes /\ UNCHANGED <<pend, stateVars>> => StateTypes'
    /\ CkptTypes /\ UNCHANGED ckptVars => CkptTypes'
    /\ FileTypes /\ UNCHANGED fileVars => FileTypes'
    /\ OutTypes /\ UNCHANGED outVars => OutTypes'
BY DEF MainTypes, QueueTypes, WorkerTypes, CheckTypes, StateTypes, CkptTypes, FileTypes,
       OutTypes, mainVars, queueVars, workerVars, checkVars, stateVars, ckptVars, fileVars,
       outVars

\* The bucket of BucketAssumption, page by page.
LEMMA BucketPages ==
    ASSUME NEW p \in Prefix
    PROVE  /\ Len(Pages[p]) \in Nat /\ Len(Pages[p]) > 0
           /\ \A k \in PageNumbers(p) :
                /\ Pages[p][k].objs \subseteq Object /\ Pages[p][k].subs \subseteq Prefix
                /\ IsFiniteSet(Pages[p][k].objs)
                /\ Cardinality(Pages[p][k].objs) \in Nat
<1>1. Pages[p] \in Seq([objs : SUBSET Object, subs : SUBSET Prefix])
  BY BucketAssumption
<1>2. \A k \in PageNumbers(p) : Pages[p][k] \in [objs : SUBSET Object, subs : SUBSET Prefix]
  BY <1>1, ElementOfSeq, Zenon DEF PageNumbers
<1> QED
  BY <1>1, <1>2, BucketAssumption, FS_CardinalityType

\* RecordSeed keeps the types of the tracker.
LEMMA RecordSeedTypes ==
    ASSUME StateTypes, NEW p \in Prefix, NEW t \in Token, RecordSeed(p, t)
    PROVE  StateTypes'
BY DEF StateTypes, RecordSeed

\* RegisterPage keeps the types of the tracker: the position of the longer
\* list of pages lies within it.
LEMMA RegisterPageTypes ==
    ASSUME StateTypes, pend' = pend, NEW p \in Prefix, NEW n \in Nat, NEW t \in Token,
           RegisterPage(p, n, t)
    PROVE  StateTypes'
<1> DEFINE l == Append(left[p], n)
<1>1. l \in Seq(Nat) /\ Append(next[p], t) \in Seq(Token)
      /\ Len(l) = Len(left[p]) + 1 /\ Len(Append(next[p], t)) = Len(l)
  BY DEF StateTypes
<1>2. pos[p] \in 0 .. Len(l)
  BY <1>1 DEF StateTypes
<1>3. Advance(l, pos[p]) \in pos[p] .. Len(l)
  BY <1>1, <1>2, AdvanceStops, Zenon
<1>4. Advance(l, pos[p]) \in Nat /\ Advance(l, pos[p]) <= Len(l)
  BY <1>1, <1>2, <1>3
<1> QED
  BY <1>1, <1>4 DEF StateTypes, RegisterPage

\* Terminal keeps the types of the tracker.
LEMMA TerminalTypes ==
    ASSUME StateTypes, pend' = pend, NEW p \in Prefix, NEW s \in Nat, Terminal(p, s)
    PROVE  StateTypes'
<1> DEFINE l == Reported(left[p], s)
<1>1. l \in Seq(Nat) /\ Len(l) = Len(left[p])
  BY ReportedCounts DEF StateTypes
<1>2. Advance(l, pos[p]) \in Nat /\ Advance(l, pos[p]) <= Len(l)
  BY <1>1, AdvanceStops DEF StateTypes
<1> QED
  BY <1>1, <1>2 DEF StateTypes, Terminal

\* Commit keeps the types of the tracker.
LEMMA CommitTypes ==
    ASSUME StateTypes, Commit
    PROVE  StateTypes'
<1>1. /\ pend' \subseteq Prefix /\ tracked' \subseteq Prefix
      /\ base' \in [Prefix -> Token] /\ pagDone' \in [Prefix -> BOOLEAN]
  BY DEF StateTypes, Commit, Token
<1>2. /\ left' \in [Prefix -> Seq(Nat)] /\ next' \in [Prefix -> Seq(Token)]
      /\ pos' \in [Prefix -> Nat]
  BY DEF StateTypes, Commit
<1>3. ASSUME NEW p \in Prefix
      PROVE  Len(next'[p]) = Len(left'[p]) /\ pos'[p] <= Len(left'[p])
  BY DEF StateTypes, Commit
<1> QED
  BY <1>1, <1>2, <1>3 DEF StateTypes

\* Every cursor of a snapshot is a prefix with a token.
LEMMA SnapshotTypes ==
    ASSUME StateTypes
    PROVE  TakeSnapshot \in Batch
<1>1. ASSUME NEW p \in Prefix
      PROVE  Continuation(p) \in Token
  BY DEF StateTypes, Continuation
<1> QED
  BY <1>1 DEF StateTypes, TakeSnapshot, Seed, Batch

\* A process that starts over keeps the types.
LEMMA RebootTypes ==
    ASSUME TypeOK, Reboot
    PROVE  /\ seeded' \in BOOLEAN /\ sig' \in 0 .. 2
           /\ QueueTypes' /\ WorkerTypes' /\ CheckTypes' /\ StateTypes' /\ CkptTypes'
           /\ pushed' \subseteq Object
<1>1. StateTypes'
  BY DEF Reboot, StateTypes, Token
<1>2. QueueTypes'
  <2>1. queue' \in Seq(Seed) /\ inflight' \in Int
    BY DEF Reboot
  <2>2. closed' \in BOOLEAN
    BY Zenon DEF Reboot
  <2> QED
    BY <2>1, <2>2 DEF QueueTypes
<1>3. CheckTypes'
  BY DEF Reboot, CheckTypes
<1>4. WorkerTypes'
  BY BucketAssumption DEF Reboot, WorkerTypes, Token
<1>5. CkptTypes'
  BY DEF Reboot, CkptTypes, Batch, NoBatch
<1>6. seeded' \in BOOLEAN
  BY Zenon DEF Reboot
<1>7. sig' \in 0 .. 2 /\ pushed' \subseteq Object
  BY DEF Reboot
<1> QED
  BY <1>1, <1>2, <1>3, <1>4, <1>5, <1>6, <1>7

\* A batch, or the part of it that reached the file, keeps the types of the file.
LEMMA ReplayTypes ==
    ASSUME FileTypes, ending' \in Ending, retired' = retired, shortWrites' \in Nat,
           NEW b \in Batch, Replay(b)
    PROVE  FileTypes'
<1> USE DEF Batch
<1>1. ASSUME NEW p \in Prefix, \E c \in b.cursors : c[1] = p
      PROVE  (CHOOSE c \in b.cursors : c[1] = p)[2] \in Token
  <2>1. (CHOOSE c \in b.cursors : c[1] = p) \in Seed
    BY <1>1
  <2> QED
    BY <2>1 DEF Seed
<1>2. jtok' \in [Prefix -> Token]
  BY <1>1 DEF Replay, FileTypes
<1>3. journaled' \subseteq Prefix /\ jdone' \subseteq journaled'
  BY DEF Replay, FileTypes, Seed
<1> QED
  BY <1>2, <1>3 DEF FileTypes

\* Losing its first line, or being cut, makes a batch a smaller batch.
LEMMA TornTypes ==
    ASSUME NEW b \in Batch
    PROVE  /\ \A c \in TornBatches(b) : c \in Batch /\ c.cursors \subseteq b.cursors
           /\ \A c \in ReachesFile(b) : c \in Batch /\ c.cursors \subseteq b.cursors
<1>1. \A c \in TornBatches(b) : c \in Batch /\ c.cursors \subseteq b.cursors
  BY DEF TornBatches, NoBatch, Batch
<1>2. \A c \in LoseFirstLine(b) : c \in Batch /\ c.cursors \subseteq b.cursors
  BY DEF LoseFirstLine, Batch
<1> QED
  BY <1>1, <1>2 DEF ReachesFile

\* A journal that is appended to ends in one of the three ways.
LEMMA EndingTypes ==
    ASSUME FileTypes, NEW b
    PROVE  Endings(b) \subseteq Ending
BY DEF FileTypes, Endings, Ending

\* The part of a batch that reached the file keeps the types of the file.
LEMMA CutTypes ==
    ASSUME FileTypes, snap \in Batch, CutBatch,
           ending' \in Ending, retired' = retired, shortWrites' \in Nat
    PROVE  FileTypes'
<1>1. PICK b \in ReachesFile(snap) : \E cut \in TornBatches(b) : Replay(cut)
  BY DEF CutBatch
<1>2. PICK cut \in TornBatches(b) : Replay(cut)
  BY <1>1
<1>3. cut \in Batch
  BY TornTypes
<1> QED
  BY <1>2, <1>3, ReplayTypes

\* A process that starts keeps the types.
LEMMA StartTypes ==
    ASSUME TypeOK, NEW seeds \in SUBSET Seed, Start(seeds),
           retired' \subseteq Prefix
    PROVE  TypeOK'
<1>1. MainTypes' /\ OutTypes'
  BY RebootTypes DEF Start, TypeOK, MainTypes, OutTypes
<1>2. FileTypes'
  BY DEF Start, OpenJournal, EmptyJournal, TypeOK, FileTypes, Token, Ending
<1> QED
  BY <1>1, <1>2, RebootTypes DEF Start, TypeOK

\* A list worker keeps the types.
LEMMA ListWorkerTypes ==
    ASSUME TypeOK, WorkerRange, NEW w \in Worker, ListWorker(w) \/ ListFails(w)
    PROVE  TypeOK'
<1> USE Frames DEF TypeOK
<1>0. cur[w] \in Prefix /\ tok[w] \in Token /\ seq[w] \in Nat
  BY DEF WorkerTypes
<1>1. ASSUME Leave(w)
      PROVE  WorkerTypes' /\ inflight' \in Int /\ closed' \in BOOLEAN
  <2>1. WorkerTypes'
    BY <1>1, BucketAssumption DEF Leave, WorkerTypes, Token
  <2>2. inflight' \in Int /\ closed' \in BOOLEAN
    BY <1>1 DEF Leave, QueueTypes
  <2> QED
    BY <2>1, <2>2
<1>2. ASSUME NEW item \in Seed, Push(item)
      PROVE  queue' \in Seq(Seed)
  BY <1>2 DEF Push, QueueTypes
<1>3. CASE Pop(w)
  <2>1. Head(queue) \in Seed /\ Tail(queue) \in Seq(Seed)
    BY <1>3, HeadTailProperties DEF Pop, QueueTypes
  <2>2. Head(queue)[1] \in Prefix /\ Head(queue)[2] \in Token
    BY <2>1 DEF Seed
  <2>3. QueueTypes'
    BY <1>3, <2>1 DEF Pop, QueueTypes
  <2>4. WorkerTypes'
    BY <1>3, <2>2 DEF Pop, WorkerTypes
  <2> QED
    BY <1>3, <2>3, <2>4 DEF Pop
<1>4. CASE PopFails(w)
  <2>1. WorkerTypes'
    BY <1>4 DEF PopFails, WorkerTypes
  <2> QED
    BY <1>4, <2>1 DEF PopFails
<1>5. CASE ListPage(w)
  <2> DEFINE k == tok[w] + 1
  <2>1. k \in PageNumbers(cur[w])
    BY <1>0, BucketPages DEF WorkerRange, InRange, PageNumbers, Token
  <2>2. /\ Pages[cur[w]][k].objs \subseteq Object /\ Pages[cur[w]][k].subs \subseteq Prefix
        /\ Cardinality(Pages[cur[w]][k].objs) \in Nat
    BY <1>0, <2>1, BucketPages, Zenon
  <2>3. NextToken(cur[w], k) \in Token
    BY <1>0 DEF NextToken, Token
  <2>4. WorkerTypes'
    BY <1>5, <2>2 DEF ListPage, WorkerTypes, StateTypes
  <2>5. StateTypes'
    BY <1>0, <1>5, <2>2, <2>3, RegisterPageTypes DEF ListPage
  <2> QED
    BY <1>5, <2>4, <2>5 DEF ListPage
<1>6. CASE AddDiscovered(w)
  <2>1. WorkerTypes' /\ StateTypes'
    BY <1>6 DEF AddDiscovered, WorkerTypes, StateTypes, stateVars
  <2> QED
    BY <1>6, <2>1 DEF AddDiscovered
<1>7. CASE Emit(w)
  <2>1. WorkerTypes'
    BY <1>7 DEF Emit, WorkerTypes
  <2>2. CheckTypes'
    BY <1>0, <1>7 DEF Emit, CheckTypes, Task, WorkerTypes
  <2> QED
    BY <1>7, <2>1, <2>2 DEF Emit
<1>8. CASE EmitLocally(w)
  <2>1. WorkerTypes' /\ OutTypes'
    BY <1>8 DEF EmitLocally, WorkerTypes, OutTypes
  <2>2. StateTypes'
    BY <1>0, <1>8, TerminalTypes DEF EmitLocally
  <2> QED
    BY <1>8, <2>1, <2>2 DEF EmitLocally
<1>9. CASE HardAbort(w)
  <2>1. QueueTypes' /\ OutTypes'
    BY <1>0, <1>1, <1>9 DEF HardAbort, QueueTypes, OutTypes, Seed
  <2> QED
    BY <1>1, <1>9, <2>1 DEF HardAbort
<1>10. CASE Enqueue(w)
  <2>1. QueueTypes'
    BY <1>2, <1>10 DEF Enqueue, QueueTypes, WorkerTypes, Seed, Token
  <2>2. WorkerTypes'
    BY <1>10 DEF Enqueue, WorkerTypes
  <2> QED
    BY <1>10, <2>1, <2>2 DEF Enqueue
<1>11. CASE TurnPage(w)
  <2>1. WorkerTypes'
    BY <1>11 DEF TurnPage, WorkerTypes, Token
  <2> QED
    BY <1>11, <2>1 DEF TurnPage
<1>12. CASE LastPage(w)
  <2>1. StateTypes'
    BY <1>12 DEF LastPage, MarkPaginationDone, StateTypes
  <2>2. QueueTypes'
    BY <1>1, <1>12 DEF LastPage, QueueTypes
  <2> QED
    BY <1>1, <1>12, <2>1, <2>2 DEF LastPage
<1>13. CASE ListFails(w)
  <2>1. QueueTypes' /\ OutTypes'
    BY <1>0, <1>1, <1>13 DEF ListFails, QueueTypes, OutTypes, Seed
  <2> QED
    BY <1>1, <1>13, <2>1 DEF ListFails
<1> QED
  BY <1>3, <1>4, <1>5, <1>6, <1>7, <1>8, <1>9, <1>10, <1>11, <1>12, <1>13 DEF ListWorker

\* A checker and a result writer keep the types.
LEMMA CheckWorkerTypes ==
    ASSUME TypeOK, NEW c \in Checker, CheckWorker(c)
    PROVE  TypeOK'
<1> USE Frames DEF TypeOK
<1>1. CASE Receive(c)
  <2>1. Head(objCh) \in Task /\ Tail(objCh) \in Seq(Task)
    BY <1>1, HeadTailProperties DEF Receive, CheckTypes
  <2>2. Head(objCh) # NoTask
    BY <2>1, ConfigAssumption
  <2>3. CheckTypes'
    BY <1>1, <2>1, <2>2 DEF Receive, CheckTypes
  <2> QED
    BY <1>1, <2>3 DEF Receive
<1>2. CASE Handle(c)
  <2>1. chk[c] \in Task
    BY <1>2 DEF Handle, CheckTypes
  <2>2. CheckTypes' /\ OutTypes'
    BY <1>2, <2>1 DEF Handle, CheckTypes, OutTypes, Task
  <2> QED
    BY <1>2, <2>2 DEF Handle
<1>3. CASE Report(c)
  <2>1. chk[c] \in Task
    BY <1>3 DEF Report, CheckTypes
  <2>2. chk[c].prefix \in Prefix /\ chk[c].seq \in Nat
    BY <2>1 DEF Task
  <2>3. StateTypes'
    BY <1>3, <2>2, TerminalTypes DEF Report
  <2>4. CheckTypes'
    BY <1>3 DEF Report, CheckTypes
  <2> QED
    BY <1>3, <2>3, <2>4 DEF Report
<1> QED
  BY <1>1, <1>2, <1>3 DEF CheckWorker

\* The checkpoint goroutine keeps the types.
LEMMA CheckpointTypes ==
    ASSUME TypeOK, Checkpointing \/ \E why \in {"tick", "trigger", "final"} : Snapshot(why)
    PROVE  TypeOK'
<1> USE Frames DEF TypeOK
<1>1. ASSUME CheckpointReturns, fd' \in {"start", "end", "stale"}
      PROVE  MainTypes' /\ CkptTypes'
  <2>1. MainTypes'
    BY <1>1 DEF CheckpointReturns, MainTypes
  <2>2. CkptTypes'
    BY <1>1 DEF CheckpointReturns, CkptTypes, Batch, NoBatch
  <2> QED
    BY <2>1, <2>2
<1>2. CASE FlushAndWait
  <2>1. CkptTypes' /\ OutTypes'
    BY <1>2 DEF FlushAndWait, CkptTypes, OutTypes
  <2> QED
    BY <1>2, <2>1 DEF FlushAndWait
<1>3. CASE AppendBatch
  <2>1. FileTypes'
    <3>1. PICK b \in ReachesFile(snap) : Replay(b)
      BY <1>3 DEF AppendBatch
    <3>2. b \in Batch /\ ending' \in Ending
      BY <1>3, TornTypes, EndingTypes DEF AppendBatch, CkptTypes
    <3>3. retired' = retired /\ shortWrites' \in Nat
      BY <1>3 DEF AppendBatch, FileTypes
    <3> QED
      BY <3>1, <3>2, <3>3, ReplayTypes
  <2>2. CkptTypes'
    BY <1>3 DEF AppendBatch, CkptTypes
  <2> QED
    BY <1>3, <2>1, <2>2 DEF AppendBatch
<1>4. CASE ShortWrite
  <2>1. FileTypes'
    <3>1. CASE UNCHANGED <<journaled, jdone, jtok, ending>>
      BY <1>4, <3>1 DEF ShortWrite, FileTypes
    <3>2. CASE EmptyJournal
      BY <1>4, <3>2 DEF ShortWrite, EmptyJournal, FileTypes, Token, Ending
    <3>3. CASE CutBatch /\ ending' \in Endings(snap) \cup {"torn"}
      <4>1. retired' = retired /\ shortWrites' \in Nat
        BY <1>4 DEF ShortWrite, FileTypes
      <4> QED
        BY <3>3, <4>1, CutTypes, EndingTypes DEF Ending, CkptTypes
    <3> QED
      BY <1>4, <3>1, <3>2, <3>3 DEF ShortWrite
  <2>2. fd' = "stale"
    BY <1>4 DEF ShortWrite
  <2> QED
    BY <1>1, <1>4, <2>1, <2>2 DEF ShortWrite
<1>5. CASE CommitBatch
  <2>1. StateTypes'
    BY <1>5, CommitTypes DEF CommitBatch
  <2>2. fd' \in {"start", "end", "stale"}
    BY <1>5 DEF CommitBatch, CkptTypes
  <2> QED
    BY <1>1, <1>5, <2>1, <2>2 DEF CommitBatch
<1>6. ASSUME NEW why \in {"tick", "trigger", "final"}, Snapshot(why)
      PROVE  TypeOK'
  <2>1. CkptTypes'
    BY <1>6, SnapshotTypes DEF Snapshot, CkptTypes
  <2> QED
    BY <1>6, <2>1 DEF Snapshot
<1> QED
  BY <1>2, <1>3, <1>4, <1>5, <1>6 DEF Checkpointing

\* The main goroutine keeps the types.
LEMMA MainTypesKept ==
    ASSUME TypeOK, MainStep
    PROVE  TypeOK'
<1> USE Frames DEF TypeOK
<1>1. CASE Seeding
  <2> PICK s \in toSeed : /\ toSeed' = toSeed \ {s}
                          /\ RecordSeed(s[1], s[2])
                          /\ inflight' = inflight + 1
                          /\ Push(s)
    BY <1>1 DEF Seeding
  <2>1. s \in Seed /\ s[1] \in Prefix /\ s[2] \in Token
    BY DEF MainTypes, Seed
  <2>2. StateTypes'
    BY <2>1, RecordSeedTypes
  <2>3. QueueTypes'
    BY <1>1, <2>1 DEF Seeding, Push, QueueTypes
  <2>4. MainTypes'
    BY <1>1 DEF Seeding, MainTypes
  <2> QED
    BY <1>1, <2>2, <2>3, <2>4 DEF Seeding
<1>2. CASE CheckpointNow
  <2>1. MainTypes'
    BY <1>2 DEF CheckpointNow, MainTypes
  <2> QED
    BY <1>2, <2>1 DEF CheckpointNow
<1>3. CASE CloseIfUnseeded
  <2>1. MainTypes' /\ QueueTypes'
    BY <1>3 DEF CloseIfUnseeded, MainTypes, QueueTypes
  <2> QED
    BY <1>3, <2>1 DEF CloseIfUnseeded
<1>4. CASE AllWorkDone
  <2>1. MainTypes'
    BY <1>4 DEF AllWorkDone, DrainQueuedPrefixes, MainTypes
  <2>2. QueueTypes'
    <3>0. queue' = queue \/ queue' = <<>>
      BY <1>4 DEF AllWorkDone, DrainQueuedPrefixes
    <3>1. queue' \in Seq(Seed)
      BY <3>0, EmptySeq, Zenon DEF QueueTypes
    <3>2. closed' = closed /\ inflight' = inflight
      BY <1>4 DEF AllWorkDone, DrainQueuedPrefixes
    <3> QED
      BY <3>1, <3>2, Zenon DEF QueueTypes
  <2>3. {queue[i] : i \in DOMAIN queue} \subseteq Seed
    BY DEF QueueTypes
  <2>4. OutTypes'
    BY <1>4, <2>3 DEF AllWorkDone, DrainQueuedPrefixes, OutTypes
  <2> QED
    BY <1>4, <2>1, <2>2, <2>4 DEF AllWorkDone, DrainQueuedPrefixes
<1>5. CASE CloseOutput
  <2>1. MainTypes' /\ OutTypes'
    BY <1>5 DEF CloseOutput, MainTypes, OutTypes
  <2> QED
    BY <1>5, <2>1 DEF CloseOutput
<1> QED
  BY <1>1, <1>2, <1>3, <1>4, <1>5 DEF MainStep

\* Signals, deaths and starts of the process keep the types.
LEMMA ProcessTypes ==
    ASSUME TypeOK, WriterFlush \/ Signal \/ Kill \/ StartScan \/ Resume \/ UNCHANGED vars
    PROVE  TypeOK'
<1> USE Frames DEF TypeOK
<1>1. CASE WriterFlush
  <2>1. OutTypes'
    BY <1>1 DEF WriterFlush, OutTypes
  <2> QED
    BY <1>1, <2>1 DEF WriterFlush
<1>2. CASE Signal
  <2>1. MainTypes'
    BY <1>2, ConfigAssumption DEF Signal, MainTypes
  <2> QED
    BY <1>2, <2>1 DEF Signal
<1>3. CASE Kill
  <2>1. MainTypes' /\ OutTypes'
    BY <1>3, RebootTypes DEF Kill, MainTypes, OutTypes
  <2>2. ASSUME CutBatch,
               ending' \in Endings(snap) \cup (IF LineMayTear THEN {"torn"} ELSE {})
        PROVE  FileTypes'
    <3>1. ending' \in Ending
      BY <2>2, EndingTypes DEF Ending
    <3>2. retired' = retired /\ shortWrites' \in Nat
      BY <1>3 DEF Kill, FileTypes
    <3> QED
      BY <2>2, <3>1, <3>2, CutTypes DEF CkptTypes
  <2>3. FileTypes'
    BY <1>3, <2>2 DEF Kill, FileTypes
  <2> QED
    BY <1>3, <2>1, <2>3, RebootTypes DEF Kill
<1>4. CASE StartScan
  <2>1. {<<Root, 0>>} \in SUBSET Seed
    BY BucketAssumption DEF Seed, Token
  <2> QED
    BY <1>4, <2>1, StartTypes DEF StartScan, FileTypes
<1>5. CASE Resume
  <2>1. {<<p, jtok[p]>> : p \in journaled \ jdone} \in SUBSET Seed
    BY DEF FileTypes, Seed
  <2> QED
    BY <1>5, <2>1, StartTypes DEF Resume, FileTypes
<1>6. CASE UNCHANGED vars
  BY <1>6 DEF vars
<1> QED
  BY <1>1, <1>2, <1>3, <1>4, <1>5, <1>6

\* Tokens name a page that exists, whatever happens to the process or the file:
\* a step of any goroutine keeps the ranges.
LEMMA RangeKept ==
    ASSUME TypeOK, RangeOK, [Next]_vars
    PROVE  RangeOK'
<1> USE DEF RangeOK
<1>0. \A p \in Prefix : InRange(p, 0)
  BY BucketPages DEF InRange
<1>1. TrackerRange'
  <2> USE DEF TrackerRange, Seqs
  <2>1. ASSUME UNCHANGED stateVars
        PROVE  TrackerRange'
    BY <2>1 DEF stateVars
  <2>2. ASSUME NEW p \in Prefix, NEW n, NEW k \in PageNumbers(p),
               RegisterPage(p, n, NextToken(p, k))
        PROVE  TrackerRange'
    <3>1. InRange(p, NextToken(p, k))
      BY <1>0, BucketPages DEF InRange, NextToken, PageNumbers
    <3> QED
      BY <2>2, <3>1 DEF RegisterPage, TypeOK, StateTypes
  <2>3. ASSUME NEW p \in Prefix, NEW s \in Nat, Terminal(p, s)
        PROVE  TrackerRange'
    BY <2>3, ReportedCounts DEF Terminal, TypeOK, StateTypes
  <2>4. ASSUME Reboot
        PROVE  TrackerRange'
    BY <1>0, <2>4 DEF Reboot
  <2>10. ASSUME Commit
         PROVE  TrackerRange'
    BY <1>0, <2>10 DEF Commit
  <2>5. CASE Seeding
    BY <2>5 DEF Seeding, RecordSeed, SeedRange, TypeOK, StateTypes, MainTypes, Seed
  <2>6. ASSUME NEW w \in Worker, ListPage(w)
        PROVE  TrackerRange'
    <3>1. tok[w] + 1 \in PageNumbers(cur[w]) /\ cur[w] \in Prefix
      BY BucketPages DEF WorkerRange, InRange, PageNumbers, Token, TypeOK, WorkerTypes
    <3> QED
      BY <2>2, <2>6, <3>1 DEF ListPage
  <2>7. ASSUME NEW w \in Worker, EmitLocally(w)
        PROVE  TrackerRange'
    BY <2>3, <2>7 DEF EmitLocally, TypeOK, WorkerTypes
  <2>8. ASSUME NEW c \in Checker, Report(c)
        PROVE  TrackerRange'
    <3>1. chk[c] \in Task
      BY <2>8 DEF Report, TypeOK, CheckTypes
    <3> QED
      BY <2>3, <2>8, <3>1 DEF Report, Task
  <2>9. ASSUME NEW w \in Worker, LastPage(w)
        PROVE  TrackerRange'
    BY <2>9 DEF LastPage, MarkPaginationDone
  <2> QED
    BY <2>1, <2>4, <2>5, <2>6, <2>7, <2>8, <2>9, <2>10 DEF Next, ListWorker, CheckWorker,
       Checkpointing, MainStep, Pop, PopFails, AddDiscovered, Emit, HardAbort, Enqueue,
       TurnPage, ListFails, Receive, Handle, WriterFlush, Snapshot, FlushAndWait,
       AppendBatch, ShortWrite, CommitBatch, CheckpointNow, CloseIfUnseeded, AllWorkDone,
       CloseOutput, Signal, Kill, Start, StartScan, Resume, Terminated, vars
<1>2. SeedRange'
  <2> USE DEF SeedRange
  <2>1. ASSUME toSeed' \subseteq toSeed
        PROVE  SeedRange'
    BY <2>1
  <2>2. CASE StartScan
    BY <1>0, <2>2, BucketAssumption DEF StartScan, Start
  <2>3. CASE Resume
    BY <2>3 DEF Resume, Start, FileRange, TypeOK, FileTypes
  <2> QED
    BY <2>1, <2>2, <2>3 DEF Next, ListWorker, CheckWorker, Checkpointing, MainStep, mainVars,
       Pop, PopFails, ListPage, AddDiscovered, Emit, EmitLocally, HardAbort, Enqueue,
       TurnPage, LastPage, ListFails, Receive, Handle, Report, WriterFlush, Snapshot,
       FlushAndWait, AppendBatch, ShortWrite, CommitBatch, CheckpointReturns, Seeding,
       CheckpointNow, CloseIfUnseeded, AllWorkDone, DrainQueuedPrefixes, CloseOutput,
       Signal, Kill, Terminated, vars
<1>3. QueueRange'
  <2> USE DEF QueueRange
  <2>1. ASSUME queue' = queue \/ queue' = <<>>
        PROVE  QueueRange'
    BY <2>1
  <2>2. ASSUME NEW item \in Seed, InRange(item[1], item[2]), Push(item)
        PROVE  QueueRange'
    BY <2>2 DEF Push, TypeOK, QueueTypes
  <2>3. CASE Seeding
    BY <2>2, <2>3 DEF Seeding, SeedRange, TypeOK, MainTypes
  <2>4. ASSUME NEW w \in Worker, Enqueue(w)
        PROVE  QueueRange'
    <3>1. PICK s \in subs[w] : Push(<<s, 0>>)
      BY <2>4 DEF Enqueue
    <3>2. <<s, 0>> \in Seed /\ InRange(s, 0)
      BY <1>0 DEF Seed, Token, TypeOK, WorkerTypes
    <3> QED
      BY <2>2, <3>1, <3>2
  <2>5. ASSUME NEW w \in Worker, Pop(w)
        PROVE  QueueRange'
    BY <2>5, HeadTailProperties DEF Pop, TypeOK, QueueTypes
  <2> QED
    BY <2>1, <2>3, <2>4, <2>5 DEF Next, ListWorker, CheckWorker, Checkpointing, MainStep,
       queueVars, PopFails, ListPage, AddDiscovered, Emit, EmitLocally, HardAbort,
       TurnPage, LastPage, ListFails, Receive, Handle, Report, WriterFlush, Snapshot,
       FlushAndWait, AppendBatch, ShortWrite, CommitBatch, CheckpointNow, CloseIfUnseeded,
       AllWorkDone, DrainQueuedPrefixes, CloseOutput, Signal, Kill, Start, StartScan,
       Resume, Reboot, Terminated, vars
<1>4. WorkerRange'
  <2> USE DEF WorkerRange
  <2>1. ASSUME cur' = cur, tok' = tok
        PROVE  WorkerRange'
    BY <2>1
  <2>2. ASSUME NEW w \in Worker, Leave(w)
        PROVE  WorkerRange'
    BY <1>0, <2>2, BucketAssumption DEF Leave, TypeOK, WorkerTypes
  <2>3. CASE Reboot
    BY <1>0, <2>3, BucketAssumption DEF Reboot
  <2>4. ASSUME NEW w \in Worker, TurnPage(w)
        PROVE  WorkerRange'
    BY <2>4 DEF TurnPage, InRange, TypeOK, WorkerTypes
  <2>5. ASSUME NEW w \in Worker, Pop(w)
        PROVE  WorkerRange'
    <3>1. Head(queue) = queue[1] /\ 1 \in 1 .. Len(queue)
      BY <2>5 DEF Pop, TypeOK, QueueTypes
    <3>2. InRange(Head(queue)[1], Head(queue)[2])
      BY <3>1 DEF QueueRange
    <3> QED
      BY <2>5, <3>2 DEF Pop, TypeOK, WorkerTypes
  <2> QED
    BY <2>1, <2>2, <2>3, <2>4, <2>5 DEF Next, ListWorker, CheckWorker, Checkpointing,
       MainStep, workerVars, PopFails, ListPage, AddDiscovered, Emit, EmitLocally, HardAbort,
       Enqueue, LastPage, ListFails, Receive, Handle, Report, WriterFlush, Snapshot,
       FlushAndWait, AppendBatch, ShortWrite, CommitBatch, Seeding, CheckpointNow,
       CloseIfUnseeded, AllWorkDone, DrainQueuedPrefixes, CloseOutput, Signal, Kill, Start,
       StartScan, Resume,
       Terminated, vars
<1>5. SnapRange'
  <2> USE DEF SnapRange
  <2>1. ASSUME snap' = snap \/ snap' = NoBatch
        PROVE  SnapRange'
    BY <2>1 DEF NoBatch
  <2>2. ASSUME NEW why \in {"tick", "trigger", "final"}, Snapshot(why)
        PROVE  SnapRange'
    <3>1. ASSUME NEW p \in Prefix
          PROVE  InRange(p, Continuation(p))
      <4>1. pos[p] > 0 => pos[p] \in Seqs(p)
        BY DEF Seqs, TypeOK, StateTypes
      <4> QED
        BY <4>1 DEF Continuation, TrackerRange
    <3> QED
      BY <2>2, <3>1 DEF Snapshot, TakeSnapshot, TypeOK, StateTypes
  <2> QED
    BY <2>1, <2>2 DEF Next, ListWorker, CheckWorker, Checkpointing, MainStep, ckptVars,
       Pop, PopFails, ListPage, AddDiscovered, Emit, EmitLocally, HardAbort, Enqueue,
       TurnPage, LastPage, ListFails, Receive, Handle, Report, WriterFlush, FlushAndWait,
       AppendBatch, ShortWrite, CommitBatch, CheckpointReturns, Seeding, CheckpointNow,
       CloseIfUnseeded, AllWorkDone, DrainQueuedPrefixes, CloseOutput, Signal, Kill, Start,
       StartScan, Resume,
       Reboot, Terminated, vars
<1>6. FileRange'
  <2> USE DEF FileRange
  <2>1. ASSUME jtok' = jtok \/ jtok' = [p \in Prefix |-> 0]
        PROVE  FileRange'
    BY <1>0, <2>1
  <2>2. ASSUME NEW b, b.cursors \subseteq snap.cursors, Replay(b)
        PROVE  FileRange'
    <3>1. ASSUME NEW p \in Prefix, \E c \in b.cursors : c[1] = p
          PROVE  InRange(p, (CHOOSE c \in b.cursors : c[1] = p)[2])
      BY <2>2, <3>1 DEF SnapRange
    <3> QED
      BY <2>2, <3>1 DEF Replay
  <2>3. \A b \in ReachesFile(snap) :
           /\ b.cursors \subseteq snap.cursors
           /\ \A cut \in TornBatches(b) : cut.cursors \subseteq snap.cursors
    BY TornTypes DEF TypeOK, CkptTypes
  <2>4. CASE AppendBatch
    BY <2>2, <2>3, <2>4 DEF AppendBatch
  <2>5. CASE Kill \/ ShortWrite
    BY <2>1, <2>2, <2>3, <2>5 DEF Kill, ShortWrite, CutBatch, EmptyJournal
  <2> QED
    BY <2>1, <2>4, <2>5 DEF Next, ListWorker, CheckWorker, Checkpointing, MainStep, fileVars,
       Pop, PopFails, ListPage, AddDiscovered, Emit, EmitLocally, HardAbort, Enqueue,
       TurnPage, LastPage, ListFails, Receive, Handle, Report, WriterFlush, Snapshot,
       FlushAndWait, EmptyJournal, CommitBatch, Seeding, CheckpointNow,
       CloseIfUnseeded, AllWorkDone, DrainQueuedPrefixes, CloseOutput, Signal, Start,
       OpenJournal, StartScan, Resume, Terminated, vars
<1> QED
  BY <1>1, <1>2, <1>3, <1>4, <1>5, <1>6

\* The types and the ranges are an inductive invariant.
LEMMA TypeStep == TypeOK /\ RangeOK /\ [Next]_vars => (TypeOK /\ RangeOK)'
<1> SUFFICES ASSUME TypeOK, RangeOK, [Next]_vars
             PROVE  (TypeOK /\ RangeOK)'
  OBVIOUS
<1>1. CASE Next
  <2>1. TypeOK'
    BY <1>1, ListWorkerTypes, CheckWorkerTypes, CheckpointTypes, MainTypesKept, ProcessTypes
       DEF Next, RangeOK, Terminated
  <2> QED
    BY <1>1, <2>1, RangeKept
<1>2. CASE UNCHANGED vars
  BY <1>2, RangeKept, ProcessTypes
<1> QED
  BY <1>1, <1>2

\* The initial state has the types and the ranges.
LEMMA TypeInit == Init => TypeOK /\ RangeOK
<1> SUFFICES ASSUME Init
             PROVE  TypeOK /\ RangeOK
  OBVIOUS
<1> USE DEF Init
<1>1. MainTypes /\ FileTypes
  <2>1. seeded \in BOOLEAN
    BY Zenon
  <2>2. sig \in 0 .. 2 /\ runs \in Nat
    <3>1. sig = 0 /\ runs = 0
      BY Zenon
    <3> QED
      BY <3>1
  <2>3. FileTypes
    BY DEF FileTypes, Token, Ending
  <2> QED
    BY <2>1, <2>2, <2>3 DEF MainTypes
<1>2. QueueTypes
  <2>1. closed \in BOOLEAN
    BY Zenon
  <2>2. queue \in Seq(Seed) /\ inflight \in Int
    OBVIOUS
  <2> QED
    BY <2>1, <2>2 DEF QueueTypes
<1>3. WorkerTypes /\ CheckTypes /\ StateTypes
  <2>1. WorkerTypes
    BY BucketAssumption DEF WorkerTypes, Token
  <2>2. CheckTypes /\ StateTypes
    BY DEF CheckTypes, StateTypes, Token
  <2> QED
    BY <2>1, <2>2
<1>4. CkptTypes /\ OutTypes
  BY DEF CkptTypes, OutTypes, Batch, NoBatch
<1>5. RangeOK
  BY BucketPages, BucketAssumption DEF RangeOK, InRange, TrackerRange, SeedRange, QueueRange,
     WorkerRange, SnapRange, FileRange, Seqs, NoBatch
<1> QED
  BY <1>1, <1>2, <1>3, <1>4, <1>5 DEF TypeOK

\* Every variable keeps its type for every bucket, number of goroutines and
\* bound, and no token ever names a page that does not exist.
THEOREM TypeCorrect == Spec => [](TypeOK /\ RangeOK)
<1> QED
  BY TypeInit, TypeStep, PTL DEF Spec

-----------------------------------------------------------------------------
(* The course of a process: the queue, the end of run(), the first run *)

\* Any set of list workers is finite.
LEMMA WorkersCount ==
    ASSUME NEW L \in SUBSET Worker
    PROVE  IsFiniteSet(L) /\ Cardinality(L) \in Nat /\ (Cardinality(L) = 0 => L = {})
BY ConfigAssumption, FS_Subset, FS_CardinalityType, FS_EmptySet

\* So the lister count is a natural number.
LEMMA ListersCount ==
    /\ IsFiniteSet(Listers) /\ Cardinality(Listers) \in Nat
    /\ Cardinality(Listers) = 0 => Listers = {}
<1>1. Listers \in SUBSET Worker
  BY DEF Listers
<1> QED
  BY <1>1, WorkersCount

\* One worker at a time takes a prefix or leaves it.
LEMMA ListersMove ==
    ASSUME NEW w \in Worker, \A v \in Worker \ {w} : pc'[v] = pc[v]
    PROVE  /\ Listing(w)' = Listing(w) => Listers' = Listers
           /\ Listing(w) /\ ~Listing(w)' => Cardinality(Listers') = Cardinality(Listers) - 1
           /\ ~Listing(w) /\ Listing(w)' => Cardinality(Listers') = Cardinality(Listers) + 1
<1>1. \A v \in Worker \ {w} : Listing(v)' = Listing(v)
  BY DEF Listing
<1>2. ASSUME Listing(w)' = Listing(w) PROVE Listers' = Listers
  BY <1>1, <1>2 DEF Listers
<1>3. ASSUME Listing(w), ~Listing(w)'
      PROVE  Cardinality(Listers') = Cardinality(Listers) - 1
  <2>1. Listers' = Listers \ {w} /\ w \in Listers
    BY <1>1, <1>3 DEF Listers
  <2> QED
    BY <2>1, ListersCount, FS_RemoveElement
<1>4. ASSUME ~Listing(w), Listing(w)'
      PROVE  Cardinality(Listers') = Cardinality(Listers) + 1
  <2>1. Listers' = Listers \cup {w} /\ w \notin Listers
    BY <1>1, <1>4 DEF Listers
  <2> QED
    BY <2>1, ListersCount, FS_AddElement
<1> QED
  BY <1>2, <1>3, <1>4

\* A step that moves neither an item nor a worker in or out of a prefix.
LEMMA FlowFrame ==
    ASSUME FlowOK, UNCHANGED <<queueVars, seeded>>, Listers' = Listers,
           \A w \in Worker : pc'[w] = "exit" => sig' > 0 \/ closed
    PROVE  FlowOK' /\ Excess' = Excess
BY DEF FlowOK, Excess, queueVars

\* The worker that leaves last closes an empty queue.
LEMMA LeaveFlow ==
    ASSUME TypeOK, FlowOK, NEW w \in Worker, Listing(w), Leave(w), UNCHANGED <<queue, mainVars>>
    PROVE  FlowOK' /\ Excess' = Excess
<1>1. /\ pc \in [Worker -> {"pop", "list", "page", "exit"}] /\ inflight \in Int
      /\ Len(queue) \in Nat /\ queue \in Seq(Seed) /\ closed \in BOOLEAN
  BY DEF TypeOK, WorkerTypes, QueueTypes
<1>2. /\ pc' = [pc EXCEPT ![w] = IF inflight = 1 THEN "exit" ELSE "pop"]
      /\ inflight' = inflight - 1 /\ closed' = (closed \/ inflight = 1)
      /\ queue' = queue /\ seeded' = seeded /\ sig' = sig
  BY DEF Leave, mainVars
<1>3. /\ ~Listing(w)' /\ \A v \in Worker \ {w} : pc'[v] = pc[v]
  BY <1>1, <1>2 DEF Listing
<1>4. Cardinality(Listers') = Cardinality(Listers) - 1
  BY <1>3, ListersMove
<1>5. ~closed /\ seeded
  BY DEF FlowOK, Listers
<1>6. inflight' >= Len(queue') + Cardinality(Listers') /\ Excess' = Excess
  BY <1>1, <1>2, <1>4, ListersCount DEF FlowOK, Excess
<1>7. ASSUME inflight = 1 PROVE queue = <<>> /\ Listers' = {}
  <2>1. Cardinality(Listers') \in Nat /\ (Cardinality(Listers') = 0 => Listers' = {})
    <3>1. Listers' \in SUBSET Worker
      BY DEF Listers
    <3> QED
      BY <3>1, WorkersCount
  <2>2. Len(queue) = 0 /\ Cardinality(Listers') = 0
    BY <1>1, <1>2, <1>6, <1>7, <2>1
  <2> QED
    BY <1>1, <2>1, <2>2
<1>8. \A v \in Worker : pc'[v] = "exit" => sig' > 0 \/ closed'
  BY <1>1, <1>2, <1>3 DEF FlowOK
<1> QED
  BY <1>2, <1>5, <1>6, <1>7, <1>8 DEF FlowOK

\* The steps of the processes that are no list workers leave the queue alone.
LEMMA ElsewhereFlow ==
    ASSUME FlowOK, TypeOK, UNCHANGED <<queueVars, seeded, pc>>, sig' \in Nat, sig' >= sig
    PROVE  FlowOK' /\ Excess' = Excess
<1>1. Listers' = Listers
  BY DEF Listers, Listing
<1>2. \A w \in Worker : pc'[w] = "exit" => sig' > 0 \/ closed
  BY DEF FlowOK, TypeOK, MainTypes
<1> QED
  BY <1>1, <1>2, FlowFrame

\* A list worker finds the queue open, and what it counts it queues or lists.
LEMMA ListWorkerFlow ==
    ASSUME TypeOK, TypeOK', FlowOK, NEW w \in Worker, ListWorker(w) \/ ListFails(w)
    PROVE  FlowOK' /\ Excess' = Excess
<1>1. /\ pc \in [Worker -> {"pop", "list", "page", "exit"}] /\ inflight \in Int
      /\ Len(queue) \in Nat /\ queue \in Seq(Seed) /\ closed \in BOOLEAN /\ sig \in Nat
      /\ cur[w] \in Prefix /\ subs[w] \subseteq Prefix
  BY DEF TypeOK, WorkerTypes, QueueTypes, MainTypes
<1>2. CASE Pop(w)
  <2>1. /\ pc[w] = "pop" /\ pc' = [pc EXCEPT ![w] = "list"] /\ queue' = Tail(queue) /\ queue # <<>>
        /\ UNCHANGED <<closed, inflight, seeded, sig>>
    BY <1>2 DEF Pop, mainVars
  <2>2. /\ ~Listing(w) /\ Listing(w)' /\ \A v \in Worker \ {w} : pc'[v] = pc[v]
    BY <1>1, <2>1 DEF Listing
  <2>3. Cardinality(Listers') = Cardinality(Listers) + 1
    BY <2>2, ListersMove
  <2>4. Len(queue') = Len(queue) - 1
    BY <1>1, <2>1, HeadTailProperties
  <2>5. ~closed /\ seeded
    BY <2>1 DEF FlowOK
  <2>6. inflight' >= Len(queue') + Cardinality(Listers') /\ Excess' = Excess
    BY <1>1, <2>1, <2>3, <2>4, ListersCount DEF FlowOK, Excess
  <2>7. \A v \in Worker : pc'[v] = "exit" => sig' > 0 \/ closed'
    BY <1>1, <2>1, <2>2 DEF FlowOK
  <2> QED
    BY <2>1, <2>5, <2>6, <2>7 DEF FlowOK
<1>3. CASE Enqueue(w)
  <2>1. /\ pc[w] = "page" /\ UNCHANGED <<pc, closed, seeded, sig>> /\ inflight' = inflight + 1
    BY <1>3 DEF Enqueue, mainVars
  <2>2. ~closed /\ seeded
    BY <1>1, <2>1 DEF FlowOK, Listers, Listing
  <2>3. \E s \in subs[w] : queue' = Append(queue, <<s, 0>>)
    BY <1>3, <2>2 DEF Enqueue, Push
  <2>4. Len(queue') = Len(queue) + 1
    BY <1>1, <2>3
  <2>5. Listers' = Listers
    BY <2>1 DEF Listers, Listing
  <2>6. inflight' >= Len(queue') + Cardinality(Listers') /\ Excess' = Excess
    BY <1>1, <2>1, <2>4, <2>5, ListersCount DEF FlowOK, Excess
  <2> QED
    BY <2>1, <2>2, <2>6 DEF FlowOK
<1>4. CASE ListFails(w) \/ HardAbort(w) \/ LastPage(w)
  BY <1>4, LeaveFlow DEF ListFails, HardAbort, LastPage, PageDone, Listing
<1>5. CASE PopFails(w)
  <2>1. /\ pc[w] = "pop" /\ pc' = [pc EXCEPT ![w] = "exit"] /\ UNCHANGED <<queueVars, seeded, sig>>
        /\ sig > 0 \/ closed
    BY <1>5 DEF PopFails, mainVars
  <2>2. /\ ~Listing(w) /\ ~Listing(w)' /\ \A v \in Worker \ {w} : pc'[v] = pc[v]
    BY <1>1, <2>1 DEF Listing
  <2>3. Listers' = Listers
    <3>1. Listing(w)' = Listing(w)
      BY <1>1, <2>1 DEF Listing
    <3> QED
      BY <2>2, <3>1, ListersMove
  <2>4. \A v \in Worker : pc'[v] = "exit" => sig' > 0 \/ closed
    BY <1>1, <2>1, <2>2 DEF FlowOK
  <2> QED
    BY <2>1, <2>3, <2>4, FlowFrame
<1>6. CASE ListPage(w) \/ TurnPage(w)
  <2>1. /\ pc[w] \in {"list", "page"} /\ pc'[w] \in {"list", "page"}
        /\ \A v \in Worker \ {w} : pc'[v] = pc[v]
        /\ UNCHANGED <<queueVars, seeded, sig>>
    BY <1>1, <1>6 DEF ListPage, TurnPage, PageDone, mainVars
  <2>2. Listers' = Listers
    BY <2>1, ListersMove DEF Listing
  <2>3. \A v \in Worker : pc'[v] = "exit" => pc[v] = "exit"
    BY <2>1
  <2>4. \A v \in Worker : pc'[v] = "exit" => sig' > 0 \/ closed
    BY <2>1, <2>3 DEF FlowOK
  <2> QED
    BY <2>1, <2>2, <2>4, FlowFrame
<1>7. CASE AddDiscovered(w) \/ Emit(w) \/ EmitLocally(w)
  <2>1. UNCHANGED <<queueVars, seeded, pc, sig>>
    BY <1>7 DEF AddDiscovered, Emit, EmitLocally, mainVars
  <2> QED
    BY <1>1, <2>1, ElsewhereFlow
<1> QED
  BY <1>2, <1>3, <1>4, <1>5, <1>6, <1>7 DEF ListWorker

\* A seed that the seeding loop counts and cannot push is in excess.
LEMMA MainFlow ==
    ASSUME TypeOK, FlowOK, MainStep
    PROVE  /\ FlowOK'
           /\ Smooth' => Smooth /\ (Seeding => ~closed)
<1>1. /\ inflight \in Int /\ Len(queue) \in Nat /\ queue \in Seq(Seed) /\ sig \in Nat
  BY DEF TypeOK, QueueTypes, MainTypes
<1>2. UNCHANGED <<pc, sig>> /\ Listers' = Listers
  BY DEF MainStep, Seeding, CheckpointNow, CloseIfUnseeded, AllWorkDone, CloseOutput, workerVars,
         Listers, Listing
<1>3. CASE Seeding
  <2>1. PICK s \in Seed : Push(s) /\ inflight' = inflight + 1 /\ seeded' = TRUE /\ closed' = closed
    BY <1>3 DEF Seeding, TypeOK, MainTypes
  <2>2. /\ Len(queue') \in Nat /\ Len(queue') <= Len(queue) + 1 /\ (closed => queue' = queue)
        /\ ~closed => Len(queue') = Len(queue) + 1
    BY <1>1, <2>1 DEF Push
  <2>3. inflight' >= Len(queue') + Cardinality(Listers')
    BY <1>1, <1>2, <2>1, <2>2, ListersCount DEF FlowOK
  <2>4. FlowOK'
    BY <1>2, <2>1, <2>2, <2>3 DEF FlowOK
  <2>5. ASSUME Excess' = 0 PROVE Excess = 0 /\ ~closed
    <3>1. CASE closed
      BY <1>1, <1>2, <2>1, <2>2, <2>5, <3>1, ListersCount DEF FlowOK, Excess
    <3>2. CASE ~closed
      BY <1>1, <1>2, <2>1, <2>2, <2>5, <3>2, ListersCount DEF Excess
    <3> QED
      BY <3>1, <3>2
  <2>6. listFailed' = listFailed
    BY <1>3 DEF Seeding, outVars
  <2> QED
    BY <1>2, <2>4, <2>5, <2>6 DEF Smooth
<1>4. CASE CheckpointNow \/ CloseOutput
  <2>1. UNCHANGED <<queueVars, seeded, listFailed>> /\ ~Seeding
    BY <1>4 DEF CheckpointNow, CloseOutput, Seeding, outVars
  <2>2. FlowOK' /\ Excess' = Excess
    BY <1>1, <1>2, <2>1, ElsewhereFlow
  <2> QED
    BY <1>2, <2>1, <2>2 DEF Smooth
<1>5. CASE CloseIfUnseeded
  <2>1. UNCHANGED <<seeded, queue, inflight, listFailed>> /\ closed' = (closed \/ ~seeded) /\ ~Seeding
    BY <1>5 DEF CloseIfUnseeded, Seeding, outVars
  <2>2. FlowOK' /\ Excess' = Excess
    BY <1>2, <2>1 DEF FlowOK, Excess
  <2> QED
    BY <1>2, <2>1, <2>2 DEF Smooth
<1>6. CASE AllWorkDone
  <2>1. /\ UNCHANGED <<seeded, closed, inflight>> /\ (queue' = queue \/ queue' = <<>>) /\ ~Seeding
        /\ sig = 0 => UNCHANGED <<queue, listFailed>>
    BY <1>6 DEF AllWorkDone, DrainQueuedPrefixes, Seeding
  <2>2. Len(queue') <= Len(queue) /\ Len(queue') \in Nat /\ (queue = <<>> => queue' = <<>>)
    BY <1>1, <2>1
  <2>3. inflight' >= Len(queue') + Cardinality(Listers')
    BY <1>1, <1>2, <2>1, <2>2, ListersCount DEF FlowOK
  <2>4. FlowOK'
    BY <1>2, <2>1, <2>2, <2>3 DEF FlowOK
  <2> QED
    BY <1>2, <2>1, <2>4 DEF Smooth, Excess
<1> QED
  BY <1>3, <1>4, <1>5, <1>6 DEF MainStep

\* A process that has just started, or none.
LEMMA FreshFlow ==
    ASSUME inflight = 0, queue = <<>>, closed = FALSE, pc = [w \in Worker |-> "pop"]
    PROVE  FlowOK
<1>1. Listers = {}
  BY DEF Listers, Listing
<1>2. Cardinality(Listers) = 0
  BY <1>1, FS_EmptySet
<1> QED
  BY <1>1, <1>2 DEF FlowOK

\* FlowOK is inductive.
LEMMA FlowStep ==
    ASSUME TypeOK, TypeOK', FlowOK, [Next]_vars
    PROVE  FlowOK'
<1>1. CASE (\E c \in Checker : CheckWorker(c)) \/ WriterFlush
           \/ (\E why \in {"tick", "trigger", "final"} : Snapshot(why)) \/ Checkpointing \/ Signal
           \/ Terminated \/ UNCHANGED vars
  <2>1. UNCHANGED <<queueVars, seeded, pc>>
    BY <1>1 DEF CheckWorker, Receive, Handle, Report, WriterFlush, Snapshot, Checkpointing,
       FlushAndWait, AppendBatch, ShortWrite, CommitBatch, CheckpointReturns, Signal, Terminated, vars,
       mainVars, workerVars, queueVars
  <2>2. sig' = sig \/ sig' = sig + 1
    BY <1>1 DEF CheckWorker, Receive, Handle, Report, WriterFlush, Snapshot, Checkpointing,
       FlushAndWait, AppendBatch, ShortWrite, CommitBatch, CheckpointReturns, Signal, Terminated, vars,
       mainVars
  <2>3. sig' \in Nat /\ sig' >= sig
    BY <2>2 DEF TypeOK, MainTypes
  <2> QED
    BY <2>1, <2>3, ElsewhereFlow
<1>2. CASE Kill \/ StartScan \/ Resume
  <2>1. /\ inflight' = 0 /\ queue' = <<>> /\ closed' = FALSE /\ pc' = [w \in Worker |-> "pop"]
    BY <1>2 DEF Kill, StartScan, Resume, Start, Reboot
  <2>2. Listers' = {}
    BY <2>1 DEF Listers, Listing
  <2>3. Cardinality(Listers') = 0
    BY <2>2, FS_EmptySet
  <2> QED
    BY <2>1, <2>2, <2>3 DEF FlowOK
<1> QED
  BY <1>1, <1>2, ListWorkerFlow, MainFlow DEF Next

\* A step of a list worker or a checker: not everything is quiet, main stays where it is.
LEMMA BusyMain ==
    ASSUME MainOK, ~AllQuiet, UNCHANGED <<mainVars, ckpt, ckptFor>>
    PROVE  MainOK'
BY DEF MainOK, mainVars

\* The checkpoint goroutine answers main only when main waits for it.
LEMMA CheckpointMain ==
    ASSUME TypeOK, MainOK,
           Checkpointing \/ \E why \in {"tick", "trigger", "final"} : Snapshot(why)
    PROVE  MainOK'
<1>1. /\ UNCHANGED <<toSeed, pushed, queue, objCh, chk, pc>> /\ written \subseteq written'
  BY DEF Checkpointing, FlushAndWait, AppendBatch, ShortWrite, CommitBatch, CheckpointReturns, Snapshot,
         mainVars, queueVars, workerVars, checkVars, outVars
<1>2. AllQuiet' <=> AllQuiet
  BY <1>1 DEF AllQuiet
<1>3. CASE \E why \in {"tick", "trigger", "final"} : Snapshot(why)
  <2>1. PICK why \in {"tick", "trigger", "final"} : Snapshot(why)
    BY <1>3
  <2>2. /\ main' = main /\ ckpt' = "flush" /\ ckptFor' = why
        /\ main \notin {"down", "closing", "ended"}
        /\ why = "trigger" => main = "trigger"
        /\ why = "final" => main = "stopping"
    BY <2>1 DEF Snapshot, Up, mainVars
  <2> QED
    BY <1>1, <1>2, <2>2 DEF MainOK
<1>4. CASE FlushAndWait \/ AppendBatch
  <2>1. ckpt # "idle" /\ ckpt' # "idle" /\ ckptFor' = ckptFor /\ main' = main
    BY <1>4 DEF FlushAndWait, AppendBatch, mainVars
  <2>2. main \notin {"down", "closing", "ended"}
    BY <2>1 DEF MainOK
  <2> QED
    BY <1>1, <1>2, <2>1, <2>2 DEF MainOK
<1>5. CASE ShortWrite \/ CommitBatch
  <2>1. /\ ckpt # "idle" /\ ckpt' = "idle"
        /\ main' = CASE ckptFor = "trigger" -> "seeded"
                     [] ckptFor = "final"   -> "closing"
                     [] OTHER               -> main
    BY <1>5 DEF ShortWrite, CommitBatch, CheckpointReturns
  <2>2. /\ main \notin {"down", "closing", "ended"} /\ ckptFor \in {"tick", "trigger", "final"}
        /\ ckptFor = "trigger" => main = "trigger"
        /\ ckptFor = "final" => main = "stopping"
    BY <2>1 DEF MainOK, TypeOK, CkptTypes
  <2>3. CASE ckptFor = "trigger"
    BY <1>1, <1>2, <2>1, <2>2, <2>3 DEF MainOK
  <2>4. CASE ckptFor = "final"
    BY <1>1, <1>2, <2>1, <2>2, <2>4 DEF MainOK
  <2>5. CASE ckptFor = "tick"
    BY <1>1, <1>2, <2>1, <2>2, <2>5 DEF MainOK
  <2> QED
    BY <2>2, <2>3, <2>4, <2>5
<1> QED
  BY <1>3, <1>4, <1>5 DEF Checkpointing

\* The steps of the main goroutine keep MainOK.
LEMMA MainMain ==
    ASSUME TypeOK, FlowOK, MainOK, MainStep
    PROVE  MainOK'
<1>1. CASE Seeding
  <2>1. UNCHANGED <<main, ckpt, ckptFor, pushed, written>> /\ main = "seeding"
    BY <1>1 DEF Seeding, ckptVars, outVars
  <2> QED
    BY <2>1 DEF MainOK
<1>2. CASE CheckpointNow
  <2>1. /\ UNCHANGED <<toSeed, ckpt, ckptFor>> /\ toSeed = {} /\ main = "seeding" /\ main' = "trigger"
    BY <1>2 DEF CheckpointNow, ckptVars
  <2> QED
    BY <2>1 DEF MainOK
<1>3. CASE CloseIfUnseeded
  <2>1. /\ UNCHANGED <<toSeed, ckpt, ckptFor>> /\ main = "seeded" /\ main' = "await"
    BY <1>3 DEF CloseIfUnseeded, ckptVars
  <2> QED
    BY <2>1 DEF MainOK
<1>4. CASE AllWorkDone
  <2>1. /\ UNCHANGED <<toSeed, ckpt, ckptFor, pc, objCh, chk>> /\ main = "await" /\ main' = "stopping"
        /\ \A w \in Worker : pc[w] = "exit"
        /\ objCh = <<>> /\ \A c \in Checker : chk[c] = NoTask
    BY <1>4 DEF AllWorkDone, ckptVars, workerVars, checkVars
  <2>2. queue' = <<>>
    <3>1. CASE sig > 0
      BY <1>4, <3>1 DEF AllWorkDone, DrainQueuedPrefixes, TypeOK, MainTypes
    <3>2. CASE ~(sig > 0)
      <4>1. PICK w \in Worker : pc[w] = "exit"
        BY <2>1, ConfigAssumption
      <4>2. queue = <<>>
        BY <3>2, <4>1 DEF FlowOK
      <4> QED
        BY <1>4, <4>2 DEF AllWorkDone, DrainQueuedPrefixes
    <3> QED
      BY <3>1, <3>2
  <2>3. AllQuiet'
    BY <2>1, <2>2 DEF AllQuiet
  <2> QED
    BY <2>1, <2>3 DEF MainOK
<1>5. CASE CloseOutput
  <2>1. /\ UNCHANGED <<toSeed, ckpt, ckptFor, pc, objCh, chk, queue, pushed>> /\ main = "closing"
        /\ main' = "ended" /\ written' = written \cup pushed
    BY <1>5 DEF CloseOutput, ckptVars, workerVars, checkVars, queueVars
  <2> QED
    BY <2>1 DEF MainOK, AllQuiet
<1> QED
  BY <1>1, <1>2, <1>3, <1>4, <1>5 DEF MainStep

\* MainOK is inductive.
LEMMA MainOKStep ==
    ASSUME TypeOK, FlowOK, MainOK, [Next]_vars
    PROVE  MainOK'
<1>1. ASSUME NEW w \in Worker, ListWorker(w) \/ ListFails(w)
      PROVE  MainOK'
  <2>1. pc[w] # "exit" /\ UNCHANGED <<mainVars, ckpt, ckptFor>>
    BY <1>1 DEF ListWorker, Pop, PopFails, ListPage, AddDiscovered, Emit, EmitLocally, HardAbort,
       Enqueue, TurnPage, LastPage, PageDone, ListFails, ckptVars
  <2> QED
    BY <2>1, BusyMain DEF AllQuiet
<1>2. ASSUME NEW c \in Checker, CheckWorker(c)
      PROVE  MainOK'
  <2>1. /\ objCh # <<>> \/ chk[c] # NoTask
        /\ UNCHANGED <<mainVars, ckpt, ckptFor>>
    BY <1>2 DEF CheckWorker, Receive, Handle, Report, ckptVars, TypeOK, CheckTypes
  <2> QED
    BY <2>1, BusyMain DEF AllQuiet
<1>3. CASE WriterFlush \/ Signal \/ Terminated \/ UNCHANGED vars
  <2>1. /\ UNCHANGED <<toSeed, main, ckpt, ckptFor, pc, objCh, chk, queue, pushed>>
        /\ written \subseteq written'
    BY <1>3 DEF WriterFlush, Signal, Terminated, vars, mainVars, ckptVars, workerVars, checkVars,
       queueVars, outVars
  <2> QED
    BY <2>1 DEF MainOK, AllQuiet
<1>4. CASE Kill
  BY <1>4 DEF Kill, Reboot, MainOK
<1>5. CASE StartScan \/ Resume
  BY <1>5 DEF StartScan, Resume, Start, Reboot, MainOK
<1> QED
  BY <1>1, <1>2, <1>3, <1>4, <1>5, CheckpointMain, MainMain DEF Next

\* FirstRun is inductive.
LEMMA FirstRunStep ==
    ASSUME TypeOK, FlowOK, MainOK, FirstRun, [Next]_vars
    PROVE  FirstRun'
<1>1. ASSUME UNCHANGED <<runs, main, journaled, toSeed, seeded>>, closed' = closed \/ toSeed = {}
      PROVE  FirstRun'
  BY <1>1 DEF FirstRun
<1>2. ASSUME NEW w \in Worker, ListWorker(w) \/ ListFails(w)
      PROVE  FirstRun'
  <2>1. UNCHANGED <<runs, main, journaled, toSeed, seeded>>
    BY <1>2 DEF ListWorker, Pop, PopFails, ListPage, AddDiscovered, Emit, EmitLocally, HardAbort,
       Enqueue, TurnPage, LastPage, ListFails, mainVars, fileVars
  <2>2. CASE ListFails(w) \/ HardAbort(w) \/ LastPage(w)
    <3>1. Listers # {}
      BY <2>2 DEF ListFails, HardAbort, LastPage, PageDone, Listers, Listing
    <3>2. seeded
      BY <3>1 DEF FlowOK
    <3> QED
      BY <2>1, <3>2 DEF FirstRun
  <2>3. CASE ~(ListFails(w) \/ HardAbort(w) \/ LastPage(w))
    <3>1. closed' = closed
      BY <1>2, <2>3 DEF ListWorker, Pop, PopFails, ListPage, AddDiscovered, Emit, EmitLocally,
         Enqueue, TurnPage, queueVars
    <3> QED
      BY <1>1, <2>1, <3>1
  <2> QED
    BY <2>2, <2>3
<1>3. CASE (\E c \in Checker : CheckWorker(c)) \/ WriterFlush \/ Signal
           \/ (\E why \in {"tick", "trigger", "final"} : Snapshot(why)) \/ Terminated \/ UNCHANGED vars
  <2>1. UNCHANGED <<runs, main, journaled, toSeed, seeded, closed>>
    BY <1>3 DEF CheckWorker, Receive, Handle, Report, WriterFlush, Signal, Snapshot, Terminated, vars,
       mainVars, fileVars, queueVars
  <2> QED
    BY <1>1, <2>1
<1>4. CASE Checkpointing
  <2>1. ckpt # "idle" /\ UNCHANGED <<runs, toSeed, seeded, closed>>
    BY <1>4 DEF Checkpointing, FlushAndWait, AppendBatch, ShortWrite, CommitBatch, CheckpointReturns,
       mainVars, queueVars
  <2>2. runs # 0
    BY <2>1 DEF FirstRun, MainOK
  <2> QED
    BY <2>1, <2>2 DEF FirstRun
<1>5. CASE MainStep
  <2>1. main # "down" /\ runs' = runs
    BY <1>5 DEF MainStep, Seeding, CheckpointNow, CloseIfUnseeded, AllWorkDone, CloseOutput
  <2>2. runs # 0
    BY <2>1 DEF FirstRun
  <2>3. CASE Seeding
    <3>1. \E s \in toSeed : toSeed' = toSeed \ {s}
      BY <2>3 DEF Seeding
    <3>2. runs = 1 => toSeed' = {}
      BY <3>1 DEF FirstRun
    <3> QED
      BY <2>1, <2>2, <3>2 DEF FirstRun
  <2>4. CASE ~Seeding
    <3>1. /\ UNCHANGED <<toSeed, seeded>> /\ (closed' = closed \/ toSeed = {})
      BY <1>5, <2>4 DEF MainStep, CheckpointNow, CloseIfUnseeded, AllWorkDone, CloseOutput, MainOK,
         queueVars
    <3> QED
      BY <2>1, <2>2, <3>1 DEF FirstRun
  <2> QED
    BY <2>3, <2>4
<1>6. CASE Kill
  <2>1. Up /\ runs' = runs /\ toSeed' = {}
    BY <1>6 DEF Kill
  <2>2. runs # 0
    BY <2>1 DEF FirstRun, Up
  <2> QED
    BY <2>1, <2>2 DEF FirstRun
<1>7. CASE StartScan
  <2>1. /\ runs' = runs + 1 /\ toSeed' = {<<Root, 0>>} /\ seeded' = FALSE /\ closed' = FALSE
    BY <1>7 DEF StartScan, Start, Reboot
  <2>2. runs' # 0
    BY <2>1 DEF TypeOK, MainTypes
  <2> QED
    BY <2>1, <2>2 DEF FirstRun
<1>8. CASE Resume
  <2>1. runs' = runs + 1 /\ journaled # {}
    BY <1>8 DEF Resume, Start
  <2>2. runs # 0 /\ runs \in Nat
    BY <2>1 DEF FirstRun, TypeOK, MainTypes
  <2>3. runs' # 0 /\ runs' # 1
    BY <2>1, <2>2
  <2> QED
    BY <2>3 DEF FirstRun
<1> QED
  BY <1>2, <1>3, <1>4, <1>5, <1>6, <1>7, <1>8 DEF Next

\* PageShape is inductive.
LEMMA PageShapeStep ==
    ASSUME TypeOK, PageShape, [Next]_vars
    PROVE  PageShape'
<1>1. ASSUME UNCHANGED <<pc, cur, tok, todo, new, subs>>
      PROVE  PageShape'
  BY <1>1 DEF PageShape
<1>2. ASSUME NEW w \in Worker, ListWorker(w) \/ ListFails(w)
      PROVE  PageShape'
  <2>1. /\ pc \in [Worker -> {"pop", "list", "page", "exit"}] /\ cur \in [Worker -> Prefix]
        /\ tok \in [Worker -> Token] /\ new \in [Worker -> SUBSET Prefix]
        /\ subs \in [Worker -> SUBSET Prefix] /\ todo \in [Worker -> SUBSET Object]
    BY DEF TypeOK, WorkerTypes
  <2>2. ASSUME \A v \in Worker \ {w} : /\ pc'[v] = pc[v] /\ cur'[v] = cur[v] /\ tok'[v] = tok[v]
                                       /\ todo'[v] = todo[v] /\ new'[v] = new[v] /\ subs'[v] = subs[v],
               pc'[w] = "page" => /\ todo'[w] \subseteq Objs(cur'[w], tok'[w] + 1)
                                  /\ new'[w] \subseteq subs'[w]
                                  /\ subs'[w] \subseteq Subs(cur'[w], tok'[w] + 1)
        PROVE  PageShape'
    BY <2>2 DEF PageShape, Objs, Subs
  <2>3. CASE Pop(w) \/ PopFails(w) \/ TurnPage(w)
    <3>1. /\ pc'[w] # "page"
          /\ \A v \in Worker \ {w} : /\ pc'[v] = pc[v] /\ cur'[v] = cur[v] /\ tok'[v] = tok[v]
                                     /\ todo'[v] = todo[v] /\ new'[v] = new[v] /\ subs'[v] = subs[v]
      BY <2>1, <2>3 DEF Pop, PopFails, TurnPage
    <3> QED
      BY <2>2, <3>1
  <2>4. CASE ListFails(w) \/ HardAbort(w) \/ LastPage(w)
    <3>1. Leave(w)
      BY <2>4 DEF ListFails, HardAbort, LastPage
    <3>2. /\ pc'[w] # "page"
          /\ \A v \in Worker \ {w} : /\ pc'[v] = pc[v] /\ cur'[v] = cur[v] /\ tok'[v] = tok[v]
                                     /\ todo'[v] = todo[v] /\ new'[v] = new[v] /\ subs'[v] = subs[v]
      BY <2>1, <3>1 DEF Leave
    <3> QED
      BY <2>2, <3>2
  <2>5. CASE ListPage(w)
    <3>1. /\ UNCHANGED <<cur, tok>>
          /\ todo'[w] = Objs(cur[w], tok[w] + 1)
          /\ new'[w] = Subs(cur[w], tok[w] + 1) /\ subs'[w] = Subs(cur[w], tok[w] + 1)
          /\ \A v \in Worker \ {w} : /\ pc'[v] = pc[v]
                                     /\ todo'[v] = todo[v] /\ new'[v] = new[v] /\ subs'[v] = subs[v]
      BY <2>1, <2>5 DEF ListPage, Objs, Subs
    <3> QED
      BY <2>2, <3>1
  <2>6. CASE AddDiscovered(w) \/ Emit(w) \/ EmitLocally(w) \/ Enqueue(w)
    <3>1. /\ pc[w] = "page" /\ UNCHANGED <<pc, cur, tok>>
          /\ todo'[w] \subseteq todo[w] /\ subs'[w] \subseteq subs[w]
          /\ \/ new'[w] = {}
             \/ subs'[w] = subs[w] /\ new'[w] \subseteq new[w]
          /\ \A v \in Worker \ {w} : todo'[v] = todo[v] /\ new'[v] = new[v] /\ subs'[v] = subs[v]
      BY <2>1, <2>6 DEF AddDiscovered, Emit, EmitLocally, Enqueue
    <3> QED
      BY <2>2, <3>1 DEF PageShape
  <2> QED
    BY <1>2, <2>3, <2>4, <2>5, <2>6 DEF ListWorker
<1>3. CASE (\E c \in Checker : CheckWorker(c)) \/ WriterFlush \/ Signal \/ Checkpointing \/ MainStep
           \/ (\E why \in {"tick", "trigger", "final"} : Snapshot(why)) \/ Terminated \/ UNCHANGED vars
  <2>1. UNCHANGED workerVars
    BY <1>3 DEF CheckWorker, Receive, Handle, Report, WriterFlush, Signal, Snapshot, Terminated, vars,
       Checkpointing, FlushAndWait, AppendBatch, ShortWrite, CommitBatch,
       MainStep, Seeding, CheckpointNow, CloseIfUnseeded, AllWorkDone, CloseOutput
  <2> QED
    BY <1>1, <2>1 DEF workerVars
<1>4. CASE Kill \/ StartScan \/ Resume
  <2>1. pc' = [w \in Worker |-> "pop"]
    BY <1>4 DEF Kill, StartScan, Resume, Start, Reboot
  <2> QED
    BY <2>1 DEF PageShape
<1> QED
  BY <1>2, <1>3, <1>4 DEF Next

\* HandledOK is inductive: no pushed line is taken back while the process lives.
LEMMA HandledStep ==
    ASSUME TypeOK, HandledOK, [Next]_vars
    PROVE  HandledOK'
<1>1. ASSUME UNCHANGED <<chk, handled>>, Done \subseteq Done'
      PROVE  HandledOK'
  BY <1>1 DEF HandledOK
<1>2. ASSUME NEW c \in Checker, CheckWorker(c)
      PROVE  HandledOK'
  <2>1. /\ DOMAIN chk = Checker /\ handled \subseteq {d \in Checker : chk[d] # NoTask}
    BY DEF TypeOK, CheckTypes
  <2>2. CASE Receive(c)
    <3>1. /\ c \notin handled /\ handled' = handled /\ UNCHANGED <<pushed, written>>
          /\ \A d \in Checker \ {c} : chk'[d] = chk[d]
      BY <2>1, <2>2 DEF Receive, outVars
    <3> QED
      BY <2>1, <3>1 DEF HandledOK, Done
  <2>3. CASE Handle(c)
    <3>1. /\ handled' = handled \cup {c} /\ chk' = chk /\ written' = written
          /\ pushed' = pushed \cup {chk[c].obj}
      BY <2>3 DEF Handle
    <3> QED
      BY <3>1 DEF HandledOK, Done
  <2>4. CASE Report(c)
    <3>1. /\ handled' = handled \ {c} /\ UNCHANGED <<pushed, written>>
          /\ \A d \in Checker \ {c} : chk'[d] = chk[d]
      BY <2>1, <2>4 DEF Report, outVars
    <3> QED
      BY <2>1, <3>1 DEF HandledOK, Done
  <2> QED
    BY <1>2, <2>2, <2>3, <2>4 DEF CheckWorker
<1>3. CASE Kill \/ StartScan \/ Resume
  <2>1. handled' = {}
    BY <1>3 DEF Kill, StartScan, Resume, Start, Reboot
  <2> QED
    BY <2>1 DEF HandledOK
<1>4. CASE (\E w \in Worker : ListWorker(w) \/ ListFails(w)) \/ WriterFlush \/ Signal \/ Checkpointing
           \/ MainStep \/ (\E why \in {"tick", "trigger", "final"} : Snapshot(why)) \/ Terminated
           \/ UNCHANGED vars
  <2>1. UNCHANGED <<chk, handled>>
    BY <1>4 DEF ListWorker, Pop, PopFails, ListPage, AddDiscovered, Emit, EmitLocally, HardAbort,
       Enqueue, TurnPage, LastPage, ListFails, WriterFlush, Signal, Snapshot, Terminated, vars,
       Checkpointing, FlushAndWait, AppendBatch, ShortWrite, CommitBatch,
       MainStep, Seeding, CheckpointNow, CloseIfUnseeded, AllWorkDone, CloseOutput, checkVars
  <2>2. pushed \subseteq pushed' /\ written \subseteq written'
    BY <1>4 DEF ListWorker, Pop, PopFails, ListPage, AddDiscovered, Emit, EmitLocally, HardAbort,
       Enqueue, TurnPage, LastPage, ListFails, WriterFlush, Signal, Snapshot, Terminated, vars,
       Checkpointing, FlushAndWait, AppendBatch, ShortWrite, CommitBatch,
       MainStep, Seeding, CheckpointNow, CloseIfUnseeded, AllWorkDone, CloseOutput, outVars
  <2> QED
    BY <1>1, <2>1, <2>2 DEF Done
<1> QED
  BY <1>2, <1>3, <1>4 DEF Next

\* So CourseOK is inductive.
LEMMA CourseStep ==
    ASSUME TypeOK, TypeOK', CourseOK, [Next]_vars
    PROVE  CourseOK'
BY FlowStep, MainOKStep, FirstRunStep, PageShapeStep, HandledStep DEF CourseOK

\* CourseOK holds before the first run.
LEMMA CourseInit == Init => CourseOK
<1> SUFFICES ASSUME Init PROVE CourseOK
  OBVIOUS
<1>1. FlowOK
  BY FreshFlow DEF Init
<1>2. MainOK /\ FirstRun
  BY DEF Init, MainOK, FirstRun
<1>3. PageShape /\ HandledOK
  BY DEF Init, PageShape, HandledOK
<1> QED
  BY <1>1, <1>2, <1>3 DEF CourseOK

-----------------------------------------------------------------------------
(* An interrupted run can be resumed *)

\* What is listed from more seeds is listed from fewer, and a seed whose pages are
\* listed already adds nothing.
LEMMA ListedFromFewer ==
    ASSUME NEW S, NEW T, NEW U, ListedFrom(U, S),
           \A s \in T : s \in U \/ \A k \in PageNumbers(s[1]) : k > s[2] => <<s[1], k>> \in S
    PROVE  ListedFrom(T, S)
BY DEF ListedFrom

\* A step of the process keeps Resumable when each set listed from what is open after
\* it shows that every object was, and so is, accounted for.
LEMMA ResumableBy ==
    ASSUME Resumable, runs' = runs, main' # "down" => main # "down",
           \A S \in SUBSET AllPages : ListedFrom(Open', S) =>
              \E X \in SUBSET AllPages :
                 /\ ListedFrom(Open, X)
                 /\ \A o \in Object : o \in Done \/ InHand(o) \/ OnPage(o, X) =>
                                      o \in Done' \/ InHand(o)' \/ OnPage(o, S)
    PROVE  Resumable'
<1> SUFFICES ASSUME runs' = 1, main' # "down", NEW S \in SUBSET AllPages, ListedFrom(Open', S),
                    NEW o \in Object
             PROVE  o \in Done' \/ InHand(o)' \/ OnPage(o, S)
  BY DEF Resumable, ListedFrom, OnPage, AllPages
<1>1. PICK X \in SUBSET AllPages :
         /\ ListedFrom(Open, X)
         /\ \A b \in Object : b \in Done \/ InHand(b) \/ OnPage(b, X) =>
                              b \in Done' \/ InHand(b)' \/ OnPage(b, S)
  OBVIOUS
<1>2. o \in Done \/ InHand(o) \/ OnPage(o, X)
  BY <1>1 DEF Resumable
<1> QED
  BY <1>1, <1>2

\* The common case: whatever was open is still, and nothing in hand is dropped.
LEMMA ResumableKept ==
    ASSUME Resumable, runs' = runs, main' # "down" => main # "down",
           Open \subseteq Open',
           \A o \in Object : o \in Done \/ InHand(o) => o \in Done' \/ InHand(o)'
    PROVE  Resumable'
<1>1. ASSUME NEW S \in SUBSET AllPages, ListedFrom(Open', S)
      PROVE  /\ ListedFrom(Open, S)
             /\ \A o \in Object : o \in Done \/ InHand(o) \/ OnPage(o, S) =>
                                  o \in Done' \/ InHand(o)' \/ OnPage(o, S)
  BY <1>1, ListedFromFewer
<1> QED
  BY <1>1, ResumableBy

\* What worker w has open moves with w; the rest of what is open stays.
LEMMA OthersOpen ==
    ASSUME NEW w \in Worker, toSeed' = toSeed,
           \A v \in Worker \ {w} : /\ pc'[v] = pc[v] /\ cur'[v] = cur[v] /\ tok'[v] = tok[v]
                                   /\ subs'[v] = subs[v]
    PROVE  \A s \in Open :
              \/ s \in Open' \/ s \in listFailed \cup Queued
              \/ Listing(w) /\ s = NextSeed(w)
              \/ s \in Revealed(w)
<1> SUFFICES ASSUME NEW s \in Open, s \notin listFailed \cup Queued,
                    ~(Listing(w) /\ s = NextSeed(w)), s \notin Revealed(w)
             PROVE  s \in Open'
  OBVIOUS
<1>1. CASE s \in toSeed
  BY <1>1 DEF Open
<1>2. CASE \E v \in Listers : s = NextSeed(v)
  <2>1. PICK v \in Worker : Listing(v) /\ s = NextSeed(v)
    BY <1>2 DEF Listers
  <2>2. v \in Listers' /\ s = NextSeed(v)'
    BY <2>1 DEF Listers, Listing, NextSeed
  <2> QED
    BY <2>2 DEF Open
<1>3. CASE \E v \in Worker : s \in Revealed(v)
  <2>1. PICK v \in Worker : s \in Revealed(v)
    BY <1>3
  <2>2. s \in Revealed(v)'
    BY <2>1 DEF Revealed
  <2> QED
    BY <2>2 DEF Open
<1> QED
  BY <1>1, <1>2, <1>3 DEF Open

\* What is not on w's page stays in hand.
LEMMA OthersInHand ==
    ASSUME NEW w \in Worker, NEW o, InHand(o), ~(pc[w] = "page" /\ o \in todo[w]),
           UNCHANGED <<objCh, chk>>,
           \A v \in Worker \ {w} : pc'[v] = pc[v] /\ todo'[v] = todo[v]
    PROVE  InHand(o)'
BY DEF InHand

\* processPrefix ends with a record of where it stands, or at the end of the prefix:
\* the prefix and what its page revealed are listed from what is open.
LEMMA LeaveOpens ==
    ASSUME TypeOK, WorkerRange, PageShape, NEW w \in Worker,
           UNCHANGED <<toSeed, queue>>, Leave(w), Listing(w),
           \/ listFailed' = listFailed \cup {<<cur[w], tok[w]>>}
           \/ /\ listFailed' = listFailed /\ PageDone(w)
              /\ tok[w] + 1 = Len(Pages[cur[w]]),
           NEW S \in SUBSET AllPages, ListedFrom(Open', S)
    PROVE  /\ ListedFrom(Open, S)
           /\ <<cur[w], tok[w]>> \in listFailed' => <<cur[w], tok[w] + 1>> \in S
<1>1. /\ pc \in [Worker -> {"pop", "list", "page", "exit"}] /\ cur \in [Worker -> Prefix]
      /\ tok \in [Worker -> Nat] /\ subs \in [Worker -> SUBSET Prefix]
  BY DEF TypeOK, WorkerTypes, Token
<1>2. \A v \in Worker \ {w} : /\ pc'[v] = pc[v] /\ cur'[v] = cur[v] /\ tok'[v] = tok[v]
                              /\ subs'[v] = subs[v]
  BY <1>1 DEF Leave
<1>3. listFailed \cup Queued \subseteq Open'
  BY DEF Open, Queued
<1>4. cur[w] \in Prefix /\ tok[w] \in Nat /\ tok[w] + 1 \in PageNumbers(cur[w])
  BY <1>1, BucketPages DEF WorkerRange, InRange, PageNumbers
<1>5. ASSUME <<cur[w], tok[w]>> \in listFailed'
      PROVE  /\ \A k \in PageNumbers(cur[w]) : k > tok[w] => <<cur[w], k>> \in S
             /\ <<cur[w], tok[w] + 1>> \in S
             /\ \A q \in Subs(cur[w], tok[w] + 1) : \A k \in PageNumbers(q) : <<q, k>> \in S
  <2>1. <<cur[w], tok[w]>> \in Open'
    BY <1>5 DEF Open
  <2>2. \A k \in PageNumbers(cur[w]) : k > tok[w] => <<cur[w], k>> \in S
    BY <2>1 DEF ListedFrom
  <2>3. <<cur[w], tok[w] + 1>> \in S
    BY <1>4, <2>2
  <2> QED
    BY <2>2, <2>3 DEF ListedFrom, Subs
<1>6. ASSUME NEW s \in Open
      PROVE  s \in Open' \/ \A k \in PageNumbers(s[1]) : k > s[2] => <<s[1], k>> \in S
  <2>1. CASE Listing(w) /\ s = NextSeed(w) /\ <<cur[w], tok[w]>> \in listFailed'
    <3>1. s[1] = cur[w] /\ s[2] >= tok[w] /\ s[2] \in Nat
      BY <1>4, <2>1 DEF NextSeed
    <3> QED
      BY <1>4, <1>5, <2>1, <3>1 DEF PageNumbers
  <2>2. CASE s \in Revealed(w) /\ <<cur[w], tok[w]>> \in listFailed'
    <3>1. s[1] \in Subs(cur[w], tok[w] + 1)
      BY <2>2 DEF Revealed, PageShape
    <3> QED
      BY <1>5, <2>2, <3>1
  <2>3. CASE PageDone(w) /\ tok[w] + 1 = Len(Pages[cur[w]]) /\ (s = NextSeed(w) \/ s \in Revealed(w))
    <3>1. s[1] = cur[w] /\ s[2] = Len(Pages[cur[w]])
      BY <2>3 DEF PageDone, Revealed, NextSeed
    <3> QED
      BY <1>4, <3>1, BucketPages DEF PageNumbers
  <2> QED
    BY <1>2, <1>3, <2>1, <2>2, <2>3, OthersOpen
<1> QED
  BY <1>5, <1>6, ListedFromFewer

\* What the worker's page still holds is on a page to be listed again.
LEMMA LeaveResumable ==
    ASSUME TypeOK, WorkerRange, PageShape, Resumable, NEW w \in Worker,
           UNCHANGED <<mainVars, queue, objCh, chk, written, pushed>>, Leave(w), Listing(w),
           \/ listFailed' = listFailed \cup {<<cur[w], tok[w]>>}
           \/ /\ listFailed' = listFailed /\ PageDone(w)
              /\ tok[w] + 1 = Len(Pages[cur[w]])
    PROVE  Resumable'
<1>1. \A v \in Worker \ {w} : pc'[v] = pc[v] /\ todo'[v] = todo[v]
  BY DEF Leave, TypeOK, WorkerTypes
<1>2. toSeed' = toSeed /\ runs' = runs /\ main' = main
  BY DEF mainVars
<1>3. ASSUME NEW S \in SUBSET AllPages, ListedFrom(Open', S)
      PROVE  /\ ListedFrom(Open, S)
             /\ <<cur[w], tok[w]>> \in listFailed' => <<cur[w], tok[w] + 1>> \in S
  BY <1>2, <1>3, LeaveOpens
<1>4. ASSUME NEW S \in SUBSET AllPages, ListedFrom(Open', S), NEW o \in Object,
             o \in Done \/ InHand(o) \/ OnPage(o, S)
      PROVE  o \in Done' \/ InHand(o)' \/ OnPage(o, S)
  <2>1. CASE pc[w] = "page" /\ o \in todo[w]
    <3>1. o \in Objs(cur[w], tok[w] + 1) /\ <<cur[w], tok[w]>> \in listFailed'
      BY <2>1 DEF PageShape, PageDone
    <3>2. <<cur[w], tok[w] + 1>> \in S
      BY <1>3, <1>4, <3>1
    <3>3. OnPage(o, S)
      BY <3>1, <3>2 DEF OnPage
    <3> QED
      BY <3>3
  <2>2. CASE ~(pc[w] = "page" /\ o \in todo[w])
    <3>1. InHand(o) => InHand(o)'
      BY <1>1, <2>2, OthersInHand
    <3> QED
      BY <1>4, <3>1 DEF Done
  <2> QED
    BY <2>1, <2>2
<1> QED
  BY <1>2, <1>3, <1>4, ResumableBy

\* ListPage: the page moves from what is to be listed into the worker's hands.
LEMMA ListPageOpens ==
    ASSUME TypeOK, WorkerRange, NEW w \in Worker, ListPage(w),
           NEW S \in SUBSET AllPages, ListedFrom(Open', S)
    PROVE  /\ S \cup {<<cur[w], tok[w] + 1>>} \in SUBSET AllPages
           /\ ListedFrom(Open, S \cup {<<cur[w], tok[w] + 1>>})
<1> DEFINE p == cur[w]
           k == tok[w] + 1
           X == S \cup {<<p, k>>}
<1>1. /\ pc \in [Worker -> {"pop", "list", "page", "exit"}] /\ cur \in [Worker -> Prefix]
      /\ tok \in [Worker -> Nat] /\ subs \in [Worker -> SUBSET Prefix]
  BY DEF TypeOK, WorkerTypes, Token
<1>2. /\ \A v \in Worker \ {w} : /\ pc'[v] = pc[v] /\ cur'[v] = cur[v] /\ tok'[v] = tok[v]
                                 /\ subs'[v] = subs[v]
      /\ pc[w] = "list" /\ pc'[w] = "page" /\ cur'[w] = p /\ tok'[w] = tok[w]
      /\ subs'[w] = Subs(p, k)
  BY <1>1 DEF ListPage, Subs
<1>3. /\ UNCHANGED <<toSeed, queue, listFailed>>
  BY DEF ListPage, mainVars, queueVars, outVars
<1>4. listFailed \cup Queued \subseteq Open'
  BY <1>3 DEF Open, Queued
<1>5. p \in Prefix /\ tok[w] \in Nat /\ k \in PageNumbers(p)
  BY <1>1, BucketPages DEF WorkerRange, InRange, PageNumbers
<1>6. <<p, k>> \in AllPages
  BY <1>5 DEF AllPages
<1>7. <<p, k>> \in Open' /\ \A q \in Subs(p, k) : <<q, 0>> \in Open'
  <2>1. w \in Listers' /\ NextSeed(w)' = <<p, k>> /\ Revealed(w)' = {<<q, 0>> : q \in Subs(p, k)}
    BY <1>2 DEF Listers, Listing, NextSeed, Revealed
  <2> QED
    BY <2>1 DEF Open
<1>8. ASSUME NEW q \in Subs(p, k), NEW i \in PageNumbers(q)
      PROVE  <<q, i>> \in S
  <2>1. <<q, 0>> \in Open' /\ i > 0
    BY <1>7 DEF PageNumbers
  <2> QED
    BY <2>1 DEF ListedFrom
<1>9. ListedFrom(Open', X)
  <2>1. \A s \in Open' : \A i \in PageNumbers(s[1]) : i > s[2] => <<s[1], i>> \in X
    BY DEF ListedFrom
  <2>2. ASSUME NEW pg \in X, NEW q \in Pages[pg[1]][pg[2]].subs, NEW i \in PageNumbers(q)
        PROVE  <<q, i>> \in X
    <3>1. CASE pg \in S
      BY <2>2, <3>1 DEF ListedFrom
    <3>2. CASE pg = <<p, k>>
      BY <1>8, <2>2, <3>2 DEF Subs
    <3> QED
      BY <3>1, <3>2
  <2> QED
    BY <2>1, <2>2 DEF ListedFrom
<1>10. ASSUME NEW s \in Open
       PROVE  s \in Open' \/ \A i \in PageNumbers(s[1]) : i > s[2] => <<s[1], i>> \in X
  <2>1. CASE s = NextSeed(w)
    <3>1. s[1] = p /\ s[2] = tok[w]
      BY <1>2, <2>1 DEF NextSeed
    <3>2. \A i \in PageNumbers(p) : i > k => <<p, i>> \in S
      BY <1>7 DEF ListedFrom
    <3>3. \A i \in PageNumbers(p) : i > tok[w] => i > k \/ i = k
      BY <1>5 DEF PageNumbers
    <3> QED
      BY <3>1, <3>2, <3>3
  <2>2. s \notin Revealed(w)
    BY <1>2 DEF Revealed
  <2> QED
    BY <1>2, <1>3, <1>4, <2>1, <2>2, OthersOpen
<1>11. ListedFrom(Open, X)
  BY <1>9, <1>10, ListedFromFewer
<1> QED
  BY <1>6, <1>11

\* A listed page: what it reveals and holds replaces the page in what is open.
LEMMA ListPageResumable ==
    ASSUME TypeOK, WorkerRange, Resumable, NEW w \in Worker, ListPage(w)
    PROVE  Resumable'
<1> DEFINE p == cur[w]
           k == tok[w] + 1
<1>1. /\ \A v \in Worker \ {w} : pc'[v] = pc[v] /\ todo'[v] = todo[v]
      /\ pc[w] = "list" /\ pc'[w] = "page" /\ todo'[w] = Objs(p, k)
  BY DEF ListPage, Objs, TypeOK, WorkerTypes
<1>2. /\ UNCHANGED <<main, runs, objCh, chk, pushed, written>>
  BY DEF ListPage, mainVars, checkVars, outVars
<1>3. ASSUME NEW S \in SUBSET AllPages, ListedFrom(Open', S)
      PROVE  \E X \in SUBSET AllPages :
                /\ ListedFrom(Open, X)
                /\ \A o \in Object : o \in Done \/ InHand(o) \/ OnPage(o, X) =>
                                     o \in Done' \/ InHand(o)' \/ OnPage(o, S)
  <2> DEFINE X == S \cup {<<p, k>>}
  <2>1. X \in SUBSET AllPages /\ ListedFrom(Open, X)
    BY <1>3, ListPageOpens
  <2>2. ASSUME NEW o \in Object, o \in Done \/ InHand(o) \/ OnPage(o, X)
        PROVE  o \in Done' \/ InHand(o)' \/ OnPage(o, S)
    <3>1. CASE o \in Objs(p, k)
      <4>1. InHand(o)'
        BY <1>1, <3>1 DEF InHand
      <4> QED
        BY <4>1
    <3>2. CASE InHand(o)
      <4>1. InHand(o)'
        BY <1>1, <1>2, <3>2, OthersInHand
      <4> QED
        BY <4>1
    <3>3. CASE o \in Done
      BY <1>2, <3>3 DEF Done
    <3>4. CASE OnPage(o, X) /\ o \notin Objs(p, k)
      <4>1. OnPage(o, S)
        BY <3>4 DEF OnPage
      <4> QED
        BY <4>1
    <3> QED
      BY <2>2, <3>1, <3>2, <3>3, <3>4
  <2> QED
    BY <2>1, <2>2
<1> QED
  BY <1>1, <1>2, <1>3, ResumableBy

\* A step that keeps what is open and in hand at the workers, the queue and the seeds.
LEMMA ElsewhereResumable ==
    ASSUME Resumable, UNCHANGED <<toSeed, queue, workerVars, runs>>,
           main' # "down" => main # "down", listFailed \subseteq listFailed',
           \A o \in Object : o \in Done \/ InHand(o) => o \in Done' \/ InHand(o)'
    PROVE  Resumable'
<1>1. Open \subseteq Open'
  BY DEF Open, Queued, Listers, Listing, NextSeed, Revealed, workerVars
<1> QED
  BY <1>1, ResumableKept

\* The elements of a queue with one more, and of its tail.
LEMMA AppendElements ==
    ASSUME NEW Item, NEW q \in Seq(Item), NEW x \in Item
    PROVE  /\ \A i \in DOMAIN q : i \in DOMAIN Append(q, x) /\ Append(q, x)[i] = q[i]
           /\ Len(q) + 1 \in DOMAIN Append(q, x) /\ Append(q, x)[Len(q) + 1] = x
BY AppendProperties

\* An item behind the head of the queue is in its tail.
LEMMA TailElements ==
    ASSUME NEW Item, NEW q \in Seq(Item), q # <<>>, NEW i \in DOMAIN q, i # 1
    PROVE  \E j \in DOMAIN Tail(q) : Tail(q)[j] = q[i]
<1>1. i \in 2 .. Len(q) /\ Tail(q) \in Seq(Item) /\ Len(Tail(q)) = Len(q) - 1
      /\ \A j \in 1 .. Len(Tail(q)) : Tail(q)[j] = q[j + 1]
  BY HeadTailProperties
<1>2. i - 1 \in 1 .. Len(Tail(q)) /\ DOMAIN Tail(q) = 1 .. Len(Tail(q)) /\ (i - 1) + 1 = i
  BY <1>1
<1>3. Tail(q)[i - 1] = q[i]
  BY <1>1, <1>2
<1> QED
  BY <1>2, <1>3

\* The other steps of a worker: what was open still is.
LEMMA WorkerOpens ==
    ASSUME TypeOK, FlowOK, NEW w \in Worker,
           \/ Pop(w) \/ PopFails(w) \/ TurnPage(w) \/ Enqueue(w)
           \/ AddDiscovered(w) \/ Emit(w) \/ EmitLocally(w)
    PROVE  Open \subseteq Open'
<1>1. /\ pc \in [Worker -> {"pop", "list", "page", "exit"}] /\ cur \in [Worker -> Prefix]
      /\ tok \in [Worker -> Nat] /\ subs \in [Worker -> SUBSET Prefix] /\ queue \in Seq(Seed)
  BY DEF TypeOK, WorkerTypes, QueueTypes, Token
<1>2. UNCHANGED <<toSeed, listFailed>>
  BY DEF Pop, PopFails, TurnPage, Enqueue, AddDiscovered, Emit, EmitLocally, mainVars, outVars
<1>3. CASE Pop(w)
  <2>1. /\ Head(queue) \in Seed /\ Head(queue) = <<Head(queue)[1], Head(queue)[2]>>
    BY <1>1, <1>3 DEF Pop, Seed
  <2>2. /\ pc[w] = "pop" /\ pc'[w] = "list" /\ cur'[w] = Head(queue)[1] /\ tok'[w] = Head(queue)[2]
        /\ \A v \in Worker \ {w} : /\ pc'[v] = pc[v] /\ cur'[v] = cur[v] /\ tok'[v] = tok[v]
                                   /\ subs'[v] = subs[v]
        /\ queue' = Tail(queue) /\ queue # <<>>
    BY <1>1, <1>3 DEF Pop
  <2>3. Head(queue) \in Open'
    <3>1. w \in Listers' /\ NextSeed(w)' = Head(queue)
      BY <2>1, <2>2 DEF Listers, Listing, NextSeed
    <3> QED
      BY <3>1 DEF Open
  <2>4. ASSUME NEW s \in Queued
        PROVE  s \in Open'
    <3>1. PICK i \in DOMAIN queue : s = queue[i]
      BY DEF Queued
    <3>2. CASE i = 1
      BY <2>2, <2>3, <3>1, <3>2
    <3>3. CASE i # 1
      <4>1. queue \in Seq(Seed) /\ queue # <<>> /\ Head(queue) \in Seed
        BY <1>1, <2>1, <2>2
      <4>2. \E j \in DOMAIN Tail(queue) : Tail(queue)[j] = queue[i]
        BY <3>3, <4>1, TailElements
      <4>3. s \in Queued'
        BY <2>2, <3>1, <4>2 DEF Queued
      <4> QED
        BY <4>3 DEF Open
    <3> QED
      BY <3>2, <3>3
  <2>5. ~Listing(w) /\ Revealed(w) = {}
    BY <2>2 DEF Listing, Revealed
  <2>6. listFailed \subseteq Open'
    BY <1>2 DEF Open
  <2> QED
    BY <1>2, <2>2, <2>4, <2>5, <2>6, OthersOpen
<1>4. CASE PopFails(w) \/ TurnPage(w)
  <2>1. /\ subs[w] = {} \/ pc[w] # "page"
        /\ Listing(w) => Listing(w)' /\ NextSeed(w)' = NextSeed(w)
        /\ \A v \in Worker \ {w} : /\ pc'[v] = pc[v] /\ cur'[v] = cur[v] /\ tok'[v] = tok[v]
                                   /\ subs'[v] = subs[v]
        /\ queue' = queue
    BY <1>1, <1>4 DEF PopFails, TurnPage, PageDone, Listing, NextSeed, queueVars
  <2>2. Revealed(w) = {}
    BY <2>1 DEF Revealed
  <2>3. listFailed \cup Queued \subseteq Open'
    BY <1>2, <2>1 DEF Open, Queued
  <2>4. Listing(w) => NextSeed(w) \in Open'
    BY <2>1 DEF Open, Listers
  <2> QED
    BY <1>2, <2>1, <2>2, <2>3, <2>4, OthersOpen
<1>5. CASE AddDiscovered(w) \/ Emit(w) \/ EmitLocally(w)
  <2>1. UNCHANGED <<toSeed, listFailed, queue, pc, cur, tok, subs>>
    BY <1>5 DEF AddDiscovered, Emit, EmitLocally, mainVars, queueVars, outVars
  <2> QED
    BY <2>1 DEF Open, Queued, Listers, Listing, NextSeed, Revealed
<1>6. CASE Enqueue(w)
  <2>1. PICK s \in subs[w] : subs' = [subs EXCEPT ![w] = @ \ {s}] /\ Push(<<s, 0>>)
    BY <1>6 DEF Enqueue
  <2>2. pc[w] = "page" /\ UNCHANGED <<closed, pc, cur, tok>>
    BY <1>6 DEF Enqueue
  <2>3. queue' = Append(queue, <<s, 0>>)
    BY <2>1, <2>2 DEF Push, FlowOK, Listers, Listing
  <2>4. Queued \cup {<<s, 0>>} \subseteq Queued'
    <3>1. <<s, 0>> \in Seed
      BY <1>1 DEF Seed, Token
    <3>2. /\ \A i \in DOMAIN queue : i \in DOMAIN queue' /\ queue'[i] = queue[i]
          /\ Len(queue) + 1 \in DOMAIN queue' /\ queue'[Len(queue) + 1] = <<s, 0>>
      BY <1>1, <2>3, <3>1, AppendElements
    <3> QED
      BY <3>2 DEF Queued
  <2>5. ASSUME NEW q \in Revealed(w)
        PROVE  q \in Open'
    <3>1. q \in Revealed(w)' \/ q = <<s, 0>>
      BY <1>1, <2>1, <2>2 DEF Revealed
    <3> QED
      BY <2>4, <3>1 DEF Open
  <2>6. listFailed \cup Queued \subseteq Open'
    BY <1>2, <2>4 DEF Open
  <2>7. Listing(w) => NextSeed(w) \in Open'
    BY <2>2 DEF Open, Listers, Listing, NextSeed
  <2>8. \A v \in Worker \ {w} : /\ pc'[v] = pc[v] /\ cur'[v] = cur[v] /\ tok'[v] = tok[v]
                                /\ subs'[v] = subs[v]
    BY <1>1, <2>1, <2>2
  <2> QED
    BY <1>2, <2>5, <2>6, <2>7, <2>8, OthersOpen
<1> QED
  BY <1>3, <1>4, <1>5, <1>6

\* Every step of a list worker keeps Resumable.
LEMMA ListWorkerResumable ==
    ASSUME TypeOK, WorkerRange, FlowOK, PageShape, Resumable,
           NEW w \in Worker, ListWorker(w) \/ ListFails(w)
    PROVE  Resumable'
<1>1. /\ pc \in [Worker -> {"pop", "list", "page", "exit"}] /\ cur \in [Worker -> Prefix]
      /\ tok \in [Worker -> Nat] /\ subs \in [Worker -> SUBSET Prefix]
      /\ todo \in [Worker -> SUBSET Object] /\ queue \in Seq(Seed) /\ objCh \in Seq(Task)
  BY DEF TypeOK, WorkerTypes, QueueTypes, CheckTypes, Token
<1>2. CASE ListFails(w)
  BY <1>2, LeaveResumable DEF ListFails, Listing, checkVars
<1>3. CASE HardAbort(w)
  BY <1>3, LeaveResumable DEF HardAbort, Listing, checkVars
<1>4. CASE LastPage(w)
  BY <1>4, LeaveResumable DEF LastPage, PageDone, Listing, checkVars, outVars
<1>5. CASE Pop(w) \/ PopFails(w) \/ TurnPage(w)
  <2>1. /\ UNCHANGED <<runs, main, objCh, chk, written, pushed>>
        /\ todo[w] = {} \/ pc[w] # "page"
        /\ \A v \in Worker \ {w} : pc'[v] = pc[v] /\ todo'[v] = todo[v]
    BY <1>1, <1>5 DEF Pop, PopFails, TurnPage, PageDone, mainVars, checkVars, outVars
  <2>2. \A o \in Object : o \in Done \/ InHand(o) => o \in Done' \/ InHand(o)'
    BY <2>1, OthersInHand DEF Done
  <2> QED
    BY <1>5, <2>1, <2>2, WorkerOpens, ResumableKept
<1>6. CASE AddDiscovered(w) \/ Enqueue(w)
  <2>1. UNCHANGED <<runs, main, pc, todo, objCh, chk, written, pushed>>
    BY <1>6 DEF AddDiscovered, Enqueue, mainVars, checkVars, outVars
  <2>2. \A o \in Object : o \in Done \/ InHand(o) => o \in Done' \/ InHand(o)'
    BY <2>1 DEF Done, InHand
  <2> QED
    BY <1>6, <2>1, <2>2, WorkerOpens, ResumableKept
<1>7. CASE Emit(w) \/ EmitLocally(w)
  <2>1. UNCHANGED <<toSeed, runs, main, listFailed, queue, pc, cur, tok, subs, chk>>
    BY <1>7 DEF Emit, EmitLocally, mainVars, queueVars, checkVars, outVars
  <2>2. Open \subseteq Open'
    BY <1>7, WorkerOpens
  <2>3. PICK o \in todo[w] :
          /\ todo' = [todo EXCEPT ![w] = @ \ {o}]
          /\ \/ /\ objCh' = Append(objCh, [obj |-> o, prefix |-> cur[w], seq |-> seq[w]])
                /\ Done' = Done
             \/ objCh' = objCh /\ o \in Done' /\ Done \subseteq Done'
    <3>1. CASE Emit(w)
      BY <3>1 DEF Emit, Done, outVars
    <3>2. CASE EmitLocally(w)
      BY <3>2 DEF EmitLocally, Done, checkVars
    <3> QED
      BY <1>7, <3>1, <3>2
  <2>4. [obj |-> o, prefix |-> cur[w], seq |-> seq[w]] \in Task
    BY <1>1 DEF Task, TypeOK, WorkerTypes
  <2>5. ASSUME NEW b \in Object, InHand(b), b # o
        PROVE  InHand(b)'
    <3>1. CASE \E v \in Worker : pc[v] = "page" /\ b \in todo[v]
      BY <1>1, <2>1, <2>3, <2>5, <3>1 DEF InHand
    <3>2. CASE \E i \in DOMAIN objCh : objCh[i].obj = b
      <4>1. PICK i \in DOMAIN objCh : objCh[i].obj = b
        BY <3>2
      <4>2. CASE objCh' = objCh
        BY <4>1, <4>2 DEF InHand
      <4>3. CASE objCh' = Append(objCh, [obj |-> o, prefix |-> cur[w], seq |-> seq[w]])
        <5>1. i \in DOMAIN objCh' /\ objCh'[i] = objCh[i]
          BY <1>1, <2>4, <4>1, <4>3, AppendElements
        <5> QED
          BY <4>1, <5>1 DEF InHand
      <4> QED
        BY <2>3, <4>2, <4>3
    <3>3. CASE \E c \in Checker : chk[c] # NoTask /\ chk[c].obj = b
      BY <2>1, <3>3 DEF InHand
    <3> QED
      BY <2>5, <3>1, <3>2, <3>3 DEF InHand
  <2>6. InHand(o)' \/ o \in Done'
    <3>1. CASE o \notin Done'
      <4>1. objCh' = Append(objCh, [obj |-> o, prefix |-> cur[w], seq |-> seq[w]])
        BY <2>3, <3>1
      <4>2. Len(objCh) + 1 \in DOMAIN objCh' /\ objCh'[Len(objCh) + 1].obj = o
        BY <1>1, <2>4, <4>1, AppendElements
      <4> QED
        BY <4>2 DEF InHand
    <3> QED
      BY <3>1
  <2>7. \A b \in Object : b \in Done \/ InHand(b) => b \in Done' \/ InHand(b)'
    BY <2>3, <2>5, <2>6
  <2> QED
    BY <2>1, <2>2, <2>7, ResumableKept
<1> QED
  BY <1>2, <1>3, <1>4, <1>5, <1>6, <1>7, ListPageResumable DEF ListWorker

\* So does every step of a checker: an object leaves its hands with a line.
LEMMA CheckWorkerResumable ==
    ASSUME TypeOK, HandledOK, Resumable, NEW c \in Checker, CheckWorker(c)
    PROVE  Resumable'
<1>1. /\ objCh \in Seq(Task) /\ chk \in [Checker -> Task \cup {NoTask}]
  BY DEF TypeOK, CheckTypes
<1>2. UNCHANGED <<toSeed, queue, workerVars, runs, main, listFailed, written>>
  BY DEF CheckWorker, Receive, Handle, Report, mainVars, queueVars, outVars
<1>3. UNCHANGED <<pc, todo>>
  BY <1>2 DEF workerVars
<1>4. ASSUME NEW o \in Object, o \in Done \/ InHand(o)
      PROVE  o \in Done' \/ InHand(o)'
  <2>1. CASE Receive(c)
    <3>1. /\ objCh # <<>> /\ objCh' = Tail(objCh) /\ pushed' = pushed /\ chk[c] = NoTask
          /\ chk' = [chk EXCEPT ![c] = Head(objCh)]
      BY <2>1 DEF Receive, outVars
    <3>2. CASE \E i \in DOMAIN objCh : objCh[i].obj = o
      <4>1. PICK i \in DOMAIN objCh : objCh[i].obj = o
        BY <3>2
      <4>2. CASE i = 1
        <5>1. chk'[c] = objCh[1] /\ objCh[1] \in Task
          BY <1>1, <3>1, ElementOfSeq
        <5>2. chk'[c] # NoTask /\ chk'[c].obj = o
          BY <4>1, <4>2, <5>1, ConfigAssumption
        <5> QED
          BY <5>2 DEF InHand
      <4>3. CASE i # 1
        <5>1. \E j \in DOMAIN Tail(objCh) : Tail(objCh)[j] = objCh[i]
          BY <1>1, <3>1, <4>3, TailElements
        <5> QED
          BY <3>1, <4>1, <5>1 DEF InHand
      <4> QED
        BY <4>2, <4>3
    <3>3. CASE \E d \in Checker : chk[d] # NoTask /\ chk[d].obj = o
      BY <1>1, <3>1, <3>3 DEF InHand
    <3>4. CASE \E w \in Worker : pc[w] = "page" /\ o \in todo[w]
      BY <1>3, <3>4 DEF InHand
    <3>5. CASE o \in Done
      BY <1>2, <3>1, <3>5 DEF Done
    <3> QED
      BY <1>4, <3>2, <3>3, <3>4, <3>5 DEF InHand
  <2>2. CASE Handle(c)
    <3>1. pushed \subseteq pushed' /\ UNCHANGED <<objCh, chk>>
      BY <2>2 DEF Handle
    <3> QED
      BY <1>2, <1>3, <1>4, <3>1 DEF Done, InHand
  <2>3. CASE Report(c)
    <3>1. /\ UNCHANGED <<objCh, pushed>> /\ chk' = [chk EXCEPT ![c] = NoTask] /\ c \in handled
      BY <2>3 DEF Report, outVars
    <3>2. chk[c].obj \in Done /\ Done' = Done
      BY <1>2, <3>1 DEF HandledOK, Done
    <3> QED
      BY <1>1, <1>3, <1>4, <3>1, <3>2 DEF InHand
  <2> QED
    BY <2>1, <2>2, <2>3 DEF CheckWorker
<1> QED
  BY <1>2, <1>4, ElsewhereResumable

\* So does every step of the main goroutine.
LEMMA MainResumable ==
    ASSUME TypeOK, FirstRun, Resumable, MainStep
    PROVE  Resumable'
<1>1. /\ main # "down" /\ UNCHANGED <<runs, workerVars, checkVars, pushed>> /\ written \subseteq written'
  BY DEF MainStep, Seeding, CheckpointNow, CloseIfUnseeded, AllWorkDone, CloseOutput, outVars
<1>2. UNCHANGED <<pc, cur, tok, subs, todo, objCh, chk>>
  BY <1>1 DEF workerVars, checkVars
<1>3. \A o \in Object : o \in Done \/ InHand(o) => o \in Done' \/ InHand(o)'
  BY <1>1, <1>2 DEF Done, InHand
<1>4. CASE Seeding
  <2>1. PICK s \in toSeed : toSeed' = toSeed \ {s} /\ Push(s)
    BY <1>4 DEF Seeding
  <2>2. UNCHANGED <<closed, listFailed>> /\ queue \in Seq(Seed) /\ s \in Seed
    BY <1>4, <2>1 DEF Seeding, outVars, TypeOK, QueueTypes, MainTypes
  <2>3. CASE runs = 1
    <3>1. queue' = Append(queue, s)
      BY <2>1, <2>3 DEF Push, FirstRun
    <3>2. /\ \A i \in DOMAIN queue : i \in DOMAIN queue' /\ queue'[i] = queue[i]
          /\ Len(queue) + 1 \in DOMAIN queue' /\ queue'[Len(queue) + 1] = s
      BY <2>2, <3>1, AppendElements
    <3>3. Queued \cup {s} \subseteq Queued'
      BY <3>2 DEF Queued
    <3>4. Open \subseteq Open'
      BY <1>2, <2>1, <2>2, <3>3 DEF Open, Listers, Listing, NextSeed, Revealed
    <3> QED
      BY <1>1, <1>3, <3>4, ResumableKept
  <2>4. CASE runs # 1
    BY <1>1, <2>4 DEF Resumable
  <2> QED
    BY <2>3, <2>4
<1>5. CASE CheckpointNow \/ CloseIfUnseeded \/ CloseOutput
  <2>1. UNCHANGED <<toSeed, queue, listFailed>>
    BY <1>5 DEF CheckpointNow, CloseIfUnseeded, CloseOutput, queueVars, outVars
  <2> QED
    BY <1>1, <1>3, <2>1, ElsewhereResumable
<1>6. CASE AllWorkDone
  <2>1. /\ toSeed' = toSeed
        /\ listFailed \cup Queued \subseteq listFailed' \cup Queued'
    BY <1>6 DEF AllWorkDone, DrainQueuedPrefixes, Queued
  <2>2. Open \subseteq Open'
    BY <1>2, <2>1 DEF Open, Listers, Listing, NextSeed, Revealed
  <2> QED
    BY <1>1, <1>3, <2>2, ResumableKept
<1> QED
  BY <1>4, <1>5, <1>6 DEF MainStep

\* A new process of the original command: the root reaches everything.
LEMMA StartResumable ==
    ASSUME RootReachesAll, TypeOK, FirstRun, StartScan \/ Resume
    PROVE  Resumable'
<1>1. CASE StartScan
  <2>1. toSeed' = {<<Root, 0>>}
    BY <1>1 DEF StartScan, Start
  <2>2. {<<Root, 0>>} \subseteq Open'
    BY <2>1 DEF Open
  <2>3. ASSUME NEW S \in SUBSET AllPages, ListedFrom(Open', S), NEW o \in Object
        PROVE  OnPage(o, S)
    <3>1. ListedFrom({<<Root, 0>>}, S)
      BY <2>2, <2>3, ListedFromFewer
    <3> QED
      BY <3>1 DEF RootReachesAll, OnPage, Objs
  <2> QED
    BY <2>3 DEF Resumable, ListedFrom, OnPage, AllPages
<1>2. CASE Resume
  <2>1. runs' = runs + 1 /\ runs # 0 /\ runs \in Nat
    BY <1>2 DEF Resume, Start, FirstRun, TypeOK, MainTypes
  <2>2. runs' # 1
    BY <2>1
  <2> QED
    BY <2>2 DEF Resumable
<1> QED
  BY <1>1, <1>2

\* Resumable is inductive.
LEMMA ResumableStep ==
    ASSUME RootReachesAll, TypeOK, RangeOK, CourseOK, Resumable, [Next]_vars
    PROVE  Resumable'
<1> USE DEF CourseOK
<1>1. ASSUME NEW w \in Worker, ListWorker(w) \/ ListFails(w)
      PROVE  Resumable'
  BY <1>1, ListWorkerResumable DEF RangeOK
<1>2. ASSUME NEW c \in Checker, CheckWorker(c)
      PROVE  Resumable'
  BY <1>2, CheckWorkerResumable
<1>3. CASE WriterFlush \/ Signal \/ Checkpointing \/ Terminated \/ UNCHANGED vars
           \/ \E why \in {"tick", "trigger", "final"} : Snapshot(why)
  <2>1. UNCHANGED <<toSeed, queue, workerVars, runs, listFailed, objCh, chk, pushed>>
        /\ written \subseteq written'
    BY <1>3 DEF WriterFlush, Signal, Snapshot, Terminated, vars, Checkpointing, FlushAndWait,
       AppendBatch, ShortWrite, CommitBatch, CheckpointReturns, mainVars, queueVars, checkVars, outVars
  <2>2. main' # "down" => main # "down"
    <3>1. CASE Checkpointing
      BY <3>1 DEF Checkpointing, FlushAndWait, AppendBatch, ShortWrite, CommitBatch, MainOK
    <3>2. CASE ~Checkpointing
      BY <1>3, <3>2 DEF WriterFlush, Signal, Snapshot, Terminated, vars, mainVars
    <3> QED
      BY <3>1, <3>2
  <2>3. \A o \in Object : o \in Done \/ InHand(o) => o \in Done' \/ InHand(o)'
    BY <2>1 DEF Done, InHand, workerVars
  <2> QED
    BY <2>1, <2>2, <2>3, ElsewhereResumable
<1>4. CASE Kill
  BY <1>4 DEF Kill, Resumable
<1> QED
  BY <1>1, <1>2, <1>3, <1>4, MainResumable, StartResumable DEF Next

\* When the first run has ended nothing is open but the lines of list_failed, and
\* nothing is in hand.
LEMMA EndResumable ==
    ASSUME TypeOK, CourseOK, Resumable
    PROVE  InterruptedRunResumable
<1> SUFFICES ASSUME main = "ended", runs = 1, NEW S \in SUBSET AllPages, ListedFrom(listFailed, S),
                    NEW o \in Object \ written
             PROVE  \E pg \in S : o \in Pages[pg[1]][pg[2]].objs
  BY DEF InterruptedRunResumable, Covers
<1>1. toSeed = {} /\ AllQuiet /\ pushed \subseteq written
  BY DEF CourseOK, MainOK
<1>2. Open = listFailed
  BY <1>1 DEF AllQuiet, Open, Queued, Listers, Listing, Revealed
<1>3. ~InHand(o) /\ o \notin Done
  BY <1>1 DEF AllQuiet, InHand, Done
<1>4. OnPage(o, S)
  BY <1>2, <1>3 DEF Resumable
<1> QED
  BY <1>4 DEF OnPage, Objs

\* However the signals, the LIST errors and the steps of the goroutines of the first
\* run fall, and whatever became of its journal: when run() has returned, the lines
\* of list_failed are seeds from which every object without a result line is listed
\* again (main.go, two-stage shutdown; lister.go, processPrefix).
THEOREM InterruptedRunCanResume ==
    ASSUME RootReachesAll
    PROVE  Spec => []InterruptedRunResumable
<1>1. Init => TypeOK /\ RangeOK /\ CourseOK /\ Resumable
  <2>1. Init => Resumable
    BY DEF Init, Resumable
  <2> QED
    BY <2>1, TypeInit, CourseInit
<1>2. TypeOK /\ RangeOK /\ CourseOK /\ Resumable /\ [Next]_vars
        => (TypeOK /\ RangeOK /\ CourseOK /\ Resumable)'
  <2> SUFFICES ASSUME TypeOK, RangeOK, CourseOK, Resumable, [Next]_vars
               PROVE  (TypeOK /\ RangeOK /\ CourseOK /\ Resumable)'
    OBVIOUS
  <2>1. TypeOK' /\ RangeOK'
    BY TypeStep
  <2>2. CourseOK'
    BY <2>1, CourseStep
  <2>3. Resumable'
    BY ResumableStep
  <2> QED
    BY <2>1, <2>2, <2>3
<1>3. TypeOK /\ RangeOK /\ CourseOK /\ Resumable => InterruptedRunResumable
  BY EndResumable
<1> QED
  BY <1>1, <1>2, <1>3, PTL DEF Spec
-----------------------------------------------------------------------------
(* CleanRunJournalsAll, where no short write follows another *)

\* Steps that end a process or start one; every other step is one of a process.
Restart == Kill \/ StartScan \/ Resume

\* What a batch does to the journal: its discoveries reach it but for the one whose line
\* continued a fragment; its cursors and dones all reach it.
LEMMA AppendWhole ==
    ASSUME TypeOK, TornOK, AppendBatch
    PROVE  /\ ckpt = "append" /\ ckpt' = "commit"
           /\ \E D \in SUBSET snap.disc :
                journaled' = journaled \cup D \cup {c[1] : c \in snap.cursors} \cup snap.dones
           /\ jdone' = (jdone \ {c[1] : c \in snap.cursors}) \cup snap.dones
           /\ fd' = IF snap = NoBatch THEN fd ELSE "end"
           /\ UNCHANGED <<main, ckptFor, snap, pend, tracked, toSeed, queue, workerVars, listFailed>>
<1>1. PICK b \in ReachesFile(snap) : Replay(b)
  BY DEF AppendBatch
<1>2. b.disc \subseteq snap.disc /\ b.cursors = snap.cursors /\ b.dones = snap.dones
  <2>1. CASE Glues(snap)
    <3>1. snap.disc # {}
      BY <2>1 DEF Glues, TornOK
    <3>2. PICK p \in snap.disc : b = [snap EXCEPT !.disc = @ \ {p}]
      BY <1>1, <2>1, <3>1 DEF ReachesFile, LoseFirstLine
    <3> QED
      BY <3>2 DEF TypeOK, CkptTypes
  <2>2. CASE ~Glues(snap)
    BY <1>1, <2>2 DEF ReachesFile
  <2> QED
    BY <2>1, <2>2
<1>3. /\ journaled' = journaled \cup b.disc \cup {c[1] : c \in snap.cursors} \cup snap.dones
      /\ jdone' = (jdone \ {c[1] : c \in snap.cursors}) \cup snap.dones
  BY <1>1, <1>2 DEF Replay
<1> QED
  BY <1>2, <1>3 DEF AppendBatch, mainVars, queueVars, stateVars, outVars

\* A failed append leaves the journal as it was, or empty.
LEMMA ShortWriteWhole ==
    ASSUME ~RetryMayFail, ShortWrite
    PROVE  /\ \/ fd = "end" /\ UNCHANGED <<journaled, jdone>>
              \/ fd = "start" /\ journaled' = {} /\ jdone' = {}
           /\ fd' = "stale" /\ ckpt = "append" /\ ckpt' = "idle" /\ snap' = NoBatch
           /\ UNCHANGED <<pend, tracked, toSeed, queue, workerVars, listFailed>>
BY DEF ShortWrite, EmptyJournal, CheckpointReturns, queueVars, stateVars, outVars

\* What a process has counted, received and failed to list only grows.
LEMMA SmoothBefore ==
    ASSUME TypeOK, TypeOK', FlowOK, [Next]_vars, ~Restart, Smooth'
    PROVE  Smooth /\ (Seeding => ~closed)
<1>1. sig \in Nat /\ inflight \in Int /\ queue \in Seq(Seed) /\ Len(queue) \in Nat
  BY DEF TypeOK, MainTypes, QueueTypes
<1>2. CASE \E w \in Worker : ListWorker(w) \/ ListFails(w)
  <2>1. PICK w \in Worker : ListWorker(w) \/ ListFails(w)
    BY <1>2
  <2>2. Excess' = Excess
    BY <2>1, ListWorkerFlow
  <2>3. sig' = sig /\ listFailed \subseteq listFailed' /\ main' = main /\ toSeed' = toSeed
    BY <2>1 DEF ListWorker, ListFails, Pop, PopFails, ListPage, AddDiscovered, Emit, EmitLocally,
       HardAbort, Enqueue, TurnPage, LastPage, mainVars, outVars
  <2>4. ~Seeding
    BY <2>3 DEF Seeding
  <2> QED
    BY <2>2, <2>3, <2>4 DEF Smooth
<1>3. CASE MainStep
  BY <1>3, MainFlow
<1>4. CASE \/ \E c \in Checker : CheckWorker(c)
           \/ \E why \in {"tick", "trigger", "final"} : Snapshot(why)
           \/ WriterFlush \/ Checkpointing \/ Terminated \/ UNCHANGED vars
  <2>1. UNCHANGED <<sig, listFailed, queue, inflight, pc, toSeed>>
    BY <1>4 DEF CheckWorker, Receive, Handle, Report, WriterFlush, Snapshot, Checkpointing,
       FlushAndWait, AppendBatch, ShortWrite, CommitBatch, CheckpointReturns, Terminated, vars,
       mainVars, queueVars, workerVars, outVars
  <2>2. Excess' = Excess
    BY <2>1 DEF Excess, Listers, Listing
  <2> QED
    BY <2>1, <2>2 DEF Smooth, Seeding
<1>5. CASE Signal
  BY <1>1, <1>5 DEF Signal, Smooth
<1> QED
  BY <1>2, <1>3, <1>4, <1>5 DEF Next, Restart

\* Steps of every process but the checkpoint goroutine.
Work ==
    \/ \E w \in Worker : ListWorker(w) \/ ListFails(w)
    \/ \E c \in Checker : CheckWorker(c)
    \/ WriterFlush \/ MainStep \/ Signal \/ Terminated \/ UNCHANGED vars

\* A step is one of the work, of the checkpoint goroutine, or a restart.
LEMMA Steps ==
    ASSUME [Next]_vars
    PROVE  Work \/ Restart \/ Checkpointing \/ \E why \in {"tick", "trigger", "final"} : Snapshot(why)
BY DEF Next, Work, Restart

\* Work leaves the checkpoint and the journal alone, and only adds to the tracker.
LEMMA WorkScope ==
    ASSUME Work
    PROVE  UNCHANGED <<ckptVars, journaled, jdone, ending>> /\ pend \subseteq pend' /\ tracked \subseteq tracked'
<1>1. CASE \E w \in Worker : ListWorker(w) \/ ListFails(w)
  BY <1>1 DEF ListWorker, ListFails, Pop, PopFails, ListPage, AddDiscovered, Emit, EmitLocally,
     HardAbort, Enqueue, TurnPage, LastPage, fileVars, stateVars, RegisterPage, Terminal,
     MarkPaginationDone
<1>2. CASE \E c \in Checker : CheckWorker(c)
  BY <1>2 DEF CheckWorker, Receive, Handle, Report, Terminal, fileVars, stateVars
<1>3. CASE WriterFlush \/ MainStep \/ Signal \/ Terminated \/ UNCHANGED vars
  BY <1>3 DEF WriterFlush, MainStep, Seeding, RecordSeed, CheckpointNow, CloseIfUnseeded,
     AllWorkDone, CloseOutput, Signal, Terminated, vars, fileVars, stateVars
<1> QED
  BY <1>1, <1>2, <1>3 DEF Work

\* What is tracked, queued or listed, a seed or a discovery named first.
Idle == tracked = {} /\ queue = <<>> /\ Listers = {}

\* Work that records no discovery and no seed starts nothing.
LEMMA IdleWork ==
    ASSUME Work, Idle, pend' = {}
    PROVE  Idle'
<1>1. \A w \in Worker : pc[w] \notin {"list", "page"}
  BY DEF Idle, Listers, Listing
<1>2. CASE \E w \in Worker : ListWorker(w) \/ ListFails(w)
  <2>1. PICK w \in Worker : PopFails(w)
    BY <1>1, <1>2 DEF Idle, ListWorker, ListFails, Pop, ListPage, AddDiscovered, Emit, EmitLocally,
       HardAbort, Enqueue, TurnPage, LastPage, PageDone
  <2>2. UNCHANGED <<tracked, queue>> /\ pc' = [pc EXCEPT ![w] = "exit"]
    BY <2>1 DEF PopFails, stateVars, queueVars
  <2> QED
    BY <1>1, <2>2 DEF Idle, Listers, Listing
<1>3. CASE Seeding
  BY <1>3 DEF Seeding, RecordSeed
<1>4. CASE \/ \E c \in Checker : CheckWorker(c)
           \/ WriterFlush \/ CheckpointNow \/ CloseIfUnseeded \/ AllWorkDone \/ CloseOutput
           \/ Signal \/ Terminated \/ UNCHANGED vars
  <2>1. UNCHANGED <<tracked, pc>> /\ (queue' = queue \/ queue' = <<>>)
    BY <1>4 DEF CheckWorker, Receive, Handle, Report, Terminal, WriterFlush, CheckpointNow,
       CloseIfUnseeded, AllWorkDone, DrainQueuedPrefixes, CloseOutput, Signal, Terminated, vars,
       queueVars, workerVars, stateVars
  <2> QED
    BY <2>1 DEF Idle, Listers, Listing
<1> QED
  BY <1>2, <1>3, <1>4 DEF Work, MainStep

\* The first batch of a process replaces the fragment it finds, or breaks the journal.
LEMMA TornStep ==
    ASSUME ~RetryMayFail, TypeOK, TornOK, [Next]_vars
    PROVE  TornOK'
<1> SUFFICES ASSUME ending' = "torn"
             PROVE  /\ fd' = "start" /\ (ckpt' = "commit" => snap' = NoBatch)
                    /\ snap' = NoBatch \/ snap'.disc # {}
                    /\ pend' = {} => Idle'
  BY DEF TornOK, Idle
<1>1. CASE Restart
  BY <1>1 DEF Restart, Kill, StartScan, Resume, Start, Reboot, Idle, Listers, Listing
<1>2. ASSUME ending = "torn"
      PROVE  /\ fd = "start" /\ (ckpt = "commit" => snap = NoBatch)
             /\ snap = NoBatch \/ snap.disc # {}
             /\ pend = {} => Idle
  BY <1>2 DEF TornOK, Idle
<1>3. CASE Work
  <2>1. UNCHANGED <<ckpt, snap, fd>> /\ pend \subseteq pend'
    BY <1>3, WorkScope DEF ckptVars
  <2>2. ending = "torn"
    BY <1>3, WorkScope
  <2>3. pend' = {} => Idle'
    BY <1>2, <1>3, <2>1, <2>2, IdleWork
  <2> QED
    BY <1>2, <2>1, <2>2, <2>3
<1>4. CASE \E why \in {"tick", "trigger", "final"} : Snapshot(why)
  <2>1. ckpt' = "flush" /\ snap' = TakeSnapshot /\ UNCHANGED <<ending, fd, pend, tracked, queue, pc>>
    BY <1>4 DEF Snapshot, fileVars, stateVars, queueVars, workerVars
  <2>2. Idle' = Idle
    BY <2>1 DEF Idle, Listers, Listing
  <2>3. snap'.disc = pend
    BY <2>1 DEF TakeSnapshot
  <2>4. pend = {} => snap' = NoBatch
    BY <1>2, <2>1 DEF TakeSnapshot, NoBatch, Idle
  <2> QED
    BY <1>2, <2>1, <2>2, <2>3, <2>4
<1>5. CASE FlushAndWait \/ AppendBatch \/ CommitBatch
  <2>1. /\ ending = "torn" /\ UNCHANGED <<queue, pc>>
        /\ AppendBatch => snap = NoBatch
    BY <1>5 DEF FlushAndWait, AppendBatch, Endings, Glues, CommitBatch, fileVars, queueVars, workerVars
  <2>2. /\ ckpt = "commit" => snap = NoBatch
        /\ pend = {} => Idle
    BY <1>2, <2>1
  <2>3. UNCHANGED <<pend, tracked>>
    <3>1. CASE FlushAndWait \/ AppendBatch
      BY <3>1 DEF FlushAndWait, AppendBatch, stateVars
    <3>2. CASE CommitBatch
      <4>1. snap.disc = {} /\ snap.dones = {}
        BY <2>2, <3>2 DEF CommitBatch, NoBatch
      <4>2. pend' = pend \ snap.disc /\ tracked' = tracked \ snap.dones
        BY <3>2 DEF CommitBatch, Commit
      <4> QED
        BY <4>1, <4>2
    <3> QED
      BY <1>5, <3>1, <3>2
  <2>4. Idle' = Idle
    BY <2>1, <2>3 DEF Idle, Listers, Listing
  <2>5. fd' = fd /\ (ckpt' = "commit" => snap' = NoBatch) /\ snap' \in {snap, NoBatch}
    BY <1>5, <2>1 DEF FlushAndWait, AppendBatch, CommitBatch, CheckpointReturns
  <2> QED
    BY <1>2, <2>1, <2>3, <2>4, <2>5
<1>6. CASE ShortWrite
  <2>1. fd = "end" /\ ending = "torn"
    BY <1>6 DEF ShortWrite, EmptyJournal
  <2> QED
    BY <1>2, <2>1
<1> QED
  BY <1>1, <1>3, <1>4, <1>5, <1>6, Steps DEF Checkpointing

\* What a batch names is still with the tracker when it is committed, and what it says is
\* done is journaled by then.
LEMMA BatchStep ==
    ASSUME ~RetryMayFail, TypeOK, TornOK, BatchOK, [Next]_vars
    PROVE  BatchOK'
<1>1. CASE Work
  <2>1. /\ UNCHANGED <<ckpt, snap, fd, jdone>> /\ pend \subseteq pend' /\ tracked \subseteq tracked'
    BY <1>1, WorkScope DEF ckptVars
  <2>2. Finished' = Finished
    BY <2>1 DEF Finished
  <2> QED
    BY <2>1, <2>2 DEF BatchOK
<1>2. CASE \E why \in {"tick", "trigger", "final"} : Snapshot(why)
  <2>1. ckpt' = "flush" /\ snap' = TakeSnapshot /\ UNCHANGED <<pend, tracked>>
    BY <1>2 DEF Snapshot, stateVars
  <2> QED
    BY <2>1 DEF BatchOK, TakeSnapshot
<1>3. CASE FlushAndWait
  <2>1. ckpt = "flush" /\ ckpt' = "append" /\ UNCHANGED <<snap, pend, tracked>>
    BY <1>3 DEF FlushAndWait, stateVars
  <2> QED
    BY <2>1 DEF BatchOK
<1>4. CASE AppendBatch
  <2>1. snap.dones \subseteq Finished'
    BY <1>4, AppendWhole DEF Finished, NoBatch
  <2> QED
    BY <1>4, <2>1, AppendWhole DEF BatchOK
<1>5. CASE ShortWrite \/ CommitBatch \/ Restart
  <2>1. ckpt' = "idle" /\ snap' = NoBatch
    BY <1>5 DEF ShortWrite, CommitBatch, CheckpointReturns, Restart, Kill, StartScan, Resume, Start,
       Reboot
  <2> QED
    BY <2>1 DEF BatchOK, NoBatch
<1> QED
  BY <1>1, <1>2, <1>3, <1>4, <1>5, Steps DEF Checkpointing

\* A prefix that is tracked, or journaled as done by this process, stays one or the other.
LEMMA ClaimsStay ==
    ASSUME ~RetryMayFail, TypeOK, TornOK, BatchOK, [Next]_vars, ~Restart,
           NEW p \in tracked \cup Finished
    PROVE  p \in tracked' \cup Finished'
<1>1. CASE Work
  BY <1>1, WorkScope DEF ckptVars, Finished
<1>2. CASE FlushAndWait \/ \E why \in {"tick", "trigger", "final"} : Snapshot(why)
  BY <1>2 DEF FlushAndWait, Snapshot, Finished, stateVars, fileVars
<1>3. CASE AppendBatch
  BY <1>3, AppendWhole DEF Finished, BatchOK, NoBatch
<1>4. CASE ShortWrite
  BY <1>4, ShortWriteWhole DEF Finished
<1>5. CASE CommitBatch
  <2>1. /\ ckpt = "commit" /\ tracked' = tracked \ snap.dones /\ UNCHANGED <<fd, jdone>>
    BY <1>5 DEF CommitBatch, Commit, fileVars
  <2> QED
    BY <2>1 DEF BatchOK, Finished
<1> QED
  BY <1>1, <1>2, <1>3, <1>4, <1>5, Steps DEF Checkpointing

\* A worker holds the page it listed until it turns it or leaves.
LEMMA PagesHeld ==
    ASSUME TypeOK, [Next]_vars, ~Restart, NEW w \in Worker, pc'[w] = "page"
    PROVE  cur'[w] = cur[w] /\ (pc[w] = "page" \/ cur[w] \in tracked')
<1>1. CASE \E v \in Worker : ListWorker(v) \/ ListFails(v)
  <2>1. PICK v \in Worker : ListWorker(v) \/ ListFails(v)
    BY <1>1
  <2>2. /\ pc \in [Worker -> {"pop", "list", "page", "exit"}] /\ cur \in [Worker -> Prefix]
    BY DEF TypeOK, WorkerTypes
  <2>3. CASE ListPage(v)
    BY <2>2, <2>3 DEF ListPage, RegisterPage
  <2>4. CASE Pop(v) \/ PopFails(v) \/ TurnPage(v)
    BY <2>2, <2>4 DEF Pop, PopFails, TurnPage
  <2>5. CASE ListFails(v) \/ HardAbort(v) \/ LastPage(v)
    BY <2>2, <2>5 DEF ListFails, HardAbort, LastPage, Leave
  <2>6. CASE AddDiscovered(v) \/ Emit(v) \/ EmitLocally(v) \/ Enqueue(v)
    BY <2>6 DEF AddDiscovered, Emit, EmitLocally, Enqueue
  <2> QED
    BY <2>1, <2>3, <2>4, <2>5, <2>6 DEF ListWorker
<1>2. CASE ~\E v \in Worker : ListWorker(v) \/ ListFails(v)
  <2>1. UNCHANGED <<pc, cur>>
    BY <1>2 DEF Next, Restart, CheckWorker, Receive, Handle, Report, WriterFlush, Snapshot,
       Checkpointing, FlushAndWait, AppendBatch, ShortWrite, CommitBatch, MainStep, Seeding,
       CheckpointNow, CloseIfUnseeded, AllWorkDone, CloseOutput, Signal, Terminated, vars, workerVars
  <2> QED
    BY <2>1
<1> QED
  BY <1>1, <1>2

\* HeldOK is inductive.
LEMMA HeldStep ==
    ASSUME ~RetryMayFail, TypeOK, TornOK, BatchOK, HeldOK, [Next]_vars
    PROVE  HeldOK'
<1>1. CASE Restart
  <2>1. \A w \in Worker : pc'[w] # "page"
    BY <1>1 DEF Restart, Kill, StartScan, Resume, Start, Reboot
  <2> QED
    BY <2>1 DEF HeldOK
<1>2. CASE ~Restart
  <2> SUFFICES ASSUME NEW w \in Worker, pc'[w] = "page"
               PROVE  cur'[w] \in tracked' \cup Finished'
    BY DEF HeldOK
  <2>1. cur'[w] = cur[w] /\ (pc[w] = "page" \/ cur[w] \in tracked')
    BY <1>2, PagesHeld
  <2>2. CASE pc[w] = "page"
    <3>1. cur[w] \in tracked \cup Finished
      BY <2>2 DEF HeldOK
    <3>2. cur[w] \in tracked' \cup Finished'
      BY <1>2, <3>1, ClaimsStay
    <3> QED
      BY <2>1, <3>2
  <2> QED
    BY <2>1, <2>2
<1> QED
  BY <1>1, <1>2

\* The page a worker lists exists.
LEMMA ListedPage ==
    ASSUME TypeOK, WorkerRange, NEW w \in Worker
    PROVE  /\ cur[w] \in Prefix /\ tok[w] \in Nat /\ tok[w] + 1 \in PageNumbers(cur[w])
           /\ <<cur[w], tok[w] + 1>> \in AllPages
           /\ Objs(cur[w], tok[w] + 1) \subseteq Object /\ Subs(cur[w], tok[w] + 1) \subseteq Prefix
           /\ IsFiniteSet(Objs(cur[w], tok[w] + 1))
           /\ Cardinality(Pages[cur[w]][tok[w] + 1].objs) \in Nat
<1>1. cur[w] \in Prefix /\ tok[w] \in Nat
  BY DEF TypeOK, WorkerTypes, Token
<1>2. tok[w] + 1 \in PageNumbers(cur[w])
  BY <1>1, BucketPages DEF WorkerRange, InRange, PageNumbers
<1> QED
  BY <1>1, <1>2, BucketPages DEF AllPages, Objs, Subs

\* A position stops only before a page that is not terminal.
LEMMA StopStep ==
    ASSUME TypeOK, WorkerRange, StopOK, [Next]_vars
    PROVE  StopOK'
<1>1. /\ left \in [Prefix -> Seq(Nat)] /\ pos \in [Prefix -> Nat] /\ seq \in [Worker -> Nat]
      /\ cur \in [Worker -> Prefix] /\ \A p \in Prefix : pos[p] \in 0 .. Len(left[p])
  BY DEF TypeOK, StateTypes, WorkerTypes
<1>2. ASSUME NEW p \in Prefix, NEW l \in Seq(Nat), pos[p] <= Len(l),
             left' = [left EXCEPT ![p] = l], pos' = [pos EXCEPT ![p] = Advance(l, @)]
      PROVE  StopOK'
  <2>1. pos[p] \in 0 .. Len(l)
    BY <1>1, <1>2
  <2>2. /\ Advance(l, pos[p]) = Len(l) \/ l[Advance(l, pos[p]) + 1] # 0
    BY <2>1, AdvanceStops
  <2> QED
    BY <1>1, <1>2, <2>2 DEF StopOK
<1>3. ASSUME NEW p \in Prefix, NEW s \in Nat, Terminal(p, s)
      PROVE  StopOK'
  <2>1. Reported(left[p], s) \in Seq(Nat) /\ Len(Reported(left[p], s)) = Len(left[p])
    BY <1>1, ReportedCounts
  <2>2. /\ left' = [left EXCEPT ![p] = Reported(left[p], s)]
        /\ pos' = [pos EXCEPT ![p] = Advance(Reported(left[p], s), @)]
    BY <1>3 DEF Terminal
  <2>3. pos[p] <= Len(Reported(left[p], s))
    BY <1>1, <2>1
  <2> QED
    BY <1>2, <2>1, <2>2, <2>3
<1>4. ASSUME UNCHANGED <<left, pos>>
      PROVE  StopOK'
  BY <1>4 DEF StopOK
<1>5. CASE \E w \in Worker : ListWorker(w) \/ ListFails(w)
  <2>1. PICK w \in Worker : ListWorker(w) \/ ListFails(w)
    BY <1>5
  <2>2. CASE ListPage(w)
    <3> DEFINE n == Cardinality(Pages[cur[w]][tok[w] + 1].objs)
               l == Append(left[cur[w]], n)
    <3>1. n \in Nat
      BY <1>1, ListedPage
    <3>2. l \in Seq(Nat) /\ pos[cur[w]] <= Len(l)
      BY <1>1, <3>1
    <3>3. left' = [left EXCEPT ![cur[w]] = l] /\ pos' = [pos EXCEPT ![cur[w]] = Advance(l, @)]
      BY <1>1, <2>2 DEF ListPage, RegisterPage
    <3> QED
      BY <1>1, <1>2, <3>2, <3>3
  <2>3. CASE EmitLocally(w)
    BY <1>1, <1>3, <2>3 DEF EmitLocally
  <2>4. CASE ~ListPage(w) /\ ~EmitLocally(w)
    BY <1>4, <2>1, <2>4 DEF ListWorker, ListFails, Pop, PopFails, AddDiscovered, Emit, HardAbort,
       Enqueue, TurnPage, LastPage, MarkPaginationDone, stateVars
  <2> QED
    BY <2>2, <2>3, <2>4
<1>6. CASE \E c \in Checker : CheckWorker(c)
  <2>1. PICK c \in Checker : CheckWorker(c)
    BY <1>6
  <2>2. CASE Report(c)
    <3>1. chk[c] \in Task /\ Terminal(chk[c].prefix, chk[c].seq)
      BY <2>2 DEF Report, TypeOK, CheckTypes
    <3> QED
      BY <1>3, <3>1 DEF Task
  <2>3. CASE Receive(c) \/ Handle(c)
    BY <1>4, <2>3 DEF Receive, Handle, stateVars
  <2> QED
    BY <2>1, <2>2, <2>3 DEF CheckWorker
<1>7. CASE CommitBatch
  <2>1. /\ left' = [p \in Prefix |-> IF p \in snap.dones THEN <<>> ELSE left[p]]
        /\ pos' = [p \in Prefix |-> IF p \in snap.dones THEN 0 ELSE pos[p]]
    BY <1>7 DEF CommitBatch, Commit
  <2> QED
    BY <1>1, <2>1 DEF StopOK
<1>8. CASE Restart
  <2>1. left' = [p \in Prefix |-> <<>>] /\ pos' = [p \in Prefix |-> 0]
    BY <1>8 DEF Restart, Kill, StartScan, Resume, Start, Reboot
  <2> QED
    BY <2>1 DEF StopOK
<1>9. CASE \/ WriterFlush \/ MainStep \/ Signal \/ Terminated \/ UNCHANGED vars
           \/ FlushAndWait \/ AppendBatch \/ ShortWrite
           \/ \E why \in {"tick", "trigger", "final"} : Snapshot(why)
  BY <1>4, <1>9 DEF WriterFlush, MainStep, Seeding, RecordSeed, CheckpointNow, CloseIfUnseeded,
     AllWorkDone, CloseOutput, Signal, Terminated, vars, stateVars, FlushAndWait, AppendBatch,
     ShortWrite, Snapshot
<1> QED
  BY <1>5, <1>6, <1>7, <1>8, <1>9 DEF Next, Checkpointing, Restart
\* While the queue is open nothing leaves it but to a worker.
LEMMA QueueKeeps ==
    ASSUME TypeOK, Smooth, Seeding => ~closed, FlowOK, [Next]_vars, ~Restart,
           ~\E w \in Worker : Pop(w)
    PROVE  \A i \in DOMAIN queue : i \in DOMAIN queue' /\ queue'[i] = queue[i]
<1>1. queue \in Seq(Seed)
  BY DEF TypeOK, QueueTypes
<1>2. ASSUME NEW x \in Seed, Push(x), ~closed
      PROVE  \A i \in DOMAIN queue : i \in DOMAIN queue' /\ queue'[i] = queue[i]
  BY <1>1, <1>2, AppendElements DEF Push
<1>3. CASE \E w \in Worker : ListWorker(w) \/ ListFails(w)
  <2>1. PICK w \in Worker : ListWorker(w) \/ ListFails(w)
    BY <1>3
  <2>2. CASE Enqueue(w)
    <3>1. ~closed /\ subs[w] \subseteq Prefix
      BY <2>2 DEF Enqueue, FlowOK, Listers, Listing, TypeOK, WorkerTypes
    <3>2. \E s \in subs[w] : Push(<<s, 0>>)
      BY <2>2 DEF Enqueue
    <3>3. \A s \in subs[w] : <<s, 0>> \in Seed
      BY <3>1 DEF Seed, Token
    <3> QED
      BY <1>2, <3>1, <3>2, <3>3
  <2>3. CASE ~Enqueue(w)
    <3>1. queue' = queue
      BY <2>1, <2>3 DEF ListWorker, ListFails, Pop, PopFails, ListPage, AddDiscovered, Emit,
         EmitLocally, HardAbort, TurnPage, LastPage, queueVars
    <3> QED
      BY <3>1
  <2> QED
    BY <2>2, <2>3
<1>4. CASE Seeding
  BY <1>2, <1>4 DEF Seeding, TypeOK, MainTypes
<1>5. CASE AllWorkDone
  BY <1>5 DEF AllWorkDone, DrainQueuedPrefixes, Smooth
<1>6. CASE ~(\E w \in Worker : ListWorker(w) \/ ListFails(w)) /\ ~Seeding /\ ~AllWorkDone
  <2>1. queue' = queue
    BY <1>6 DEF Next, Restart, CheckWorker, Receive, Handle, Report, WriterFlush, Snapshot,
       Checkpointing, FlushAndWait, AppendBatch, ShortWrite, CommitBatch, MainStep, CheckpointNow,
       CloseIfUnseeded, CloseOutput, Signal, Terminated, vars, queueVars
  <2> QED
    BY <2>1
<1> QED
  BY <1>3, <1>4, <1>5, <1>6

\* A prefix is tracked because it is to be listed, or was.
LEMMA PaginationStep ==
    ASSUME TypeOK, TypeOK', FlowOK, Smooth, Smooth', Seeding => ~closed, PaginationOK,
           [Next]_vars, ~Restart
    PROVE  PaginationOK'
<1>1. /\ pc \in [Worker -> {"pop", "list", "page", "exit"}] /\ cur \in [Worker -> Prefix]
      /\ queue \in Seq(Seed) /\ left \in [Prefix -> Seq(Nat)] /\ pagDone \in [Prefix -> BOOLEAN]
      /\ left' \in [Prefix -> Seq(Nat)]
  BY DEF TypeOK, WorkerTypes, QueueTypes, StateTypes
<1>2. ASSUME NEW p \in tracked, UNCHANGED <<pc, cur>>, left[p] # <<>> => left'[p] # <<>>,
             pagDone'[p] = pagDone[p]
      PROVE  (Awaited(p) \/ Paginated(p))'
  <2>1. ~\E w \in Worker : Pop(w)
    BY <1>1, <1>2 DEF Pop
  <2>2. queue' \in Seq(Seed)
    BY DEF TypeOK, QueueTypes
  <2>3. DOMAIN queue = 1 .. Len(queue) /\ DOMAIN queue' = 1 .. Len(queue')
    BY <1>1, <2>2
  <2>4. \A i \in 1 .. Len(queue) : i \in 1 .. Len(queue') /\ queue'[i] = queue[i]
    BY <2>1, <2>3, QueueKeeps
  <2>5. Awaited(p) => Awaited(p)'
    BY <1>2, <2>4 DEF Awaited
  <2>6. Paginated(p) => Paginated(p)'
    BY <1>2 DEF Paginated
  <2> QED
    BY <2>5, <2>6 DEF PaginationOK
<1>3. ASSUME UNCHANGED <<pc, cur, tracked, left, pagDone>>
      PROVE  PaginationOK'
  <2>1. \A p \in tracked : (Awaited(p) \/ Paginated(p))'
    BY <1>2, <1>3
  <2> QED
    BY <1>3, <2>1 DEF PaginationOK
<1>4. ASSUME NEW p \in Prefix, NEW s \in Nat, Terminal(p, s), UNCHANGED <<pc, cur>>
      PROVE  PaginationOK'
  <2>1. left' = [left EXCEPT ![p] = Reported(left[p], s)] /\ UNCHANGED <<tracked, pagDone>>
    BY <1>4 DEF Terminal
  <2>2. Reported(left[p], s) \in Seq(Nat) /\ Len(Reported(left[p], s)) = Len(left[p])
    BY <1>1, ReportedCounts
  <2>3. left[p] # <<>> => Reported(left[p], s) # <<>>
    BY <1>1, <2>2
  <2>4. \A q \in tracked : left[q] # <<>> => left'[q] # <<>>
    BY <1>1, <2>1, <2>3
  <2>5. \A q \in tracked : (Awaited(q) \/ Paginated(q))'
    BY <1>2, <1>4, <2>1, <2>4
  <2> QED
    BY <2>1, <2>5 DEF PaginationOK
<1>5. ASSUME NEW w \in Worker, ListWorker(w) \/ ListFails(w)
      PROVE  PaginationOK'
  <2> SUFFICES ASSUME NEW p \in tracked'
               PROVE  (Awaited(p) \/ Paginated(p))'
    BY DEF PaginationOK
  <2>1. CASE Pop(w)
    <3>1. /\ pc[w] = "pop" /\ pc'[w] = "list" /\ cur'[w] = Head(queue)[1]
          /\ \A v \in Worker \ {w} : pc'[v] = pc[v] /\ cur'[v] = cur[v]
          /\ queue' = Tail(queue) /\ queue # <<>> /\ UNCHANGED <<tracked, left, pagDone>>
      BY <1>1, <2>1 DEF Pop, stateVars
    <3>2. ASSUME NEW i \in 1 .. Len(queue), queue[i][1] = p
          PROVE  Awaited(p)'
      <4>1. CASE i = 1
        BY <3>1, <3>2, <4>1 DEF Awaited
      <4>2. CASE i # 1
        <5>1. i \in DOMAIN queue /\ Tail(queue) \in Seq(Seed)
          BY <1>1, <3>1
        <5>2. \E j \in DOMAIN Tail(queue) : Tail(queue)[j] = queue[i]
          BY <1>1, <3>1, <4>2, <5>1, TailElements
        <5>3. \E j \in 1 .. Len(queue') : queue'[j][1] = p
          BY <3>1, <3>2, <5>1, <5>2
        <5> QED
          BY <5>3 DEF Awaited
      <4> QED
        BY <4>1, <4>2
    <3>3. ASSUME NEW v \in Worker, pc[v] = "list", cur[v] = p
          PROVE  Awaited(p)'
      BY <3>1, <3>3 DEF Awaited
    <3>4. Paginated(p) => Paginated(p)'
      BY <3>1 DEF Paginated
    <3>5. Awaited(p) \/ Paginated(p)
      BY <3>1 DEF PaginationOK
    <3> QED
      BY <3>2, <3>3, <3>4, <3>5 DEF Awaited
  <2>2. CASE PopFails(w)
    <3>1. /\ pc[w] = "pop" /\ \A v \in Worker \ {w} : pc'[v] = pc[v]
          /\ UNCHANGED <<cur, queue, tracked, left, pagDone>>
      BY <1>1, <2>2 DEF PopFails, queueVars, stateVars
    <3> QED
      BY <3>1 DEF PaginationOK, Awaited, Paginated
  <2>3. CASE ListPage(w)
    <3>1. /\ pc[w] = "list" /\ pc'[w] = "page" /\ cur' = cur
          /\ \A v \in Worker \ {w} : pc'[v] = pc[v]
          /\ tracked' = tracked \cup {cur[w]} /\ UNCHANGED <<queue, pagDone>>
          /\ left' = [left EXCEPT ![cur[w]] = Append(@, Cardinality(Pages[cur[w]][tok[w] + 1].objs))]
      BY <1>1, <2>3 DEF ListPage, RegisterPage, queueVars
    <3>2. left'[cur[w]] # <<>>
      <4>1. left'[cur[w]] = Append(left[cur[w]], Cardinality(Pages[cur[w]][tok[w] + 1].objs))
        BY <1>1, <3>1
      <4>2. left[cur[w]] \in Seq(Nat)
        BY <1>1
      <4> QED
        BY <4>1, <4>2, AppendProperties
    <3>3. CASE p = cur[w]
      BY <3>1, <3>2, <3>3 DEF Paginated
    <3>4. CASE p # cur[w]
      <4>1. left'[p] = left[p] /\ p \in tracked
        BY <1>1, <3>1, <3>4
      <4>2. Awaited(p) => Awaited(p)'
        BY <3>1, <3>4 DEF Awaited
      <4>3. Paginated(p) => Paginated(p)'
        BY <3>1, <3>4, <4>1 DEF Paginated
      <4> QED
        BY <4>1, <4>2, <4>3 DEF PaginationOK
    <3> QED
      BY <3>3, <3>4
  <2>4. CASE TurnPage(w)
    <3>1. /\ pc[w] = "page" /\ pc'[w] = "list" /\ cur' = cur
          /\ \A v \in Worker \ {w} : pc'[v] = pc[v]
          /\ UNCHANGED <<queue, tracked, left, pagDone>>
      BY <1>1, <2>4 DEF TurnPage, PageDone, queueVars, stateVars
    <3>2. Awaited(p) => Awaited(p)'
      BY <3>1 DEF Awaited
    <3>3. Paginated(p) => Paginated(p)' \/ Awaited(p)'
      BY <3>1 DEF Paginated, Awaited
    <3> QED
      BY <3>1, <3>2, <3>3 DEF PaginationOK
  <2>5. CASE LastPage(w)
    <3>1. /\ pc[w] = "page" /\ \A v \in Worker \ {w} : pc'[v] = pc[v] /\ cur'[v] = cur[v]
          /\ UNCHANGED <<queue, tracked, left>>
          /\ pagDone' = [pagDone EXCEPT ![cur[w]] = @ \/ cur[w] \in tracked]
      BY <1>1, <2>5 DEF LastPage, PageDone, Leave, MarkPaginationDone
    <3>2. Awaited(p) => Awaited(p)'
      BY <3>1 DEF Awaited
    <3>3. pagDone[p] => pagDone'[p]
      <4>1. p \in Prefix
        BY DEF TypeOK, StateTypes
      <4> QED
        BY <1>1, <3>1, <4>1
    <3>4. cur[w] = p => pagDone'[p]
      BY <1>1, <3>1
    <3>5. Paginated(p) => Paginated(p)'
      BY <3>1, <3>3, <3>4 DEF Paginated
    <3> QED
      BY <3>1, <3>2, <3>5 DEF PaginationOK
  <2>6. CASE AddDiscovered(w) \/ Emit(w) \/ Enqueue(w)
    <3>1. UNCHANGED <<pc, cur, tracked, left, pagDone>>
      BY <2>6 DEF AddDiscovered, Emit, Enqueue, stateVars
    <3> QED
      BY <1>3, <3>1 DEF PaginationOK
  <2>7. CASE EmitLocally(w)
    <3>1. PaginationOK'
      BY <1>1, <1>4, <2>7 DEF EmitLocally, TypeOK, WorkerTypes
    <3> QED
      BY <3>1 DEF PaginationOK
  <2>8. CASE ListFails(w) \/ HardAbort(w)
    BY <2>8 DEF ListFails, HardAbort, Smooth
  <2> QED
    BY <1>5, <2>1, <2>2, <2>3, <2>4, <2>5, <2>6, <2>7, <2>8 DEF ListWorker
<1>6. CASE \E c \in Checker : CheckWorker(c)
  <2>1. PICK c \in Checker : CheckWorker(c)
    BY <1>6
  <2>2. CASE Report(c)
    <3>1. chk[c] \in Task /\ Terminal(chk[c].prefix, chk[c].seq)
      BY <2>2 DEF Report, TypeOK, CheckTypes
    <3>2. UNCHANGED <<pc, cur>>
      BY <2>2 DEF Report, workerVars
    <3> QED
      BY <1>4, <3>1, <3>2 DEF Task
  <2>3. CASE Receive(c) \/ Handle(c)
    BY <1>3, <2>3 DEF Receive, Handle, stateVars, workerVars
  <2> QED
    BY <2>1, <2>2, <2>3 DEF CheckWorker
<1>7. CASE CommitBatch
  <2>1. /\ left' = [p \in Prefix |-> IF p \in snap.dones THEN <<>> ELSE left[p]]
        /\ pagDone' = [p \in Prefix |-> IF p \in snap.dones THEN FALSE ELSE pagDone[p]]
        /\ tracked' = tracked \ snap.dones /\ UNCHANGED <<pc, cur>>
    BY <1>7 DEF CommitBatch, Commit, workerVars
  <2>2. \A p \in tracked' : left'[p] = left[p] /\ pagDone'[p] = pagDone[p] /\ p \in tracked
    BY <2>1 DEF TypeOK, StateTypes
  <2>3. \A p \in tracked' : (Awaited(p) \/ Paginated(p))'
    BY <1>2, <2>1, <2>2
  <2> QED
    BY <2>3 DEF PaginationOK
<1>8. CASE Seeding
  <2>1. PICK s \in toSeed : RecordSeed(s[1], s[2]) /\ Push(s)
    BY <1>8 DEF Seeding
  <2>2. s \in Seed /\ queue' = Append(queue, s)
    BY <1>8, <2>1 DEF Push, TypeOK, MainTypes
  <2>3. UNCHANGED <<pc, cur, left, pagDone>> /\ tracked' = tracked \cup {s[1]}
    BY <1>8, <2>1 DEF Seeding, workerVars, RecordSeed
  <2>4. Awaited(s[1])'
    <3>1. Len(queue') = Len(queue) + 1 /\ queue'[Len(queue) + 1] = s /\ Len(queue) \in Nat
      BY <1>1, <2>2
    <3> QED
      BY <3>1 DEF Awaited
  <2>5. \A p \in tracked : (Awaited(p) \/ Paginated(p))'
    BY <1>2, <2>3
  <2> QED
    BY <2>3, <2>4, <2>5 DEF PaginationOK
<1>9. CASE \/ WriterFlush \/ Signal \/ Terminated \/ UNCHANGED vars \/ FlushAndWait
           \/ AppendBatch \/ ShortWrite \/ CheckpointNow \/ CloseIfUnseeded \/ AllWorkDone
           \/ CloseOutput \/ \E why \in {"tick", "trigger", "final"} : Snapshot(why)
  <2>1. UNCHANGED <<pc, cur, tracked, left, pagDone>>
    BY <1>9 DEF WriterFlush, Signal, Terminated, vars, FlushAndWait, AppendBatch, ShortWrite,
       CheckpointNow, CloseIfUnseeded, AllWorkDone, CloseOutput, Snapshot, stateVars, workerVars
  <2> QED
    BY <1>3, <2>1
<1> QED
  BY <1>5, <1>6, <1>7, <1>8, <1>9 DEF Next, Checkpointing, MainStep, Restart

\* The reports to come are finitely many.
LEMMA ReportsFinite ==
    ASSUME TypeOK, WorkerRange, PageShape, NEW p, NEW s
    PROVE  /\ IsFiniteSet(Unsent(p, s)) /\ Cardinality(Unsent(p, s)) \in Nat
           /\ IsFiniteSet(Waiting(p, s)) /\ Cardinality(Waiting(p, s)) \in Nat
           /\ IsFiniteSet(Judged(p, s)) /\ Cardinality(Judged(p, s)) \in Nat
           /\ Reports(p, s) \in Nat
<1> DEFINE page == [v \in Worker |-> Objs(cur[v], tok[v] + 1)]
           Held == {page[v] : v \in Worker}
<1>1. IsFiniteSet(Unsent(p, s))
  <2>1. page \in Surjection(Worker, Held)
    BY DEF Surjection
  <2>2. IsFiniteSet(Held)
    BY <2>1, ConfigAssumption, FS_Surjection
  <2>3. \A T \in Held : IsFiniteSet(T)
    BY ListedPage
  <2>4. IsFiniteSet(UNION Held)
    BY <2>2, <2>3, FS_UNION
  <2>5. IsFiniteSet(Worker \X UNION Held)
    BY <2>4, ConfigAssumption, FS_Product
  <2>6. Unsent(p, s) \subseteq Worker \X UNION Held
    <3> SUFFICES ASSUME NEW t \in Unsent(p, s)
                 PROVE  t \in Worker \X UNION Held
      OBVIOUS
    <3>1. t = <<t[1], t[2]>> /\ t[1] \in Worker /\ Holds(t[1], p, s) /\ t[2] \in todo[t[1]]
      BY DEF Unsent
    <3>2. t[2] \in page[t[1]]
      BY <3>1 DEF PageShape, Holds
    <3> QED
      BY <3>1, <3>2
  <2> QED
    BY <2>5, <2>6, FS_Subset
<1>2. IsFiniteSet(Waiting(p, s))
  <2>1. objCh \in Seq(Task) /\ DOMAIN objCh = 1 .. Len(objCh) /\ Len(objCh) \in Nat
    BY DEF TypeOK, CheckTypes
  <2>2. IsFiniteSet(1 .. Len(objCh)) /\ Waiting(p, s) \subseteq 1 .. Len(objCh)
    BY <2>1, FS_Interval DEF Waiting
  <2> QED
    BY <2>2, FS_Subset
<1>3. IsFiniteSet(Judged(p, s))
  <2>1. Judged(p, s) \subseteq Checker
    BY DEF Judged
  <2> QED
    BY <2>1, ConfigAssumption, FS_Subset
<1>4. /\ Cardinality(Unsent(p, s)) \in Nat /\ Cardinality(Waiting(p, s)) \in Nat
      /\ Cardinality(Judged(p, s)) \in Nat
  BY <1>1, <1>2, <1>3, FS_CardinalityType
<1> QED
  BY <1>1, <1>2, <1>3, <1>4 DEF Reports

\* One report of page s of p, and no other, is not to come any more.
OneReportLess(p, s) ==
    \A q \in Prefix : \A r \in Nat :
        /\ Reports(q, r) \in Nat /\ Reports(q, r)' \in Nat
        /\ \/ Reports(q, r)' >= Reports(q, r)
           \/ q = p /\ r = s /\ Reports(q, r)' >= Reports(q, r) - 1

\* The count goes down with it.
LEMMA TerminalReports ==
    ASSUME TypeOK, ReportsOK, NEW p \in Prefix, NEW s \in Nat, Terminal(p, s), OneReportLess(p, s)
    PROVE  ReportsOK'
<1>1. left \in [Prefix -> Seq(Nat)] /\ left' = [left EXCEPT ![p] = Reported(left[p], s)]
  BY DEF TypeOK, StateTypes, Terminal
<1>2. /\ Reported(left[p], s) \in Seq(Nat) /\ Len(Reported(left[p], s)) = Len(left[p])
      /\ \A i \in 1 .. Len(left[p]) : Reported(left[p], s)[i] =
                IF i = s /\ left[p][i] > 0 THEN left[p][i] - 1 ELSE left[p][i]
  BY <1>1, ReportedCounts
<1> SUFFICES ASSUME NEW q \in Prefix, NEW r, r \in Seqs(q)'
             PROVE  left'[q][r] <= Reports(q, r)'
  BY DEF ReportsOK
<1>3. r \in 1 .. Len(left[q]) /\ r \in Nat /\ left[q][r] \in Nat
  <2>1. left[q] \in Seq(Nat) /\ Len(left'[q]) = Len(left[q]) /\ r \in 1 .. Len(left'[q])
    BY <1>1, <1>2 DEF Seqs
  <2> QED
    BY <2>1
<1>4. left[q][r] <= Reports(q, r)
  BY <1>3 DEF ReportsOK, Seqs
<1>5. left'[q][r] = IF q = p /\ r = s /\ left[q][r] > 0 THEN left[q][r] - 1 ELSE left[q][r]
  BY <1>1, <1>2, <1>3
<1>6. /\ Reports(q, r) \in Nat /\ Reports(q, r)' \in Nat
      /\ \/ Reports(q, r)' >= Reports(q, r)
         \/ q = p /\ r = s /\ Reports(q, r)' >= Reports(q, r) - 1
  BY <1>3 DEF OneReportLess
<1> QED
  BY <1>3, <1>4, <1>5, <1>6

\* Reports that are still to come, from here or from elsewhere.
NoReportLess ==
    \A q \in Prefix : \A r \in Nat :
        Reports(q, r) \in Nat /\ Reports(q, r)' \in Nat /\ Reports(q, r)' >= Reports(q, r)

\* A count that stands is covered as long as no report is lost.
LEMMA ReportsFrame ==
    ASSUME TypeOK, ReportsOK, UNCHANGED left, NoReportLess
    PROVE  ReportsOK'
<1> SUFFICES ASSUME NEW q \in Prefix, NEW r, r \in Seqs(q)'
             PROVE  left'[q][r] <= Reports(q, r)'
  BY DEF ReportsOK
<1>1. left \in [Prefix -> Seq(Nat)] /\ left' = left
  BY DEF TypeOK, StateTypes
<1>2. r \in Seqs(q) /\ r \in 1 .. Len(left[q]) /\ left[q] \in Seq(Nat)
  BY <1>1 DEF Seqs
<1>3. left[q][r] <= Reports(q, r)
  BY <1>2 DEF ReportsOK
<1>4. r \in Nat /\ left[q][r] \in Nat
  BY <1>2
<1>5. Reports(q, r) \in Nat /\ Reports(q, r)' \in Nat /\ Reports(q, r)' >= Reports(q, r)
  BY <1>4 DEF NoReportLess
<1> QED
  BY <1>1, <1>3, <1>4, <1>5

\* EmitLocally reports the object itself.
LEMMA EmitLocallyReports ==
    ASSUME TypeOK, WorkerRange, PageShape, ReportsOK, NEW w \in Worker, EmitLocally(w)
    PROVE  ReportsOK'
<1>1. PICK o \in todo[w] : todo' = [todo EXCEPT ![w] = @ \ {o}]
  BY DEF EmitLocally
<1>2. /\ todo \in [Worker -> SUBSET Object] /\ cur[w] \in Prefix /\ seq[w] \in Nat /\ o \in Object
  BY DEF TypeOK, WorkerTypes
<1>3. pc[w] = "page" /\ UNCHANGED <<pc, cur, seq, objCh, chk>> /\ Terminal(cur[w], seq[w])
  BY DEF EmitLocally, checkVars
<1>4. ASSUME NEW q \in Prefix, NEW r \in Nat
      PROVE  /\ Reports(q, r) \in Nat /\ Reports(q, r)' \in Nat
             /\ \/ Reports(q, r)' >= Reports(q, r)
                \/ q = cur[w] /\ r = seq[w] /\ Reports(q, r)' >= Reports(q, r) - 1
  <2>1. Waiting(q, r)' = Waiting(q, r) /\ Judged(q, r)' = Judged(q, r)
    BY <1>3 DEF Waiting, Judged
  <2>2. CASE q = cur[w] /\ r = seq[w]
    <3>1. Unsent(q, r)' = Unsent(q, r) \ {<<w, o>>} /\ <<w, o>> \in Unsent(q, r)
      BY <1>1, <1>2, <1>3, <2>2 DEF Unsent, Holds
    <3>2. Cardinality(Unsent(q, r)') = Cardinality(Unsent(q, r)) - 1
      BY <3>1, ReportsFinite, FS_RemoveElement
    <3>3. Cardinality(Unsent(q, r)') \in Nat
      BY <3>1, ReportsFinite, FS_RemoveElement, FS_CardinalityType
    <3> QED
      BY <2>1, <2>2, <3>2, <3>3, ReportsFinite DEF Reports
  <2>3. CASE ~(q = cur[w] /\ r = seq[w])
    <3>1. Unsent(q, r)' = Unsent(q, r)
      BY <1>1, <1>2, <1>3, <2>3 DEF Unsent, Holds
    <3> QED
      BY <2>1, <2>3, <3>1, ReportsFinite DEF Reports
  <2> QED
    BY <2>2, <2>3
<1>5. OneReportLess(cur[w], seq[w])
  BY <1>4 DEF OneReportLess
<1> QED
  BY <1>2, <1>3, <1>5, TerminalReports

\* Emit sends it on its way.
LEMMA EmitReports ==
    ASSUME TypeOK, WorkerRange, PageShape, ReportsOK, NEW w \in Worker, Emit(w)
    PROVE  ReportsOK'
<1>1. PICK o \in todo[w] :
        /\ objCh' = Append(objCh, [obj |-> o, prefix |-> cur[w], seq |-> seq[w]])
        /\ todo' = [todo EXCEPT ![w] = @ \ {o}]
  BY DEF Emit
<1>2. /\ todo \in [Worker -> SUBSET Object] /\ cur[w] \in Prefix /\ seq[w] \in Nat /\ o \in Object
      /\ objCh \in Seq(Task) /\ Len(objCh) \in Nat
      /\ [obj |-> o, prefix |-> cur[w], seq |-> seq[w]] \in Task
  BY DEF TypeOK, WorkerTypes, CheckTypes, Task
<1>3. pc[w] = "page" /\ UNCHANGED <<pc, cur, seq, chk, left>>
  BY DEF Emit, stateVars
<1>4. /\ DOMAIN objCh' = DOMAIN objCh \cup {Len(objCh) + 1} /\ Len(objCh) + 1 \notin DOMAIN objCh
      /\ \A i \in DOMAIN objCh : objCh'[i] = objCh[i]
      /\ objCh'[Len(objCh) + 1].prefix = cur[w] /\ objCh'[Len(objCh) + 1].seq = seq[w]
  BY <1>1, <1>2, AppendProperties
<1>5. ASSUME NEW q \in Prefix, NEW r \in Nat
      PROVE  Reports(q, r) \in Nat /\ Reports(q, r)' \in Nat /\ Reports(q, r)' >= Reports(q, r)
  <2>1. Judged(q, r)' = Judged(q, r)
    BY <1>3 DEF Judged
  <2>2. CASE q = cur[w] /\ r = seq[w]
    <3>1. Unsent(q, r)' = Unsent(q, r) \ {<<w, o>>} /\ <<w, o>> \in Unsent(q, r)
      BY <1>1, <1>2, <1>3, <2>2 DEF Unsent, Holds
    <3>2. Cardinality(Unsent(q, r)') = Cardinality(Unsent(q, r)) - 1
      BY <3>1, ReportsFinite, FS_RemoveElement
    <3>3. Waiting(q, r)' = Waiting(q, r) \cup {Len(objCh) + 1} /\ Len(objCh) + 1 \notin Waiting(q, r)
      BY <1>4, <2>2 DEF Waiting
    <3>4. Cardinality(Waiting(q, r)') = Cardinality(Waiting(q, r)) + 1
      BY <3>3, ReportsFinite, FS_AddElement
    <3> QED
      BY <2>1, <3>2, <3>4, ReportsFinite DEF Reports
  <2>3. CASE ~(q = cur[w] /\ r = seq[w])
    <3>1. Unsent(q, r)' = Unsent(q, r)
      BY <1>1, <1>2, <1>3, <2>3 DEF Unsent, Holds
    <3>2. Waiting(q, r)' = Waiting(q, r)
      BY <1>4, <2>3 DEF Waiting
    <3> QED
      BY <2>1, <3>1, <3>2, ReportsFinite DEF Reports
  <2> QED
    BY <2>2, <2>3
<1>6. NoReportLess
  BY <1>5 DEF NoReportLess
<1> QED
  BY <1>3, <1>6, ReportsFrame

\* ListPage counts what the worker has still to send.
LEMMA ListPageReports ==
    ASSUME TypeOK, WorkerRange, PageShape, ReportsOK, NEW w \in Worker, ListPage(w)
    PROVE  ReportsOK'
<1> DEFINE p == cur[w]
           O == Objs(p, tok[w] + 1)
           s0 == Len(left[p]) + 1
<1>1. /\ p \in Prefix /\ left \in [Prefix -> Seq(Nat)] /\ Len(left[p]) \in Nat /\ seq \in [Worker -> Nat]
      /\ pc \in [Worker -> {"pop", "list", "page", "exit"}] /\ todo \in [Worker -> SUBSET Object]
  BY DEF TypeOK, WorkerTypes, StateTypes
<1>2. /\ pc[w] = "list" /\ pc'[w] = "page" /\ cur' = cur /\ seq'[w] = s0 /\ todo'[w] = O
      /\ \A v \in Worker \ {w} : pc'[v] = pc[v] /\ seq'[v] = seq[v] /\ todo'[v] = todo[v]
      /\ left' = [left EXCEPT ![p] = Append(@, Cardinality(O))] /\ UNCHANGED <<objCh, chk>>
  BY <1>1 DEF ListPage, RegisterPage, Objs, checkVars
<1>3. O \subseteq Object /\ IsFiniteSet(O) /\ Cardinality(O) \in Nat
  BY ListedPage DEF Objs
<1>4. /\ IsFiniteSet({w} \X O) /\ Cardinality({w} \X O) = Cardinality(O)
  <2>1. IsFiniteSet({w}) /\ Cardinality({w}) = 1
    BY FS_Singleton
  <2>2. Cardinality({w} \X O) = Cardinality({w}) * Cardinality(O) /\ IsFiniteSet({w} \X O)
    BY <1>3, <2>1, FS_Product
  <2> QED
    BY <1>3, <2>1, <2>2
<1>5. ASSUME NEW q, NEW r
      PROVE  /\ Unsent(q, r) \subseteq Unsent(q, r)'
             /\ Unsent(q, r)' \subseteq Unsent(q, r) \cup ({w} \X O)
             /\ q = p /\ r = s0 => ({w} \X O) \subseteq Unsent(q, r)'
             /\ Waiting(q, r)' = Waiting(q, r) /\ Judged(q, r)' = Judged(q, r)
  <2>1. Unsent(q, r) \subseteq Unsent(q, r)'
    BY <1>2 DEF Unsent, Holds
  <2>2. Unsent(q, r)' \subseteq Unsent(q, r) \cup ({w} \X O)
    <3> SUFFICES ASSUME NEW t \in Unsent(q, r)', t \notin Unsent(q, r)
                 PROVE  t \in {w} \X O
      OBVIOUS
    <3>1. t \in Worker \X Object /\ t = <<t[1], t[2]>> /\ t[2] \in todo'[t[1]]
      BY DEF Unsent
    <3>2. t[1] = w
      BY <1>2, <3>1 DEF Unsent, Holds
    <3> QED
      BY <1>2, <3>1, <3>2
  <2>3. q = p /\ r = s0 => ({w} \X O) \subseteq Unsent(q, r)'
    BY <1>2, <1>3 DEF Unsent, Holds
  <2> QED
    BY <1>2, <2>1, <2>2, <2>3 DEF Waiting, Judged
<1>6. ASSUME NEW q, NEW r
      PROVE  /\ Reports(q, r) \in Nat /\ Reports(q, r)' \in Nat
             /\ Reports(q, r)' >= Reports(q, r)
             /\ q = p /\ r = s0 => Reports(q, r)' >= Cardinality(O)
  <2>1. IsFiniteSet(Unsent(q, r)')
    <3>1. IsFiniteSet(Unsent(q, r) \cup ({w} \X O))
      BY <1>4, ReportsFinite, FS_Union
    <3> QED
      BY <1>5, <3>1, FS_Subset
  <2>2. Cardinality(Unsent(q, r)) <= Cardinality(Unsent(q, r)') /\ Cardinality(Unsent(q, r)') \in Nat
    BY <1>5, <2>1, FS_Subset, FS_CardinalityType
  <2>3. q = p /\ r = s0 => Cardinality(O) <= Cardinality(Unsent(q, r)')
    BY <1>4, <1>5, <2>1, FS_Subset
  <2>4. Waiting(q, r)' = Waiting(q, r) /\ Judged(q, r)' = Judged(q, r)
    BY <1>5
  <2> QED
    BY <1>3, <2>2, <2>3, <2>4, ReportsFinite DEF Reports
<1> SUFFICES ASSUME NEW q \in Prefix, NEW r, r \in Seqs(q)'
             PROVE  left'[q][r] <= Reports(q, r)'
  BY DEF ReportsOK
<1>7. CASE r \in Seqs(q)
  <2>1. left'[q][r] = left[q][r] /\ left[q][r] \in Nat
    <3>1. left[q] \in Seq(Nat) /\ r \in 1 .. Len(left[q])
      BY <1>1, <1>7 DEF Seqs
    <3>2. Append(left[q], Cardinality(O))[r] = left[q][r] /\ left[q][r] \in Nat
      BY <1>3, <3>1
    <3> QED
      BY <1>1, <1>2, <3>2
  <2>2. left[q][r] <= Reports(q, r)
    BY <1>7 DEF ReportsOK
  <2>3. Reports(q, r) \in Nat /\ Reports(q, r)' \in Nat /\ Reports(q, r)' >= Reports(q, r)
    BY <1>6
  <2> QED
    BY <2>1, <2>2, <2>3
<1>8. CASE r \notin Seqs(q)
  <2>1. q = p /\ r = s0 /\ left'[q][r] = Cardinality(O)
    <3>1. q = p
      BY <1>1, <1>2, <1>8 DEF Seqs
    <3>2. left'[p] = Append(left[p], Cardinality(O)) /\ left[p] \in Seq(Nat)
      BY <1>1, <1>2
    <3>3. Len(left'[p]) = s0 /\ left'[p][s0] = Cardinality(O)
      BY <1>3, <3>2
    <3>4. r \in 1 .. s0 /\ r \notin 1 .. Len(left[p])
      BY <1>8, <3>1, <3>3 DEF Seqs
    <3>5. \A n \in Nat : \A i \in 1 .. n + 1 : i \in 1 .. n \/ i = n + 1
      OBVIOUS
    <3>6. r = s0
      BY <1>1, <3>4, <3>5
    <3> QED
      BY <3>1, <3>3, <3>6
  <2>2. Reports(q, r)' \in Nat /\ Reports(q, r)' >= Cardinality(O)
    BY <1>6, <2>1
  <2> QED
    BY <1>3, <2>1, <2>2
<1> QED
  BY <1>7, <1>8

\* A task moves from objCh to a checker.
LEMMA ReceiveReports ==
    ASSUME TypeOK, WorkerRange, PageShape, ReportsOK, NEW c \in Checker, Receive(c)
    PROVE  ReportsOK'
<1>1. /\ objCh \in Seq(Task) /\ chk \in [Checker -> Task \cup {NoTask}]
  BY DEF TypeOK, CheckTypes
<1>2. /\ chk[c] = NoTask /\ objCh # <<>> /\ objCh' = Tail(objCh)
      /\ chk' = [chk EXCEPT ![c] = objCh[1]]
      /\ UNCHANGED <<pc, cur, seq, todo, left>>
  BY <1>1 DEF Receive, workerVars, stateVars
<1>3. /\ Len(objCh) \in Nat /\ Len(objCh) > 0 /\ DOMAIN objCh = 1 .. Len(objCh)
      /\ DOMAIN Tail(objCh) = 1 .. (Len(objCh) - 1)
      /\ \A j \in 1 .. (Len(objCh) - 1) : Tail(objCh)[j] = objCh[j + 1]
  BY <1>1, <1>2, HeadTailProperties
<1>4. objCh[1] \in Task /\ objCh[1] # NoTask
  BY <1>1, <1>3, ElementOfSeq, ConfigAssumption
<1>5. ASSUME NEW q \in Prefix, NEW r \in Nat
      PROVE  Reports(q, r) \in Nat /\ Reports(q, r)' \in Nat /\ Reports(q, r)' >= Reports(q, r)
  <2> DEFINE f == [j \in Waiting(q, r)' |-> j + 1]
  <2>1. Unsent(q, r)' = Unsent(q, r)
    BY <1>2 DEF Unsent, Holds
  <2>2. Waiting(q, r)' \subseteq 1 .. (Len(objCh) - 1)
    BY <1>2, <1>3 DEF Waiting
  <2>3. IsFiniteSet(Waiting(q, r)') /\ Cardinality(Waiting(q, r)') \in Nat
    <3>1. IsFiniteSet(1 .. (Len(objCh) - 1))
      BY <1>3, FS_Interval
    <3> QED
      BY <2>2, <3>1, FS_Subset, FS_CardinalityType
  <2>4. f \in Surjection(Waiting(q, r)', Waiting(q, r) \ {1})
    <3>1. ASSUME NEW j \in Waiting(q, r)'
          PROVE  j + 1 \in Waiting(q, r) \ {1}
      BY <1>2, <1>3, <2>2 DEF Waiting
    <3>2. ASSUME NEW i \in Waiting(q, r) \ {1}
          PROVE  \E j \in Waiting(q, r)' : f[j] = i
      <4>1. i - 1 \in 1 .. (Len(objCh) - 1) /\ i \in Int /\ (i - 1) + 1 = i
        BY <1>3 DEF Waiting
      <4>2. Tail(objCh)[i - 1] = objCh[i]
        BY <1>3, <4>1
      <4>3. i - 1 \in Waiting(q, r)'
        BY <1>2, <1>3, <4>1, <4>2 DEF Waiting
      <4> QED
        BY <4>1, <4>3
    <3> QED
      BY <3>1, <3>2 DEF Surjection
  <2>5. Cardinality(Waiting(q, r) \ {1}) <= Cardinality(Waiting(q, r)')
    BY <2>3, <2>4, FS_Surjection
  <2>6. Cardinality(Waiting(q, r) \ {1}) =
          IF 1 \in Waiting(q, r) THEN Cardinality(Waiting(q, r)) - 1 ELSE Cardinality(Waiting(q, r))
    BY ReportsFinite, FS_RemoveElement
  <2>7. c \notin Judged(q, r) /\ Judged(q, r)' = IF 1 \in Waiting(q, r) THEN Judged(q, r) \cup {c}
                                                                       ELSE Judged(q, r)
    BY <1>1, <1>2, <1>3, <1>4 DEF Judged, Waiting
  <2>8. Cardinality(Judged(q, r)') =
          IF 1 \in Waiting(q, r) THEN Cardinality(Judged(q, r)) + 1 ELSE Cardinality(Judged(q, r))
    BY <2>7, ReportsFinite, FS_AddElement
  <2> QED
    BY <2>1, <2>3, <2>5, <2>6, <2>8, ReportsFinite DEF Reports
<1>6. NoReportLess
  BY <1>5 DEF NoReportLess
<1> QED
  BY <1>2, <1>6, ReportsFrame

\* The report of a checker arrives.
LEMMA ReportReports ==
    ASSUME TypeOK, WorkerRange, PageShape, ReportsOK, NEW c \in Checker, Report(c)
    PROVE  ReportsOK'
<1>1. /\ chk \in [Checker -> Task \cup {NoTask}] /\ chk[c] \in Task
  BY DEF TypeOK, CheckTypes, Report
<1>2. /\ Terminal(chk[c].prefix, chk[c].seq) /\ chk' = [chk EXCEPT ![c] = NoTask]
      /\ UNCHANGED <<pc, cur, seq, todo, objCh>>
  BY DEF Report, workerVars
<1>3. chk[c].prefix \in Prefix /\ chk[c].seq \in Nat
  BY <1>1 DEF Task
<1>4. ASSUME NEW q \in Prefix, NEW r \in Nat
      PROVE  /\ Reports(q, r) \in Nat /\ Reports(q, r)' \in Nat
             /\ \/ Reports(q, r)' >= Reports(q, r)
                \/ q = chk[c].prefix /\ r = chk[c].seq /\ Reports(q, r)' >= Reports(q, r) - 1
  <2>1. Unsent(q, r)' = Unsent(q, r) /\ Waiting(q, r)' = Waiting(q, r)
    BY <1>2 DEF Unsent, Waiting, Holds
  <2>2. Judged(q, r)' = Judged(q, r) \ {c}
    BY <1>1, <1>2 DEF Judged
  <2>3. /\ IsFiniteSet(Judged(q, r)') /\ Cardinality(Judged(q, r)') \in Nat
        /\ Cardinality(Judged(q, r)') = IF c \in Judged(q, r) THEN Cardinality(Judged(q, r)) - 1
                                                             ELSE Cardinality(Judged(q, r))
    BY <2>2, ReportsFinite, FS_RemoveElement, FS_CardinalityType
  <2>4. c \in Judged(q, r) => q = chk[c].prefix /\ r = chk[c].seq
    BY DEF Judged
  <2> QED
    BY <2>1, <2>3, <2>4, ReportsFinite DEF Reports
<1>5. OneReportLess(chk[c].prefix, chk[c].seq)
  BY <1>4 DEF OneReportLess
<1> QED
  BY <1>2, <1>3, <1>5, TerminalReports

\* ReportsOK is inductive.
LEMMA ReportsStep ==
    ASSUME TypeOK, WorkerRange, PageShape, Smooth', ReportsOK, [Next]_vars
    PROVE  ReportsOK'
<1>1. pc \in [Worker -> {"pop", "list", "page", "exit"}] /\ left \in [Prefix -> Seq(Nat)]
  BY DEF TypeOK, WorkerTypes, StateTypes
<1>2. ASSUME UNCHANGED <<left, objCh, chk>>, \A q \in Prefix : \A r \in Nat : Unsent(q, r)' = Unsent(q, r)
      PROVE  ReportsOK'
  <2>1. ASSUME NEW q \in Prefix, NEW r \in Nat
        PROVE  Reports(q, r) \in Nat /\ Reports(q, r)' \in Nat /\ Reports(q, r)' >= Reports(q, r)
    <3>1. Reports(q, r)' = Reports(q, r)
      BY <1>2 DEF Reports, Waiting, Judged
    <3> QED
      BY <3>1, ReportsFinite
  <2>2. NoReportLess
    BY <2>1 DEF NoReportLess
  <2> QED
    BY <1>2, <2>2, ReportsFrame
<1>3. ASSUME NEW w \in Worker, ListWorker(w) \/ ListFails(w)
      PROVE  ReportsOK'
  <2>1. CASE ListFails(w) \/ HardAbort(w)
    BY <2>1 DEF ListFails, HardAbort, Smooth
  <2>2. CASE Pop(w) \/ PopFails(w) \/ TurnPage(w) \/ LastPage(w)
    <3>1. /\ pc[w] # "page" \/ todo[w] = {}
          /\ pc'[w] # "page" /\ UNCHANGED <<left, objCh, chk>>
          /\ \A v \in Worker \ {w} : /\ pc'[v] = pc[v] /\ seq'[v] = seq[v] /\ todo'[v] = todo[v]
                                     /\ cur'[v] = cur[v]
      BY <1>1, <2>2 DEF Pop, PopFails, TurnPage, LastPage, PageDone, Leave, MarkPaginationDone,
         stateVars, checkVars, TypeOK, WorkerTypes
    <3>2. \A q \in Prefix : \A r \in Nat : Unsent(q, r)' = Unsent(q, r)
      BY <3>1 DEF Unsent, Holds
    <3> QED
      BY <1>2, <3>1, <3>2
  <2>3. CASE AddDiscovered(w) \/ Enqueue(w)
    <3>1. UNCHANGED <<pc, cur, seq, todo, left, objCh, chk>>
      BY <2>3 DEF AddDiscovered, Enqueue, stateVars, checkVars
    <3>2. \A q \in Prefix : \A r \in Nat : Unsent(q, r)' = Unsent(q, r)
      BY <3>1 DEF Unsent, Holds
    <3> QED
      BY <1>2, <3>1, <3>2
  <2> QED
    BY <1>3, <2>1, <2>2, <2>3, ListPageReports, EmitReports, EmitLocallyReports DEF ListWorker
<1>4. ASSUME NEW c \in Checker, CheckWorker(c)
      PROVE  ReportsOK'
  <2>1. CASE Handle(c)
    <3>1. UNCHANGED <<pc, cur, seq, todo, left, objCh, chk>>
      BY <2>1 DEF Handle, stateVars, workerVars
    <3>2. \A q \in Prefix : \A r \in Nat : Unsent(q, r)' = Unsent(q, r)
      BY <3>1 DEF Unsent, Holds
    <3> QED
      BY <1>2, <3>1, <3>2
  <2> QED
    BY <1>4, <2>1, ReceiveReports, ReportReports DEF CheckWorker
<1>5. CASE CommitBatch
  <2>1. /\ left' = [p \in Prefix |-> IF p \in snap.dones THEN <<>> ELSE left[p]]
        /\ UNCHANGED <<pc, cur, seq, todo, objCh, chk>>
    BY <1>5 DEF CommitBatch, Commit, workerVars, checkVars
  <2>2. ASSUME NEW q \in Prefix, NEW r, r \in Seqs(q)'
        PROVE  left'[q][r] <= Reports(q, r)'
    <3>1. r \in Seqs(q) /\ left'[q][r] = left[q][r]
      BY <2>1, <2>2 DEF Seqs
    <3>2. Reports(q, r)' = Reports(q, r)
      BY <2>1 DEF Reports, Unsent, Holds, Waiting, Judged
    <3> QED
      BY <3>1, <3>2 DEF ReportsOK
  <2> QED
    BY <2>2 DEF ReportsOK
<1>6. CASE Restart
  <2>1. left' = [p \in Prefix |-> <<>>]
    BY <1>6 DEF Restart, Kill, StartScan, Resume, Start, Reboot
  <2> QED
    BY <2>1 DEF ReportsOK, Seqs
<1>7. CASE \/ WriterFlush \/ MainStep \/ Signal \/ Terminated \/ UNCHANGED vars
           \/ FlushAndWait \/ AppendBatch \/ ShortWrite
           \/ \E why \in {"tick", "trigger", "final"} : Snapshot(why)
  <2>1. UNCHANGED <<pc, cur, seq, todo, left, objCh, chk>>
    BY <1>7 DEF WriterFlush, MainStep, Seeding, RecordSeed, CheckpointNow, CloseIfUnseeded,
     AllWorkDone, CloseOutput, Signal, Terminated, vars, stateVars, workerVars, checkVars,
     FlushAndWait, AppendBatch, ShortWrite, Snapshot
  <2>2. \A q \in Prefix : \A r \in Nat : Unsent(q, r)' = Unsent(q, r)
    BY <2>1 DEF Unsent, Holds
  <2> QED
    BY <1>2, <2>1, <2>2
<1> QED
  BY <1>3, <1>4, <1>5, <1>6, <1>7 DEF Next, Checkpointing, Restart

\* Only a new process leaves "down".
LEMMA DownStays ==
    ASSUME MainOK, [Next]_vars, ~Restart, main = "down"
    PROVE  main' = "down"
<1>1. CASE \E w \in Worker : ListWorker(w) \/ ListFails(w)
  BY <1>1 DEF ListWorker, ListFails, Pop, PopFails, ListPage, AddDiscovered, Emit, EmitLocally,
     HardAbort, Enqueue, TurnPage, LastPage, mainVars
<1>2. CASE Checkpointing
  BY <1>2 DEF Checkpointing, FlushAndWait, AppendBatch, ShortWrite, CommitBatch, MainOK
<1>3. CASE \/ \E c \in Checker : CheckWorker(c)
           \/ \E why \in {"tick", "trigger", "final"} : Snapshot(why)
           \/ WriterFlush \/ MainStep \/ Signal \/ Terminated \/ UNCHANGED vars
  BY <1>3 DEF CheckWorker, Receive, Handle, Report, WriterFlush, Snapshot, MainStep, Seeding,
     CheckpointNow, CloseIfUnseeded, AllWorkDone, CloseOutput, Signal, Terminated, vars, mainVars
<1> QED
  BY <1>1, <1>2, <1>3 DEF Next, Restart

\* A step keeps DueOK when what is open stays open and what becomes due is tracked, or is
\* itself open.
LEMMA DueKept ==
    ASSUME DueOK, main # "down", Open \subseteq Open',
           \A p \in Due' : p \in tracked' \/ (\E i \in Open' : i[1] = p) \/ p \in Due \ tracked
    PROVE  DueOK'
<1> SUFFICES ASSUME NEW S \in SUBSET AllPages, ListedFrom(Open', S), NEW p \in Due', p \notin tracked'
             PROVE  Named(p, S)'
  BY DEF DueOK, ListedFrom, AllPages
<1>1. ListedFrom(Open, S)
  BY ListedFromFewer
<1>2. CASE \E i \in Open' : i[1] = p
  BY <1>2 DEF Named
<1>3. CASE p \in Due \ tracked
  <2>1. Named(p, S)
    BY <1>1, <1>3 DEF DueOK
  <2> QED
    BY <2>1 DEF Named
<1> QED
  BY <1>2, <1>3

\* ListPage: the prefix is tracked from here on, and its sub-prefixes are open.
LEMMA ListPageDue ==
    ASSUME TypeOK, WorkerRange, DueOK, main # "down", NEW w \in Worker, ListPage(w)
    PROVE  DueOK'
<1> DEFINE p0 == cur[w]
           k == tok[w] + 1
<1>1. /\ pc \in [Worker -> {"pop", "list", "page", "exit"}] /\ cur \in [Worker -> Prefix]
      /\ subs \in [Worker -> SUBSET Prefix]
  BY DEF TypeOK, WorkerTypes
<1>2. /\ \A v \in Worker \ {w} : /\ pc'[v] = pc[v] /\ cur'[v] = cur[v] /\ tok'[v] = tok[v]
                                 /\ subs'[v] = subs[v]
      /\ pc[w] = "list" /\ pc'[w] = "page" /\ subs'[w] = Subs(p0, k)
      /\ tracked' = tracked \cup {p0} /\ UNCHANGED <<toSeed, queue, listFailed, pend, main>>
  BY <1>1 DEF ListPage, RegisterPage, Subs, mainVars, queueVars, outVars
<1>3. Due' = Due
  BY DEF ListPage, Due, Finished, ckptVars, fileVars
<1> SUFFICES ASSUME NEW S \in SUBSET AllPages, ListedFrom(Open', S), NEW p \in Due, p \notin tracked'
             PROVE  Named(p, S)'
  BY <1>3 DEF DueOK, ListedFrom, AllPages
<1>4. /\ S \cup {<<p0, k>>} \in SUBSET AllPages /\ ListedFrom(Open, S \cup {<<p0, k>>})
  BY ListPageOpens
<1>5. Named(p, S \cup {<<p0, k>>})
  BY <1>2, <1>4 DEF DueOK
<1>6. CASE \E i \in Open : i[1] = p
  <2>1. PICK i \in Open : i[1] = p
    BY <1>6
  <2>2. i # NextSeed(w)
    BY <1>2, <2>1 DEF NextSeed
  <2>3. i \notin Revealed(w)
    BY <1>2 DEF Revealed
  <2>4. listFailed \cup Queued \subseteq Open'
    BY <1>2 DEF Open, Queued
  <2>5. i \in Open'
    BY <1>2, <2>2, <2>3, <2>4, OthersOpen
  <2> QED
    BY <2>1, <2>5 DEF Named
<1>7. CASE \E pg \in S \cup {<<p0, k>>} : p \in Subs(pg[1], pg[2])
  <2>1. PICK pg \in S \cup {<<p0, k>>} : p \in Subs(pg[1], pg[2])
    BY <1>7
  <2>2. CASE pg \in S
    BY <2>1, <2>2 DEF Named
  <2>3. CASE pg = <<p0, k>>
    <3>1. <<p, 0>> \in Revealed(w)'
      BY <1>2, <2>1, <2>3 DEF Revealed
    <3>2. <<p, 0>> \in Open'
      BY <3>1 DEF Open
    <3> QED
      BY <3>2 DEF Named
  <2> QED
    BY <2>1, <2>2, <2>3
<1> QED
  BY <1>5, <1>6, <1>7 DEF Named

\* LastPage: the prefix is with the tracker, or journaled as done meanwhile.
LEMMA LastPageDue ==
    ASSUME TypeOK, WorkerRange, PageShape, DueOK, HeldOK, main # "down",
           NEW w \in Worker, LastPage(w)
    PROVE  DueOK'
<1>1. /\ pc \in [Worker -> {"pop", "list", "page", "exit"}] /\ cur \in [Worker -> Prefix]
      /\ subs \in [Worker -> SUBSET Prefix] /\ tok \in [Worker -> Nat]
  BY DEF TypeOK, WorkerTypes, Token
<1>2. /\ PageDone(w) /\ Leave(w) /\ UNCHANGED <<toSeed, queue, listFailed, tracked, main>>
      /\ tok[w] + 1 = Len(Pages[cur[w]]) /\ pc[w] = "page"
  BY DEF LastPage, PageDone, MarkPaginationDone, mainVars, outVars
<1>3. \A v \in Worker \ {w} : /\ pc'[v] = pc[v] /\ cur'[v] = cur[v] /\ tok'[v] = tok[v]
                              /\ subs'[v] = subs[v]
  BY <1>1, <1>2 DEF Leave
<1>4. Due' = Due
  BY DEF LastPage, Due, Finished, ckptVars, fileVars
<1> SUFFICES ASSUME NEW S \in SUBSET AllPages, ListedFrom(Open', S), NEW p \in Due, p \notin tracked
             PROVE  Named(p, S)'
  BY <1>2, <1>4 DEF DueOK, ListedFrom, AllPages
<1>5. ListedFrom(Open, S)
  BY <1>2, LeaveOpens DEF Listing
<1>6. Named(p, S)
  BY <1>5 DEF DueOK
<1>7. p # cur[w]
  <2>1. cur[w] \in tracked \cup Finished
    BY <1>2 DEF HeldOK
  <2>2. p \notin Finished
    BY DEF Due, Finished
  <2> QED
    BY <2>1, <2>2
<1>8. CASE \E i \in Open : i[1] = p
  <2>1. PICK i \in Open : i[1] = p
    BY <1>8
  <2>2. i # NextSeed(w)
    BY <1>7, <2>1 DEF NextSeed
  <2>3. i \notin Revealed(w)
    BY <1>2 DEF Revealed, PageDone
  <2>4. listFailed \cup Queued \subseteq Open'
    BY <1>2 DEF Open, Queued
  <2>5. i \in Open'
    BY <1>2, <1>3, <2>2, <2>3, <2>4, OthersOpen
  <2> QED
    BY <2>1, <2>5 DEF Named
<1> QED
  BY <1>6, <1>8 DEF Named

\* A new process: every prefix is reached from the root, or is a seed of the resume.
LEMMA FreshDue ==
    ASSUME RootReachesEveryPrefix, TypeOK, TypeOK', Restart
    PROVE  DueOK'
<1>1. CASE Kill
  BY <1>1 DEF Kill, DueOK
<1>2. CASE StartScan
  <2>1. toSeed' = {<<Root, 0>>} /\ {<<Root, 0>>} \subseteq Open'
    BY <1>2 DEF StartScan, Start, Open
  <2> SUFFICES ASSUME NEW S \in SUBSET AllPages, ListedFrom(Open', S), NEW p \in Due'
               PROVE  Named(p, S)'
    BY DEF DueOK, ListedFrom, AllPages
  <2>2. p \in Prefix
    BY DEF TypeOK, FileTypes, StateTypes, Due
  <2>3. ListedFrom({<<Root, 0>>}, S)
    BY <2>1, ListedFromFewer
  <2>4. CASE p = Root
    BY <2>1, <2>4 DEF Named
  <2>5. CASE p # Root
    <3>1. \E pg \in S : p \in Subs(pg[1], pg[2])
      BY <2>2, <2>3, <2>5 DEF RootReachesEveryPrefix
    <3> QED
      BY <3>1 DEF Named
  <2> QED
    BY <2>4, <2>5
<1>3. CASE Resume
  <2>1. /\ toSeed' = {<<p, jtok[p]>> : p \in journaled \ jdone} /\ pend' = {}
        /\ UNCHANGED <<journaled, jdone>> \/ journaled' = {}
    BY <1>3 DEF Resume, Start, Reboot, OpenJournal, EmptyJournal
  <2>2. ASSUME NEW p \in Due'
        PROVE  \E i \in Open' : i[1] = p
    <3>1. p \in journaled \ jdone
      BY <2>1, <2>2 DEF Due
    <3>2. <<p, jtok[p]>> \in Open'
      BY <2>1, <3>1 DEF Open
    <3> QED
      BY <3>2
  <2> QED
    BY <2>2 DEF DueOK, Named
<1> QED
  BY <1>1, <1>2, <1>3 DEF Restart

\* What is due is journaled, committed or listed, never forgotten.
LEMMA DueStep ==
    ASSUME ~RetryMayFail, TornOK, TypeOK, WorkerRange, FlowOK, MainOK, PageShape, BatchOK,
           HeldOK, DueOK, Smooth, Smooth', Seeding => ~closed, [Next]_vars, ~Restart
    PROVE  DueOK'
<1>1. CASE main = "down"
  BY <1>1, DownStays DEF DueOK
<1> SUFFICES ASSUME main # "down"
             PROVE  DueOK'
  BY <1>1
<1>2. ASSUME Open \subseteq Open', Due' = Due, tracked \subseteq tracked'
      PROVE  DueOK'
  BY <1>2, DueKept
<1>3. ASSUME UNCHANGED <<toSeed, queue, listFailed, pc, cur, tok, subs>>
      PROVE  Open' = Open
  BY <1>3 DEF Open, Queued, Listers, Listing, NextSeed, Revealed
<1>4. ASSUME NEW w \in Worker, ListWorker(w) \/ ListFails(w)
      PROVE  DueOK'
  <2>1. CASE ListFails(w) \/ HardAbort(w)
    BY <2>1 DEF ListFails, HardAbort, Smooth
  <2>2. CASE Pop(w) \/ PopFails(w) \/ TurnPage(w) \/ Enqueue(w) \/ Emit(w) \/ EmitLocally(w)
    <3>1. UNCHANGED <<journaled, jdone, fd, pend, tracked>>
      BY <2>2 DEF Pop, PopFails, TurnPage, Enqueue, Emit, EmitLocally, Terminal, fileVars, ckptVars,
         stateVars
    <3> QED
      BY <1>2, <2>2, <3>1, WorkerOpens DEF Due, Finished
  <2>3. CASE AddDiscovered(w)
    <3>1. PICK s \in new[w] : pend' = pend \cup {s}
      BY <2>3 DEF AddDiscovered
    <3>2. UNCHANGED <<journaled, jdone, fd, tracked, subs, pc>> /\ pc[w] = "page"
      BY <2>3 DEF AddDiscovered, fileVars, ckptVars, stateVars
    <3>3. <<s, 0>> \in Open'
      BY <3>1, <3>2 DEF PageShape, Open, Revealed
    <3>4. \A p \in Due' : p = s \/ p \in Due
      BY <3>1, <3>2 DEF Due, Finished
    <3>5. \A p \in Due' : p \in tracked' \/ (\E i \in Open' : i[1] = p) \/ p \in Due \ tracked
      BY <3>2, <3>3, <3>4
    <3> QED
      BY <2>3, <3>5, WorkerOpens, DueKept
  <2> QED
    BY <1>4, <2>1, <2>2, <2>3, ListPageDue, LastPageDue DEF ListWorker
<1>5. CASE Seeding
  <2>1. PICK s \in toSeed : toSeed' = toSeed \ {s} /\ RecordSeed(s[1], s[2]) /\ Push(s)
    BY <1>5 DEF Seeding
  <2>2. /\ queue \in Seq(Seed) /\ s \in Seed /\ queue' = Append(queue, s)
        /\ UNCHANGED <<listFailed, pc, cur, tok, subs, journaled, jdone, fd>>
        /\ pend' = pend \cup {s[1]} /\ tracked' = tracked \cup {s[1]}
    BY <1>5, <2>1 DEF Seeding, Push, RecordSeed, workerVars, outVars, fileVars, ckptVars, TypeOK,
       QueueTypes, MainTypes
  <2>3. /\ \A i \in DOMAIN queue : i \in DOMAIN queue' /\ queue'[i] = queue[i]
        /\ Len(queue) + 1 \in DOMAIN queue' /\ queue'[Len(queue) + 1] = s
    BY <2>2, AppendElements
  <2>4. Queued \cup {s} \subseteq Queued'
    BY <2>3 DEF Queued
  <2>5. Open \subseteq Open'
    BY <2>1, <2>2, <2>4 DEF Open, Listers, Listing, NextSeed, Revealed
  <2>6. \A p \in Due' : p \in tracked' \/ p \in Due \ tracked
    BY <2>2 DEF Due, Finished
  <2> QED
    BY <2>5, <2>6, DueKept
<1>6. CASE \/ \E c \in Checker : CheckWorker(c)
           \/ \E why \in {"tick", "trigger", "final"} : Snapshot(why)
           \/ WriterFlush \/ CheckpointNow \/ CloseIfUnseeded \/ AllWorkDone \/ CloseOutput
           \/ Signal \/ Terminated \/ UNCHANGED vars \/ FlushAndWait
  <2>1. UNCHANGED <<toSeed, queue, listFailed, pc, cur, tok, subs, journaled, jdone, fd, pend, tracked>>
    BY <1>6 DEF CheckWorker, Receive, Handle, Report, Terminal, Snapshot, WriterFlush, CheckpointNow,
       CloseIfUnseeded, AllWorkDone, DrainQueuedPrefixes, Smooth, CloseOutput, Signal, Terminated,
       vars, FlushAndWait, mainVars, queueVars, workerVars, outVars, fileVars, ckptVars, stateVars
  <2> QED
    BY <1>2, <1>3, <2>1 DEF Due, Finished
<1>7. CASE AppendBatch
  <2>1. \A p \in Due' : p \in Due \/ p \in tracked
    BY <1>7, AppendWhole DEF Due, Finished, BatchOK, NoBatch
  <2>2. Open' = Open /\ tracked' = tracked
    BY <1>3, <1>7, AppendWhole DEF workerVars
  <2>3. \A p \in Due' : p \in tracked' \/ p \in Due \ tracked
    BY <2>1, <2>2
  <2> QED
    BY <2>2, <2>3, DueKept
<1>8. CASE ShortWrite
  <2>1. Open' = Open /\ tracked' = tracked
    BY <1>3, <1>8, ShortWriteWhole DEF workerVars
  <2>2. Due' \subseteq Due
    BY <1>8, ShortWriteWhole DEF Due, Finished
  <2>3. \A p \in Due' : p \in tracked' \/ p \in Due \ tracked
    BY <2>1, <2>2
  <2> QED
    BY <2>1, <2>3, DueKept
<1>9. CASE CommitBatch
  <2>1. /\ UNCHANGED <<toSeed, queue, listFailed, pc, cur, tok, subs, journaled, jdone, fd>>
        /\ ckpt = "commit" /\ pend' = pend \ snap.disc /\ tracked' = tracked \ snap.dones
    BY <1>9 DEF CommitBatch, Commit, CheckpointReturns, queueVars, workerVars, outVars, fileVars
  <2>2. Open' = Open
    BY <1>3, <2>1
  <2>3. snap.dones \subseteq Finished /\ Due' \subseteq Due /\ Due \cap Finished = {}
    BY <2>1 DEF BatchOK, Due, Finished
  <2>4. \A p \in Due' : p \in tracked' \/ p \in Due \ tracked
    BY <2>1, <2>3
  <2> QED
    BY <2>2, <2>4, DueKept
<1> QED
  BY <1>4, <1>5, <1>6, <1>7, <1>8, <1>9 DEF Next, Checkpointing, MainStep, Restart

\* When everything is quiet, every page of a tracked prefix has been listed and reported.
LEMMA QuietIsDone ==
    ASSUME TypeOK, AllQuiet, StopOK, ReportsOK, PaginationOK, NEW p \in tracked
    PROVE  IsDone(p)
<1>1. p \in Prefix /\ left[p] \in Seq(Nat) /\ pos[p] \in Nat /\ pos[p] <= Len(left[p])
  BY DEF TypeOK, StateTypes
<1>2. left[p] # <<>> /\ pagDone[p]
  <2>1. ~Awaited(p)
    BY DEF AllQuiet, Awaited
  <2> QED
    BY <2>1 DEF PaginationOK, Paginated, AllQuiet
<1>3. ASSUME pos[p] # Len(left[p])
      PROVE  FALSE
  <2> DEFINE s == pos[p] + 1
  <2>1. s \in Seqs(p) /\ left[p][s] \in Nat /\ left[p][s] # 0
    BY <1>1, <1>3 DEF StopOK, Seqs
  <2>2. Unsent(p, s) = {} /\ Waiting(p, s) = {} /\ Judged(p, s) = {}
    BY DEF AllQuiet, Unsent, Holds, Waiting, Judged
  <2>3. Reports(p, s) = 0
    BY <2>2, FS_EmptySet DEF Reports
  <2>4. left[p][s] <= Reports(p, s)
    BY <1>1, <2>1 DEF ReportsOK
  <2> QED
    BY <2>1, <2>3, <2>4
<1> QED
  BY <1>2, <1>3 DEF IsDone

\* Then nothing is open, and what is due is tracked.
LEMMA QuietIsDue ==
    ASSUME AllQuiet, toSeed = {}, listFailed = {}, main # "down", DueOK, NEW p \in Due
    PROVE  p \in tracked
<1>1. Open = {}
  BY DEF Open, AllQuiet, Queued, Listers, Listing, Revealed
<1>2. {} \in SUBSET AllPages /\ ListedFrom(Open, {})
  BY <1>1 DEF ListedFrom
<1>3. p \in tracked \/ Named(p, {})
  BY <1>2 DEF DueOK
<1> QED
  BY <1>1, <1>3 DEF Named

\* The last snapshot holds all there is, and nothing comes after it.
LEMMA LastStep ==
    ASSUME ~RetryMayFail, TornOK, TypeOK, TypeOK', MainOK, BatchOK, StopOK, Smooth, ReportsOK,
           PaginationOK, DueOK, LastOK, [Next]_vars, ~Restart
    PROVE  LastOK'
<1>1. CASE (\E w \in Worker : ListWorker(w) \/ ListFails(w)) \/ \E c \in Checker : CheckWorker(c)
  <2>1. main' = main
    BY <1>1 DEF ListWorker, ListFails, Pop, PopFails, ListPage, AddDiscovered, Emit, EmitLocally,
       HardAbort, Enqueue, TurnPage, LastPage, CheckWorker, Receive, Handle, Report, mainVars
  <2>2. ~AllQuiet
    BY <1>1 DEF ListWorker, ListFails, Pop, PopFails, ListPage, AddDiscovered, Emit, EmitLocally,
       HardAbort, Enqueue, TurnPage, LastPage, PageDone, CheckWorker, Receive, Handle, Report,
       AllQuiet, TypeOK, CheckTypes
  <2> QED
    BY <2>1, <2>2 DEF MainOK, LastOK
<1>2. CASE Seeding \/ CheckpointNow \/ CloseIfUnseeded
  BY <1>2 DEF Seeding, CheckpointNow, CloseIfUnseeded, LastOK
<1>3. CASE AllWorkDone
  BY <1>3 DEF AllWorkDone, ckptVars, MainOK, LastOK
<1>4. CASE CloseOutput
  BY <1>4 DEF CloseOutput, ckptVars, fileVars, stateVars, LastOK
<1>5. ASSUME NEW why \in {"tick", "trigger", "final"}, Snapshot(why)
      PROVE  LastOK'
  <2>1. /\ main \notin {"closing", "ended"} /\ ckptFor' = why /\ snap' = TakeSnapshot /\ ckpt' = "flush"
        /\ UNCHANGED <<main, pend, tracked>>
    BY <1>5 DEF Snapshot, Up, mainVars, stateVars
  <2>2. CASE main = "stopping" /\ why = "final"
    <3>1. AllQuiet
      BY <2>2 DEF MainOK
    <3>2. \A p \in tracked : IsDone(p)
      BY <3>1, QuietIsDone
    <3>3. TakeSnapshot = [disc |-> pend, cursors |-> {}, dones |-> tracked]
      BY <3>2 DEF TakeSnapshot
    <3> QED
      BY <2>1, <3>3 DEF LastOK
  <2>3. CASE ~(main = "stopping" /\ why = "final")
    BY <2>1, <2>3 DEF LastOK
  <2> QED
    BY <2>2, <2>3
<1>6. CASE FlushAndWait
  BY <1>6 DEF FlushAndWait, mainVars, stateVars, MainOK, LastOK
<1>7. CASE AppendBatch
  <2>1. main \notin {"closing", "ended"}
    BY <1>7 DEF AppendBatch, MainOK
  <2>2. ASSUME main = "stopping", ckptFor = "final"
        PROVE  journaled' = jdone'
    <3>1. snap = [disc |-> pend, cursors |-> {}, dones |-> tracked]
      BY <1>7, <2>2, AppendWhole DEF LastOK
    <3>2. AllQuiet /\ toSeed = {} /\ listFailed = {}
      BY <2>2 DEF MainOK, Smooth
    <3>3. \A p \in Due : p \in tracked
      BY <2>2, <3>2, QuietIsDue
    <3>4. journaled' \subseteq journaled \cup pend \cup tracked /\ jdone' = jdone \cup tracked
      BY <1>7, <3>1, AppendWhole
    <3>5. journaled' \subseteq jdone'
      BY <3>3, <3>4 DEF Due, Finished
    <3> QED
      BY <3>5 DEF TypeOK, FileTypes
  <2> QED
    BY <1>7, <2>1, <2>2, AppendWhole DEF LastOK
<1>8. CASE ShortWrite
  BY <1>8, ShortWriteWhole DEF LastOK
<1>9. CASE CommitBatch
  <2>1. /\ ckpt = "commit" /\ ckpt' = "idle" /\ pend' = pend \ snap.disc /\ tracked' = tracked \ snap.dones
        /\ UNCHANGED <<journaled, jdone, fd>>
        /\ main' = CASE ckptFor = "trigger" -> "seeded"
                     [] ckptFor = "final"   -> "closing"
                     [] OTHER               -> main
    BY <1>9 DEF CommitBatch, Commit, CheckpointReturns, fileVars
  <2>2. main \notin {"closing", "ended"}
    BY <2>1 DEF MainOK
  <2>3. CASE ckptFor = "final"
    <3>1. main = "stopping"
      BY <2>1, <2>3 DEF MainOK
    <3> QED
      BY <2>1, <2>3, <3>1 DEF LastOK
  <2>4. CASE ckptFor # "final"
    <3>1. main' \notin {"closing", "ended"}
      BY <2>1, <2>2, <2>4
    <3> QED
      BY <2>1, <3>1 DEF LastOK
  <2> QED
    BY <2>3, <2>4
<1>10. CASE WriterFlush \/ Signal \/ Terminated \/ UNCHANGED vars
  <2>1. UNCHANGED <<main, ckpt, ckptFor, snap, fd, pend, tracked, journaled, jdone>>
    BY <1>10 DEF WriterFlush, Signal, Terminated, vars, mainVars, ckptVars, stateVars, fileVars
  <2> QED
    BY <2>1 DEF LastOK
<1> QED
  BY <1>1, <1>2, <1>3, <1>4, <1>5, <1>6, <1>7, <1>8, <1>9, <1>10 DEF Next, Checkpointing, MainStep,
     Restart

\* A process that has just died, or started, has nothing under way.
LEMMA FreshClosing ==
    ASSUME Restart
    PROVE  ReportsOK' /\ PaginationOK' /\ LastOK'
<1>1. /\ left' = [p \in Prefix |-> <<>>] /\ tracked' = {} /\ main' \in {"down", "seeding"}
  BY DEF Restart, Kill, StartScan, Resume, Start, Reboot
<1> QED
  BY <1>1 DEF ReportsOK, Seqs, PaginationOK, LastOK

\* ClosingOK is inductive.
LEMMA ClosingStep ==
    ASSUME ~RetryMayFail, RootReachesEveryPrefix, TypeOK, TypeOK', RangeOK, CourseOK, ClosingOK,
           [Next]_vars
    PROVE  ClosingOK'
<1>1. WorkerRange /\ FlowOK /\ MainOK /\ PageShape
  BY DEF RangeOK, CourseOK
<1>2. TornOK /\ BatchOK /\ StopOK /\ HeldOK
  BY DEF ClosingOK
<1>3. TornOK' /\ BatchOK' /\ StopOK' /\ HeldOK'
  BY <1>1, <1>2, TornStep, BatchStep, StopStep, HeldStep
<1>4. CASE Restart
  <2>1. ReportsOK' /\ PaginationOK' /\ DueOK' /\ LastOK'
    BY <1>4, FreshClosing, FreshDue
  <2> QED
    BY <1>3, <2>1 DEF ClosingOK
<1>5. CASE ~Restart
  <2>1. ASSUME Smooth'
        PROVE  ReportsOK' /\ PaginationOK' /\ DueOK' /\ LastOK'
    <3>1. Smooth /\ (Seeding => ~closed)
      BY <1>1, <1>5, <2>1, SmoothBefore
    <3>2. ReportsOK /\ PaginationOK /\ DueOK /\ LastOK
      BY <3>1 DEF ClosingOK
    <3>3. ReportsOK'
      BY <1>1, <2>1, <3>2, ReportsStep
    <3>4. PaginationOK'
      BY <1>1, <1>5, <2>1, <3>1, <3>2, PaginationStep
    <3>5. DueOK'
      BY <1>1, <1>2, <1>5, <2>1, <3>1, <3>2, DueStep
    <3>6. LastOK'
      BY <1>1, <1>2, <1>5, <3>1, <3>2, LastStep
    <3> QED
      BY <3>3, <3>4, <3>5, <3>6
  <2> QED
    BY <1>3, <2>1 DEF ClosingOK
<1> QED
  BY <1>4, <1>5

\* ClosingOK holds before the first run.
LEMMA ClosingInit == Init => ClosingOK
<1> SUFFICES ASSUME Init
             PROVE  ClosingOK
  OBVIOUS
<1>1. TornOK /\ BatchOK
  BY DEF Init, TornOK, BatchOK, NoBatch
<1>2. StopOK /\ HeldOK
  BY DEF Init, StopOK, HeldOK
<1>3. ReportsOK /\ PaginationOK
  BY DEF Init, ReportsOK, Seqs, PaginationOK
<1>4. DueOK /\ LastOK
  BY DEF Init, DueOK, LastOK
<1> QED
  BY <1>1, <1>2, <1>3, <1>4 DEF ClosingOK

\* Where no short write follows another: a run that ends without a signal, a LIST
\* error, a failed append or a lost seed has journaled every prefix as done, those it
\* discovered, those it resumed and those of the runs before it, whatever ticks, kills and
\* restarts went before, and its tracker has dropped them all (journal.go, drop-after-commit;
\* main.go, journalRun.Stop).
THEOREM CleanRunForgetsNothing ==
    ASSUME ~RetryMayFail, RootReachesEveryPrefix
    PROVE  Spec => []CleanRunJournalsAll
<1>1. Init => TypeOK /\ RangeOK /\ CourseOK /\ ClosingOK
  BY TypeInit, CourseInit, ClosingInit
<1>2. TypeOK /\ RangeOK /\ CourseOK /\ ClosingOK /\ [Next]_vars
        => (TypeOK /\ RangeOK /\ CourseOK /\ ClosingOK)'
  <2> SUFFICES ASSUME TypeOK, RangeOK, CourseOK, ClosingOK, [Next]_vars
               PROVE  (TypeOK /\ RangeOK /\ CourseOK /\ ClosingOK)'
    OBVIOUS
  <2>1. TypeOK' /\ RangeOK'
    BY TypeStep
  <2>2. CourseOK'
    BY <2>1, CourseStep
  <2>3. ClosingOK'
    BY <2>1, ClosingStep
  <2> QED
    BY <2>1, <2>2, <2>3
<1>3. TypeOK /\ RangeOK /\ CourseOK /\ ClosingOK => CleanRunJournalsAll
  <2> SUFFICES ASSUME TypeOK, CourseOK, ClosingOK, main = "ended", sig = 0, listFailed = {},
                      inflight = 0, fd # "stale"
               PROVE  journaled = jdone /\ tracked = {} /\ pend = {}
    BY DEF CleanRunJournalsAll
  <2>1. Excess = 0
    <3>1. inflight >= Len(queue) + Cardinality(Listers) /\ Len(queue) \in Nat
      BY DEF CourseOK, FlowOK, TypeOK, QueueTypes
    <3> QED
      BY <3>1, ListersCount DEF Excess
  <2> QED
    BY <2>1 DEF ClosingOK, Smooth, LastOK
<1> QED
  BY <1>1, <1>2, <1>3, PTL DEF Spec
=============================================================================
