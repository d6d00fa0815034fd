----------------------- MODULE JournalFrontier_proofs -----------------------
(***************************************************************************)
(* A resume never skips what is not finished: IInv of JournalInv is an     *)
(* inductive invariant of Journal in a SafeDeployment, and FrontierClosed  *)
(* and NothingLost follow from it.                                         *)
(***************************************************************************)
EXTENDS Journal_proofs

\* What a step leaves to the goroutines that do not take it.
FilesGrow == written \subseteq written' /\ journaled \subseteq journaled'
PagesSame == UNCHANGED <<left, next>>
TasksSame == UNCHANGED <<objCh, chk, handled>>
DoneGrows == pushed \cup written \subseteq pushed' \cup written'
RecordedGrows == journaled \cup pend \subseteq journaled' \cup pend'

-----------------------------------------------------------------------------
(* Frames: what keeps each part of the invariant *)

\* What is settled stays settled as long as the files only grow.
LEMMA SettledStays ==
    ASSUME FilesGrow
    PROVE  /\ \A p, k : Settled(p, k) => Settled(p, k)'
           /\ \A p, t : SettledTo(p, t) => SettledTo(p, t)'
           /\ \A p : Covered(p) => Covered(p)'
<1>1. \A p, k : Settled(p, k) => Settled(p, k)'
  BY DEF FilesGrow, Settled
<1> QED
  BY <1>1 DEF SettledTo, Covered

\* The cursors and dones of the file, once settled, stay so.
LEMMA FileFrame ==
    ASSUME FileOK, FilesGrow, UNCHANGED <<jdone, jtok, ending, retired>>
    PROVE  FileOK'
BY SettledStays DEF FileOK, FilesGrow

\* So do the seeds, the queued items and the base tokens.
LEMMA SeedFrame ==
    ASSUME SeedOK, FilesGrow, toSeed' \subseteq toSeed, UNCHANGED <<queue, base>>
    PROVE  SeedOK'
BY SettledStays DEF SeedOK

\* A page that was reached stays reached while the pages are the same.
LEMMA ReachedStays ==
    ASSUME FilesGrow, PagesSame
    PROVE  /\ \A p, s : Page(p, s)' = Page(p, s)
           /\ \A p, k, n : Reached(p, k, n) => Reached(p, k, n)'
<1>1. \A p, s : Page(p, s)' = Page(p, s)
  BY DEF PagesSame, Page
<1> QED
  BY <1>1, SettledStays DEF Reached

LEMMA OrderFrame ==
    ASSUME OrderOK, FilesGrow, PagesSame, UNCHANGED <<cur, tok>>,
           \A w \in Worker : Listing(w)' => Listing(w)
    PROVE  OrderOK'
<1>1. \A p \in Prefix : Seqs(p)' = Seqs(p)
  BY DEF PagesSame, Seqs
<1> QED
  BY <1>1, ReachedStays DEF OrderOK, PagesSame

LEMMA TaskFrame ==
    ASSUME TaskOK, FilesGrow, PagesSame, TasksSame, DoneGrows
    PROVE  TaskOK'
<1>1. \A t : ValidTask(t) => ValidTask(t)'
  BY DEF PagesSame, ValidTask, Seqs, Page
<1> QED
  BY <1>1, SettledStays DEF TaskOK, TasksSame, DoneGrows, Done

LEMMA SnapFrame ==
    ASSUME SnapOK, FilesGrow, DoneGrows, UNCHANGED <<ckpt, snap>>
    PROVE  SnapOK'
<1>1. Lines \subseteq Lines'
  BY DEF Lines, Done, FilesGrow, DoneGrows
<1>2. \A p, k : Claimed(p, k) => Claimed(p, k)'
  BY <1>1 DEF Claimed, FilesGrow
<1> QED
  BY <1>2 DEF SnapOK, FilesGrow

LEMMA PosFrame ==
    ASSUME PosOK, UNCHANGED <<left, pos>>
    PROVE  PosOK'
BY DEF PosOK

\* A root that is recorded stays so: the journal only grows and what a batch
\* holds is what the commit forgets.
LEMMA RootFrame ==
    ASSUME RootOK, UNCHANGED <<journaled, pend, tracked, queue, snap>>,
           toSeed' \subseteq toSeed,
           \A w \in Worker : pc'[w] \in {"pop", "exit"} \/ pc'[w] = pc[w]
    PROVE  RootOK'
BY DEF RootOK, Recorded

\* The page a registered sequence number stands for exists and has finitely many objects.
LEMMA PageExists ==
    ASSUME TypeOK, RangeOK, NEW p \in Prefix, NEW s \in Seqs(p)
    PROVE  /\ Page(p, s) \in PageNumbers(p)
           /\ IsFiniteSet(Objs(p, Page(p, s)))
<1>1. next[p][s] \in Nat /\ next[p][s] < Len(Pages[p])
  BY DEF TypeOK, StateTypes, RangeOK, TrackerRange, InRange, Seqs, Token
<1>2. Page(p, s) \in PageNumbers(p)
  BY <1>1, BucketPages DEF Page, PageNumbers
<1> QED
  BY <1>2, BucketPages DEF Objs

\* The unfinished objects of a page are finitely many.
LEMMA LiveFinite ==
    ASSUME TypeOK, RangeOK, NEW p \in Prefix, NEW s \in Seqs(p)
    PROVE  IsFiniteSet(Live(p, s)) /\ Cardinality(Live(p, s)) \in Nat
<1>1. Live(p, s) \in SUBSET Objs(p, Page(p, s))
  BY DEF Live
<1>2. IsFiniteSet(Live(p, s))
  BY <1>1, PageExists, FS_Subset, Zenon
<1> QED
  BY <1>2, FS_CardinalityType

\* The counts suffice as long as no object becomes unfinished again.
LEMMA CountFrame ==
    ASSUME TypeOK, RangeOK, CountOK, FilesGrow, PagesSame,
           \A p \in Prefix : \A s \in Seqs(p) : ~Covered(p)' => Live(p, s)' \subseteq Live(p, s)
    PROVE  CountOK'
<1> SUFFICES ASSUME NEW p \in Prefix, ~Covered(p)', NEW s \in Seqs(p)
             PROVE  Cardinality(Live(p, s)') <= left[p][s]
  BY DEF CountOK, PagesSame, Seqs
<1>1. Cardinality(Live(p, s)) <= left[p][s]
  BY SettledStays DEF CountOK
<1>2. IsFiniteSet(Live(p, s)) /\ Cardinality(Live(p, s)) \in Nat
  BY LiveFinite
<1>3. Live(p, s)' \in SUBSET Live(p, s)
  OBVIOUS
<1>4. /\ Cardinality(Live(p, s)') <= Cardinality(Live(p, s))
      /\ IsFiniteSet(Live(p, s)')
  BY <1>2, <1>3, FS_Subset, Zenon
<1>5. Cardinality(Live(p, s)') \in Nat
  BY <1>4, FS_CardinalityType
<1>6. left[p][s] \in Nat
  BY DEF TypeOK, StateTypes, Seqs
<1> QED
  BY <1>1, <1>2, <1>4, <1>5, <1>6

\* An object is finished no later when tasks and pages only get fewer.
LEMMA LiveShrinks ==
    ASSUME PagesSame, DoneGrows, NEW p, NEW s,
           \A o : HasTask(o, p, s)' => HasTask(o, p, s),
           \A w \in Worker : Holds(w, p, s)' => Holds(w, p, s) /\ todo'[w] \subseteq todo[w]
    PROVE  Live(p, s)' \subseteq Live(p, s)
<1>1. Page(p, s)' = Page(p, s)
  BY DEF Page, PagesSame
<1>2. Done \subseteq Done'
  BY DEF Done, DoneGrows
<1> QED
  BY <1>1, <1>2 DEF Live, Objs

WorkOK == OrderOK /\ TaskOK /\ PageOK /\ CountOK /\ PosOK /\ DiscoveryOK

\* A list worker that moves without holding a page afterwards, and without a
\* discovery left if it held one, disturbs no other's page.
LEMMA WorkerMoves ==
    ASSUME TypeOK, RangeOK, WorkOK, NEW w \in Worker,
           FilesGrow, PagesSame, TasksSame, DoneGrows, RecordedGrows, UNCHANGED pos,
           \A v \in Worker \ {w} : /\ pc'[v] = pc[v] /\ cur'[v] = cur[v] /\ tok'[v] = tok[v]
                                   /\ seq'[v] = seq[v] /\ new'[v] = new[v] /\ todo'[v] = todo[v],
           pc'[w] # "page" \/ UNCHANGED <<pc, cur, tok, seq, new, todo>>,
           pc[w] = "page" /\ pc'[w] # "page" => new[w] = {}
    PROVE  /\ TaskOK' /\ PageOK' /\ CountOK' /\ PosOK'
           /\ \A p \in Prefix : \A s \in Seqs(p) : \A q \in Subs(p, Page(p, s)) :
                 q \in Recorded' \/ \E v \in Worker : Holds(v, p, s)' /\ q \in new'[v]
<1> USE DEF WorkOK
<1>1. TaskOK' /\ PosOK'
  BY TaskFrame, PosFrame DEF PagesSame
<1>2. \A o, p, s : HasTask(o, p, s)' <=> HasTask(o, p, s)
  BY DEF HasTask, TasksSame
<1>3. \A p, s : \A v \in Worker : Holds(v, p, s)' =>
         /\ Holds(v, p, s) /\ cur'[v] = cur[v] /\ tok'[v] = tok[v] /\ seq'[v] = seq[v]
         /\ todo'[v] = todo[v] /\ new'[v] = new[v]
  BY DEF Holds
<1>4. CountOK'
  BY <1>2, <1>3, LiveShrinks, CountFrame
<1>5. PageOK'
  <2>1. \A p, s : Page(p, s)' = Page(p, s) /\ Seqs(p)' = Seqs(p)
    BY DEF PagesSame, Page, Seqs
  <2>2. ASSUME NEW v \in Worker, pc'[v] = "page"
        PROVE  /\ pc[v] = "page" /\ cur'[v] = cur[v] /\ tok'[v] = tok[v] /\ seq'[v] = seq[v]
               /\ todo'[v] = todo[v] /\ new'[v] = new[v]
    BY <2>2
  <2>3. ASSUME NEW v \in Worker, pc'[v] = "page"
        PROVE  /\ todo'[v] \subseteq Objs(cur'[v], tok'[v] + 1)
               /\ new'[v] # {} => todo'[v] = Objs(cur'[v], tok'[v] + 1)
    BY <2>2, <2>3 DEF PageOK
  <2>4. ASSUME NEW v \in Worker, pc'[v] = "page", ~Covered(cur[v])'
        PROVE  (/\ seq[v] \in Seqs(cur[v]) /\ Page(cur[v], seq[v]) = tok[v] + 1
                /\ \A o \in todo[v] : ~HasTask(o, cur[v], seq[v])
                /\ \A u \in Worker : Holds(u, cur[v], seq[v]) => u = v)'
    <3>1. ~Covered(cur[v])
      BY <2>2, <2>4, SettledStays
    <3> QED
      BY <1>2, <1>3, <2>1, <2>2, <2>4, <3>1 DEF PageOK
  <2> QED
    BY <2>3, <2>4 DEF PageOK, Objs
<1>6. ASSUME NEW p \in Prefix, NEW s \in Seqs(p), NEW q \in Subs(p, Page(p, s)), q \notin Recorded'
      PROVE  \E v \in Worker : Holds(v, p, s)' /\ q \in new'[v]
  <2>1. PICK v \in Worker : Holds(v, p, s) /\ q \in new[v]
    BY <1>6 DEF DiscoveryOK, RecordedGrows, Recorded
  <2> QED
    BY <2>1 DEF Holds
<1> QED
  BY <1>1, <1>4, <1>5, <1>6
\* The claim about prefixes whose pagination is done, which an action that sets no
\* pagDone keeps.
LEMMA PaginationFrame ==
    ASSUME DiscoveryOK, FilesGrow, PagesSame, RecordedGrows,
           NEW p \in Prefix, pagDone[p], ~Covered(p)'
    PROVE  /\ Subs(p, Len(Pages[p])) \subseteq Recorded'
           /\ \A k \in PageNumbers(p) : Reached(p, k, Len(left[p]))'
<1>1. ~Covered(p)
  BY SettledStays
<1>2. /\ Subs(p, Len(Pages[p])) \subseteq Recorded
      /\ \A k \in PageNumbers(p) : Reached(p, k, Len(left[p]))
  BY <1>1 DEF DiscoveryOK
<1>3. Recorded \subseteq Recorded'
  BY DEF Recorded, RecordedGrows
<1>4. Len(left'[p]) = Len(left[p])
  BY DEF PagesSame
<1> QED
  BY <1>2, <1>3, <1>4, ReachedStays

\* The discoveries of the pages, when only pages of prefixes and their holders matter.
LEMMA DiscoveryFrame ==
    ASSUME DiscoveryOK, FilesGrow, PagesSame, RecordedGrows, UNCHANGED pagDone,
           \A p \in Prefix : \A s \in Seqs(p) : \A q \in Subs(p, Page(p, s)) :
              q \in Recorded' \/ \E v \in Worker : Holds(v, p, s)' /\ q \in new'[v]
    PROVE  DiscoveryOK'
<1>1. \A p, s : Page(p, s)' = Page(p, s) /\ Seqs(p)' = Seqs(p)
  BY DEF PagesSame, Page, Seqs
<1> QED
  BY <1>1, PaginationFrame DEF DiscoveryOK, Subs

\* Steps of the main goroutine, the writers and the checkpoint leave the listing
\* alone: the files and the records they add to only grow.
LEMMA WorkFrame ==
    ASSUME TypeOK, RangeOK, WorkOK,
           FilesGrow, PagesSame, TasksSame, DoneGrows, RecordedGrows,
           UNCHANGED <<pos, pagDone, pc, cur, tok, seq, new, todo>>
    PROVE  WorkOK'
<1> USE DEF WorkOK
<1>1. TaskOK' /\ PosOK'
  BY TaskFrame, PosFrame DEF PagesSame
<1>2. OrderOK'
  BY OrderFrame DEF Listing
<1>3. \A o, p, s : HasTask(o, p, s)' <=> HasTask(o, p, s)
  BY DEF HasTask, TasksSame
<1>4. \A v, p, s : Holds(v, p, s)' <=> Holds(v, p, s)
  BY DEF Holds
<1>5. CountOK'
  BY <1>3, <1>4, LiveShrinks, CountFrame
<1>6. PageOK'
  <2>1. \A p, s : Page(p, s)' = Page(p, s) /\ Seqs(p)' = Seqs(p)
    BY DEF PagesSame, Page, Seqs
  <2> QED
    BY <1>3, <1>4, <2>1, SettledStays DEF PageOK, Objs
<1>7. DiscoveryOK'
  <2>1. ASSUME NEW p \in Prefix, NEW s \in Seqs(p), NEW q \in Subs(p, Page(p, s))
        PROVE  q \in Recorded' \/ \E v \in Worker : Holds(v, p, s)' /\ q \in new'[v]
    BY <1>4 DEF DiscoveryOK, RecordedGrows, Recorded
  <2> QED
    BY <2>1, DiscoveryFrame
<1> QED
  BY <1>1, <1>2, <1>5, <1>6, <1>7

-----------------------------------------------------------------------------
(* List workers *)

Rest == RootOK /\ FileOK /\ SeedOK /\ SnapOK /\ WorkOK

\* Once the root is recorded, what only adds records keeps it so.
LEMMA RootStays ==
    ASSUME RootOK, Root \in Recorded, UNCHANGED <<journaled, snap>>, pend \subseteq pend'
    PROVE  RootOK'
BY DEF RootOK, Recorded

\* A worker that got an item from the queue works on a recorded root.
LEMMA RootOfWork ==
    ASSUME RootOK, queue # <<>> \/ \E w \in Worker : pc[w] \in {"list", "page"}
    PROVE  Root \in Recorded
BY DEF RootOK

\* A worker that leaves its prefix: nothing of the rest depends on it.
LEMMA LeaveKeeps ==
    ASSUME IInv, NEW w \in Worker, pc[w] = "list" \/ (pc[w] = "page" /\ new[w] = {}),
           Leave(w), UNCHANGED <<queue, mainVars, checkVars, pend, tracked, base, left, next,
                                 pos, ckptVars, fileVars, pushed, written>>
    PROVE  /\ RootOK' /\ FileOK' /\ SeedOK' /\ SnapOK'
           /\ TaskOK' /\ PageOK' /\ CountOK' /\ PosOK' /\ OrderOK'
           /\ \A p \in Prefix : \A s \in Seqs(p) : \A q \in Subs(p, Page(p, s)) :
                 q \in Recorded' \/ \E v \in Worker : Holds(v, p, s)' /\ q \in new'[v]
<1> USE DEF IInv, WorkOK
<1>1. FilesGrow /\ PagesSame /\ TasksSame /\ DoneGrows /\ RecordedGrows
  BY DEF FilesGrow, PagesSame, TasksSame, DoneGrows, RecordedGrows, checkVars, fileVars
<1>2. Root \in Recorded
  BY RootOfWork
<1>3. RootOK' /\ FileOK' /\ SeedOK' /\ SnapOK'
  BY <1>1, <1>2, RootStays, FileFrame, SeedFrame, SnapFrame DEF ckptVars, fileVars, mainVars
<1>4. /\ pc'[w] \in {"exit", "pop"}
      /\ \A v \in Worker \ {w} : /\ pc'[v] = pc[v] /\ cur'[v] = cur[v] /\ tok'[v] = tok[v]
                                 /\ seq'[v] = seq[v] /\ new'[v] = new[v] /\ todo'[v] = todo[v]
  BY DEF Leave, TypeOK, WorkerTypes
<1>5. OrderOK'
  <2>1. ASSUME NEW v \in Worker, Listing(v)'
        PROVE  Listing(v) /\ cur'[v] = cur[v] /\ tok'[v] = tok[v]
    BY <1>4, <2>1 DEF Listing
  <2>2. \A p \in Prefix : Seqs(p)' = Seqs(p)
    BY DEF Seqs
  <2> QED
    BY <1>1, <2>1, <2>2, ReachedStays DEF OrderOK
<1> QED
  BY <1>1, <1>3, <1>4, <1>5, WorkerMoves

\* A LIST error and a hard abort.
LEMMA AbortRest ==
    ASSUME IInv, NEW w \in Worker, ListFails(w) \/ HardAbort(w)
    PROVE  Rest'
<1>1. /\ pc[w] = "list" \/ (pc[w] = "page" /\ new[w] = {})
      /\ Leave(w)
      /\ UNCHANGED <<queue, mainVars, checkVars, pend, tracked, base, pagDone, left, next,
                     pos, ckptVars, fileVars, pushed, written>>
  BY DEF ListFails, HardAbort, stateVars
<1>2. FilesGrow /\ PagesSame /\ RecordedGrows
  BY <1>1 DEF FilesGrow, PagesSame, RecordedGrows, fileVars
<1>3. DiscoveryOK'
  BY <1>1, <1>2, LeaveKeeps, DiscoveryFrame DEF IInv
<1> QED
  BY <1>1, <1>3, LeaveKeeps DEF Rest, WorkOK

\* The last page of a prefix: its pages are all reached, its discoveries recorded.
LEMMA LastPageRest ==
    ASSUME IInv, NEW w \in Worker, LastPage(w)
    PROVE  Rest'
<1> DEFINE c == cur[w]
<1>1. /\ pc[w] = "page" /\ new[w] = {} /\ tok[w] + 1 = Len(Pages[c])
      /\ Leave(w) /\ MarkPaginationDone(c)
      /\ UNCHANGED <<queue, mainVars, checkVars, pend, tracked, base, left, next,
                     pos, ckptVars, fileVars, pushed, written>>
  BY DEF LastPage, PageDone, MarkPaginationDone, outVars
<1>2. FilesGrow /\ PagesSame /\ RecordedGrows
  BY <1>1 DEF FilesGrow, PagesSame, RecordedGrows, fileVars
<1>3. c \in Prefix /\ tok[w] \in Nat
  BY DEF IInv, TypeOK, WorkerTypes, Token
<1>4. ASSUME ~Covered(c)
      PROVE  /\ Subs(c, Len(Pages[c])) \subseteq Recorded
             /\ \A k \in PageNumbers(c) : Reached(c, k, Len(left[c]))
  <2>1. /\ seq[w] \in Seqs(c) /\ Page(c, seq[w]) = Len(Pages[c])
        /\ \A v \in Worker : Holds(v, c, seq[w]) => v = w
    BY <1>1, <1>4 DEF IInv, PageOK
  <2>2. ASSUME NEW q \in Subs(c, Len(Pages[c]))
        PROVE  q \in Recorded
    BY <1>1, <1>3, <2>1 DEF IInv, DiscoveryOK
  <2>3. ASSUME NEW k \in PageNumbers(c)
        PROVE  Reached(c, k, Len(left[c]))
    <3>1. CASE k <= tok[w]
      BY <1>1, <3>1 DEF IInv, OrderOK, Listing
    <3>2. CASE k = Len(Pages[c])
      BY <2>1, <3>2 DEF Reached, Seqs
    <3> QED
      BY <1>1, <1>3, <3>1, <3>2 DEF PageNumbers
  <2> QED
    BY <2>2, <2>3
<1>5. DiscoveryOK'
  <2>1. \A p, s : Page(p, s)' = Page(p, s) /\ Seqs(p)' = Seqs(p)
    BY <1>2 DEF PagesSame, Page, Seqs
  <2>2. Recorded' = Recorded /\ left' = left
    BY <1>1 DEF Recorded, fileVars
  <2>3. ASSUME NEW p \in Prefix, pagDone'[p], ~Covered(p)'
        PROVE  /\ Subs(p, Len(Pages[p])) \subseteq Recorded'
               /\ \A k \in PageNumbers(p) : Reached(p, k, Len(left[p]))'
    <3>1. CASE pagDone[p]
      BY <1>2, <2>2, <2>3, <3>1, PaginationFrame DEF IInv
    <3>2. CASE p = c
      BY <1>2, <1>4, <2>2, <2>3, <3>2, SettledStays, ReachedStays
    <3> QED
      BY <1>1, <2>3, <3>1, <3>2 DEF MarkPaginationDone, IInv, TypeOK, StateTypes
  <2> QED
    BY <1>1, <2>1, <2>2, <2>3, LeaveKeeps DEF DiscoveryOK, Subs
<1> QED
  BY <1>1, <1>5, LeaveKeeps DEF Rest, WorkOK

\* A worker takes an item: its pages before the token are settled.
LEMMA PopRest ==
    ASSUME IInv, NEW w \in Worker, Pop(w)
    PROVE  Rest'
<1> USE DEF IInv, WorkOK
<1>1. FilesGrow /\ PagesSame /\ TasksSame /\ DoneGrows /\ RecordedGrows
  BY DEF Pop, FilesGrow, PagesSame, TasksSame, DoneGrows, RecordedGrows, checkVars, fileVars,
         outVars, stateVars
<1>2. RootOK' /\ FileOK' /\ SnapOK'
  BY <1>1, RootOfWork, RootStays, FileFrame, SnapFrame DEF Pop, ckptVars, fileVars
<1>3. /\ queue \in Seq(Seed) /\ queue # <<>>
      /\ Head(queue) = queue[1] /\ 1 \in 1 .. Len(queue)
      /\ Len(queue') = Len(queue) - 1
      /\ \A i \in 1 .. Len(queue') : queue'[i] = queue[i + 1] /\ i + 1 \in 1 .. Len(queue)
  BY DEF Pop, TypeOK, QueueTypes
<1>4. SeedOK'
  BY <1>1, <1>3, SettledStays DEF SeedOK, Pop, mainVars, stateVars
<1>5. /\ cur'[w] = queue[1][1] /\ tok'[w] = queue[1][2] /\ pc'[w] = "list" /\ pc[w] = "pop"
      /\ \A v \in Worker \ {w} : /\ pc'[v] = pc[v] /\ cur'[v] = cur[v] /\ tok'[v] = tok[v]
                                 /\ seq'[v] = seq[v] /\ new'[v] = new[v] /\ todo'[v] = todo[v]
  BY <1>3 DEF Pop, TypeOK, WorkerTypes
<1>6. OrderOK'
  <2>1. \A p \in Prefix : Seqs(p)' = Seqs(p)
    BY <1>1 DEF Seqs, PagesSame
  <2>2. ASSUME NEW v \in Worker, Listing(v)', NEW k \in PageNumbers(cur'[v]), k <= tok'[v]
        PROVE  Reached(cur[v], k, Len(left[cur[v]]))'
    <3>1. CASE v = w
      <4>1. Settled(queue[1][1], k)
        BY <1>3, <1>5, <2>2, <3>1 DEF SeedOK, SettledTo
      <4>2. Settled(cur[v], k)'
        BY <1>1, <1>5, <3>1, <4>1, SettledStays
      <4> QED
        BY <4>2 DEF Reached
    <3>2. CASE v # w
      <4>1. Reached(cur[v], k, Len(left[cur[v]]))
        BY <1>5, <2>2, <3>2 DEF OrderOK, Listing
      <4> QED
        BY <1>1, <1>5, <3>2, <4>1, ReachedStays DEF PagesSame
    <3> QED
      BY <3>1, <3>2
  <2> QED
    BY <1>1, <2>1, <2>2, ReachedStays DEF OrderOK
<1>7. TaskOK' /\ PageOK' /\ CountOK' /\ PosOK' /\ DiscoveryOK'
  BY <1>1, <1>5, WorkerMoves, DiscoveryFrame DEF Pop, stateVars
<1> QED
  BY <1>2, <1>4, <1>6, <1>7 DEF Rest

\* A worker that is turned away.
LEMMA PopFailsRest ==
    ASSUME IInv, NEW w \in Worker, PopFails(w)
    PROVE  Rest'
<1> USE DEF IInv, WorkOK
<1>1. FilesGrow /\ PagesSame /\ TasksSame /\ DoneGrows /\ RecordedGrows
  BY DEF PopFails, FilesGrow, PagesSame, TasksSame, DoneGrows, RecordedGrows, checkVars,
         fileVars, outVars, stateVars
<1>2. /\ pc'[w] = "exit" /\ pc[w] = "pop"
      /\ \A v \in Worker \ {w} : pc'[v] = pc[v]
  BY DEF PopFails, TypeOK, WorkerTypes
<1>3. RootOK' /\ FileOK' /\ SnapOK' /\ SeedOK'
  BY <1>1, <1>2, RootFrame, FileFrame, SnapFrame, SeedFrame
     DEF PopFails, ckptVars, fileVars, mainVars, queueVars, stateVars
<1>4. OrderOK'
  BY <1>1, <1>2, OrderFrame DEF PopFails, Listing
<1>5. TaskOK' /\ PageOK' /\ CountOK' /\ PosOK' /\ DiscoveryOK'
  BY <1>1, <1>2, WorkerMoves, DiscoveryFrame DEF PopFails, stateVars
<1> QED
  BY <1>3, <1>4, <1>5 DEF Rest

\* The next page: the page just listed is reached.
LEMMA TurnPageRest ==
    ASSUME IInv, NEW w \in Worker, TurnPage(w)
    PROVE  Rest'
<1> USE DEF IInv, WorkOK
<1>1. FilesGrow /\ PagesSame /\ TasksSame /\ DoneGrows /\ RecordedGrows
  BY DEF TurnPage, FilesGrow, PagesSame, TasksSame, DoneGrows, RecordedGrows, checkVars,
         fileVars, outVars, stateVars
<1>2. /\ pc[w] = "page" /\ pc'[w] = "list" /\ new[w] = {} /\ tok'[w] = tok[w] + 1
      /\ cur' = cur /\ tok[w] \in Nat /\ cur[w] \in Prefix
      /\ \A v \in Worker \ {w} : pc'[v] = pc[v] /\ tok'[v] = tok[v]
  BY DEF TurnPage, PageDone, TypeOK, WorkerTypes, Token
<1>3. RootOK' /\ FileOK' /\ SnapOK' /\ SeedOK'
  BY <1>1, <1>2, RootOfWork, RootStays, FileFrame, SnapFrame, SeedFrame
     DEF TurnPage, ckptVars, fileVars, mainVars, queueVars, stateVars
<1>4. OrderOK'
  <2>1. \A p \in Prefix : Seqs(p)' = Seqs(p)
    BY <1>1 DEF Seqs, PagesSame
  <2>2. ASSUME NEW v \in Worker, Listing(v)', NEW k \in PageNumbers(cur'[v]), k <= tok'[v]
        PROVE  Reached(cur[v], k, Len(left[cur[v]]))
    <3>1. Listing(v)
      BY <1>2, <2>2 DEF Listing
    <3>2. CASE k <= tok[v]
      BY <1>2, <2>2, <3>1, <3>2 DEF OrderOK
    <3>3. CASE v = w /\ k = tok[w] + 1
      <4>1. CASE Covered(cur[w])
        BY <1>2, <2>2, <3>3, <4>1 DEF Covered, Reached
      <4>2. CASE ~Covered(cur[w])
        <5>1. seq[w] \in Seqs(cur[w]) /\ Page(cur[w], seq[w]) = k
          BY <1>2, <3>3, <4>2 DEF PageOK
        <5> QED
          BY <3>3, <5>1 DEF Reached, Seqs
      <4> QED
        BY <4>1, <4>2
    <3> QED
      BY <1>2, <2>2, <3>2, <3>3 DEF PageNumbers
  <2> QED
    BY <1>1, <1>2, <2>1, <2>2, ReachedStays DEF OrderOK, PagesSame
<1>5. TaskOK' /\ PageOK' /\ CountOK' /\ PosOK' /\ DiscoveryOK'
  BY <1>1, <1>2, WorkerMoves, DiscoveryFrame DEF TurnPage, stateVars
<1> QED
  BY <1>3, <1>4, <1>5 DEF Rest

\* Sub-prefixes are enqueued from their first page on.
LEMMA EnqueueRest ==
    ASSUME IInv, NEW w \in Worker, Enqueue(w)
    PROVE  Rest'
<1> USE DEF IInv, WorkOK
<1>1. FilesGrow /\ PagesSame /\ TasksSame /\ DoneGrows /\ RecordedGrows
  BY DEF Enqueue, FilesGrow, PagesSame, TasksSame, DoneGrows, RecordedGrows, checkVars,
         fileVars, outVars, stateVars
<1>2. RootOK' /\ FileOK' /\ SnapOK'
  BY <1>1, RootOfWork, RootStays, FileFrame, SnapFrame DEF Enqueue, ckptVars, fileVars
<1>3. SeedOK'
  <2>1. PICK s \in subs[w] : Push(<<s, 0>>)
    BY DEF Enqueue
  <2>2. \A i \in 1 .. Len(queue') : \/ i \in 1 .. Len(queue) /\ queue'[i] = queue[i]
                                    \/ queue'[i] = <<s, 0>>
    BY <2>1 DEF Push, TypeOK, QueueTypes
  <2>3. SettledTo(s, 0)'
    BY DEF SettledTo, PageNumbers
  <2> QED
    BY <1>1, <2>2, <2>3, SettledStays DEF SeedOK, Enqueue, mainVars, stateVars
<1>4. WorkOK'
  BY <1>1, WorkFrame DEF Enqueue, stateVars
<1> QED
  BY <1>2, <1>3, <1>4 DEF Rest

\* A discovery moves from the worker's hands into the tracker.
LEMMA AddDiscoveredRest ==
    ASSUME IInv, NEW w \in Worker, AddDiscovered(w)
    PROVE  Rest'
<1> USE DEF IInv, WorkOK
<1>1. FilesGrow /\ PagesSame /\ TasksSame /\ DoneGrows /\ RecordedGrows
  BY DEF AddDiscovered, FilesGrow, PagesSame, TasksSame, DoneGrows, RecordedGrows, checkVars,
         fileVars, outVars, stateVars
<1>2. RootOK' /\ FileOK' /\ SnapOK' /\ SeedOK'
  BY <1>1, RootOfWork, RootStays, FileFrame, SnapFrame, SeedFrame
     DEF AddDiscovered, ckptVars, fileVars, mainVars, queueVars, stateVars
<1>3. PICK q0 \in new[w] : /\ pend' = pend \cup {q0}
                           /\ new' = [new EXCEPT ![w] = @ \ {q0}]
  BY DEF AddDiscovered
<1>4. /\ UNCHANGED <<pc, cur, tok, seq, todo>> /\ pc[w] = "page"
      /\ \A v \in Worker : new'[v] \subseteq new[v]
      /\ \A v \in Worker : \A q \in new[v] : q \in new'[v] \/ q = q0
  BY <1>3 DEF AddDiscovered, TypeOK, WorkerTypes
<1>5. \A o, p, s : HasTask(o, p, s)' <=> HasTask(o, p, s)
  BY <1>1 DEF HasTask, TasksSame
<1>6. \A v, p, s : Holds(v, p, s)' <=> Holds(v, p, s)
  BY <1>4 DEF Holds
<1>7. OrderOK' /\ TaskOK' /\ CountOK' /\ PosOK'
  BY <1>1, <1>4, <1>5, <1>6, OrderFrame, TaskFrame, LiveShrinks, CountFrame, PosFrame
     DEF Listing, AddDiscovered, stateVars
<1>8. PageOK'
  <2>1. \A p, s : Page(p, s)' = Page(p, s) /\ Seqs(p)' = Seqs(p)
    BY <1>1 DEF PagesSame, Page, Seqs
  <2>2. \A v \in Worker : new'[v] # {} => new[v] # {}
    BY <1>4
  <2> QED
    BY <1>1, <1>4, <1>5, <1>6, <2>1, <2>2, SettledStays DEF PageOK, Objs
<1>9. DiscoveryOK'
  <2>1. ASSUME NEW p \in Prefix, NEW s \in Seqs(p), NEW q \in Subs(p, Page(p, s)),
               q \notin Recorded'
        PROVE  \E v \in Worker : Holds(v, p, s)' /\ q \in new'[v]
    <3>1. q # q0 /\ q \notin Recorded
      BY <1>1, <1>3, <2>1 DEF Recorded, RecordedGrows
    <3>2. PICK v \in Worker : Holds(v, p, s) /\ q \in new[v]
      BY <3>1 DEF DiscoveryOK
    <3> QED
      BY <1>4, <1>6, <3>1, <3>2
  <2> QED
    BY <1>1, <2>1, DiscoveryFrame DEF AddDiscovered, stateVars
<1> QED
  BY <1>2, <1>7, <1>8, <1>9 DEF Rest

\* An object of the page becomes a task: it is unfinished before and after.
LEMMA EmitRest ==
    ASSUME IInv, NEW w \in Worker, Emit(w)
    PROVE  Rest'
<1> USE DEF IInv, WorkOK
<1> DEFINE c == cur[w]
           n == seq[w]
<1>1. FilesGrow /\ PagesSame /\ DoneGrows /\ RecordedGrows
  BY DEF Emit, FilesGrow, PagesSame, DoneGrows, RecordedGrows, fileVars, outVars, stateVars
<1>2. RootOK' /\ FileOK' /\ SnapOK' /\ SeedOK'
  BY <1>1, RootOfWork, RootStays, FileFrame, SnapFrame, SeedFrame
     DEF Emit, ckptVars, fileVars, mainVars, queueVars, stateVars
<1>3. PICK o \in todo[w] :
         /\ objCh' = Append(objCh, [obj |-> o, prefix |-> c, seq |-> n])
         /\ todo' = [todo EXCEPT ![w] = @ \ {o}]
  BY DEF Emit
<1> DEFINE t == [obj |-> o, prefix |-> c, seq |-> n]
<1>4. /\ UNCHANGED <<pc, cur, tok, seq, new, chk, handled>>
      /\ pc[w] = "page" /\ new[w] = {} /\ Holds(w, c, n)
      /\ \A v \in Worker : todo'[v] \subseteq todo[v]
      /\ o \notin todo'[w]
  BY <1>3 DEF Emit, Holds, TypeOK, WorkerTypes
<1>5. /\ Len(objCh) \in Nat /\ Len(objCh') = Len(objCh) + 1 /\ objCh'[Len(objCh) + 1] = t
      /\ \A i \in 1 .. Len(objCh) : objCh'[i] = objCh[i]
  BY <1>3 DEF TypeOK, CheckTypes
<1>6. \A x, p, s : HasTask(x, p, s)' => HasTask(x, p, s) \/ (x = o /\ p = c /\ s = n)
  BY <1>4, <1>5 DEF HasTask, IsTask
<1>7. \A v, p, s : Holds(v, p, s)' <=> Holds(v, p, s)
  BY <1>4 DEF Holds
<1>8. \A p, s : Page(p, s)' = Page(p, s) /\ Seqs(p)' = Seqs(p)
  BY <1>1 DEF PagesSame, Page, Seqs
<1>9. ASSUME ~Covered(c)
      PROVE  /\ ValidTask(t) /\ ~HasTask(o, c, n)
             /\ \A v \in Worker : Holds(v, c, n) => v = w
  BY <1>4, <1>9 DEF PageOK, ValidTask
<1>10. OrderOK' /\ PosOK'
  BY <1>1, <1>4, OrderFrame, PosFrame DEF Listing, Emit, stateVars
<1>11. TaskOK'
  <2>1. \A x : ValidTask(x)' <=> ValidTask(x)
    BY <1>8 DEF ValidTask
  <2>2. ASSUME NEW i \in 1 .. Len(objCh'), ~Covered(objCh[i].prefix)'
        PROVE  /\ ValidTask(objCh'[i])
               /\ \A j \in 1 .. Len(objCh') : objCh'[j] = objCh'[i] => j = i
               /\ \A d \in Checker : chk[d] # objCh'[i]
    <3>1. CASE i \in 1 .. Len(objCh)
      <4>1. ~Covered(objCh[i].prefix)
        BY <1>1, <1>5, <2>2, <3>1, SettledStays
      <4>2. objCh[i] # t
        BY <1>9, <3>1, <4>1, ConfigAssumption DEF HasTask, IsTask, Task, TypeOK, CheckTypes
      <4> QED
        BY <1>5, <3>1, <4>1, <4>2 DEF TaskOK
    <3>2. CASE i = Len(objCh) + 1
      <4>1. ~Covered(c)
        BY <1>1, <1>5, <2>2, <3>2, SettledStays
      <4>2. \A j \in 1 .. Len(objCh) : objCh[j] # t
        BY <1>9, <4>1, ConfigAssumption DEF HasTask, IsTask, TypeOK, CheckTypes
      <4>3. \A d \in Checker : chk[d] # t
        <5>1. t \in Task
          BY DEF Task, TypeOK, WorkerTypes
        <5> QED
          BY <1>9, <4>1, <5>1, ConfigAssumption DEF HasTask, IsTask
      <4> QED
        BY <1>5, <1>9, <3>2, <4>1, <4>2, <4>3
    <3> QED
      BY <1>5, <2>2, <3>1, <3>2
  <2>3. ASSUME NEW d \in Checker, chk'[d] # NoTask, ~Covered(chk[d].prefix)'
        PROVE  ValidTask(chk'[d]) /\ \A e \in Checker : chk'[e] = chk'[d] => e = d
    BY <1>1, <1>4, <2>3, SettledStays DEF TaskOK
  <2>4. Done \subseteq Done'
    BY <1>1 DEF Done, DoneGrows
  <2> QED
    BY <1>4, <2>1, <2>2, <2>3, <2>4 DEF TaskOK
<1>12. CountOK'
  <2>1. ASSUME NEW p \in Prefix, NEW s \in Seqs(p)
        PROVE  Live(p, s)' \subseteq Live(p, s)
    <3>1. Done \subseteq Done'
      BY <1>1 DEF Done, DoneGrows
    <3> QED
      BY <1>3, <1>4, <1>6, <1>7, <1>8, <3>1 DEF Live, Objs
  <2> QED
    BY <1>1, <2>1, CountFrame
<1>13. PageOK'
  <2>1. ASSUME NEW v \in Worker, pc'[v] = "page"
        PROVE  /\ todo'[v] \subseteq Objs(cur[v], tok[v] + 1)
               /\ new'[v] # {} => todo'[v] = Objs(cur[v], tok[v] + 1)
    BY <1>3, <1>4, <2>1 DEF PageOK, TypeOK, WorkerTypes
  <2>2. ASSUME NEW v \in Worker, pc'[v] = "page", ~Covered(cur[v])'
        PROVE  /\ seq[v] \in Seqs(cur[v]) /\ Page(cur[v], seq[v]) = tok[v] + 1
               /\ \A x \in todo'[v] : ~HasTask(x, cur[v], seq[v])'
               /\ \A u \in Worker : Holds(u, cur[v], seq[v]) => u = v
    <3>1. ~Covered(cur[v]) /\ pc[v] = "page"
      BY <1>1, <1>4, <2>2, SettledStays
    <3>2. /\ seq[v] \in Seqs(cur[v]) /\ Page(cur[v], seq[v]) = tok[v] + 1
          /\ \A u \in Worker : Holds(u, cur[v], seq[v]) => u = v
      BY <3>1 DEF PageOK
    <3>3. ASSUME NEW x \in todo'[v]
          PROVE  ~(x = o /\ cur[v] = c /\ seq[v] = n) /\ ~HasTask(x, cur[v], seq[v])
      BY <1>4, <3>1, <3>2, <3>3 DEF PageOK
    <3> QED
      BY <1>4, <1>6, <3>2, <3>3
  <2> QED
    BY <1>4, <1>7, <1>8, <2>1, <2>2 DEF PageOK, Objs
<1>14. DiscoveryOK'
  <2>1. ASSUME NEW p \in Prefix, NEW s \in Seqs(p), NEW q \in Subs(p, Page(p, s))
        PROVE  q \in Recorded' \/ \E v \in Worker : Holds(v, p, s)' /\ q \in new'[v]
    BY <1>1, <1>4, <1>7 DEF DiscoveryOK, RecordedGrows, Recorded
  <2> QED
    BY <1>1, <2>1, DiscoveryFrame DEF Emit, stateVars
<1> QED
  BY <1>2, <1>10, <1>11, <1>12, <1>13, <1>14 DEF Rest

-----------------------------------------------------------------------------
(* Check workers *)

\* A task moves from objCh to a checker, and stays where it is counted.
LEMMA ReceiveRest ==
    ASSUME IInv, NEW c \in Checker, Receive(c)
    PROVE  Rest'
<1> USE DEF IInv, WorkOK
<1>1. FilesGrow /\ PagesSame /\ DoneGrows /\ RecordedGrows
  BY DEF Receive, FilesGrow, PagesSame, DoneGrows, RecordedGrows, fileVars, outVars, stateVars
<1>2. RootOK' /\ FileOK' /\ SnapOK' /\ SeedOK'
  BY <1>1, RootFrame, FileFrame, SnapFrame, SeedFrame
     DEF Receive, ckptVars, fileVars, mainVars, queueVars, stateVars, workerVars
<1>3. UNCHANGED <<pc, cur, tok, seq, new, todo, pagDone, pos, left, handled>>
  BY DEF Receive, workerVars, stateVars
<1>4. /\ chk[c] = NoTask /\ chk'[c] = objCh[1] /\ 1 \in 1 .. Len(objCh)
      /\ \A d \in Checker \ {c} : chk'[d] = chk[d]
      /\ Len(objCh') = Len(objCh) - 1 /\ Len(objCh) \in Nat
      /\ \A i \in 1 .. Len(objCh') : objCh'[i] = objCh[i + 1] /\ i + 1 \in 1 .. Len(objCh)
      /\ \A i \in 1 .. Len(objCh) : i = 1 \/ (i - 1 \in 1 .. Len(objCh') /\ objCh'[i - 1] = objCh[i])
      /\ \A i \in 1 .. Len(objCh) : objCh[i] # NoTask
  BY ConfigAssumption DEF Receive, TypeOK, CheckTypes
<1>5. \A o, p, s : HasTask(o, p, s)' <=> HasTask(o, p, s)
  <2> SUFFICES ASSUME NEW o, NEW p, NEW s
               PROVE  HasTask(o, p, s)' <=> HasTask(o, p, s)
    OBVIOUS
  <2>1. ASSUME HasTask(o, p, s)'
        PROVE  HasTask(o, p, s)
    <3>1. CASE \E i \in 1 .. Len(objCh') : IsTask(objCh'[i], o, p, s)
      BY <1>4, <3>1 DEF HasTask, IsTask
    <3>2. CASE \E d \in Checker : IsTask(chk'[d], o, p, s)
      BY <1>4, <3>2 DEF HasTask, IsTask
    <3> QED
      BY <2>1, <3>1, <3>2 DEF HasTask, IsTask
  <2>2. ASSUME HasTask(o, p, s)
        PROVE  HasTask(o, p, s)'
    <3>1. CASE \E i \in 1 .. Len(objCh) : IsTask(objCh[i], o, p, s)
      BY <1>4, <3>1 DEF HasTask, IsTask
    <3>2. CASE \E d \in Checker : IsTask(chk[d], o, p, s)
      BY <1>4, <3>2 DEF HasTask, IsTask
    <3> QED
      BY <2>2, <3>1, <3>2 DEF HasTask
  <2> QED
    BY <2>1, <2>2
<1>6. \A v, p, s : Holds(v, p, s)' <=> Holds(v, p, s)
  BY <1>3 DEF Holds
<1>7. \A p, s : Page(p, s)' = Page(p, s) /\ Seqs(p)' = Seqs(p)
  BY <1>1 DEF PagesSame, Page, Seqs
<1>8. OrderOK' /\ PosOK' /\ CountOK'
  BY <1>1, <1>3, <1>5, <1>6, OrderFrame, PosFrame, LiveShrinks, CountFrame DEF Listing
<1>9. TaskOK'
  <2>1. \A x : ValidTask(x)' <=> ValidTask(x)
    BY <1>7 DEF ValidTask
  <2>2. ASSUME NEW i \in 1 .. Len(objCh'), ~Covered(objCh[i].prefix)'
        PROVE  /\ ValidTask(objCh'[i])
               /\ \A j \in 1 .. Len(objCh') : objCh'[j] = objCh'[i] => j = i
               /\ \A d \in Checker : chk'[d] # objCh'[i]
    <3>1. ~Covered(objCh[i + 1].prefix) /\ i + 1 \in 1 .. Len(objCh)
      BY <1>1, <1>4, <2>2, SettledStays
    <3>2. /\ ValidTask(objCh[i + 1])
          /\ \A j \in 1 .. Len(objCh) : objCh[j] = objCh[i + 1] => j = i + 1
          /\ \A d \in Checker : chk[d] # objCh[i + 1]
      BY <3>1 DEF TaskOK
    <3> QED
      BY <1>4, <3>1, <3>2
  <2>3. ASSUME NEW d \in Checker, chk'[d] # NoTask, ~Covered(chk[d].prefix)'
        PROVE  ValidTask(chk'[d]) /\ \A e \in Checker : chk'[e] = chk'[d] => e = d
    <3>1. CASE d = c
      <4>1. ~Covered(objCh[1].prefix)
        BY <1>1, <1>4, <2>3, <3>1, SettledStays
      <4> QED
        BY <1>4, <3>1, <4>1 DEF TaskOK
    <3>2. CASE d # c
      <4>1. ~Covered(chk[d].prefix)
        BY <1>1, <1>4, <2>3, <3>2, SettledStays
      <4>2. ValidTask(chk[d]) /\ \A e \in Checker : chk[e] = chk[d] => e = d
        BY <1>4, <2>3, <3>2, <4>1 DEF TaskOK
      <4>3. chk[d] # objCh[1]
        BY <1>4, <4>1 DEF TaskOK
      <4> QED
        BY <1>4, <3>2, <4>2, <4>3
    <3> QED
      BY <3>1, <3>2
  <2>4. Done \subseteq Done'
    BY <1>1 DEF Done, DoneGrows
  <2>5. c \notin handled
    BY <1>4 DEF TypeOK, CheckTypes
  <2> QED
    BY <1>3, <1>4, <2>1, <2>2, <2>3, <2>4, <2>5 DEF TaskOK, TypeOK, CheckTypes
<1>10. PageOK'
  BY <1>1, <1>3, <1>5, <1>6, <1>7, SettledStays DEF PageOK, Objs
<1>11. DiscoveryOK'
  <2>1. ASSUME NEW p \in Prefix, NEW s \in Seqs(p), NEW q \in Subs(p, Page(p, s))
        PROVE  q \in Recorded' \/ \E v \in Worker : Holds(v, p, s)' /\ q \in new'[v]
    BY <1>1, <1>3, <1>6 DEF DiscoveryOK, RecordedGrows, Recorded
  <2> QED
    BY <1>1, <1>3, <2>1, DiscoveryFrame
<1> QED
  BY <1>2, <1>8, <1>9, <1>10, <1>11 DEF Rest

\* A verdict: the object's line is pushed before the report.
LEMMA HandleRest ==
    ASSUME IInv, NEW c \in Checker, Handle(c)
    PROVE  Rest'
<1> USE DEF IInv, WorkOK
<1>1. FilesGrow /\ PagesSame /\ DoneGrows /\ RecordedGrows
  BY DEF Handle, FilesGrow, PagesSame, DoneGrows, RecordedGrows, fileVars, outVars, stateVars
<1>2. RootOK' /\ FileOK' /\ SnapOK' /\ SeedOK'
  BY <1>1, RootFrame, FileFrame, SnapFrame, SeedFrame
     DEF Handle, ckptVars, fileVars, mainVars, queueVars, stateVars, workerVars
<1>3. UNCHANGED <<pc, cur, tok, seq, new, todo, pagDone, pos, left, objCh, chk>>
  BY DEF Handle, workerVars, stateVars
<1>5. \A o, p, s : HasTask(o, p, s)' <=> HasTask(o, p, s)
  BY <1>3 DEF HasTask
<1>6. \A v, p, s : Holds(v, p, s)' <=> Holds(v, p, s)
  BY <1>3 DEF Holds
<1>7. \A p, s : Page(p, s)' = Page(p, s) /\ Seqs(p)' = Seqs(p)
  BY <1>1 DEF PagesSame, Page, Seqs
<1>8. OrderOK' /\ PosOK' /\ CountOK'
  BY <1>1, <1>3, <1>5, <1>6, OrderFrame, PosFrame, LiveShrinks, CountFrame DEF Listing
<1>9. TaskOK'
  <2>1. \A x : ValidTask(x)' <=> ValidTask(x)
    BY <1>7 DEF ValidTask
  <2>2. \A d \in handled' : chk[d] # NoTask /\ chk[d].obj \in Done'
    BY DEF Handle, Done, TaskOK
  <2> QED
    BY <1>1, <1>3, <2>1, <2>2, SettledStays DEF TaskOK
<1>10. PageOK'
  BY <1>1, <1>3, <1>5, <1>6, <1>7, SettledStays DEF PageOK, Objs
<1>11. DiscoveryOK'
  <2>1. ASSUME NEW p \in Prefix, NEW s \in Seqs(p), NEW q \in Subs(p, Page(p, s))
        PROVE  q \in Recorded' \/ \E v \in Worker : Holds(v, p, s)' /\ q \in new'[v]
    BY <1>1, <1>3, <1>6 DEF DiscoveryOK, RecordedGrows, Recorded
  <2> QED
    BY <1>1, <1>3, <2>1, DiscoveryFrame
<1> QED
  BY <1>2, <1>8, <1>9, <1>10, <1>11 DEF Rest

-----------------------------------------------------------------------------
(* Reports, new pages and the commit: the pages of an uncovered prefix get more *)

PagesGrow ==
    \A p \in Prefix : ~Covered(p)' =>
        /\ Len(left[p]) <= Len(left'[p])
        /\ \A s \in Seqs(p) : next'[p][s] = next[p][s]

\* A page of an uncovered prefix keeps its number.
LEMMA PageGrows ==
    ASSUME TypeOK, TypeOK', PagesGrow, NEW p \in Prefix, ~Covered(p)', NEW s \in Seqs(p)
    PROVE  s \in Seqs(p)' /\ Page(p, s)' = Page(p, s)
BY DEF PagesGrow, Seqs, Page, TypeOK, StateTypes

\* A page of the bucket that was reached stays reached.
LEMMA ReachedGrows ==
    ASSUME TypeOK, TypeOK', FilesGrow, PagesGrow,
           NEW p \in Prefix, NEW k \in PageNumbers(p), NEW n \in 0 .. Len(left[p]),
           Reached(p, k, n)
    PROVE  Reached(p, k, n)' /\ Reached(p, k, Len(left[p]))'
<1>1. CASE Covered(p)' \/ Settled(p, k)
  BY <1>1, SettledStays DEF Covered, Reached
<1>2. CASE ~Covered(p)' /\ ~Settled(p, k)
  <2>1. Len(left[p]) \in Nat /\ Len(left'[p]) \in Nat
    BY DEF TypeOK, StateTypes
  <2>2. PICK s \in 1 .. n : Page(p, s) = k
    BY <1>2 DEF Reached
  <2>3. s \in Seqs(p)
    BY <2>1 DEF Seqs
  <2>4. s \in Seqs(p)' /\ Page(p, s)' = k
    BY <1>2, <2>2, <2>3, PageGrows
  <2>5. s \in 1 .. Len(left'[p])
    BY <2>4 DEF Seqs
  <2> QED
    BY <2>2, <2>4, <2>5 DEF Reached
<1> QED
  BY <1>1, <1>2

TasksShrink ==
    /\ objCh' = objCh /\ handled' \subseteq handled
    /\ \A c \in Checker : chk'[c] \in {chk[c], NoTask}

\* A task of an uncovered prefix stays a task of a page of it.
LEMMA TaskGrows ==
    ASSUME TypeOK, TypeOK', TaskOK, FilesGrow, PagesGrow, DoneGrows, TasksShrink
    PROVE  TaskOK'
<1>1. ASSUME NEW t \in Task, ~Covered(t.prefix)', ValidTask(t)
      PROVE  ValidTask(t)'
  <2>1. t.prefix \in Prefix /\ t.seq \in Seqs(t.prefix)
    BY <1>1 DEF Task, ValidTask
  <2> QED
    BY <1>1, <2>1, PageGrows DEF ValidTask, Objs
<1>2. Done \subseteq Done' /\ \A p : Covered(p) => Covered(p)'
  BY SettledStays DEF Done, DoneGrows
<1>3. \A i \in 1 .. Len(objCh) : objCh[i] \in Task
  BY DEF TypeOK, CheckTypes
<1>4. \A c \in Checker : chk[c] # NoTask => chk[c] \in Task
  BY DEF TypeOK, CheckTypes
<1>5. ASSUME NEW i \in 1 .. Len(objCh), ~Covered(objCh[i].prefix)'
      PROVE  /\ ValidTask(objCh[i])'
             /\ \A j \in 1 .. Len(objCh) : objCh[j] = objCh[i] => j = i
             /\ \A c \in Checker : chk'[c] # objCh[i]
  <2>1. objCh[i] # NoTask
    BY <1>3, ConfigAssumption
  <2>2. ~Covered(objCh[i].prefix)
    BY <1>2, <1>5 DEF TasksShrink
  <2> QED
    BY <1>1, <1>3, <1>5, <2>1, <2>2 DEF TaskOK, TasksShrink
<1>6. ASSUME NEW c \in Checker, chk'[c] # NoTask, ~Covered(chk[c].prefix)'
      PROVE  ValidTask(chk[c])' /\ \A d \in Checker : chk'[d] = chk'[c] => d = c
  <2>1. chk'[c] = chk[c]
    BY <1>6 DEF TasksShrink
  <2>2. ~Covered(chk[c].prefix)
    BY <1>2, <1>6, <2>1
  <2> QED
    BY <1>1, <1>4, <1>6, <2>1, <2>2 DEF TaskOK, TasksShrink
<1>7. \A c \in handled' : chk'[c] # NoTask /\ chk'[c].obj \in Done'
  BY <1>2 DEF TaskOK, TasksShrink, TypeOK, CheckTypes
<1> QED
  BY <1>5, <1>6, <1>7 DEF TaskOK, TasksShrink

\* The order of the pages, for those registered before and the workers that list on.
LEMMA OrderGrows ==
    ASSUME TypeOK, TypeOK', RangeOK', OrderOK, FilesGrow, PagesGrow, UNCHANGED <<cur, tok>>,
           \A w \in Worker : Listing(w)' => Listing(w)
    PROVE  /\ \A p \in Prefix : \A s \in Seqs(p) : \A k \in PageNumbers(p) :
                 s \in Seqs(p)' /\ k < Page(p, s)' => Reached(p, k, s - 1)'
           /\ \A w \in Worker : Listing(w)' => \A k \in PageNumbers(cur[w]) :
                 k <= tok[w] => Reached(cur[w], k, Len(left[cur[w]]))'
<1>1. ASSUME NEW p \in Prefix, NEW s \in Seqs(p), NEW k \in PageNumbers(p), k < Page(p, s)'
      PROVE  Reached(p, k, s - 1)'
  <2>1. CASE Covered(p)'
    BY <2>1 DEF Covered, Reached
  <2>2. CASE ~Covered(p)'
    <3>1. Reached(p, k, s - 1)
      BY <1>1, <2>2, PageGrows DEF OrderOK
    <3>2. s - 1 \in 0 .. Len(left[p])
      BY DEF Seqs, TypeOK, StateTypes
    <3> QED
      BY <3>1, <3>2, ReachedGrows
  <2> QED
    BY <2>1, <2>2
<1>2. ASSUME NEW w \in Worker, Listing(w)', NEW k \in PageNumbers(cur[w]), k <= tok[w]
      PROVE  Reached(cur[w], k, Len(left[cur[w]]))'
  <2> DEFINE c == cur[w]
  <2>1. c \in Prefix /\ Len(left[c]) \in 0 .. Len(left[c]) /\ Len(left'[c]) \in Nat
    BY DEF TypeOK, WorkerTypes, StateTypes
  <2>2. Reached(c, k, Len(left[c]))
    BY <1>2 DEF OrderOK
  <2>3. cur'[w] = c
    OBVIOUS
  <2> HIDE DEF c
  <2>4. Reached(c, k, Len(left[c]))'
    BY <1>2, <2>1, <2>2, ReachedGrows DEF c
  <2> QED
    BY <2>3, <2>4 DEF c
<1> QED
  BY <1>1, <1>2

\* A report lowers a count and, as the reported object was the one that finished,
\* the number of unfinished objects with it.
LEMMA TerminalKeeps ==
    ASSUME IInv, TypeOK', RangeOK', NEW p0 \in Prefix, NEW s0 \in Nat, Terminal(p0, s0),
           FilesGrow, DoneGrows, RecordedGrows, TasksShrink,
           UNCHANGED <<pc, cur, tok, seq, new>>,
           \A w \in Worker : /\ todo'[w] \subseteq todo[w]
                             /\ pc[w] = "page" /\ new[w] # {} => todo'[w] = todo[w],
           NEW o,
           ~Covered(p0) =>
              /\ s0 \in Seqs(p0) /\ o \in Live(p0, s0)
              /\ o \in Done' /\ ~HasTask(o, p0, s0)'
              /\ \A w \in Worker : Holds(w, p0, s0) => o \notin todo'[w]
    PROVE  WorkOK'
<1> USE DEF IInv
<1>1. /\ next' = next
      /\ \A p \in Prefix : Seqs(p)' = Seqs(p) /\ Len(left'[p]) = Len(left[p]) /\ Len(left[p]) \in Nat
      /\ \A p, s : Page(p, s)' = Page(p, s)
      /\ \A p \in Prefix : \A s \in Seqs(p) :
            left'[p][s] = IF p = p0 /\ s = s0 /\ left[p][s] > 0 THEN left[p][s] - 1 ELSE left[p][s]
  BY ReportedCounts DEF Terminal, TypeOK, StateTypes, Seqs, Page
<1>2. PagesGrow
  BY <1>1 DEF PagesGrow
<1>3. TaskOK'
  BY <1>2, TaskGrows
<1>4. OrderOK'
  <2>1. \A p \in Prefix : Seqs(p)' = Seqs(p) /\ Page(p, 0)' = Page(p, 0)
    BY <1>1
  <2> QED
    BY <1>1, <1>2, OrderGrows DEF OrderOK, Listing
<1>5. \A x, p, s : HasTask(x, p, s)' => HasTask(x, p, s)
  BY DEF HasTask, IsTask, TasksShrink
<1>6. \A v, p, s : Holds(v, p, s)' <=> Holds(v, p, s)
  BY DEF Holds
<1>7. Done \subseteq Done'
  BY DEF Done, DoneGrows
<1>8. PageOK'
  <2>1. ASSUME NEW v \in Worker, pc'[v] = "page", ~Covered(cur[v])'
        PROVE  (/\ seq[v] \in Seqs(cur[v]) /\ Page(cur[v], seq[v]) = tok[v] + 1
                /\ \A x \in todo[v] : ~HasTask(x, cur[v], seq[v])
                /\ \A u \in Worker : Holds(u, cur[v], seq[v]) => u = v)'
    <3>1. ~Covered(cur[v]) /\ pc[v] = "page" /\ cur[v] \in Prefix
      BY <2>1, SettledStays DEF TypeOK, WorkerTypes
    <3>2. /\ seq[v] \in Seqs(cur[v]) /\ Page(cur[v], seq[v]) = tok[v] + 1
          /\ \A x \in todo[v] : ~HasTask(x, cur[v], seq[v])
          /\ \A u \in Worker : Holds(u, cur[v], seq[v]) => u = v
      BY <3>1 DEF PageOK
    <3> QED
      BY <1>1, <1>5, <1>6, <3>1, <3>2
  <2>2. ASSUME NEW v \in Worker, pc'[v] = "page"
        PROVE  /\ todo'[v] \subseteq Objs(cur[v], tok[v] + 1)
               /\ new'[v] # {} => todo'[v] = Objs(cur[v], tok[v] + 1)
    BY <2>2 DEF PageOK
  <2> QED
    BY <2>1, <2>2 DEF PageOK, Objs
<1>9. CountOK'
  <2> SUFFICES ASSUME NEW p \in Prefix, ~Covered(p)', NEW s \in Seqs(p)
               PROVE  Cardinality(Live(p, s)') <= left'[p][s]
    BY <1>1 DEF CountOK
  <2>1. /\ IsFiniteSet(Live(p, s)) /\ Cardinality(Live(p, s)) \in Nat
        /\ ~Covered(p) /\ Cardinality(Live(p, s)) <= left[p][s]
        /\ left[p][s] \in Nat
    BY LiveFinite, SettledStays DEF CountOK, TypeOK, StateTypes, Seqs
  <2>2. Live(p, s)' \subseteq Live(p, s)
    BY <1>1, <1>5, <1>6, <1>7 DEF Live, Objs
  <2>3. IsFiniteSet(Live(p, s)') /\ Cardinality(Live(p, s)') <= Cardinality(Live(p, s))
        /\ Cardinality(Live(p, s)') \in Nat
    <3>1. Live(p, s)' \in SUBSET Live(p, s)
      BY <2>2
    <3>2. IsFiniteSet(Live(p, s)') /\ Cardinality(Live(p, s)') <= Cardinality(Live(p, s))
      BY <2>1, <3>1, FS_Subset, Zenon
    <3> QED
      BY <3>2, FS_CardinalityType
  <2>4. CASE p = p0 /\ s = s0
    <3>1. o \in Live(p, s) /\ o \notin Live(p, s)'
      BY <1>6, <2>1, <2>4 DEF Live
    <3>2. Cardinality(Live(p, s)') < Cardinality(Live(p, s))
      <4>1. Live(p, s)' \in SUBSET Live(p, s) /\ Live(p, s)' # Live(p, s)
        BY <2>2, <3>1
      <4>2. Cardinality(Live(p, s)') # Cardinality(Live(p, s))
        BY <2>1, <4>1, FS_Subset, Zenon
      <4> QED
        BY <2>1, <2>3, <4>2
    <3> QED
      BY <1>1, <2>1, <2>3, <2>4, <3>2
  <2>5. CASE ~(p = p0 /\ s = s0)
    BY <1>1, <2>1, <2>3, <2>5
  <2> QED
    BY <2>4, <2>5
<1>10. PosOK'
  <2> SUFFICES ASSUME NEW p \in Prefix, NEW s \in 1 .. pos'[p]
               PROVE  left'[p][s] = 0
    BY DEF PosOK
  <2>1. /\ pos[p] \in Nat /\ pos'[p] \in Nat /\ left[p] \in Seq(Nat)
        /\ pos[p] <= Len(left[p]) /\ s \in Seqs(p) /\ left[p][s] \in Nat
    <3>1. /\ pos[p] \in Nat /\ pos'[p] \in Nat /\ left[p] \in Seq(Nat)
          /\ pos[p] <= Len(left[p]) /\ pos'[p] <= Len(left'[p])
      BY DEF TypeOK, StateTypes
    <3>2. s \in 1 .. Len(left[p])
      BY <1>1, <3>1
    <3> QED
      BY <3>1, <3>2 DEF Seqs
  <2>2. CASE s <= pos[p]
    <3>1. left[p][s] = 0
      BY <2>1, <2>2 DEF PosOK
    <3> QED
      BY <1>1, <2>1, <3>1
  <2>3. CASE s > pos[p]
    <3>1. p = p0
      BY <2>1, <2>3 DEF Terminal, TypeOK, StateTypes
    <3> DEFINE l == Reported(left[p], s0)
    <3>2. l \in Seq(Nat) /\ pos[p] \in 0 .. Len(l) /\ left'[p] = l /\ pos'[p] = Advance(l, pos[p])
      BY <2>1, <3>1, ReportedCounts DEF Terminal, TypeOK, StateTypes
    <3> HIDE DEF l
    <3>3. \A i \in pos[p] + 1 .. Advance(l, pos[p]) : l[i] = 0
      BY <3>2, AdvanceStops
    <3> QED
      BY <2>1, <2>3, <3>2, <3>3
  <2> QED
    BY <2>1, <2>2, <2>3
<1>11. DiscoveryOK'
  <2>1. ASSUME NEW p \in Prefix, NEW s \in Seqs(p), NEW q \in Subs(p, Page(p, s))
        PROVE  q \in Recorded' \/ \E v \in Worker : Holds(v, p, s)' /\ q \in new'[v]
    BY <1>6 DEF DiscoveryOK, RecordedGrows, Recorded
  <2>2. ASSUME NEW p \in Prefix, pagDone'[p], ~Covered(p)'
        PROVE  /\ Subs(p, Len(Pages[p])) \subseteq Recorded'
               /\ \A k \in PageNumbers(p) : Reached(p, k, Len(left[p]))'
    <3>1. pagDone[p] /\ ~Covered(p)
      BY <2>2, SettledStays DEF Terminal
    <3>2. /\ Subs(p, Len(Pages[p])) \subseteq Recorded
          /\ \A k \in PageNumbers(p) : Reached(p, k, Len(left[p]))
      BY <3>1 DEF DiscoveryOK
    <3>3. Len(left[p]) \in 0 .. Len(left[p])
      BY <1>1
    <3> QED
      BY <1>2, <3>2, <3>3, ReachedGrows DEF RecordedGrows, Recorded
  <2> QED
    BY <1>1, <2>1, <2>2 DEF DiscoveryOK, Subs
<1> QED
  BY <1>3, <1>4, <1>8, <1>9, <1>10, <1>11 DEF WorkOK

\* The lister reports an object itself: it was in its hands.
LEMMA EmitLocallyRest ==
    ASSUME IInv, TypeOK', RangeOK', NEW w \in Worker, EmitLocally(w)
    PROVE  Rest'
<1> USE DEF IInv
<1>1. PICK o \in todo[w] :
         /\ o \in pushed' \cup written'
         /\ todo' = [todo EXCEPT ![w] = @ \ {o}]
  BY DEF EmitLocally
<1>2. /\ FilesGrow /\ DoneGrows /\ RecordedGrows /\ TasksShrink
      /\ UNCHANGED <<pc, cur, tok, seq, new>>
      /\ pc[w] = "page" /\ new[w] = {} /\ Terminal(cur[w], seq[w])
  BY DEF EmitLocally, FilesGrow, DoneGrows, RecordedGrows, TasksShrink, checkVars, fileVars
<1>3. RootOK' /\ FileOK' /\ SnapOK' /\ SeedOK'
  BY <1>2, RootOfWork, RootStays, FileFrame, SnapFrame, SeedFrame
     DEF EmitLocally, Terminal, ckptVars, fileVars, mainVars, queueVars
<1>4. cur[w] \in Prefix /\ seq[w] \in Nat /\ o \notin todo'[w]
      /\ \A v \in Worker : /\ todo'[v] \subseteq todo[v]
                           /\ pc[v] = "page" /\ new[v] # {} => todo'[v] = todo[v]
  BY <1>1, <1>2 DEF TypeOK, WorkerTypes
<1>5. ASSUME ~Covered(cur[w])
      PROVE  /\ seq[w] \in Seqs(cur[w]) /\ o \in Live(cur[w], seq[w])
             /\ o \in Done' /\ ~HasTask(o, cur[w], seq[w])
             /\ \A v \in Worker : Holds(v, cur[w], seq[w]) => o \notin todo'[v]
  <2>1. /\ seq[w] \in Seqs(cur[w]) /\ Page(cur[w], seq[w]) = tok[w] + 1
        /\ ~HasTask(o, cur[w], seq[w])
        /\ \A v \in Worker : Holds(v, cur[w], seq[w]) => v = w
        /\ o \in Objs(cur[w], tok[w] + 1)
    BY <1>1, <1>2, <1>5 DEF PageOK
  <2>2. Holds(w, cur[w], seq[w])
    BY <1>2 DEF Holds
  <2> QED
    BY <1>1, <1>4, <2>1, <2>2 DEF Live, Done
<1>6. WorkOK'
  <2>1. PICK c \in Prefix, n \in Nat : c = cur[w] /\ n = seq[w]
    BY <1>4
  <2>2. ~Covered(c) => /\ n \in Seqs(c) /\ o \in Live(c, n) /\ o \in Done'
                       /\ ~HasTask(o, c, n)
                       /\ \A v \in Worker : Holds(v, c, n) => o \notin todo'[v]
    BY <1>5, <2>1
  <2>3. HasTask(o, c, n)' => HasTask(o, c, n)
    BY <1>2 DEF HasTask, IsTask, TasksShrink
  <2>4. Terminal(c, n)
    BY <1>2, <2>1
  <2> QED
    BY <1>2, <1>4, <2>2, <2>3, <2>4, TerminalKeeps
<1> QED
  BY <1>3, <1>6 DEF Rest

\* A checker reports the object it has handled: no other task of it belongs to the page.
LEMMA ReportRest ==
    ASSUME IInv, TypeOK', RangeOK', NEW c \in Checker, Report(c)
    PROVE  Rest'
<1> USE DEF IInv
<1>0. PICK t : t = chk[c]
  OBVIOUS
<1>1. t \in Task /\ t # NoTask /\ t.prefix \in Prefix /\ t.seq \in Nat
  <2>1. t \in Task /\ t # NoTask
    BY <1>0 DEF Report, TypeOK, CheckTypes
  <2> QED
    BY <2>1 DEF Task
<1>2. /\ chk'[c] = NoTask /\ \A d \in Checker \ {c} : chk'[d] = chk[d]
      /\ objCh' = objCh /\ handled' \subseteq handled
  BY DEF Report, TypeOK, CheckTypes
<1>3. /\ FilesGrow /\ DoneGrows /\ RecordedGrows /\ TasksShrink
      /\ UNCHANGED <<pc, cur, tok, seq, new, todo>>
      /\ Terminal(t.prefix, t.seq)
  BY <1>0, <1>2 DEF Report, FilesGrow, DoneGrows, RecordedGrows, TasksShrink, fileVars, outVars,
              workerVars
<1>4. RootOK' /\ FileOK' /\ SnapOK' /\ SeedOK'
  BY <1>3, RootFrame, FileFrame, SnapFrame, SeedFrame
     DEF Report, Terminal, ckptVars, fileVars, mainVars, queueVars
<1>5. ASSUME ~Covered(t.prefix)
      PROVE  /\ t.seq \in Seqs(t.prefix) /\ t.obj \in Live(t.prefix, t.seq)
             /\ t.obj \in Done' /\ ~HasTask(t.obj, t.prefix, t.seq)'
             /\ \A v \in Worker : Holds(v, t.prefix, t.seq) => t.obj \notin todo'[v]
  <2>1. /\ ValidTask(t) /\ t.obj \in Done
        /\ \A d \in Checker : chk[d] = t => d = c
        /\ \A i \in 1 .. Len(objCh) : objCh[i] # t
    <3>1. t.obj \in Done
      BY <1>0 DEF Report, TaskOK
    <3>2. ASSUME NEW i \in 1 .. Len(objCh), objCh[i] = t
          PROVE  FALSE
      BY <1>0, <1>5, <3>2 DEF TaskOK
    <3> QED
      BY <1>0, <1>1, <1>5, <3>1, <3>2 DEF TaskOK
  <2>2. HasTask(t.obj, t.prefix, t.seq)
    BY <1>0, <1>1 DEF HasTask, IsTask
  <2>3. \A x : IsTask(x, t.obj, t.prefix, t.seq) /\ x \in Task => x = t
    BY <1>1 DEF IsTask, Task
  <2>4. ~HasTask(t.obj, t.prefix, t.seq)'
    <3>1. ASSUME NEW i \in 1 .. Len(objCh), IsTask(objCh[i], t.obj, t.prefix, t.seq)
          PROVE  FALSE
      <4>1. objCh[i] \in Task
        BY DEF TypeOK, CheckTypes
      <4> QED
        BY <2>1, <2>3, <3>1, <4>1
    <3>2. ASSUME NEW d \in Checker \ {c}, IsTask(chk[d], t.obj, t.prefix, t.seq)
          PROVE  FALSE
      <4>1. chk[d] \in Task
        BY <3>2 DEF IsTask, TypeOK, CheckTypes
      <4> QED
        BY <2>1, <2>3, <3>2, <4>1
    <3>3. \A d \in Checker : ~IsTask(chk'[d], t.obj, t.prefix, t.seq)
      BY <1>2, <3>2 DEF IsTask
    <3> QED
      BY <1>2, <3>1, <3>3 DEF HasTask, IsTask
  <2>5. t.seq \in Seqs(t.prefix) /\ t.obj \in Live(t.prefix, t.seq)
    BY <2>1, <2>2 DEF ValidTask, Live
  <2>6. \A v \in Worker : Holds(v, t.prefix, t.seq) => t.obj \notin todo'[v]
    BY <1>3, <1>5, <2>2 DEF PageOK, Holds
  <2>7. t.obj \in Done'
    BY <1>3, <2>1 DEF DoneGrows, Done
  <2> QED
    BY <2>4, <2>5, <2>6, <2>7
<1>6. WorkOK'
  BY <1>1, <1>3, <1>5, TerminalKeeps
<1> QED
  BY <1>4, <1>6 DEF Rest

\* A new page: its worker holds it, all its objects are unfinished, all its
\* sub-prefixes are in the worker's hands, and the pages before it were reached.
LEMMA ListPageRest ==
    ASSUME IInv, TypeOK', RangeOK', NEW w \in Worker, ListPage(w)
    PROVE  Rest'
<1> USE DEF IInv
<1>1. PICK p \in Prefix, k \in Nat, n \in Nat :
         p = cur[w] /\ k = tok[w] + 1 /\ n = Len(left[p]) + 1
  <2>1. cur[w] \in Prefix /\ tok[w] \in Nat /\ tok[w] + 1 \in Nat
    BY DEF TypeOK, WorkerTypes, Token
  <2>2. left[cur[w]] \in Seq(Nat)
    BY <2>1 DEF TypeOK, StateTypes
  <2>3. Len(left[cur[w]]) + 1 \in Nat
    BY <2>2
  <2> QED
    BY <2>1, <2>3
<1>2. k \in PageNumbers(p) /\ IsFiniteSet(Objs(p, k)) /\ Cardinality(Objs(p, k)) \in Nat
  <2>1. tok[w] \in Nat /\ tok[w] < Len(Pages[p])
    BY <1>1 DEF RangeOK, WorkerRange, InRange, TypeOK, WorkerTypes, Token
  <2>2. Len(Pages[p]) \in Nat
    BY BucketPages
  <2>3. k \in PageNumbers(p)
    BY <1>1, <2>1, <2>2 DEF PageNumbers
  <2>4. IsFiniteSet(Objs(p, k))
    BY <2>3, BucketPages DEF Objs
  <2> QED
    BY <2>3, <2>4, FS_CardinalityType
<1>3. /\ RegisterPage(p, Cardinality(Objs(p, k)), NextToken(p, k))
      /\ pc[w] = "list" /\ pc'[w] = "page" /\ seq'[w] = n
      /\ new'[w] = Subs(p, k) /\ todo'[w] = Objs(p, k)
      /\ UNCHANGED <<cur, tok, objCh, chk, handled>>
      /\ \A v \in Worker \ {w} : /\ pc'[v] = pc[v] /\ seq'[v] = seq[v]
                                 /\ new'[v] = new[v] /\ todo'[v] = todo[v]
  BY <1>1 DEF ListPage, Objs, Subs, TypeOK, WorkerTypes, checkVars
<1>4. /\ left'[p] = Append(left[p], Cardinality(Objs(p, k)))
      /\ next'[p] = Append(next[p], NextToken(p, k))
      /\ pos'[p] = Advance(left'[p], pos[p]) /\ pagDone' = pagDone
      /\ \A q \in Prefix : q # p => left'[q] = left[q] /\ next'[q] = next[q] /\ pos'[q] = pos[q]
  BY <1>3 DEF RegisterPage, TypeOK, StateTypes
<1>5. /\ Len(left[p]) \in Nat /\ Len(left'[p]) = n /\ Len(next[p]) = Len(left[p])
      /\ left'[p][n] = Cardinality(Objs(p, k)) /\ next'[p][n] = NextToken(p, k)
      /\ \A s \in 1 .. Len(left[p]) : left'[p][s] = left[p][s] /\ next'[p][s] = next[p][s]
  BY <1>1, <1>2, <1>4 DEF TypeOK, StateTypes
<1>6. /\ \A q \in Prefix : \A s \in Seqs(q) :
            s \in Seqs(q)' /\ left'[q][s] = left[q][s] /\ Page(q, s)' = Page(q, s)
      /\ \A q \in Prefix : \A s \in Seqs(q)' : s \in Seqs(q) \/ (q = p /\ s = n)
      /\ n \in Seqs(p)' /\ n \notin Seqs(p)
  <2>1. \A q \in Prefix : Seqs(q)' = IF q = p THEN Seqs(q) \cup {n} ELSE Seqs(q)
    <3>1. Seqs(p)' = 1 .. n /\ Seqs(p) = 1 .. Len(left[p])
      BY <1>5 DEF Seqs
    <3>2. Seqs(p)' = Seqs(p) \cup {n}
      BY <1>1, <1>5, <3>1
    <3>3. \A q \in Prefix : q # p => Seqs(q)' = Seqs(q)
      BY <1>4 DEF Seqs
    <3> QED
      BY <3>2, <3>3
  <2>2. n \notin Seqs(p)
    BY <1>1, <1>5 DEF Seqs
  <2>3. \A q \in Prefix : \A s \in Seqs(q) : left'[q][s] = left[q][s] /\ next'[q][s] = next[q][s]
    BY <1>4, <1>5 DEF Seqs
  <2>4. \A q \in Prefix : \A s \in Seqs(q) : Page(q, s)' = Page(q, s)
    BY <2>3 DEF Page
  <2> QED
    BY <2>1, <2>2, <2>3, <2>4
<1>7. Page(p, n)' = k
  BY <1>2, <1>5, BucketPages DEF Page, NextToken, PageNumbers
<1>8. FilesGrow /\ DoneGrows /\ RecordedGrows /\ TasksShrink /\ PagesGrow
  <2>1. FilesGrow /\ DoneGrows /\ RecordedGrows /\ TasksShrink
    BY DEF ListPage, FilesGrow, DoneGrows, RecordedGrows, TasksShrink, fileVars, outVars,
       checkVars
  <2>2. \A q \in Prefix : Len(left[q]) <= Len(left'[q])
    <3>1. \A q \in Prefix : Len(left[q]) \in Nat
      BY DEF TypeOK, StateTypes
    <3>2. Len(left[p]) <= Len(left'[p])
      BY <1>1, <1>5
    <3> QED
      BY <1>4, <3>1, <3>2
  <2>3. \A q \in Prefix : \A s \in Seqs(q) : next'[q][s] = next[q][s]
    BY <1>4, <1>5 DEF Seqs
  <2> QED
    BY <2>1, <2>2, <2>3 DEF PagesGrow
<1>9. RootOK' /\ FileOK' /\ SnapOK' /\ SeedOK'
  BY <1>3, <1>8, RootOfWork, RootStays, FileFrame, SnapFrame, SeedFrame
     DEF ListPage, RegisterPage, ckptVars, fileVars, mainVars, queueVars
<1>10. TaskOK'
  BY <1>8, TaskGrows
<1>11. OrderOK'
  <2>1. \A v \in Worker : Listing(v)' => Listing(v)
    BY <1>3 DEF Listing
  <2>2. ASSUME NEW k2 \in PageNumbers(p), k2 < k
        PROVE  Reached(p, k2, n - 1)'
    <3>1. k2 <= tok[w] /\ n - 1 = Len(left[p]) /\ Len(left[p]) \in 0 .. Len(left[p])
      BY <1>1, <1>5, <2>2 DEF PageNumbers, TypeOK, WorkerTypes, Token
    <3>2. Reached(p, k2, n - 1)
      BY <1>1, <1>3, <3>1 DEF OrderOK, Listing
    <3>3. n - 1 \in 0 .. Len(left[p])
      BY <3>1
    <3> QED
      BY <1>8, <3>2, <3>3, ReachedGrows
  <2>3. /\ \A q \in Prefix : \A s \in Seqs(q) : \A j \in PageNumbers(q) :
                 s \in Seqs(q)' /\ j < Page(q, s)' => Reached(q, j, s - 1)'
        /\ \A v \in Worker : Listing(v)' => \A j \in PageNumbers(cur[v]) :
                 j <= tok[v] => Reached(cur[v], j, Len(left[cur[v]]))'
    BY <1>3, <1>8, <2>1, OrderGrows
  <2>4. ASSUME NEW q \in Prefix, NEW s \in Seqs(q)', NEW j \in PageNumbers(q), j < Page(q, s)'
        PROVE  Reached(q, j, s - 1)'
    BY <1>6, <1>7, <2>2, <2>3, <2>4
  <2> QED
    BY <1>3, <2>3, <2>4 DEF OrderOK
<1>12. \A x, q, s : HasTask(x, q, s)' <=> HasTask(x, q, s)
  BY <1>3 DEF HasTask
<1>13. \A q, s : \A v \in Worker : Holds(v, q, s)' <=> IF v = w THEN q = p /\ s = n ELSE Holds(v, q, s)
  BY <1>1, <1>3 DEF Holds
<1>14. PageOK'
  <2>1. ASSUME NEW v \in Worker, pc'[v] = "page"
        PROVE  /\ todo'[v] \subseteq Objs(cur[v], tok[v] + 1)
               /\ new'[v] # {} => todo'[v] = Objs(cur[v], tok[v] + 1)
    BY <1>1, <1>3, <2>1 DEF PageOK
  <2>2. ASSUME ~Covered(p)'
        PROVE  /\ \A x : ~HasTask(x, p, n)
               /\ \A v \in Worker : ~Holds(v, p, n)
    <3>1. ~Covered(p)
      BY <1>8, <2>2, SettledStays
    <3>2. ASSUME NEW x, HasTask(x, p, n)
          PROVE  FALSE
      <4>1. CASE \E i \in 1 .. Len(objCh) : IsTask(objCh[i], x, p, n)
        BY <1>6, <3>1, <4>1 DEF TaskOK, ValidTask, IsTask
      <4>2. CASE \E d \in Checker : IsTask(chk[d], x, p, n)
        BY <1>6, <3>1, <4>2 DEF TaskOK, ValidTask, IsTask
      <4> QED
        BY <3>2, <4>1, <4>2 DEF HasTask
    <3>3. \A v \in Worker : ~Holds(v, p, n)
      BY <1>6, <3>1 DEF PageOK, Holds
    <3> QED
      BY <3>2, <3>3
  <2>3. ASSUME NEW v \in Worker, pc'[v] = "page", ~Covered(cur[v])'
        PROVE  (/\ seq[v] \in Seqs(cur[v]) /\ Page(cur[v], seq[v]) = tok[v] + 1
                /\ \A x \in todo[v] : ~HasTask(x, cur[v], seq[v])
                /\ \A u \in Worker : Holds(u, cur[v], seq[v]) => u = v)'
    <3>1. CASE v = w
      <4>1. cur'[v] = p /\ seq'[v] = n /\ tok'[v] + 1 = k
        BY <1>1, <1>3, <3>1
      <4>2. ~Covered(p)'
        BY <2>3, <4>1
      <4>3. \A x : ~HasTask(x, p, n)'
        BY <1>12, <2>2, <4>2
      <4>4. \A u \in Worker : Holds(u, p, n)' => u = w
        BY <1>13, <2>2, <4>2
      <4> QED
        BY <1>6, <1>7, <3>1, <4>1, <4>3, <4>4
    <3>2. CASE v # w
      <4>1. PICK q \in Prefix, s \in Nat : q = cur[v] /\ s = seq[v]
        BY DEF TypeOK, WorkerTypes
      <4>2. ~Covered(q) /\ pc[v] = "page" /\ cur'[v] = q /\ seq'[v] = s /\ todo'[v] = todo[v]
        BY <1>3, <1>8, <2>3, <3>2, <4>1, SettledStays
      <4>3. /\ s \in Seqs(q) /\ Page(q, s) = tok[v] + 1
            /\ \A x \in todo[v] : ~HasTask(x, q, s)
            /\ \A u \in Worker : Holds(u, q, s) => u = v
        BY <4>1, <4>2 DEF PageOK
      <4>4. \A u \in Worker : Holds(u, q, s)' => u = v
        BY <1>6, <1>13, <4>3
      <4>5. s \in Seqs(q)' /\ Page(q, s)' = tok'[v] + 1 /\ \A x \in todo'[v] : ~HasTask(x, q, s)'
        BY <1>3, <1>6, <1>12, <4>2, <4>3
      <4> QED
        BY <4>2, <4>4, <4>5
    <3> QED
      BY <3>1, <3>2
  <2> QED
    BY <1>3, <2>1, <2>3 DEF PageOK, Objs
<1>15. CountOK'
  <2> SUFFICES ASSUME NEW q \in Prefix, ~Covered(q)', NEW s \in Seqs(q)'
               PROVE  Cardinality(Live(q, s)') <= left'[q][s]
    BY DEF CountOK
  <2>1. CASE s \in Seqs(q)
    <3>1. /\ IsFiniteSet(Live(q, s)) /\ Cardinality(Live(q, s)) \in Nat
          /\ Cardinality(Live(q, s)) <= left[q][s] /\ left[q][s] \in Nat
      <4>1. IsFiniteSet(Live(q, s)) /\ Cardinality(Live(q, s)) \in Nat
        BY <2>1, LiveFinite
      <4>2. ~Covered(q)
        BY <1>8, SettledStays
      <4>3. Cardinality(Live(q, s)) <= left[q][s]
        BY <2>1, <4>2 DEF CountOK
      <4>4. left[q][s] \in Nat
        BY <2>1 DEF TypeOK, StateTypes, Seqs
      <4> QED
        BY <4>1, <4>3, <4>4
    <3>2. ~(q = p /\ s = n) /\ Page(q, s)' = Page(q, s) /\ Done \subseteq Done'
      BY <1>6, <1>8, <2>1 DEF Done, DoneGrows
    <3>3. \A v \in Worker : Holds(v, q, s)' => Holds(v, q, s) /\ v # w /\ todo'[v] = todo[v]
      BY <1>3, <1>13, <3>2
    <3>4. Live(q, s)' \in SUBSET Live(q, s)
      BY <1>12, <3>2, <3>3 DEF Live, Objs
    <3>5. IsFiniteSet(Live(q, s)') /\ Cardinality(Live(q, s)') <= Cardinality(Live(q, s))
      BY <3>1, <3>4, FS_Subset, Zenon
    <3>6. Cardinality(Live(q, s)') \in Nat
      BY <3>5, FS_CardinalityType
    <3> QED
      BY <1>6, <2>1, <3>1, <3>5, <3>6
  <2>2. CASE q = p /\ s = n
    <3>1. Live(q, s)' \in SUBSET Objs(p, k)
      BY <1>7, <2>2 DEF Live, Objs
    <3>2. Cardinality(Live(q, s)') <= Cardinality(Objs(p, k))
      BY <1>2, <3>1, FS_Subset, Zenon
    <3> QED
      BY <1>5, <2>2, <3>2
  <2> QED
    BY <1>6, <2>1, <2>2
<1>16. PosOK'
  <2> SUFFICES ASSUME NEW q \in Prefix, NEW s \in 1 .. pos'[q]
               PROVE  left'[q][s] = 0
    BY DEF PosOK
  <2>0. pos[q] \in Nat /\ pos'[q] \in Nat /\ pos[q] <= Len(left[q]) /\ Len(left[q]) \in Nat
    BY DEF TypeOK, StateTypes
  <2>1. CASE s <= pos[q]
    <3>1. left[q][s] = 0 /\ s \in Seqs(q)
      BY <2>0, <2>1 DEF PosOK, Seqs
    <3> QED
      BY <1>6, <3>1
  <2>2. CASE s > pos[q]
    <3>1. q = p
      BY <1>4, <2>0, <2>2
    <3>2. left'[p] \in Seq(Nat) /\ pos[p] \in 0 .. Len(left'[p])
      BY <1>1, <1>5, <2>0, <3>1 DEF TypeOK, StateTypes
    <3>3. \A i \in pos[p] + 1 .. Advance(left'[p], pos[p]) : left'[p][i] = 0
      BY <3>2, AdvanceStops
    <3>4. pos'[q] = Advance(left'[p], pos[p]) /\ pos[q] = pos[p]
      BY <1>4, <3>1
    <3>5. s \in pos[p] + 1 .. Advance(left'[p], pos[p])
      BY <2>0, <2>2, <3>4
    <3> QED
      BY <3>1, <3>3, <3>5
  <2> QED
    BY <2>0, <2>1, <2>2
<1>17. DiscoveryOK'
  <2>1. ASSUME NEW q \in Prefix, NEW s \in Seqs(q)', NEW x \in Subs(q, Page(q, s)')
        PROVE  x \in Recorded' \/ \E v \in Worker : Holds(v, q, s)' /\ x \in new'[v]
    <3>1. CASE s \in Seqs(q)
      <4>1. CASE x \in Recorded
        BY <1>8, <4>1 DEF Recorded, RecordedGrows
      <4>2. CASE \E v \in Worker : Holds(v, q, s) /\ x \in new[v]
        <5>1. PICK v \in Worker : Holds(v, q, s) /\ x \in new[v]
          BY <4>2
        <5>2. v # w
          BY <1>3, <5>1 DEF Holds
        <5> QED
          BY <1>3, <1>13, <5>1, <5>2
      <4> QED
        BY <1>6, <2>1, <3>1, <4>1, <4>2 DEF DiscoveryOK
    <3>2. CASE q = p /\ s = n
      BY <1>3, <1>7, <1>13, <2>1, <3>2
    <3> QED
      BY <1>6, <3>1, <3>2
  <2>2. ASSUME NEW q \in Prefix, pagDone'[q], ~Covered(q)'
        PROVE  /\ Subs(q, Len(Pages[q])) \subseteq Recorded'
               /\ \A j \in PageNumbers(q) : Reached(q, j, Len(left[q]))'
    <3>1. pagDone[q] /\ ~Covered(q)
      BY <1>4, <1>8, <2>2, SettledStays
    <3>2. /\ Subs(q, Len(Pages[q])) \subseteq Recorded
          /\ \A j \in PageNumbers(q) : Reached(q, j, Len(left[q]))
      BY <3>1 DEF DiscoveryOK
    <3>3. Len(left[q]) \in 0 .. Len(left[q])
      BY DEF TypeOK, StateTypes
    <3> QED
      BY <1>8, <3>2, <3>3, ReachedGrows DEF RecordedGrows, Recorded
  <2> QED
    BY <2>1, <2>2 DEF DiscoveryOK, Subs
<1> QED
  BY <1>9, <1>10, <1>11, <1>14, <1>15, <1>16, <1>17 DEF Rest, WorkOK

-----------------------------------------------------------------------------
(* The writers, the main goroutine and the checkpoint *)

\* A step that lists, reports, records and snapshots nothing: at most it writes
\* result lines, or drops the queue.
LEMMA QuietRest ==
    ASSUME IInv, FilesGrow, DoneGrows, queue' \in {queue, <<>>},
           UNCHANGED <<toSeed, workerVars, checkVars, pend, stateVars, ckpt, snap, fileVars>>
    PROVE  Rest'
<1> USE DEF IInv, WorkOK
<1>1. PagesSame /\ TasksSame /\ RecordedGrows
  BY DEF PagesSame, TasksSame, RecordedGrows, stateVars, checkVars, fileVars
<1>2. RootOK'
  BY DEF RootOK, Recorded, workerVars, stateVars, fileVars
<1>3. FileOK' /\ SnapOK'
  BY <1>1, FileFrame, SnapFrame DEF fileVars
<1>4. SeedOK'
  BY SettledStays DEF SeedOK, stateVars
<1>5. WorkOK'
  BY <1>1, WorkFrame DEF workerVars, stateVars
<1> QED
  BY <1>2, <1>3, <1>4, <1>5 DEF Rest

LEMMA WriterRest ==
    ASSUME IInv, WriterFlush
    PROVE  Rest'
<1>1. FilesGrow /\ DoneGrows
  BY DEF WriterFlush, FilesGrow, DoneGrows, fileVars
<1> QED
  BY <1>1, QuietRest DEF WriterFlush, mainVars, queueVars, ckptVars

LEMMA MainRest ==
    ASSUME IInv, CheckpointNow \/ CloseIfUnseeded \/ AllWorkDone \/ CloseOutput \/ Signal
    PROVE  Rest'
<1>1. CASE CheckpointNow \/ CloseIfUnseeded \/ Signal
  <2>1. FilesGrow /\ DoneGrows
    BY <1>1 DEF CheckpointNow, CloseIfUnseeded, Signal, FilesGrow, DoneGrows, fileVars, outVars
  <2> QED
    BY <1>1, <2>1, QuietRest DEF CheckpointNow, CloseIfUnseeded, Signal, queueVars, ckptVars
<1>2. CASE AllWorkDone
  <2>1. FilesGrow /\ DoneGrows
    BY <1>2 DEF AllWorkDone, FilesGrow, DoneGrows, fileVars
  <2>2. queue' \in {queue, <<>>}
    BY <1>2 DEF AllWorkDone, DrainQueuedPrefixes
  <2> QED
    BY <1>2, <2>1, <2>2, QuietRest DEF AllWorkDone, ckptVars
<1>3. CASE CloseOutput
  <2>1. FilesGrow /\ DoneGrows
    BY <1>3 DEF CloseOutput, FilesGrow, DoneGrows, fileVars
  <2> QED
    BY <1>3, <2>1, QuietRest DEF CloseOutput, queueVars, ckptVars
<1> QED
  BY <1>1, <1>2, <1>3

\* The flush turns the lines a snapshot counts on into lines of the files.
LEMMA FlushRest ==
    ASSUME IInv, FlushAndWait
    PROVE  Rest'
<1> USE DEF IInv, WorkOK
<1>1. FilesGrow /\ DoneGrows /\ PagesSame /\ TasksSame /\ RecordedGrows
  BY DEF FlushAndWait, FilesGrow, DoneGrows, PagesSame, TasksSame, RecordedGrows, stateVars,
     checkVars, fileVars
<1>2. RootOK' /\ FileOK' /\ SeedOK'
  BY <1>1, RootFrame, FileFrame, SeedFrame
     DEF FlushAndWait, mainVars, queueVars, workerVars, stateVars, fileVars
<1>3. Lines' = Lines
  BY DEF FlushAndWait, Lines, Done
<1>4. SnapOK'
  BY <1>3 DEF SnapOK, Claimed, FlushAndWait, fileVars
<1>5. WorkOK'
  BY <1>1, WorkFrame DEF FlushAndWait, workerVars, stateVars
<1> QED
  BY <1>2, <1>4, <1>5 DEF Rest

\* A seed is settled up to its token: its tracker entry starts from there.
LEMMA SeedingRest ==
    ASSUME IInv, Seeding
    PROVE  Rest'
<1> USE DEF IInv, WorkOK
<1>1. PICK s \in toSeed : /\ toSeed' = toSeed \ {s}
                          /\ pend' = pend \cup {s[1]} /\ tracked' = tracked \cup {s[1]}
                          /\ base' = [base EXCEPT ![s[1]] = s[2]]
                          /\ Push(s)
                          /\ UNCHANGED <<pagDone, left, next, pos>>
  BY DEF Seeding, RecordSeed
<1>2. FilesGrow /\ DoneGrows /\ PagesSame /\ TasksSame /\ RecordedGrows
  BY <1>1 DEF Seeding, FilesGrow, DoneGrows, PagesSame, TasksSame, RecordedGrows, checkVars,
     fileVars, outVars
<1>3. Root \in Recorded'
  <2>1. CASE Root \in Recorded
    BY <1>2, <2>1 DEF RecordedGrows, Recorded
  <2>2. CASE Root \notin Recorded
    BY <1>1, <2>2 DEF RootOK, Recorded
  <2> QED
    BY <2>1, <2>2
<1>4. RootOK'
  BY <1>3 DEF RootOK, Recorded, Seeding, ckptVars, fileVars
<1>5. FileOK' /\ SnapOK'
  BY <1>2, FileFrame, SnapFrame DEF Seeding, ckptVars, fileVars
<1>6. SeedOK'
  <2>1. \A r \in toSeed' : SettledTo(r[1], r[2])'
    BY <1>1, <1>2, SettledStays DEF SeedOK
  <2>2. SettledTo(s[1], s[2])
    BY DEF SeedOK
  <2>3. \A i \in 1 .. Len(queue') : queue'[i] = s \/ (i \in 1 .. Len(queue) /\ queue'[i] = queue[i])
    BY <1>1 DEF Push, TypeOK, QueueTypes, MainTypes
  <2>4. \A i \in 1 .. Len(queue') : SettledTo(queue[i][1], queue[i][2])'
    BY <1>2, <2>2, <2>3, SettledStays DEF SeedOK
  <2>5. \A p \in Prefix : base'[p] = base[p] \/ (p = s[1] /\ base'[p] = s[2])
    BY <1>1 DEF TypeOK, StateTypes
  <2>6. \A p \in Prefix : SettledTo(p, base[p])'
    BY <1>2, <2>2, <2>5, SettledStays DEF SeedOK
  <2> QED
    BY <2>1, <2>4, <2>6 DEF SeedOK, SettledTo, Settled
<1>7. WorkOK'
  BY <1>1, <1>2, WorkFrame DEF Seeding, workerVars
<1> QED
  BY <1>4, <1>5, <1>6, <1>7 DEF Rest

\* All objects of a page the position has passed have their line, and all
\* sub-prefixes it revealed are recorded unless it is the last page.
LEMMA PassedPage ==
    ASSUME IInv, RevealsHaveObjects, NEW p \in Prefix, ~Covered(p), NEW s \in 1 .. pos[p]
    PROVE  /\ s \in Seqs(p)
           /\ Objs(p, Page(p, s)) \subseteq Done
           /\ Page(p, s) < Len(Pages[p]) => Subs(p, Page(p, s)) \subseteq Recorded
<1> USE DEF IInv
<1>1. s \in Seqs(p)
  BY DEF TypeOK, StateTypes, Seqs
<1>2. Page(p, s) \in PageNumbers(p)
  BY <1>1, PageExists
<1>3. Live(p, s) = {}
  <2>1. left[p][s] = 0
    BY DEF PosOK
  <2>2. Cardinality(Live(p, s)) <= 0
    BY <1>1, <2>1 DEF CountOK
  <2>3. IsFiniteSet(Live(p, s)) /\ Cardinality(Live(p, s)) \in Nat
    BY <1>1, LiveFinite
  <2>4. Cardinality(Live(p, s)) = 0
    BY <2>2, <2>3
  <2> QED
    BY <2>3, <2>4, FS_EmptySet
<1>4. Objs(p, Page(p, s)) \subseteq Done
  BY <1>3 DEF Live
<1>5. ASSUME Page(p, s) < Len(Pages[p]), NEW q \in Subs(p, Page(p, s)), q \notin Recorded
      PROVE  FALSE
  <2>1. PICK w \in Worker : Holds(w, p, s) /\ q \in new[w]
    BY <1>1, <1>5 DEF DiscoveryOK
  <2>2. pc[w] = "page" /\ cur[w] = p /\ seq[w] = s
    BY <2>1 DEF Holds
  <2>3. Page(p, s) = tok[w] + 1
    BY <2>2 DEF PageOK
  <2>4. todo[w] = Objs(p, Page(p, s))
    BY <2>1, <2>2, <2>3 DEF PageOK
  <2>5. Objs(p, Page(p, s)) # {}
    BY <1>2, <1>5 DEF RevealsHaveObjects, Objs, Subs
  <2>6. PICK o \in Objs(p, Page(p, s)) : o \in todo[w]
    BY <2>4, <2>5
  <2>7. o \in Live(p, s)
    BY <2>1, <2>6 DEF Live
  <2> QED
    BY <1>3, <2>7
<1> QED
  BY <1>1, <1>4, <1>5

\* A snapshot claims the pages its positions have passed, and the settled ones.
LEMMA SnapshotRest ==
    ASSUME IInv, RevealsHaveObjects, NEW why, Snapshot(why)
    PROVE  Rest'
<1> USE DEF IInv, WorkOK
<1>1. FilesGrow /\ DoneGrows /\ PagesSame /\ TasksSame /\ RecordedGrows
  BY DEF Snapshot, FilesGrow, DoneGrows, PagesSame, TasksSame, RecordedGrows, stateVars,
     checkVars, fileVars, outVars
<1>2. FileOK' /\ SeedOK'
  BY <1>1, FileFrame, SeedFrame DEF Snapshot, mainVars, queueVars, stateVars, fileVars
<1>3. snap' = TakeSnapshot /\ snap'.disc = pend /\ ckpt' = "flush"
  BY DEF Snapshot, TakeSnapshot
<1>4. journaled' = journaled /\ pend' = pend /\ Lines' = Done
  BY <1>3 DEF Snapshot, Lines, Done, fileVars, outVars
<1>5. RootOK'
  <2>1. CASE Root \in Recorded
    BY <1>3, <1>4, <2>1 DEF RootOK, Recorded, Snapshot, fileVars
  <2>2. CASE Root \notin Recorded
    <3>1. pend = {} /\ tracked = {}
      BY <2>2 DEF RootOK
    <3>2. TakeSnapshot = NoBatch
      BY <3>1 DEF TakeSnapshot, NoBatch
    <3> QED
      BY <1>3, <1>4, <2>2, <3>2
         DEF RootOK, Recorded, Snapshot, fileVars, mainVars, queueVars, workerVars, stateVars
  <2> QED
    BY <2>1, <2>2
<1>6. ASSUME NEW p \in Prefix, NEW k \in PageNumbers(p),
             Settled(p, k) \/ (/\ \E s \in 1 .. pos[p] : Page(p, s) = k
                               /\ k = Len(Pages[p]) => Subs(p, k) \subseteq Recorded)
      PROVE  Claimed(p, k)'
  <2>1. Objs(p, k) \subseteq Done /\ Subs(p, k) \subseteq Recorded
    <3>1. CASE Covered(p) \/ Settled(p, k)
      BY <3>1 DEF Covered, Settled, Done, Recorded
    <3>2. CASE ~Covered(p) /\ ~Settled(p, k)
      <4>1. Len(Pages[p]) \in Nat
        BY BucketPages
      <4>2. k < Len(Pages[p]) \/ k = Len(Pages[p])
        BY <4>1 DEF PageNumbers
      <4> QED
        BY <1>6, <3>2, <4>2, PassedPage
    <3> QED
      BY <3>1, <3>2
  <2> QED
    BY <1>3, <1>4, <2>1 DEF Claimed, Recorded
<1>7. ASSUME NEW c \in snap'.cursors, NEW k \in PageNumbers(c[1]), k <= c[2]
      PROVE  Claimed(c[1], k)'
  <2>1. PICK p \in tracked : c = <<p, Continuation(p)>> /\ Continuation(p) # 0
    BY <1>3 DEF TakeSnapshot
  <2>2. p \in Prefix /\ c[1] = p /\ k \in PageNumbers(p) /\ k <= Continuation(p)
        /\ pos[p] \in Nat /\ pos[p] <= Len(left[p]) /\ Len(left[p]) \in Nat
    BY <1>7, <2>1 DEF TypeOK, StateTypes
  <2>3. CASE pos[p] = 0
    <3>1. Settled(p, k)
      BY <2>2, <2>3 DEF Continuation, SeedOK, SettledTo
    <3> QED
      BY <1>6, <2>2, <3>1
  <2>4. CASE pos[p] > 0
    <3>1. pos[p] \in Seqs(p)
      BY <2>2, <2>4 DEF Seqs
    <3>2. /\ next[p][pos[p]] \in Nat /\ next[p][pos[p]] < Len(Pages[p])
          /\ Continuation(p) = next[p][pos[p]]
      BY <2>2, <2>4, <3>1 DEF Continuation, RangeOK, TrackerRange, InRange, TypeOK, StateTypes,
         Token, Seqs
    <3>3. Page(p, pos[p]) = Continuation(p)
      BY <2>1, <3>2 DEF Page
    <3>4. Len(Pages[p]) \in Nat /\ k \in Nat
      BY BucketPages DEF PageNumbers
    <3>5. k < Len(Pages[p])
      BY <2>2, <3>2, <3>4
    <3>6. Settled(p, k) \/ \E s \in 1 .. pos[p] : Page(p, s) = k
      <4>1. CASE k = Page(p, pos[p])
        BY <2>2, <2>4, <4>1
      <4>2. CASE k < Page(p, pos[p])
        <5>1. Reached(p, k, pos[p] - 1)
          BY <2>2, <3>1, <4>2 DEF OrderOK
        <5> QED
          BY <2>2, <2>4, <5>1 DEF Reached
      <4> QED
        BY <2>2, <3>2, <3>3, <3>4, <4>1, <4>2
    <3>7. k # Len(Pages[p])
      BY <3>4, <3>5
    <3> QED
      BY <1>6, <2>2, <3>6, <3>7
  <2> QED
    BY <2>2, <2>3, <2>4
<1>8. ASSUME NEW p \in snap'.dones, NEW k \in PageNumbers(p)
      PROVE  Claimed(p, k)'
  <2>1. p \in Prefix /\ pagDone[p] /\ pos[p] = Len(left[p])
    BY <1>3 DEF TakeSnapshot, IsDone, TypeOK, StateTypes
  <2>2. CASE Covered(p)
    BY <1>6, <2>1, <2>2 DEF Covered
  <2>3. CASE ~Covered(p)
    <3>1. Subs(p, Len(Pages[p])) \subseteq Recorded /\ Reached(p, k, pos[p])
      BY <2>1, <2>3 DEF DiscoveryOK
    <3> QED
      BY <1>6, <2>1, <3>1 DEF Reached
  <2> QED
    BY <2>2, <2>3
<1>9. SnapOK'
  BY <1>3, <1>7, <1>8 DEF SnapOK
<1>10. WorkOK'
  BY <1>1, WorkFrame DEF Snapshot, workerVars, stateVars
<1> QED
  BY <1>2, <1>5, <1>9, <1>10 DEF Rest

\* A batch, or the part of it that a cut leaves, holds a cursor or a done only
\* with every prefix discovered before the snapshot: what it says is settled.
LEMMA ReplayKeeps ==
    ASSUME IInv, ckpt = "append", NEW b,
           b.disc \subseteq snap.disc, b.cursors \subseteq snap.cursors,
           b.dones \subseteq snap.dones,
           b.cursors # {} \/ b.dones # {} => b.disc = snap.disc,
           Replay(b), ending' = "whole", UNCHANGED <<retired, written>>
    PROVE  FileOK' /\ FilesGrow /\ b.disc \subseteq journaled'
<1> USE DEF IInv
<1>1. FilesGrow /\ b.disc \subseteq journaled'
  BY DEF Replay, FilesGrow
<1>2. Lines = written
  BY DEF Lines
<1>3. ASSUME NEW p, NEW k, Claimed(p, k), b.disc = snap.disc
      PROVE  Settled(p, k)'
  BY <1>1, <1>2, <1>3 DEF Claimed, Settled, FilesGrow
<1>4. \A c \in b.cursors : SettledTo(c[1], c[2])'
  BY <1>3 DEF SnapOK, SettledTo
<1>5. \A p \in b.dones : Covered(p)'
  BY <1>3 DEF SnapOK, Covered
<1>6. \A p \in jdone' \cup retired' : Covered(p)'
  BY <1>1, <1>5, SettledStays DEF Replay, FileOK
<1>7. ASSUME NEW p \in Prefix
      PROVE  SettledTo(p, jtok[p])'
  <2>1. CASE \E c \in b.cursors : c[1] = p
    <3>1. PICK c \in b.cursors : c[1] = p /\ jtok'[p] = c[2]
      BY <2>1 DEF Replay
    <3>2. SettledTo(p, c[2])'
      BY <1>4, <3>1
    <3> QED
      BY <3>1, <3>2 DEF SettledTo
  <2>2. CASE ~ \E c \in b.cursors : c[1] = p
    <3>1. jtok'[p] = jtok[p]
      BY <2>2 DEF Replay
    <3>2. SettledTo(p, jtok[p])
      BY DEF FileOK
    <3> QED
      BY <1>1, <3>1, <3>2, SettledStays DEF SettledTo
  <2> QED
    BY <2>1, <2>2
<1>8. retired' \subseteq journaled'
  BY <1>1 DEF FilesGrow, FileOK
<1> QED
  BY <1>1, <1>6, <1>7, <1>8 DEF FileOK

LEMMA AppendRest ==
    ASSUME IInv, AppendBatch
    PROVE  Rest'
<1> USE DEF IInv, WorkOK
<1>1. /\ Replay(snap) /\ ending' = "whole" /\ ckpt = "append" /\ ckpt' = "commit"
      /\ UNCHANGED <<snap, retired, written>>
  BY DEF AppendBatch, ReachesFile, Endings, Glues, FileOK, outVars
<1>2. FileOK' /\ FilesGrow /\ snap.disc \subseteq journaled'
  BY <1>1, ReplayKeeps
<1>3. DoneGrows /\ PagesSame /\ TasksSame /\ RecordedGrows
  BY <1>2 DEF AppendBatch, FilesGrow, DoneGrows, PagesSame, TasksSame, RecordedGrows,
     stateVars, checkVars, outVars
<1>4. SeedOK'
  BY <1>2, SeedFrame DEF AppendBatch, mainVars, queueVars, stateVars
<1>5. SnapOK'
  <2>1. Lines = written /\ Lines' = written
    BY <1>1 DEF Lines
  <2>2. \A p, k : Claimed(p, k) => Claimed(p, k)'
    BY <1>1, <1>2, <2>1 DEF Claimed, FilesGrow
  <2> QED
    BY <1>1, <1>2, <2>2 DEF SnapOK
<1>6. RootOK'
  <2>1. CASE snap = NoBatch
    <3>1. journaled' = journaled
      BY <1>1, <2>1 DEF Replay, NoBatch
    <3> QED
      BY <1>1, <3>1, RootFrame DEF AppendBatch, mainVars, queueVars, stateVars, workerVars
  <2>2. CASE snap # NoBatch
    <3>1. Root \in journaled'
      BY <1>2, <2>2 DEF RootOK, FilesGrow
    <3> QED
      BY <3>1 DEF RootOK, Recorded
  <2> QED
    BY <2>1, <2>2
<1>7. WorkOK'
  BY <1>2, <1>3, WorkFrame DEF AppendBatch, workerVars, stateVars
<1> QED
  BY <1>2, <1>4, <1>5, <1>6, <1>7 DEF Rest

\* A short write leaves the file as it was, and the batch with the tracker.
LEMMA ShortWriteRest ==
    ASSUME IInv, SafeDeployment, ShortWrite
    PROVE  Rest'
<1> USE DEF IInv, WorkOK
<1>1. /\ UNCHANGED <<journaled, jdone, ending, retired, pend, pushed, written>>
      /\ jtok' = jtok \/ jtok' = [p \in Prefix |-> 0]
      /\ snap' = NoBatch /\ ckpt' = "idle" /\ toSeed' = toSeed
      /\ UNCHANGED <<queueVars, workerVars, checkVars, stateVars>>
  BY DEF ShortWrite, SafeDeployment, EmptyJournal, CheckpointReturns, TypeOK, FileTypes, FileOK,
     outVars
<1>2. FilesGrow /\ DoneGrows /\ PagesSame /\ TasksSame /\ RecordedGrows
  BY <1>1 DEF FilesGrow, DoneGrows, PagesSame, TasksSame, RecordedGrows, stateVars, checkVars
<1>3. RootOK'
  BY <1>1 DEF RootOK, Recorded, queueVars, workerVars, stateVars
<1>4. FileOK'
  <2>1. ASSUME NEW p \in Prefix
        PROVE  SettledTo(p, jtok[p])'
    <3>1. CASE jtok'[p] = 0
      BY <3>1 DEF SettledTo, PageNumbers
    <3>2. CASE jtok' = jtok
      BY <1>2, <3>2, SettledStays DEF FileOK, SettledTo
    <3> QED
      BY <1>1, <3>1, <3>2
  <2> QED
    BY <1>1, <1>2, <2>1, SettledStays DEF FileOK
<1>5. SeedOK'
  BY <1>1, <1>2, SeedFrame DEF queueVars, stateVars
<1>6. SnapOK'
  BY <1>1 DEF SnapOK, NoBatch
<1>7. WorkOK'
  BY <1>1, <1>2, WorkFrame DEF workerVars, stateVars
<1> QED
  BY <1>3, <1>4, <1>5, <1>6, <1>7 DEF Rest

\* The commit drops the prefixes whose done line is in the journal: they are covered.
LEMMA CommitRest ==
    ASSUME IInv, TypeOK', RangeOK', CommitBatch
    PROVE  Rest'
<1> USE DEF IInv
<1>1. /\ snap.disc \subseteq journaled /\ pend' = pend \ snap.disc
      /\ tracked' \subseteq tracked /\ snap' = NoBatch /\ ckpt' = "idle" /\ toSeed' = toSeed
      /\ UNCHANGED <<journaled, jdone, jtok, ending, retired, pushed, written>>
      /\ UNCHANGED <<queueVars, workerVars, checkVars>>
  BY DEF CommitBatch, Commit, CheckpointReturns, SnapOK, fileVars, outVars
<1>2. FilesGrow /\ DoneGrows /\ RecordedGrows /\ TasksShrink /\ TasksSame
  BY <1>1 DEF FilesGrow, DoneGrows, RecordedGrows, TasksShrink, TasksSame, checkVars
<1>3. \A p \in snap.dones : Covered(p) /\ Covered(p)'
  <2>1. Lines = written /\ journaled \cup snap.disc = journaled
    BY <1>1 DEF Lines, CommitBatch
  <2>2. \A p \in snap.dones : Covered(p)
    BY <2>1 DEF SnapOK, Claimed, Covered, Settled
  <2> QED
    BY <1>2, <2>2, SettledStays
<1>4. ASSUME NEW p \in Prefix
      PROVE  \/ /\ Covered(p) /\ Covered(p)' /\ Seqs(p)' = {} /\ base'[p] = 0 /\ pos'[p] = 0
                /\ pagDone'[p] = FALSE
             \/ /\ left'[p] = left[p] /\ next'[p] = next[p] /\ base'[p] = base[p]
                /\ pos'[p] = pos[p] /\ pagDone'[p] = pagDone[p]
                /\ Seqs(p)' = Seqs(p) /\ \A s : Page(p, s)' = Page(p, s)
  <2>1. CASE p \in snap.dones
    <3>1. left'[p] = <<>> /\ base'[p] = 0 /\ pos'[p] = 0 /\ pagDone'[p] = FALSE
      BY <2>1, Zenon DEF CommitBatch, Commit
    <3>2. Seqs(p)' = {}
      BY <3>1 DEF Seqs
    <3>3. Covered(p) /\ Covered(p)'
      BY <1>3, <2>1
    <3> QED
      BY <3>1, <3>2, <3>3
  <2>2. CASE p \notin snap.dones
    BY <2>2 DEF CommitBatch, Commit, Seqs, Page
  <2> QED
    BY <2>1, <2>2
<1>5. PagesGrow
  <2>1. \A p \in Prefix : Len(left[p]) \in Nat
    BY DEF TypeOK, StateTypes
  <2>2. ASSUME NEW p \in Prefix, ~Covered(p)'
        PROVE  left'[p] = left[p] /\ next'[p] = next[p]
    BY <1>4, <2>2
  <2> QED
    BY <2>1, <2>2 DEF PagesGrow
<1>6. RootOK'
  BY <1>1 DEF RootOK, Recorded, queueVars, workerVars
<1>7. FileOK'
  BY <1>1, <1>2, FileFrame
<1>8. SeedOK'
  <2>1. ASSUME NEW p \in Prefix
        PROVE  SettledTo(p, base[p])'
    <3>1. CASE base'[p] = 0
      BY <3>1 DEF SettledTo, PageNumbers
    <3>2. CASE base'[p] = base[p]
      BY <1>2, <3>2, SettledStays DEF SeedOK, SettledTo
    <3> QED
      BY <1>4, <3>1, <3>2
  <2> QED
    BY <1>1, <1>2, <2>1, SettledStays DEF SeedOK, queueVars
<1>9. SnapOK'
  BY <1>1 DEF SnapOK, NoBatch
<1>10. OrderOK'
  <2>1. UNCHANGED <<cur, tok>> /\ \A w \in Worker : Listing(w)' => Listing(w)
    BY <1>1 DEF Listing, workerVars
  <2>2. \A p \in Prefix : Seqs(p)' \subseteq Seqs(p)
    BY <1>4
  <2> QED
    BY <1>2, <1>5, <2>1, <2>2, OrderGrows DEF OrderOK
<1>11. TaskOK'
  BY <1>2, <1>5, TaskGrows
<1>12. \A o, p, s : HasTask(o, p, s)' <=> HasTask(o, p, s)
  BY <1>2 DEF HasTask, TasksSame
<1>13. \A v, p, s : Holds(v, p, s)' <=> Holds(v, p, s)
  BY <1>1 DEF Holds, workerVars
<1>14. PageOK'
  <2>1. ASSUME NEW w \in Worker, pc[w] = "page", ~Covered(cur[w])'
        PROVE  /\ seq[w] \in Seqs(cur[w])' /\ Page(cur[w], seq[w])' = tok[w] + 1
               /\ seq[w] \in Seqs(cur[w]) /\ ~Covered(cur[w])
    <3>1. PICK p \in Prefix, s \in Nat : p = cur[w] /\ s = seq[w]
      BY DEF TypeOK, WorkerTypes
    <3>2. cur' = cur /\ seq' = seq
      BY <1>1 DEF workerVars
    <3>3. ~Covered(p)' /\ ~Covered(p)
      BY <1>2, <2>1, <3>1, <3>2, SettledStays
    <3>4. s \in Seqs(p) /\ Page(p, s) = tok[w] + 1
      BY <2>1, <3>1, <3>3 DEF PageOK
    <3>5. s \in Seqs(p)' /\ Page(p, s)' = tok[w] + 1
      BY <1>4, <3>3, <3>4
    <3> QED
      BY <3>1, <3>2, <3>3, <3>4, <3>5
  <2> QED
    BY <1>1, <1>12, <1>13, <2>1 DEF PageOK, Objs, workerVars
<1>15. CountOK'
  <2> SUFFICES ASSUME NEW p \in Prefix, ~Covered(p)', NEW s \in Seqs(p)'
               PROVE  Cardinality(Live(p, s)') <= left'[p][s]
    BY DEF CountOK
  <2>1. /\ left'[p] = left[p] /\ s \in Seqs(p) /\ Page(p, s)' = Page(p, s) /\ ~Covered(p)
    BY <1>2, <1>4, SettledStays
  <2>2. Done' = Done /\ todo' = todo
    BY <1>1 DEF Done, workerVars
  <2>3. Live(p, s)' = Live(p, s)
    BY <1>12, <1>13, <2>1, <2>2 DEF Live, Objs
  <2> QED
    BY <2>1, <2>3 DEF CountOK
<1>16. PosOK'
  <2>1. ASSUME NEW p \in Prefix, NEW s \in 1 .. pos'[p]
        PROVE  left'[p][s] = 0
    <3>1. pos'[p] # 0
      BY <2>1
    <3>2. left'[p] = left[p] /\ pos'[p] = pos[p]
      BY <1>4, <3>1
    <3> QED
      BY <3>2 DEF PosOK
  <2> QED
    BY <2>1 DEF PosOK
<1>17. DiscoveryOK'
  <2>1. Recorded \subseteq Recorded' /\ new' = new
    BY <1>1, <1>2 DEF Recorded, RecordedGrows, workerVars
  <2>2. ASSUME NEW p \in Prefix, NEW s \in Seqs(p)', NEW q \in Subs(p, Page(p, s)')
        PROVE  q \in Recorded' \/ \E v \in Worker : Holds(v, p, s)' /\ q \in new'[v]
    <3>1. s \in Seqs(p) /\ Page(p, s)' = Page(p, s)
      BY <1>4
    <3> QED
      BY <1>13, <2>1, <2>2, <3>1 DEF DiscoveryOK
  <2>3. ASSUME NEW p \in Prefix, pagDone'[p], ~Covered(p)'
        PROVE  /\ Subs(p, Len(Pages[p])) \subseteq Recorded'
               /\ \A k \in PageNumbers(p) : Reached(p, k, Len(left[p]))'
    <3>1. pagDone[p] /\ ~Covered(p)
      BY <1>2, <1>4, <2>3, SettledStays
    <3>2. /\ Subs(p, Len(Pages[p])) \subseteq Recorded
          /\ \A k \in PageNumbers(p) : Reached(p, k, Len(left[p]))
      BY <3>1 DEF DiscoveryOK
    <3>3. Len(left[p]) \in 0 .. Len(left[p])
      BY DEF TypeOK, StateTypes
    <3> QED
      BY <1>2, <1>5, <2>1, <3>2, <3>3, ReachedGrows
  <2> QED
    BY <2>2, <2>3 DEF DiscoveryOK, Subs
<1> QED
  BY <1>6, <1>7, <1>8, <1>9, <1>10, <1>11, <1>14, <1>15, <1>16, <1>17 DEF Rest, WorkOK

-----------------------------------------------------------------------------
(* Death and rebirth of the process *)

\* A new process has no page, no task and no claim.
LEMMA RebootRest ==
    ASSUME Reboot
    PROVE  /\ SnapOK' /\ WorkOK' /\ queue' = <<>> /\ pend' = {} /\ tracked' = {}
           /\ snap' = NoBatch /\ \A w \in Worker : pc'[w] = "pop"
           /\ \A p \in Prefix : SettledTo(p, base[p])'
<1>1. SnapOK'
  BY DEF Reboot, SnapOK, NoBatch
<1>2. \A p \in Prefix : SettledTo(p, base[p])'
  BY DEF Reboot, SettledTo, PageNumbers
<1>3. \A p \in Prefix : Seqs(p)' = {} /\ pos'[p] = 0 /\ pagDone'[p] = FALSE
  BY DEF Reboot, Seqs
<1>4. OrderOK' /\ CountOK' /\ PosOK' /\ DiscoveryOK' /\ PageOK'
  <2>1. OrderOK'
    BY <1>3 DEF OrderOK, Listing, Reboot
  <2>2. CountOK'
    BY <1>3 DEF CountOK
  <2>3. PosOK'
    BY <1>3 DEF PosOK
  <2>4. DiscoveryOK'
    BY <1>3 DEF DiscoveryOK
  <2>5. PageOK'
    BY DEF PageOK, Reboot
  <2> QED
    BY <2>1, <2>2, <2>3, <2>4, <2>5
<1>5. TaskOK'
  BY DEF TaskOK, Reboot
<1> QED
  BY <1>1, <1>2, <1>4, <1>5 DEF WorkOK, Reboot

\* A kill loses what is not in the files; what it leaves of a batch is settled.
LEMMA KillRest ==
    ASSUME IInv, SafeDeployment, Kill
    PROVE  Rest'
<1> USE DEF IInv
<1>1. FileOK' /\ FilesGrow /\ (journaled' # {} => Root \in journaled')
  <2>1. CASE UNCHANGED <<journaled, jdone, jtok, ending>>
    <3>1. FilesGrow
      BY <2>1 DEF Kill, FilesGrow
    <3> QED
      BY <2>1, <3>1, FileFrame DEF Kill, RootOK
  <2>2. CASE ~UNCHANGED <<journaled, jdone, jtok, ending>>
    <3>1. /\ ckpt = "append" /\ journaled # {} /\ CutBatch /\ ending' \in Endings(snap)
          /\ ~LineMayTear /\ UNCHANGED <<retired, written>>
      BY <2>2 DEF Kill, SafeDeployment
    <3>2. ending' = "whole" /\ ReachesFile(snap) = {snap}
      BY <3>1 DEF FileOK, Endings, ReachesFile, Glues
    <3>3. PICK cut \in TornBatches(snap) : Replay(cut)
      BY <3>1, <3>2 DEF CutBatch
    <3>4. /\ cut.disc \subseteq snap.disc /\ cut.cursors \subseteq snap.cursors
          /\ cut.dones \subseteq snap.dones
          /\ cut.cursors # {} \/ cut.dones # {} => cut.disc = snap.disc
      BY DEF TornBatches, NoBatch, TypeOK, CkptTypes, Batch
    <3>5. FileOK' /\ FilesGrow
      BY <3>1, <3>2, <3>3, <3>4, ReplayKeeps
    <3> QED
      BY <3>1, <3>5 DEF RootOK, FilesGrow
  <2> QED
    BY <2>1, <2>2
<1>2. toSeed' = {} /\ Reboot
  BY DEF Kill
<1>3. RootOK'
  BY <1>1, <1>2, RebootRest DEF RootOK, Recorded
<1>4. SeedOK'
  BY <1>2, RebootRest DEF SeedOK
<1> QED
  BY <1>1, <1>2, <1>3, <1>4, RebootRest DEF Rest

\* A new process starts from the root or from what the journal says is settled.
LEMMA StartRest ==
    ASSUME IInv, SafeDeployment, StartScan \/ Resume
    PROVE  Rest'
<1> USE DEF IInv
<1>1. /\ Reboot /\ UNCHANGED <<journaled, jdone, jtok, ending, written>>
      /\ \/ toSeed' = {<<Root, 0>>} /\ retired' = retired
         \/ /\ journaled # {} /\ retired' = retired \cup jdone
            /\ toSeed' = {<<p, jtok[p]>> : p \in journaled \ jdone}
  BY DEF StartScan, Resume, Start, OpenJournal, SafeDeployment
<1>2. FilesGrow
  BY <1>1 DEF FilesGrow
<1>3. FileOK'
  BY <1>1, <1>2, SettledStays DEF FileOK, SettledTo, TypeOK, FileTypes
<1>4. RootOK'
  BY <1>1, RebootRest DEF RootOK, Recorded
<1>5. SeedOK'
  <2>1. \A s \in toSeed' : SettledTo(s[1], s[2])
    <3>1. CASE toSeed' = {<<Root, 0>>}
      BY <3>1 DEF SettledTo, PageNumbers
    <3>2. CASE toSeed' = {<<p, jtok[p]>> : p \in journaled \ jdone}
      BY <3>2 DEF FileOK, TypeOK, FileTypes
    <3> QED
      BY <1>1, <3>1, <3>2
  <2> QED
    BY <1>1, <1>2, <2>1, SettledStays, RebootRest DEF SeedOK
<1> QED
  BY <1>1, <1>3, <1>4, <1>5, RebootRest DEF Rest

-----------------------------------------------------------------------------
(* The invariant and what it shows *)

\* Every step of a safe deployment keeps the invariant.
LEMMA FrontierStep ==
    ASSUME SafeDeployment, IInv, [Next]_vars
    PROVE  IInv'
<1>1. TypeOK' /\ RangeOK'
  BY TypeStep DEF IInv
<1>2. Rest'
  <2>1. CASE \E w \in Worker : ListWorker(w) \/ ListFails(w)
    <3>1. PICK w \in Worker : ListWorker(w) \/ ListFails(w)
      BY <2>1
    <3> QED
      BY <1>1, <3>1, PopRest, PopFailsRest, ListPageRest, AddDiscoveredRest, EmitRest,
         EmitLocallyRest, AbortRest, EnqueueRest, TurnPageRest, LastPageRest DEF ListWorker
  <2>2. CASE \E c \in Checker : CheckWorker(c)
    <3>1. PICK c \in Checker : CheckWorker(c)
      BY <2>2
    <3> QED
      BY <1>1, <3>1, ReceiveRest, HandleRest, ReportRest DEF CheckWorker
  <2>3. CASE WriterFlush
    BY <2>3, WriterRest
  <2>4. CASE \E why \in {"tick", "trigger", "final"} : Snapshot(why)
    BY <2>4, SnapshotRest DEF SafeDeployment
  <2>5. CASE Checkpointing
    BY <1>1, <2>5, FlushRest, AppendRest, ShortWriteRest, CommitRest DEF Checkpointing
  <2>6. CASE MainStep \/ Signal
    BY <2>6, SeedingRest, MainRest DEF MainStep
  <2>7. CASE Kill \/ StartScan \/ Resume
    BY <2>7, KillRest, StartRest
  <2>8. CASE UNCHANGED vars
    <3>1. FilesGrow /\ DoneGrows
      BY <2>8 DEF vars, FilesGrow, DoneGrows, fileVars, outVars
    <3> QED
      BY <2>8, <3>1, QuietRest DEF vars, mainVars, queueVars, ckptVars
  <2> QED
    BY <2>1, <2>2, <2>3, <2>4, <2>5, <2>6, <2>7, <2>8 DEF Next, Terminated
<1> QED
  BY <1>1, <1>2 DEF Rest, WorkOK, IInv

LEMMA FrontierInit ==
    ASSUME Init
    PROVE  IInv
<1>1. TypeOK /\ RangeOK
  BY TypeInit
<1>2. RootOK /\ FileOK /\ SnapOK
  BY DEF Init, RootOK, Recorded, FileOK, SnapOK, SettledTo, PageNumbers, NoBatch
<1>3. SeedOK
  BY DEF Init, SeedOK, SettledTo, PageNumbers
<1>4. \A p \in Prefix : Seqs(p) = {} /\ pos[p] = 0 /\ pagDone[p] = FALSE
  BY DEF Init, Seqs
<1>5. OrderOK /\ CountOK /\ PosOK /\ DiscoveryOK
  <2>1. OrderOK
    BY <1>4 DEF Init, OrderOK, Listing
  <2>2. CountOK
    BY <1>4 DEF CountOK
  <2>3. PosOK
    BY <1>4 DEF PosOK
  <2>4. DiscoveryOK
    BY <1>4 DEF DiscoveryOK
  <2> QED
    BY <2>1, <2>2, <2>3, <2>4
<1>6. TaskOK /\ PageOK
  BY DEF Init, TaskOK, PageOK
<1> QED
  BY <1>1, <1>2, <1>3, <1>5, <1>6 DEF IInv

\* What the invariant says of the file alone.
LEMMA FrontierOfInvariant ==
    ASSUME IInv
    PROVE  FrontierClosed
<1> USE DEF IInv
<1> SUFFICES ASSUME journaled # {}
             PROVE  /\ Root \in Known
                    /\ \A p \in Known : \A k \in PageNumbers(p) : Skips(p, k) =>
                          Pages[p][k].objs \subseteq written /\ Pages[p][k].subs \subseteq Known
  BY DEF FrontierClosed
<1>1. Root \in Known
  BY DEF RootOK, Known
<1>2. ASSUME NEW p \in Known, NEW k \in PageNumbers(p), Skips(p, k)
      PROVE  Settled(p, k)
  <2>1. CASE p \in jdone \cup retired
    BY <2>1 DEF FileOK, Covered
  <2>2. CASE p \in journaled /\ k <= jtok[p]
    BY <2>2 DEF FileOK, SettledTo, TypeOK, FileTypes
  <2> QED
    BY <1>2, <2>1, <2>2 DEF Skips
<1> QED
  BY <1>1, <1>2 DEF Settled, Objs, Subs, Known

\* A closed frontier loses nothing: a set of pages closed under listing from the
\* resume's seeds, with the pages the resume skips, is closed under listing from
\* the root, so it holds every object; on a skipped page every object has its line.
LEMMA NothingLostOfFrontier ==
    ASSUME TypeOK, FrontierClosed, RootReachesAll
    PROVE  NothingLost
<1> SUFFICES ASSUME journaled # {},
                    NEW S \in SUBSET AllPages,
                    ListedFrom({<<p, jtok[p]>> : p \in journaled \ jdone}, S),
                    NEW o \in Object \ written
             PROVE  \E pg \in S : o \in Pages[pg[1]][pg[2]].objs
  BY DEF NothingLost, Covers
<1> DEFINE Skipped == {pg \in AllPages : pg[1] \in Known /\ Skips(pg[1], pg[2])}
           X == Skipped \cup S
<1>1. Known \subseteq Prefix /\ \A p \in Prefix : jtok[p] \in Nat
  BY DEF TypeOK, FileTypes, Known, Token
<1>2. ASSUME NEW q \in Known, NEW k \in PageNumbers(q)
      PROVE  <<q, k>> \in X
  <2>1. <<q, k>> \in AllPages
    BY <1>1 DEF AllPages
  <2>2. CASE Skips(q, k)
    BY <2>1, <2>2
  <2>3. CASE ~Skips(q, k)
    <3>1. q \in journaled \ jdone /\ k > jtok[q]
      BY <1>1, <2>3 DEF Skips, Known, PageNumbers
    <3>2. <<q, jtok[q]>> \in {<<p, jtok[p]>> : p \in journaled \ jdone}
      BY <3>1, Zenon
    <3>3. \A j \in PageNumbers(q) : j > jtok[q] => <<q, j>> \in S
      BY <3>2 DEF ListedFrom
    <3> QED
      BY <3>1, <3>3
  <2> QED
    BY <2>2, <2>3
<1>3. ASSUME NEW pg \in X, NEW q \in Pages[pg[1]][pg[2]].subs, NEW k \in PageNumbers(q)
      PROVE  <<q, k>> \in X
  <2>1. CASE pg \in S
    BY <2>1 DEF ListedFrom
  <2>2. CASE pg \in Skipped
    <3>1. pg[1] \in Known /\ pg[2] \in PageNumbers(pg[1]) /\ Skips(pg[1], pg[2])
      BY <2>2 DEF AllPages
    <3>2. q \in Known
      BY <3>1 DEF FrontierClosed
    <3> QED
      BY <1>2, <3>2
  <2> QED
    BY <2>1, <2>2
<1>4. ListedFrom({<<Root, 0>>}, X)
  <2>1. Root \in Known
    BY DEF FrontierClosed
  <2> QED
    BY <1>2, <1>3, <2>1 DEF ListedFrom
<1>5. PICK pg \in X : o \in Pages[pg[1]][pg[2]].objs
  BY <1>4 DEF RootReachesAll
<1>6. pg \notin Skipped
  <2>1. ASSUME pg \in Skipped
        PROVE  FALSE
    <3>1. pg[1] \in Known /\ pg[2] \in PageNumbers(pg[1]) /\ Skips(pg[1], pg[2])
      BY <2>1 DEF AllPages
    <3> QED
      BY <1>5, <3>1 DEF FrontierClosed
  <2> QED
    BY <2>1
<1> QED
  BY <1>5, <1>6

\* In a safe deployment a resume never skips a page with an object that has no
\* result line or with a sub-prefix nobody accounted for (journal.go:1-28).
THEOREM FrontierAlwaysClosed ==
    ASSUME SafeDeployment
    PROVE  Spec => []FrontierClosed
<1>1. Init => IInv
  BY FrontierInit
<1>2. IInv /\ [Next]_vars => IInv'
  BY FrontierStep
<1>3. IInv => FrontierClosed
  BY FrontierOfInvariant
<1> QED
  BY <1>1, <1>2, <1>3, PTL DEF Spec

\* So whenever the process dies, a resume from the journal lists every object
\* again that has no result line, in every bucket whose objects the original
\* command reaches.
THEOREM NothingEverLost ==
    ASSUME SafeDeployment, RootReachesAll
    PROVE  Spec => []NothingLost
<1>1. Init => IInv
  BY FrontierInit
<1>2. IInv /\ [Next]_vars => IInv'
  BY FrontierStep
<1>3. IInv => NothingLost
  BY FrontierOfInvariant, NothingLostOfFrontier DEF IInv
<1> QED
  BY <1>1, <1>2, <1>3, PTL DEF Spec
=============================================================================
