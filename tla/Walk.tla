-------------------------------- MODULE Walk --------------------------------
(***************************************************************************)
(* Mode 3: the recursive walk.  One goroutine per prefix pages through it  *)
(* with a slot of the semaphore in hand, pushes the objects to objCh and   *)
(* starts a goroutine per sub-prefix; the walk is over, and objCh closed,  *)
(* when the WaitGroup is back at zero.                                     *)
(*                                                                         *)
(* Go source: chunked_check_tool/walker.go, the Mode 3 branch and the end  *)
(* of run() in main.go, and WriteListFailed in output.go.                  *)
(*                                                                         *)
(* ListPage does not look at its context (s3client.go), so a cancelled     *)
(* listCtx makes no call fail: it only lets goroutines that wait for a     *)
(* slot give up.  What a retry on another node changes is whether a call   *)
(* answers.                                                                *)
(***************************************************************************)
EXTENDS Integers, Sequences, FiniteSets

CONSTANTS
    Prefix, Root,
    Object,
    Tree,            \* Tree[p]: the pages of p, each with objs and subs
    PipeKey,         \* objects with the field separator in their key
    PipePrefix,      \* prefixes with the field separator
    ListConcurrency,
    Capacity,        \* of objCh
    Consumer,        \* who ranges over objCh: the check workers, or main in list-only mode
    Modes,           \* values of is_check
    MaxSignals, MaxListErrors   \* bounds

\* The listing is a tree: a prefix is revealed on one page of one other prefix.
ASSUME WalkAssumption ==
    /\ IsFiniteSet(Prefix) /\ Root \in Prefix /\ Consumer # {}
    /\ ListConcurrency \in Nat \ {0} /\ Capacity \in Nat \ {0}
    /\ Modes \subseteq BOOLEAN /\ MaxSignals \in Nat /\ MaxListErrors \in Nat
    /\ DOMAIN Tree = Prefix
    /\ \A p \in Prefix :
         /\ Tree[p] \in Seq([objs : Seq(Object), subs : SUBSET Prefix]) /\ Tree[p] # <<>>
         /\ \A k \in DOMAIN Tree[p] : Root \notin Tree[p][k].subs
    /\ \A p, q \in Prefix : \A k \in DOMAIN Tree[p], l \in DOMAIN Tree[q] :
         Tree[p][k].subs \cap Tree[q][l].subs # {} => p = q /\ k = l

\* A key is listed under one prefix, on one page, once.
KeysOnOnePage ==
    \A p, q \in Prefix : \A k \in DOMAIN Tree[p], l \in DOMAIN Tree[q] :
        \A i \in DOMAIN Tree[p][k].objs, j \in DOMAIN Tree[q][l].objs :
            Tree[p][k].objs[i] = Tree[q][l].objs[j] => p = q /\ k = l /\ i = j

\* Sub-prefixes are longer than their prefix, so there is an end to every way down.
Descends(height) ==
    \A p \in Prefix : \A k \in DOMAIN Tree[p] : \A q \in Tree[p][k].subs : height[q] < height[p]

VARIABLES
    checking,    \* is_check
    walk,        \* the goroutine of each prefix: none, waiting, listing, emitting, done
    page,        \* the page the continuation token of each stands for
    left,        \* objects of that page still to be looked at
    sem,         \* slots taken
    wg,          \* the WaitGroup
    objCh, closed,
    consumer,    \* ranging, gone
    signals, errors,
    failed,      \* list_failed: prefixes with the page to go on from
    invalid,     \* invalid_keys: keys and prefixes with the separator
    listed,      \* listed[o]: how often o was counted as listed
    got          \* got[o]: how often a consumer received o

walkVars  == <<walk, page, left, sem, wg>>
chVars    == <<objCh, closed, consumer, got>>
fileVars  == <<failed, invalid, listed>>
vars == <<checking, walkVars, chVars, signals, errors, fileVars>>

ListCancelled == signals >= 1
HardCancelled == signals = 2

Alive   == {p \in Prefix : walk[p] \in {"waiting", "listing", "emitting"}}
Holding == {p \in Prefix : walk[p] \in {"listing", "emitting"}}

Types ==
    /\ checking \in BOOLEAN
    /\ walk \in [Prefix -> {"none", "waiting", "listing", "emitting", "done"}]
    /\ page \in [Prefix -> Nat \ {0}]
    /\ left \in [Prefix -> Seq(Object)]
    /\ sem \in Int /\ wg \in Int
    /\ objCh \in Seq(Object) /\ closed \in BOOLEAN
    /\ consumer \in [Consumer -> {"ranging", "gone"}]
    /\ signals \in 0 .. 2 /\ errors \in Nat
    /\ failed \subseteq Prefix \X (Nat \ {0}) /\ invalid \subseteq Object \union Prefix
    /\ listed \in [Object -> Nat] /\ got \in [Object -> Nat]

\* The cursor of a walk is a page its prefix has (walker.go:67-113).
TypeOK == Types /\ \A p \in Prefix : page[p] \in DOMAIN Tree[p]

Init ==
    /\ checking \in Modes
    /\ walk = [p \in Prefix |-> IF p = Root THEN "waiting" ELSE "none"]
    /\ page = [p \in Prefix |-> 1]
    /\ left = [p \in Prefix |-> <<>>]
    /\ sem = 0 /\ wg = 1
    /\ objCh = <<>> /\ closed = FALSE
    /\ consumer = [c \in Consumer |-> "ranging"]
    /\ signals = 0 /\ errors = 0
    /\ failed = {} /\ invalid = {}
    /\ listed = [o \in Object |-> 0] /\ got = [o \in Object |-> 0]

-----------------------------------------------------------------------------
(* The goroutine of one prefix *)

\* recordFailure: a prefix with the separator goes to invalid_keys, without its cursor.
Record(p) ==
    IF p \in PipePrefix
    THEN invalid' = invalid \union {p} /\ UNCHANGED failed
    ELSE failed' = failed \union {<<p, page[p]>>} /\ UNCHANGED invalid

\* The two deferred calls of a goroutine that holds a slot.
End(p) ==
    /\ walk' = [walk EXCEPT ![p] = "done"]
    /\ sem' = sem - 1 /\ wg' = wg - 1

\* The select takes either branch when both are ready: a walk may start after the signal.
TakeSlot(p) ==
    /\ walk[p] = "waiting" /\ sem < ListConcurrency
    /\ walk' = [walk EXCEPT ![p] = "listing"]
    /\ sem' = sem + 1
    /\ UNCHANGED <<checking, page, left, wg, chVars, signals, errors, fileVars>>

\* Mutant: the release of the slot is deferred before the select.
GiveUpWithSlot(p) ==
    /\ walk[p] = "waiting" /\ ListCancelled
    /\ Record(p)
    /\ End(p)
    /\ UNCHANGED <<checking, page, left, chVars, signals, errors, listed>>

GiveUp(p) ==
    /\ walk[p] = "waiting" /\ ListCancelled
    /\ Record(p)
    /\ walk' = [walk EXCEPT ![p] = "done"]
    /\ wg' = wg - 1
    /\ UNCHANGED <<checking, page, left, sem, chVars, signals, errors, listed>>

ListAnswers(p) ==
    /\ walk[p] = "listing"
    /\ walk' = [walk EXCEPT ![p] = "emitting"]
    /\ left' = [left EXCEPT ![p] = Tree[p][page[p]].objs]
    /\ UNCHANGED <<checking, page, sem, wg, chVars, signals, errors, fileVars>>

\* Mutant: the slot is only given back by a walk that comes to its last page.
ListFailsHoldingSlot(p) ==
    /\ walk[p] = "listing" /\ errors < MaxListErrors
    /\ errors' = errors + 1
    /\ Record(p)
    /\ walk' = [walk EXCEPT ![p] = "done"]
    /\ wg' = wg - 1
    /\ UNCHANGED <<checking, page, left, sem, chVars, signals, listed>>

ListFails(p) ==
    /\ walk[p] = "listing" /\ errors < MaxListErrors
    /\ errors' = errors + 1
    /\ Record(p)
    /\ End(p)
    /\ UNCHANGED <<checking, page, left, chVars, signals, listed>>

SkipInvalid(p) ==
    /\ walk[p] = "emitting" /\ left[p] # <<>> /\ Head(left[p]) \in PipeKey
    /\ invalid' = invalid \union {Head(left[p])}
    /\ left' = [left EXCEPT ![p] = Tail(@)]
    /\ UNCHANGED <<checking, walk, page, sem, wg, chVars, signals, errors, failed, listed>>

\* An object is counted before its send; the count and the send are one step.
Emits(p) ==
    /\ walk[p] = "emitting" /\ left[p] # <<>> /\ Head(left[p]) \notin PipeKey
    /\ listed' = [listed EXCEPT ![Head(left[p])] = @ + 1]

Push(p) ==
    /\ Emits(p) /\ checking
    /\ Len(objCh) < Capacity
    /\ objCh' = Append(objCh, Head(left[p]))
    /\ left' = [left EXCEPT ![p] = Tail(@)]
    /\ UNCHANGED <<checking, walk, page, sem, wg, closed, consumer, got, signals, errors,
                   failed, invalid>>

CountOnly(p) ==
    /\ Emits(p) /\ ~checking
    /\ left' = [left EXCEPT ![p] = Tail(@)]
    /\ UNCHANGED <<checking, walk, page, sem, wg, chVars, signals, errors, failed, invalid>>

\* Mutant: the abort in the middle of a page records the cursor of the next one.
AbortPastPage(p) ==
    /\ Emits(p) /\ checking /\ HardCancelled
    /\ failed' = failed \union {<<p, page[p] + 1>>}
    /\ End(p)
    /\ UNCHANGED <<checking, page, left, chVars, signals, errors, invalid>>

\* The second signal in the middle of a page: its cursor is recorded, and none of its
\* sub-prefixes is walked.
Abort(p) ==
    /\ Emits(p) /\ checking /\ HardCancelled
    /\ Record(p)
    /\ End(p)
    /\ UNCHANGED <<checking, page, left, chVars, signals, errors>>

Spawn(p) ==
    [q \in Prefix |-> IF q \in Tree[p][page[p]].subs THEN "waiting" ELSE walk[q]]

\* Mutant: a sub-walk is counted by its own goroutine, once it has its slot.
TurnPageUncounted(p) ==
    /\ walk[p] = "emitting" /\ left[p] = <<>>
    /\ page[p] < Len(Tree[p])
    /\ walk' = [Spawn(p) EXCEPT ![p] = "listing"]
    /\ page' = [page EXCEPT ![p] = @ + 1]
    /\ UNCHANGED <<checking, left, sem, wg, chVars, signals, errors, fileVars>>

\* Mutant: the token of the page is not advanced.
TurnNoPage(p) ==
    /\ walk[p] = "emitting" /\ left[p] = <<>>
    /\ page[p] < Len(Tree[p])
    /\ walk' = [Spawn(p) EXCEPT ![p] = "listing"]
    /\ wg' = wg + Cardinality(Tree[p][page[p]].subs)
    /\ UNCHANGED <<checking, page, left, sem, chVars, signals, errors, fileVars>>

\* Every sub-prefix is counted before its goroutine starts.
TurnPage(p) ==
    /\ walk[p] = "emitting" /\ left[p] = <<>>
    /\ page[p] < Len(Tree[p])
    /\ walk' = [Spawn(p) EXCEPT ![p] = "listing"]
    /\ page' = [page EXCEPT ![p] = @ + 1]
    /\ wg' = wg + Cardinality(Tree[p][page[p]].subs)
    /\ UNCHANGED <<checking, left, sem, chVars, signals, errors, fileVars>>

LastPage(p) ==
    /\ walk[p] = "emitting" /\ left[p] = <<>>
    /\ page[p] = Len(Tree[p])
    /\ walk' = [Spawn(p) EXCEPT ![p] = "done"]
    /\ sem' = sem - 1
    /\ wg' = wg + Cardinality(Tree[p][page[p]].subs) - 1
    /\ UNCHANGED <<checking, page, left, chVars, signals, errors, fileVars>>

Walker(p) ==
    \/ TakeSlot(p) \/ GiveUp(p)
    \/ ListAnswers(p) \/ ListFails(p)
    \/ SkipInvalid(p) \/ Push(p) \/ CountOnly(p) \/ Abort(p)
    \/ TurnPage(p) \/ LastPage(p)

-----------------------------------------------------------------------------
(* main, the consumers, the signals *)

CloseObjCh ==
    /\ wg = 0 /\ ~closed
    /\ closed' = TRUE
    /\ UNCHANGED <<checking, walkVars, objCh, consumer, got, signals, errors, fileVars>>

Receive(c) ==
    /\ consumer[c] = "ranging" /\ objCh # <<>>
    /\ got' = [got EXCEPT ![Head(objCh)] = @ + 1]
    /\ objCh' = Tail(objCh)
    /\ UNCHANGED <<checking, walkVars, closed, consumer, signals, errors, fileVars>>

\* Mutant: the consumer leaves when objCh is closed, with objects still in it.
LeaveAtClose(c) ==
    /\ consumer[c] = "ranging" /\ closed
    /\ consumer' = [consumer EXCEPT ![c] = "gone"]
    /\ UNCHANGED <<checking, walkVars, objCh, closed, got, signals, errors, fileVars>>

RangeEnds(c) ==
    /\ consumer[c] = "ranging" /\ closed /\ objCh = <<>>
    /\ consumer' = [consumer EXCEPT ![c] = "gone"]
    /\ UNCHANGED <<checking, walkVars, objCh, closed, got, signals, errors, fileVars>>

Returned == \A c \in Consumer : consumer[c] = "gone"

Signal ==
    /\ ~Returned
    /\ signals < 2 /\ signals < MaxSignals
    /\ signals' = signals + 1
    /\ UNCHANGED <<checking, walkVars, chVars, errors, fileVars>>

Terminated == Returned /\ UNCHANGED vars

Next ==
    \/ \E p \in Prefix : Walker(p)
    \/ CloseObjCh
    \/ \E c \in Consumer : Receive(c) \/ RangeEnds(c)
    \/ Signal
    \/ Terminated

Spec == Init /\ [][Next]_vars

\* Goroutines run, calls return, and a freed slot goes to one of the walks that wait for it.
FairSpec ==
    /\ Spec
    /\ \A p \in Prefix : WF_vars(Walker(p))
    /\ WF_vars(CloseObjCh)
    /\ \A c \in Consumer : WF_vars(Receive(c) \/ RangeEnds(c))

-----------------------------------------------------------------------------
(* Properties *)

\* The slots taken are those of the walks on a page, whichever way walks end: there are never
\* more LIST calls than list_concurrency (walker.go:14-20), and no slot leaks.
SlotsHeld == sem = Cardinality(Holding) /\ sem <= ListConcurrency

\* objCh is closed once no walk is alive, so nobody sends on a closed channel and no sub-walk
\* is left behind (walker.go:22-25).
ClosedLast == closed => Alive = {}

\* A walk that has ended pushed every object of every page and started every sub-walk, up to a
\* page from which list_failed goes on (invalid_keys names the prefix if list_failed cannot).
PageDone(p, k) ==
    /\ \A i \in DOMAIN Tree[p][k].objs :
         LET o == Tree[p][k].objs[i]
         IN IF o \in PipeKey THEN o \in invalid ELSE listed[o] > 0
    /\ \A q \in Tree[p][k].subs : walk[q] # "none"

Reported(p, k) == p \in invalid \/ \E j \in 1 .. k : <<p, j>> \in failed

EndedWalksCovered ==
    \A p \in Prefix : walk[p] = "done" =>
        \A k \in DOMAIN Tree[p] : PageDone(p, k) \/ Reported(p, k)

\* What a listing from page k of p on would show.
Shown[p \in Prefix] ==
    LET pages == {Tree[p][k] : k \in DOMAIN Tree[p]}
    IN UNION {{g.objs[i] : i \in DOMAIN g.objs} \union UNION {Shown[q] : q \in g.subs} : g \in pages}

ShownFrom(p, k) ==
    UNION {LET g == Tree[p][j]
           IN {g.objs[i] : i \in DOMAIN g.objs} \union UNION {Shown[q] : q \in g.subs} :
           j \in k .. Len(Tree[p])}

\* When the run is over, each object below the root was received by a check worker (or counted,
\* in list-only mode), or a record names it or a prefix and page that shows it again: no mix of
\* LIST errors, signals and full channels loses a subtree (walker.go:33-42).
WholeTree ==
    Returned =>
        \A o \in Shown[Root] :
            \/ IF checking THEN got[o] > 0 ELSE listed[o] > 0
            \/ o \in invalid
            \/ \E r \in failed : o \in ShownFrom(r[1], r[2])
            \/ \E p \in Prefix \cap invalid : o \in Shown[p]

\* "exactly once per S3-listed object" (walker.go:27-32): no object is counted or received
\* twice, and in list-only mode none is received.
ListedOnce ==
    \A o \in Object : listed[o] <= 1 /\ got[o] <= IF checking THEN listed[o] ELSE 0

\* The walk ends, whatever fails and whenever it is interrupted: no walk waits for ever for a
\* slot or for room in objCh.
RunEnds == <>Returned

=============================================================================
