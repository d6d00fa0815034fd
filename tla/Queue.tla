------------------------------- MODULE Queue -------------------------------
(***************************************************************************)
(* The BFS queue of Modes 1 and 2 down to its condition variable: Push,    *)
(* the two critical sections of Pop with the context check between them,   *)
(* the goroutine every blocked Pop starts to turn a cancellation into a    *)
(* Broadcast, Close, and the inflight counter the workers close it by.     *)
(*                                                                         *)
(* Go source: chunked_check_tool/queue.go, lister.go (Seed, Run and what   *)
(* processPrefix does to the queue), main.go (seeding, the drain).         *)
(*                                                                         *)
(* A critical section is one step: the mutex is held for all of it, and    *)
(* Cond.Wait registers the caller before it releases the mutex.            *)
(***************************************************************************)
EXTENDS Integers, Sequences, FiniteSets

CONSTANTS
    Worker,         \* list workers
    Item,           \* prefixes
    Subs,           \* Subs[i]: the sub-prefixes the listing of i reveals
    Seeds,          \* what main pushes
    NoItem,
    MaxListErrors   \* bound: listings that fail

ASSUME QueueAssumption ==
    /\ IsFiniteSet(Worker)
    /\ Subs \in [Item -> SUBSET Item] /\ Seeds \subseteq Item
    /\ NoItem \notin Item /\ "main" \notin Worker
    /\ MaxListErrors \in Nat

VARIABLES
    items, closed,
    cancelled,   \* listCtx
    inflight,    \* Lister.inflight
    main,        \* seeding, seeded (waits for the workers), drained
    toSeed,      \* seeds not yet counted
    pc,          \* where the loop of Run stands
    cur,         \* the item a worker holds
    todo,        \* sub-prefixes of cur not yet counted
    owed,        \* owed[g]: an item goroutine g has counted and will push now
    armed,       \* workers whose wake-up goroutine has not run yet
    strays,      \* wake-up goroutines whose Pop has returned
    missed,      \* history: workers whose goroutine ran before they waited
    finished,    \* history: items listed to the end
    recorded     \* history: items in list_failed

queueVars  == <<items, closed>>
workerVars == <<cur, todo>>
wakeVars   == <<armed, strays, missed>>
pastVars   == <<finished, recorded>>
vars == <<queueVars, cancelled, inflight, main, toSeed, pc, workerVars, owed, wakeVars,
          pastVars>>

Main == "main"
Position == {"loop", "first", "check", "second", "wait", "woken", "list", "page", "leave",
             "close", "exit"}
Waiting == {w \in Worker : pc[w] = "wait"}
Woken   == {w \in Worker : pc[w] = "woken"}

-----------------------------------------------------------------------------
(* queue.go *)

\* Cond.Signal wakes some waiter, if there is one; Broadcast wakes all.
Signal(at) ==
    IF Waiting = {} THEN pc' = at ELSE \E w \in Waiting : pc' = [at EXCEPT ![w] = "woken"]
Broadcast(at) ==
    pc' = [w \in Worker |-> IF w \in Waiting THEN "woken" ELSE at[w]]

\* Mutant: only the push onto an empty queue signals.
PushSignalsFirst(i) ==
    /\ items' = IF closed THEN items ELSE Append(items, i)
    /\ IF items = <<>> THEN Signal(pc) ELSE pc' = pc

\* A push onto a closed queue is dropped.
Push(i) ==
    \/ closed /\ UNCHANGED <<items, pc>>
    \/ ~closed /\ items' = Append(items, i) /\ Signal(pc)

Close(at) == closed' = TRUE /\ Broadcast(at)

\* Pop returns an item; a wake-up goroutine it started is told to stop.
Take(w) ==
    /\ items # <<>>
    /\ items' = Tail(items)
    /\ cur' = [cur EXCEPT ![w] = Head(items)]
    /\ pc' = [pc EXCEPT ![w] = "list"]

Dismiss(w) ==
    /\ armed' = armed \ {w}
    /\ strays' = IF w \in armed THEN strays + 1 ELSE strays
    /\ UNCHANGED missed

\* Pop returns false and Run with it.
TurnAway(w) == pc' = [pc EXCEPT ![w] = "exit"]

\* Run looks at the context before it calls Pop.
Loop(w) ==
    /\ pc[w] = "loop"
    /\ pc' = [pc EXCEPT ![w] = IF cancelled THEN "exit" ELSE "first"]
    /\ UNCHANGED <<queueVars, cancelled, inflight, main, toSeed, workerVars, owed, wakeVars,
                   pastVars>>

\* First critical section: do not block.
First(w) ==
    /\ pc[w] = "first"
    /\ \/ Take(w)
       \/ /\ items = <<>>
          /\ pc' = [pc EXCEPT ![w] = IF closed THEN "exit" ELSE "check"]
          /\ UNCHANGED <<items, cur>>
    /\ UNCHANGED <<closed, cancelled, inflight, main, toSeed, todo, owed, wakeVars, pastVars>>

\* Mutant: nobody turns a cancellation into a wake-up.
CheckOnly(w) ==
    /\ pc[w] = "check"
    /\ pc' = [pc EXCEPT ![w] = IF cancelled THEN "exit" ELSE "second"]
    /\ UNCHANGED <<queueVars, cancelled, inflight, main, toSeed, workerVars, owed, wakeVars,
                   pastVars>>

\* Between the two: the context, then the wake-up goroutine.
CheckAndArm(w) ==
    /\ pc[w] = "check"
    /\ pc' = [pc EXCEPT ![w] = IF cancelled THEN "exit" ELSE "second"]
    /\ armed' = IF cancelled THEN armed ELSE armed \cup {w}
    /\ UNCHANGED <<queueVars, cancelled, inflight, main, toSeed, workerVars, owed, strays,
                   missed, pastVars>>

\* Mutant: the loop around Wait is an if.
WaitOnce(w) ==
    \/ /\ pc[w] = "second" /\ items = <<>> /\ ~closed
       /\ pc' = [pc EXCEPT ![w] = "wait"]
       /\ UNCHANGED <<items, cur, wakeVars>>
    \/ /\ pc[w] \in {"second", "woken"}
       /\ Take(w) /\ Dismiss(w)
    \/ /\ items = <<>> /\ pc[w] = "woken"
       /\ TurnAway(w) /\ Dismiss(w)
       /\ UNCHANGED <<items, cur>>

\* Second critical section, entered from outside or by waking up.  A woken
\* worker looks at the context before it looks at the queue.
TakeOrWait(w) ==
    \/ /\ pc[w] \in {"second", "woken"} /\ items = <<>> /\ ~closed
       /\ pc[w] = "woken" => ~cancelled
       /\ pc' = [pc EXCEPT ![w] = "wait"]
       /\ UNCHANGED <<items, cur, wakeVars>>
    \/ /\ pc[w] = "second" \/ (pc[w] = "woken" /\ ~cancelled)
       /\ Take(w) /\ Dismiss(w)
    \/ /\ \/ pc[w] = "woken" /\ cancelled
          \/ pc[w] \in {"second", "woken"} /\ items = <<>> /\ closed
       /\ TurnAway(w) /\ Dismiss(w)
       /\ UNCHANGED <<items, cur>>

Second(w) ==
    /\ TakeOrWait(w)
    /\ UNCHANGED <<closed, cancelled, inflight, main, toSeed, todo, owed, pastVars>>

\* The goroutine of a Pop in progress; its select sees only the context.
WakeUp(w) ==
    /\ w \in armed /\ cancelled
    /\ armed' = armed \ {w}
    /\ missed' = IF pc[w] = "second" THEN missed \cup {w} ELSE missed
    /\ Broadcast(pc)
    /\ UNCHANGED <<queueVars, cancelled, inflight, main, toSeed, workerVars, owed, strays,
                   pastVars>>

\* The goroutine of a Pop that has returned: stop is closed, and once the context
\* is cancelled too the select may go either way.
StrayWakeUp ==
    /\ strays > 0
    /\ strays' = strays - 1
    /\ pc' = pc \/ (cancelled /\ Broadcast(pc))
    /\ UNCHANGED <<queueVars, cancelled, inflight, main, toSeed, workerVars, owed, armed,
                   missed, pastVars>>

-----------------------------------------------------------------------------
(* lister.go *)

\* The pages of a prefix at once: ListPage takes no notice of the context.
ListPages(w) ==
    /\ pc[w] = "list"
    /\ pc' = [pc EXCEPT ![w] = "page"]
    /\ todo' = [todo EXCEPT ![w] = Subs[cur[w]]]
    /\ UNCHANGED <<queueVars, cancelled, inflight, main, toSeed, cur, owed, wakeVars,
                   pastVars>>

ListFails(w) ==
    /\ pc[w] = "list" /\ Cardinality(recorded) < MaxListErrors
    /\ recorded' = recorded \cup {cur[w]}
    /\ pc' = [pc EXCEPT ![w] = "leave"]
    /\ UNCHANGED <<queueVars, cancelled, inflight, main, toSeed, workerVars, owed, wakeVars,
                   finished>>

\* A sub-prefix is counted before it is pushed.
Count(w) ==
    /\ pc[w] = "page" /\ owed[w] = NoItem
    /\ \E i \in todo[w] :
         /\ todo' = [todo EXCEPT ![w] = @ \ {i}]
         /\ owed' = [owed EXCEPT ![w] = i]
    /\ inflight' = inflight + 1
    /\ UNCHANGED <<queueVars, cancelled, main, toSeed, pc, cur, wakeVars, pastVars>>

Enqueue(g) ==
    /\ owed[g] # NoItem
    /\ Push(owed[g])
    /\ owed' = [owed EXCEPT ![g] = NoItem]
    /\ UNCHANGED <<closed, cancelled, inflight, main, toSeed, workerVars, wakeVars, pastVars>>

PagesDone(w) ==
    /\ pc[w] = "page" /\ todo[w] = {} /\ owed[w] = NoItem
    /\ finished' = finished \cup {cur[w]}
    /\ pc' = [pc EXCEPT ![w] = "leave"]
    /\ UNCHANGED <<queueVars, cancelled, inflight, main, toSeed, workerVars, owed, wakeVars,
                   recorded>>

\* Mutant: the worker that finds the queue empty closes it.
LeaveByLength(w) ==
    /\ pc[w] = "leave"
    /\ inflight' = inflight - 1
    /\ cur' = [cur EXCEPT ![w] = NoItem]
    /\ pc' = [pc EXCEPT ![w] = IF items = <<>> THEN "close" ELSE "loop"]
    /\ UNCHANGED <<queueVars, cancelled, main, toSeed, todo, owed, wakeVars, pastVars>>

Leave(w) ==
    /\ pc[w] = "leave"
    /\ inflight' = inflight - 1
    /\ cur' = [cur EXCEPT ![w] = NoItem]
    /\ pc' = [pc EXCEPT ![w] = IF inflight = 1 THEN "close" ELSE "loop"]
    /\ UNCHANGED <<queueVars, cancelled, main, toSeed, todo, owed, wakeVars, pastVars>>

\* The worker that took inflight to zero.
CloseQueue(w) ==
    /\ pc[w] = "close"
    /\ Close([pc EXCEPT ![w] = "exit"])
    /\ UNCHANGED <<items, cancelled, inflight, main, toSeed, workerVars, owed, wakeVars,
                   pastVars>>

Step(w) ==
    \/ Loop(w) \/ First(w) \/ CheckAndArm(w) \/ Second(w)
    \/ ListPages(w) \/ Count(w) \/ Enqueue(w) \/ PagesDone(w) \/ Leave(w) \/ CloseQueue(w)

-----------------------------------------------------------------------------
(* main.go *)

Seed ==
    /\ main = "seeding" /\ owed[Main] = NoItem
    /\ \E i \in toSeed :
         /\ toSeed' = toSeed \ {i}
         /\ owed' = [owed EXCEPT ![Main] = i]
    /\ inflight' = inflight + 1
    /\ UNCHANGED <<queueVars, cancelled, main, pc, workerVars, wakeVars, pastVars>>

Seeded ==
    /\ main = "seeding" /\ toSeed = {} /\ owed[Main] = NoItem
    /\ main' = "seeded"
    /\ UNCHANGED <<queueVars, cancelled, inflight, toSeed, pc, workerVars, owed, wakeVars,
                   pastVars>>

\* The resume input cannot be read or holds nothing: the queue is closed unused.
NothingToSeed ==
    /\ main = "seeding" /\ toSeed = Seeds /\ owed[Main] = NoItem /\ inflight = 0
    /\ main' = "seeded"
    /\ Close(pc)
    /\ UNCHANGED <<items, cancelled, inflight, toSeed, workerVars, owed, wakeVars, pastVars>>

\* listWg.Wait, then drainQueuedPrefixes.
Drain ==
    /\ main = "seeded"
    /\ \A w \in Worker : pc[w] = "exit"
    /\ main' = "drained"
    /\ \/ /\ cancelled
          /\ recorded' = recorded \cup {items[k] : k \in DOMAIN items}
          /\ items' = <<>>
       \/ ~cancelled /\ UNCHANGED <<recorded, items>>
    /\ UNCHANGED <<closed, cancelled, inflight, toSeed, pc, workerVars, owed, wakeVars,
                   finished>>

MainStep == Seed \/ Enqueue(Main) \/ Seeded \/ Drain

\* The first signal.
Cancel ==
    /\ ~cancelled /\ cancelled' = TRUE
    /\ UNCHANGED <<queueVars, inflight, main, toSeed, pc, workerVars, owed, wakeVars,
                   pastVars>>

Done == main = "drained"
Terminated == Done /\ strays = 0 /\ UNCHANGED vars

-----------------------------------------------------------------------------
Init ==
    /\ items = <<>> /\ closed = FALSE /\ cancelled = FALSE /\ inflight = 0
    /\ main = "seeding" /\ toSeed = Seeds
    /\ pc = [w \in Worker |-> "loop"] /\ cur = [w \in Worker |-> NoItem]
    /\ todo = [w \in Worker |-> {}]
    /\ owed = [g \in Worker \cup {Main} |-> NoItem]
    /\ armed = {} /\ strays = 0 /\ missed = {}
    /\ finished = {} /\ recorded = {}

Next ==
    \/ \E w \in Worker : Step(w) \/ ListFails(w) \/ WakeUp(w)
    \/ StrayWakeUp \/ MainStep \/ NothingToSeed \/ Cancel
    \/ Terminated

Spec == Init /\ [][Next]_vars

\* Goroutines are scheduled and S3 answers; nothing makes a listing fail, a signal
\* arrive or a resume input unreadable.
Fairness ==
    /\ \A w \in Worker : WF_vars(Step(w)) /\ WF_vars(WakeUp(w))
    /\ WF_vars(StrayWakeUp) /\ WF_vars(MainStep)

FairSpec == Spec /\ Fairness

-----------------------------------------------------------------------------
(* Properties *)

\* Every variable keeps its type.
TypeOK ==
    /\ items \in Seq(Item) /\ closed \in BOOLEAN /\ cancelled \in BOOLEAN
    /\ inflight \in Int /\ main \in {"seeding", "seeded", "drained"} /\ toSeed \subseteq Item
    /\ pc \in [Worker -> Position]
    /\ cur \in [Worker -> Item \cup {NoItem}] /\ todo \in [Worker -> SUBSET Item]
    /\ owed \in [Worker \cup {Main} -> Item \cup {NoItem}]
    /\ armed \subseteq Worker /\ missed \subseteq Worker /\ strays \in Nat
    /\ finished \subseteq Item /\ recorded \subseteq Item

\* No wake-up is lost: while the context lives and somebody waits, a woken worker
\* is on its way for every queued item, and nobody waits on a closed queue
\* (queue.go, Push signals one waiter and other workers may be faster than it).
NoLostWakeup ==
    /\ Waiting # {} /\ ~cancelled => Len(items) <= Cardinality(Woken)
    /\ closed => Waiting = {}

\* A prefix that was seeded or revealed, and is not listed or recorded yet, is queued, about
\* to be pushed or in a worker's hands: the counter the workers close the queue by never
\* runs out early (lister.go, Termination).
Dropped(i) ==
    /\ i \notin finished \cup recorded \cup toSeed
    /\ \A k \in DOMAIN items : items[k] # i
    /\ \A w \in Worker : cur[w] # i /\ i \notin todo[w]
    /\ \A g \in DOMAIN owed : owed[g] # i
Revealed == Seeds \cup UNION {Subs[i] : i \in finished}
NothingDropped == Seeds # toSeed => \A i \in Revealed : ~Dropped(i)

\* The queue of queue.go implements the atomic queue.
Atomic == INSTANCE WorkQueue WITH
    held <- cur, turnedAway <- {w \in Worker : pc[w] = "exit"}
Implements == Atomic!Spec

\* The scan ends unless the wake-up goroutine of some Pop ran between that Pop's
\* look at the context and its Wait: then the worker may wait for ever.
EndsUnlessMissed == <>(Done \/ missed # {})

\* The first signal ends the scan (main.go, "the process exits once the queues
\* burn down").
ScanEnds == <>Done
=============================================================================
