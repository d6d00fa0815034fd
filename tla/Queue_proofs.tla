---------------------------- MODULE Queue_proofs ----------------------------
(***************************************************************************)
(* Theorems of Queue and their proofs: no wake-up is lost, and queue.go    *)
(* implements the atomic queue of WorkQueue.                               *)
(***************************************************************************)
EXTENDS Queue, FiniteSetTheorems, TLAPS

\* A worker holds an item exactly while it lists one.
Listing == {"list", "page", "leave"}
HoldsWhileListing == \A w \in Worker : pc[w] \in Listing <=> cur[w] # NoItem

Types == TypeOK /\ HoldsWhileListing

\* Broadcast and Signal move waiters only, and only to "woken".
LEMMA BroadcastMoves ==
    ASSUME NEW at \in [Worker -> Position], Broadcast(at)
    PROVE  /\ pc' \in [Worker -> Position]
           /\ \A w \in Worker : pc'[w] = IF w \in Waiting THEN "woken" ELSE at[w]
BY DEF Broadcast, Waiting, Position

LEMMA SignalMoves ==
    ASSUME TypeOK, Signal(pc)
    PROVE  /\ pc' \in [Worker -> Position]
           /\ \/ Waiting = {} /\ pc' = pc
              \/ \E w \in Waiting : pc' = [pc EXCEPT ![w] = "woken"]
BY DEF TypeOK, Signal, Waiting, Position

\* A push keeps the queue a queue and moves no worker but a waiter.
LEMMA PushMoves ==
    ASSUME TypeOK, NEW i \in Item, Push(i)
    PROVE  /\ items' \in Seq(Item)
           /\ pc' \in [Worker -> Position]
           /\ \A w \in Worker : pc'[w] # pc[w] => pc[w] = "wait" /\ pc'[w] = "woken"
<1>1. CASE closed /\ UNCHANGED <<items, pc>>
  BY <1>1 DEF TypeOK
<1>2. CASE ~closed /\ items' = Append(items, i) /\ Signal(pc)
  <2>1. items' \in Seq(Item)
    BY <1>2 DEF TypeOK
  <2>2. \A w \in Worker : pc'[w] # pc[w] => pc[w] = "wait" /\ pc'[w] = "woken"
    BY <1>2, SignalMoves DEF TypeOK, Waiting
  <2> QED
    BY <1>2, <2>1, <2>2, SignalMoves
<1> QED
  BY <1>1, <1>2 DEF Push

LEMMA TakeMoves ==
    ASSUME TypeOK, NEW w \in Worker, Take(w)
    PROVE  /\ items' \in Seq(Item) /\ Head(items) \in Item
           /\ cur' = [cur EXCEPT ![w] = Head(items)]
           /\ pc' = [pc EXCEPT ![w] = "list"]
           /\ Len(items') = Len(items) - 1
BY DEF TypeOK, Take

-----------------------------------------------------------------------------
(* Types *)

LEMMA InitTypes == Init => Types
<1> SUFFICES ASSUME Init PROVE Types
  OBVIOUS
<1> USE QueueAssumption DEF Init, Listing, Position, Main
<1>1. items \in Seq(Item) /\ inflight \in Int /\ strays \in Nat
  OBVIOUS
<1>2. /\ pc \in [Worker -> Position] /\ cur \in [Worker -> Item \cup {NoItem}]
      /\ todo \in [Worker -> SUBSET Item] /\ owed \in [Worker \cup {Main} -> Item \cup {NoItem}]
  OBVIOUS
<1>3. HoldsWhileListing
  BY DEF HoldsWhileListing
<1> QED
  BY <1>1, <1>2, <1>3 DEF Types, TypeOK

LEMMA NextTypes == Types /\ [Next]_vars => Types'
<1> SUFFICES ASSUME Types, [Next]_vars PROVE Types'
  OBVIOUS
<1> USE QueueAssumption DEF Types, queueVars, workerVars, wakeVars, pastVars,
        HoldsWhileListing, Listing, Position
<1>1. ASSUME NEW w \in Worker, Loop(w) PROVE Types'
  BY <1>1 DEF Loop, TypeOK
<1>2. ASSUME NEW w \in Worker, First(w) PROVE Types'
  <2>1. CASE Take(w)
    <3>1. /\ items' \in Seq(Item) /\ Head(items) \in Item
          /\ cur' = [cur EXCEPT ![w] = Head(items)] /\ pc' = [pc EXCEPT ![w] = "list"]
      BY <2>1, TakeMoves
    <3>2. cur' \in [Worker -> Item \cup {NoItem}] /\ pc' \in [Worker -> Position]
      BY <3>1 DEF TypeOK
    <3>3. HoldsWhileListing'
      BY <3>1 DEF TypeOK
    <3> QED
      BY <3>1, <3>2, <3>3, <2>1, <1>2 DEF First, TypeOK
  <2>2. CASE items = <<>> /\ UNCHANGED <<items, cur>>
             /\ pc' = [pc EXCEPT ![w] = IF closed THEN "exit" ELSE "check"]
    BY <2>2, <1>2 DEF First, TypeOK
  <2> QED
    BY <2>1, <2>2, <1>2 DEF First
<1>3. ASSUME NEW w \in Worker, CheckAndArm(w) PROVE Types'
  BY <1>3 DEF CheckAndArm, TypeOK
<1>4. ASSUME NEW w \in Worker, Second(w) PROVE Types'
  <2>1. CASE /\ pc[w] \in {"second", "woken"}
             /\ pc' = [pc EXCEPT ![w] = "wait"] /\ UNCHANGED <<items, cur, wakeVars>>
    BY <2>1, <1>4 DEF Second, TypeOK
  <2>2. CASE Take(w) /\ Dismiss(w)
    <3>1. /\ items' \in Seq(Item) /\ Head(items) \in Item
          /\ cur' = [cur EXCEPT ![w] = Head(items)] /\ pc' = [pc EXCEPT ![w] = "list"]
      BY <2>2, TakeMoves
    <3>2. cur' \in [Worker -> Item \cup {NoItem}] /\ pc' \in [Worker -> Position]
      BY <3>1 DEF TypeOK
    <3>3. HoldsWhileListing'
      BY <3>1 DEF TypeOK
    <3> QED
      BY <3>1, <3>2, <3>3, <2>2, <1>4 DEF Second, Dismiss, TypeOK
  <2>3. CASE /\ pc[w] \in {"second", "woken"}
             /\ TurnAway(w) /\ Dismiss(w) /\ UNCHANGED <<items, cur>>
    BY <2>3, <1>4 DEF Second, TurnAway, Dismiss, TypeOK
  <2> QED
    BY <2>1, <2>2, <2>3, <1>4 DEF Second, TakeOrWait
<1>5. ASSUME NEW w \in Worker, WakeUp(w) PROVE Types'
  BY <1>5, BroadcastMoves DEF WakeUp, TypeOK, Waiting
<1>6. ASSUME StrayWakeUp PROVE Types'
  <2>1. CASE UNCHANGED pc
    BY <2>1, <1>6 DEF StrayWakeUp, TypeOK
  <2>2. CASE Broadcast(pc)
    BY <2>2, <1>6, BroadcastMoves DEF StrayWakeUp, TypeOK, Waiting
  <2> QED
    BY <2>1, <2>2, <1>6 DEF StrayWakeUp
<1>7. ASSUME NEW w \in Worker, ListPages(w) PROVE Types'
  <2>1. Subs[cur[w]] \subseteq Item
    BY <1>7 DEF ListPages, TypeOK
  <2> QED
    BY <2>1, <1>7 DEF ListPages, TypeOK
<1>8. ASSUME NEW w \in Worker, ListFails(w) PROVE Types'
  BY <1>8 DEF ListFails, TypeOK
<1>9. ASSUME NEW w \in Worker, Count(w) PROVE Types'
  BY <1>9 DEF Count, TypeOK
<1>10. ASSUME NEW g \in Worker \cup {Main}, Enqueue(g) PROVE Types'
  <2>1. owed[g] \in Item /\ Push(owed[g])
    BY <1>10 DEF Enqueue, TypeOK
  <2> QED
    BY <2>1, <1>10, PushMoves DEF Enqueue, TypeOK
<1>11. ASSUME NEW w \in Worker, PagesDone(w) PROVE Types'
  BY <1>11 DEF PagesDone, TypeOK
<1>12. ASSUME NEW w \in Worker, Leave(w) PROVE Types'
  BY <1>12 DEF Leave, TypeOK
<1>13. ASSUME NEW w \in Worker, CloseQueue(w) PROVE Types'
  <2>1. Broadcast([pc EXCEPT ![w] = "exit"]) /\ [pc EXCEPT ![w] = "exit"] \in [Worker -> Position]
    BY <1>13 DEF CloseQueue, Close, TypeOK
  <2>2. /\ pc' \in [Worker -> Position]
        /\ \A x \in Worker : pc'[x] = IF x \in Waiting THEN "woken" ELSE [pc EXCEPT ![w] = "exit"][x]
    BY <2>1, BroadcastMoves
  <2> QED
    BY <2>2, <1>13 DEF CloseQueue, Close, TypeOK, Waiting
<1>14. ASSUME Seed PROVE Types'
  BY <1>14 DEF Seed, TypeOK
<1>15. ASSUME Seeded PROVE Types'
  BY <1>15 DEF Seeded, TypeOK
<1>16. ASSUME NothingToSeed PROVE Types'
  BY <1>16, BroadcastMoves DEF NothingToSeed, Close, TypeOK, Waiting
<1>17. ASSUME Drain PROVE Types'
  <2>1. \A k \in DOMAIN items : items[k] \in Item
    BY DEF TypeOK
  <2>2. items' \in Seq(Item)
    <3>1. <<>> \in Seq(Item)
      OBVIOUS
    <3> QED
      BY <3>1, <1>17, Zenon DEF Drain, TypeOK
  <2>3. recorded' \subseteq Item
    BY <2>1, <1>17 DEF Drain, TypeOK
  <2> QED
    BY <2>2, <2>3, <1>17 DEF Drain, TypeOK
<1>18. ASSUME Cancel PROVE Types'
  BY <1>18 DEF Cancel, TypeOK
<1>19. ASSUME UNCHANGED vars PROVE Types'
  BY <1>19 DEF vars, TypeOK
<1> QED
  BY <1>1, <1>2, <1>3, <1>4, <1>5, <1>6, <1>7, <1>8, <1>9, <1>10, <1>11, <1>12, <1>13, <1>14,
     <1>15, <1>16, <1>17, <1>18, <1>19
     DEF Next, Step, MainStep, Terminated

\* The variables of the queue keep their types, and a worker holds an item exactly
\* while it lists one: queue.go hands an item to a worker that has none.
THEOREM QueueTypes == Spec => []Types
<1>1. Init => Types
  BY InitTypes
<1>2. Types /\ [Next]_vars => Types'
  BY NextTypes
<1> QED
  BY <1>1, <1>2, PTL DEF Spec

-----------------------------------------------------------------------------
(* No wake-up is lost *)

LEMMA WokenIsFinite ==
    /\ IsFiniteSet(Woken) /\ Cardinality(Woken) \in Nat
    /\ IsFiniteSet(Woken') /\ Cardinality(Woken') \in Nat
<1>1. IsFiniteSet(Woken) /\ IsFiniteSet(Woken')
  BY FS_Subset, QueueAssumption, Woken \in SUBSET Worker, Woken' \in SUBSET Worker DEF Woken
<1> QED
  BY <1>1, FS_CardinalityType

\* Who waits and who is woken stays the same, and the queue does not grow.
LEMMA SteadyKeepsWakeups ==
    ASSUME Types, NoLostWakeup, UNCHANGED <<closed, cancelled>>, Types',
           Len(items') <= Len(items),
           \A w \in Worker : /\ pc'[w] = "wait" <=> pc[w] = "wait"
                             /\ pc'[w] = "woken" <=> pc[w] = "woken"
    PROVE  NoLostWakeup'
<1>1. Waiting' = Waiting /\ Woken' = Woken
  BY DEF Waiting, Woken
<1>2. Cardinality(Woken) \in Nat /\ Len(items) \in Nat /\ Len(items') \in Nat
  BY WokenIsFinite DEF Types, TypeOK
<1> QED
  BY <1>1, <1>2 DEF NoLostWakeup

\* After a Broadcast nobody waits.
LEMMA BroadcastEmptiesWaiting ==
    ASSUME Types, NEW at \in [Worker -> Position], Broadcast(at),
           \A w \in Worker : at[w] = "wait" => pc[w] = "wait"
    PROVE  NoLostWakeup'
<1>1. Waiting' = {}
  BY BroadcastMoves DEF Waiting
<1> QED
  BY <1>1 DEF NoLostWakeup

LEMMA PushKeepsWakeups ==
    ASSUME Types, NoLostWakeup, Types', UNCHANGED <<closed, cancelled>>,
           NEW i \in Item, Push(i)
    PROVE  NoLostWakeup'
<1>1. CASE closed /\ UNCHANGED <<items, pc>>
  BY <1>1, SteadyKeepsWakeups DEF Types, TypeOK
<1>2. CASE ~closed /\ items' = Append(items, i) /\ Waiting = {} /\ pc' = pc
  <2>1. Waiting' = {}
    BY <1>2 DEF Waiting
  <2> QED
    BY <2>1 DEF NoLostWakeup
<1>3. ASSUME ~closed, items' = Append(items, i), NEW w \in Waiting,
             pc' = [pc EXCEPT ![w] = "woken"]
      PROVE  NoLostWakeup'
  <2>1. w \in Worker /\ pc[w] = "wait"
    BY DEF Waiting
  <2>2. Woken' = Woken \cup {w} /\ w \notin Woken
    BY <1>3, <2>1 DEF Woken, Types, TypeOK
  <2>3. Cardinality(Woken') = Cardinality(Woken) + 1
    BY <2>2, WokenIsFinite, FS_AddElement DEF Types
  <2>4. Len(items') = Len(items) + 1 /\ Len(items) \in Nat
    BY <1>3 DEF Types, TypeOK
  <2>5. Waiting # {}
    OBVIOUS
  <2>6. Cardinality(Woken) \in Nat
    BY WokenIsFinite DEF Types
  <2> QED
    BY <1>3, <2>3, <2>4, <2>5, <2>6 DEF NoLostWakeup
<1> QED
  BY <1>1, <1>2, <1>3, SignalMoves DEF Push, Types

\* A worker that takes an item was not waiting; if it had been woken, the item it
\* takes was one that had a woken worker on its way.
LEMMA TakeKeepsWakeups ==
    ASSUME Types, NoLostWakeup, Types', UNCHANGED <<closed, cancelled>>,
           NEW w \in Worker, pc[w] \in {"first", "second", "woken"}, Take(w)
    PROVE  NoLostWakeup'
<1>1. Len(items') = Len(items) - 1 /\ Len(items) \in Nat /\ pc' = [pc EXCEPT ![w] = "list"]
  BY TakeMoves DEF Types, TypeOK
<1>2. Waiting' = Waiting
  BY <1>1 DEF Waiting, Types, TypeOK
<1>3. Woken' = Woken \ {w}
  BY <1>1 DEF Woken, Types, TypeOK
<1>4. Cardinality(Woken) \in Nat /\ Cardinality(Woken') \in Nat
  BY WokenIsFinite
<1>5. Len(items') <= Cardinality(Woken') \/ Len(items) > Cardinality(Woken)
  <2>1. CASE w \in Woken
    <3>1. Cardinality(Woken') = Cardinality(Woken) - 1
      BY <1>3, <2>1, WokenIsFinite, FS_RemoveElement
    <3> QED
      BY <1>1, <1>4, <3>1
  <2>2. CASE w \notin Woken
    <3>1. Woken' = Woken
      BY <1>3, <2>2
    <3> QED
      BY <1>1, <1>4, <3>1
  <2> QED
    BY <2>1, <2>2
<1> QED
  BY <1>1, <1>2, <1>4, <1>5 DEF NoLostWakeup

LEMMA NextKeepsWakeups == Types /\ NoLostWakeup /\ Types' /\ [Next]_vars => NoLostWakeup'
<1> SUFFICES ASSUME Types, NoLostWakeup, Types', [Next]_vars PROVE NoLostWakeup'
  OBVIOUS
<1> USE DEF queueVars, workerVars, wakeVars, pastVars
<1>1. ASSUME NEW w \in Worker,
             Loop(w) \/ CheckAndArm(w) \/ ListPages(w) \/ ListFails(w) \/ Count(w)
               \/ PagesDone(w) \/ Leave(w)
      PROVE  NoLostWakeup'
  <2>1. UNCHANGED <<items, closed, cancelled>> /\ Len(items') <= Len(items)
    BY <1>1 DEF Loop, CheckAndArm, ListPages, ListFails, Count, PagesDone, Leave, Types, TypeOK
  <2>2. \A x \in Worker : /\ pc'[x] = "wait" <=> pc[x] = "wait"
                          /\ pc'[x] = "woken" <=> pc[x] = "woken"
    BY <1>1 DEF Loop, CheckAndArm, ListPages, ListFails, Count, PagesDone, Leave, Types, TypeOK
  <2> QED
    BY <2>1, <2>2, SteadyKeepsWakeups
<1>2. ASSUME NEW w \in Worker, First(w) PROVE NoLostWakeup'
  <2>1. CASE Take(w)
    BY <2>1, <1>2, TakeKeepsWakeups DEF First
  <2>2. CASE UNCHANGED <<items, cur>>
             /\ pc' = [pc EXCEPT ![w] = IF closed THEN "exit" ELSE "check"]
    <3>1. \A x \in Worker : /\ pc'[x] = "wait" <=> pc[x] = "wait"
                            /\ pc'[x] = "woken" <=> pc[x] = "woken"
      BY <2>2, <1>2 DEF First, Types, TypeOK
    <3>2. UNCHANGED <<closed, cancelled>> /\ Len(items') <= Len(items)
      BY <2>2, <1>2 DEF First, Types, TypeOK
    <3> QED
      BY <3>1, <3>2, SteadyKeepsWakeups
  <2> QED
    BY <2>1, <2>2, <1>2 DEF First
<1>3. ASSUME NEW w \in Worker, Second(w) PROVE NoLostWakeup'
  <2> USE <1>3 DEF Second
  <2>1. CASE items = <<>> /\ ~closed /\ UNCHANGED <<items, cur, wakeVars>>
    <3>1. Len(items') = 0 /\ ~closed'
      BY <2>1
    <3>2. Cardinality(Woken') \in Nat
      BY WokenIsFinite
    <3> QED
      BY <3>1, <3>2 DEF NoLostWakeup
  <2>2. CASE pc[w] \in {"second", "woken"} /\ Take(w)
    BY <2>2, TakeKeepsWakeups
  <2>3. CASE /\ (pc[w] = "woken" /\ cancelled) \/ (pc[w] \in {"second", "woken"} /\ closed)
             /\ TurnAway(w) /\ UNCHANGED <<items, cur>>
    <3>1. Waiting' = Waiting
      BY <2>3 DEF TurnAway, Waiting, Types, TypeOK
    <3> QED
      BY <2>3, <3>1 DEF NoLostWakeup
  <2> QED
    BY <2>1, <2>2, <2>3 DEF TakeOrWait
<1>4. ASSUME NEW w \in Worker, WakeUp(w) PROVE NoLostWakeup'
  BY <1>4, BroadcastEmptiesWaiting DEF WakeUp, Types, TypeOK
<1>5. ASSUME StrayWakeUp PROVE NoLostWakeup'
  <2>1. CASE UNCHANGED pc
    BY <2>1, <1>5, SteadyKeepsWakeups DEF StrayWakeUp, Types, TypeOK
  <2>2. CASE Broadcast(pc)
    BY <2>2, <1>5, BroadcastEmptiesWaiting DEF Types, TypeOK
  <2> QED
    BY <2>1, <2>2, <1>5 DEF StrayWakeUp
<1>6. ASSUME NEW g \in Worker \cup {Main}, Enqueue(g) PROVE NoLostWakeup'
  <2>1. owed[g] \in Item
    BY <1>6 DEF Enqueue, Types, TypeOK
  <2> QED
    BY <2>1, <1>6, PushKeepsWakeups DEF Enqueue
<1>7. ASSUME NEW w \in Worker, CloseQueue(w) PROVE NoLostWakeup'
  <2>1. [pc EXCEPT ![w] = "exit"] \in [Worker -> Position]
    BY DEF Types, TypeOK, Position
  <2>2. \A x \in Worker : [pc EXCEPT ![w] = "exit"][x] = "wait" => pc[x] = "wait"
    BY DEF Types, TypeOK
  <2> QED
    BY <2>1, <2>2, <1>7, BroadcastEmptiesWaiting DEF CloseQueue, Close
<1>8. ASSUME NothingToSeed PROVE NoLostWakeup'
  BY <1>8, BroadcastEmptiesWaiting DEF NothingToSeed, Close, Types, TypeOK
<1>9. ASSUME Seed \/ Seeded \/ UNCHANGED vars PROVE NoLostWakeup'
  <2>1. UNCHANGED <<items, closed, cancelled, pc>> /\ Len(items') <= Len(items)
    BY <1>9 DEF Seed, Seeded, vars, Types, TypeOK
  <2> QED
    BY <2>1, SteadyKeepsWakeups
<1>10. ASSUME Drain PROVE NoLostWakeup'
  <2>1. UNCHANGED <<closed, cancelled, pc>> /\ (cancelled \/ UNCHANGED items)
    BY <1>10 DEF Drain
  <2>2. Waiting' = Waiting /\ Woken' = Woken
    BY <2>1 DEF Waiting, Woken
  <2> QED
    BY <2>1, <2>2 DEF NoLostWakeup
<1>11. ASSUME Cancel PROVE NoLostWakeup'
  <2>1. Waiting' = Waiting
    BY <1>11 DEF Cancel, Waiting
  <2> QED
    BY <2>1, <1>11 DEF Cancel, NoLostWakeup
<1> QED
  BY <1>1, <1>2, <1>3, <1>4, <1>5, <1>6, <1>7, <1>8, <1>9, <1>10, <1>11
     DEF Next, Step, MainStep, Terminated

\* For any number of workers and any tree: while the context lives, a worker that
\* waits has missed no item, and nobody waits on a closed queue.
THEOREM WakeupsKept == Spec => []NoLostWakeup
<1>1. Init => NoLostWakeup
  <2> SUFFICES ASSUME Init PROVE NoLostWakeup
    OBVIOUS
  <2>1. Waiting = {}
    BY DEF Init, Waiting
  <2> QED
    BY <2>1 DEF NoLostWakeup
<1>2. Types /\ NoLostWakeup /\ Types' /\ [Next]_vars => NoLostWakeup'
  BY NextKeepsWakeups
<1> QED
  BY <1>1, <1>2, QueueTypes, PTL DEF Spec

-----------------------------------------------------------------------------
(* Queue implements WorkQueue *)

\* The workers whose Pop returned false stay as they are unless pc enters "exit".
LEMMA SameExits ==
    ASSUME \A w \in Worker : pc'[w] = "exit" <=> pc[w] = "exit"
    PROVE  {w \in Worker : pc[w] = "exit"}' = {w \in Worker : pc[w] = "exit"}
OBVIOUS

LEMMA OneMoreExit ==
    ASSUME NEW v \in Worker, pc'[v] = "exit",
           \A w \in Worker \ {v} : pc'[w] = "exit" <=> pc[w] = "exit"
    PROVE  {w \in Worker : pc[w] = "exit"}' = {w \in Worker : pc[w] = "exit"} \cup {v}
OBVIOUS

\* A push, wherever it comes from, is the push of the atomic queue.
LEMMA PushImplements ==
    ASSUME Types, NEW i \in Item, Push(i), UNCHANGED <<closed, cancelled, cur>>
    PROVE  Atomic!Push(i)
<1>1. items' = IF closed THEN items ELSE Append(items, i)
  BY DEF Push
<1>2. \A w \in Worker : pc'[w] = "exit" <=> pc[w] = "exit"
  BY PushMoves DEF Types
<1> QED
  BY <1>1, <1>2, SameExits DEF Atomic!Push

LEMMA TakeImplements ==
    ASSUME Types, NEW v \in Worker, pc[v] \in {"first", "second", "woken"}, Take(v),
           UNCHANGED <<closed, cancelled>>
    PROVE  Atomic!Pop(v)
<1>1. \A w \in Worker : pc'[w] = "exit" <=> pc[w] = "exit"
  BY DEF Take, Types, TypeOK
<1>2. cur[v] = NoItem /\ v \notin {w \in Worker : pc[w] = "exit"}
  BY DEF Types, HoldsWhileListing, Listing
<1> QED
  BY <1>1, <1>2, SameExits DEF Atomic!Pop, Take

LEMMA TurnAwayImplements ==
    ASSUME Types, NEW v \in Worker, pc[v] \in {"loop", "first", "check", "second", "woken"},
           pc' = [pc EXCEPT ![v] = "exit"], cancelled \/ (closed /\ items = <<>>),
           UNCHANGED <<items, closed, cancelled, cur>>
    PROVE  Atomic!PopFails(v)
<1>1. /\ pc'[v] = "exit"
      /\ \A w \in Worker \ {v} : pc'[w] = "exit" <=> pc[w] = "exit"
  BY DEF Types, TypeOK
<1>2. cur[v] = NoItem
  BY DEF Types, HoldsWhileListing, Listing
<1> QED
  BY <1>1, <1>2, OneMoreExit DEF Atomic!PopFails

\* A Broadcast changes nothing the atomic queue knows of.
LEMMA BroadcastStutters ==
    ASSUME Types, Broadcast(pc)
    PROVE  {w \in Worker : pc[w] = "exit"}' = {w \in Worker : pc[w] = "exit"}
<1>1. \A w \in Worker : pc'[w] = "exit" <=> pc[w] = "exit"
  BY BroadcastMoves DEF Types, TypeOK, Waiting
<1> QED
  BY <1>1, SameExits

LEMMA StepImplements == Types /\ [Next]_vars => [Atomic!Next]_(Atomic!vars)
<1> SUFFICES ASSUME Types, [Next]_vars PROVE [Atomic!Next]_(Atomic!vars)
  OBVIOUS
<1> USE DEF queueVars, workerVars, wakeVars, pastVars
<1>1. ASSUME NEW w \in Worker, Loop(w) PROVE [Atomic!Next]_(Atomic!vars)
  <2>1. CASE cancelled
    <3>1. Atomic!PopFails(w)
      BY <2>1, <1>1, TurnAwayImplements DEF Loop
    <3> QED
      BY <3>1 DEF Atomic!Next
  <2>2. CASE ~cancelled
    <3>1. \A x \in Worker : pc'[x] = "exit" <=> pc[x] = "exit"
      BY <2>2, <1>1 DEF Loop, Types, TypeOK
    <3> QED
      BY <3>1, <1>1, SameExits DEF Loop, Atomic!vars
  <2> QED
    BY <2>1, <2>2
<1>2. ASSUME NEW w \in Worker, First(w) PROVE [Atomic!Next]_(Atomic!vars)
  <2>1. CASE Take(w)
    <3>1. Atomic!Pop(w)
      BY <2>1, <1>2, TakeImplements DEF First
    <3> QED
      BY <3>1 DEF Atomic!Next
  <2>2. CASE closed /\ items = <<>> /\ UNCHANGED <<items, cur>>
             /\ pc' = [pc EXCEPT ![w] = "exit"]
    <3>1. Atomic!PopFails(w)
      BY <2>2, <1>2, TurnAwayImplements DEF First
    <3> QED
      BY <3>1 DEF Atomic!Next
  <2>3. CASE ~closed /\ UNCHANGED <<items, cur>> /\ pc' = [pc EXCEPT ![w] = "check"]
    <3>1. \A x \in Worker : pc'[x] = "exit" <=> pc[x] = "exit"
      BY <2>3, <1>2 DEF First, Types, TypeOK
    <3> QED
      BY <3>1, <2>3, <1>2, SameExits DEF First, Atomic!vars
  <2> QED
    BY <2>1, <2>2, <2>3, <1>2 DEF First
<1>3. ASSUME NEW w \in Worker, CheckAndArm(w) PROVE [Atomic!Next]_(Atomic!vars)
  <2>1. CASE cancelled
    <3>1. Atomic!PopFails(w)
      BY <2>1, <1>3, TurnAwayImplements DEF CheckAndArm
    <3> QED
      BY <3>1 DEF Atomic!Next
  <2>2. CASE ~cancelled
    <3>1. \A x \in Worker : pc'[x] = "exit" <=> pc[x] = "exit"
      BY <2>2, <1>3 DEF CheckAndArm, Types, TypeOK
    <3> QED
      BY <3>1, <1>3, SameExits DEF CheckAndArm, Atomic!vars
  <2> QED
    BY <2>1, <2>2
<1>4. ASSUME NEW w \in Worker, Second(w) PROVE [Atomic!Next]_(Atomic!vars)
  <2> USE <1>4 DEF Second
  <2>1. CASE pc[w] \in {"second", "woken"} /\ pc' = [pc EXCEPT ![w] = "wait"]
             /\ UNCHANGED <<items, cur>>
    <3>1. \A x \in Worker : pc'[x] = "exit" <=> pc[x] = "exit"
      BY <2>1 DEF Types, TypeOK
    <3> QED
      BY <3>1, <2>1, SameExits DEF Atomic!vars
  <2>2. CASE pc[w] \in {"second", "woken"} /\ Take(w)
    <3>1. Atomic!Pop(w)
      BY <2>2, TakeImplements
    <3> QED
      BY <3>1 DEF Atomic!Next
  <2>3. CASE /\ pc[w] \in {"second", "woken"} /\ (cancelled \/ (closed /\ items = <<>>))
             /\ TurnAway(w) /\ UNCHANGED <<items, cur>>
    <3>1. Atomic!PopFails(w)
      BY <2>3, TurnAwayImplements DEF TurnAway
    <3> QED
      BY <3>1 DEF Atomic!Next
  <2> QED
    BY <2>1, <2>2, <2>3 DEF TakeOrWait
<1>5. ASSUME NEW w \in Worker, WakeUp(w) PROVE [Atomic!Next]_(Atomic!vars)
  BY <1>5, BroadcastStutters DEF WakeUp, Atomic!vars
<1>6. ASSUME StrayWakeUp PROVE [Atomic!Next]_(Atomic!vars)
  <2>1. UNCHANGED pc \/ Broadcast(pc)
    BY <1>6 DEF StrayWakeUp
  <2>2. {w \in Worker : pc[w] = "exit"}' = {w \in Worker : pc[w] = "exit"}
    BY <2>1, BroadcastStutters
  <2> QED
    BY <2>2, <1>6 DEF StrayWakeUp, Atomic!vars
<1>7. ASSUME NEW w \in Worker, ListPages(w) \/ ListFails(w) \/ Count(w) \/ PagesDone(w)
      PROVE  [Atomic!Next]_(Atomic!vars)
  <2>1. \A x \in Worker : pc'[x] = "exit" <=> pc[x] = "exit"
    BY <1>7 DEF ListPages, ListFails, Count, PagesDone, Types, TypeOK
  <2>2. UNCHANGED <<items, closed, cancelled, cur>>
    BY <1>7 DEF ListPages, ListFails, Count, PagesDone
  <2> QED
    BY <2>1, <2>2, SameExits DEF Atomic!vars
<1>8. ASSUME NEW g \in Worker \cup {Main}, Enqueue(g) PROVE [Atomic!Next]_(Atomic!vars)
  <2>1. owed[g] \in Item
    BY <1>8 DEF Enqueue, Types, TypeOK
  <2>2. Atomic!Push(owed[g])
    BY <2>1, <1>8, PushImplements DEF Enqueue
  <2> QED
    BY <2>1, <2>2 DEF Atomic!Next
<1>9. ASSUME NEW w \in Worker, Leave(w) PROVE [Atomic!Next]_(Atomic!vars)
  <2>1. \A x \in Worker : pc'[x] = "exit" <=> pc[x] = "exit"
    BY <1>9 DEF Leave, Types, TypeOK
  <2>2. cur[w] # NoItem
    BY <1>9 DEF Leave, Types, HoldsWhileListing, Listing
  <2>3. Atomic!Finish(w)
    BY <2>1, <2>2, <1>9, SameExits DEF Leave, Atomic!Finish
  <2> QED
    BY <2>3 DEF Atomic!Next
<1>10. ASSUME NEW w \in Worker, CloseQueue(w) PROVE [Atomic!Next]_(Atomic!vars)
  <2>1. [pc EXCEPT ![w] = "exit"] \in [Worker -> Position]
    BY DEF Types, TypeOK, Position
  <2>2. \A x \in Worker : pc'[x] = IF x \in Waiting THEN "woken" ELSE [pc EXCEPT ![w] = "exit"][x]
    BY <2>1, <1>10, BroadcastMoves DEF CloseQueue, Close
  <2>3. /\ pc'[w] = "exit"
        /\ \A x \in Worker \ {w} : pc'[x] = "exit" <=> pc[x] = "exit"
    BY <2>2, <1>10 DEF CloseQueue, Waiting, Types, TypeOK
  <2>4. cur[w] = NoItem
    BY <1>10 DEF CloseQueue, Types, HoldsWhileListing, Listing
  <2>5. Atomic!Close(w)
    BY <2>3, <2>4, <1>10, OneMoreExit DEF CloseQueue, Close, Atomic!Close
  <2> QED
    BY <2>5 DEF Atomic!Next
<1>11. ASSUME NothingToSeed PROVE [Atomic!Next]_(Atomic!vars)
  <2>1. Atomic!CloseUnused
    BY <1>11, BroadcastStutters DEF NothingToSeed, Close, Atomic!CloseUnused
  <2> QED
    BY <2>1 DEF Atomic!Next
<1>12. ASSUME Seed \/ Seeded \/ UNCHANGED vars PROVE [Atomic!Next]_(Atomic!vars)
  BY <1>12 DEF Seed, Seeded, vars, Atomic!vars
<1>13. ASSUME Drain PROVE [Atomic!Next]_(Atomic!vars)
  <2>1. CASE UNCHANGED items
    BY <2>1, <1>13 DEF Drain, Atomic!vars
  <2>2. CASE items' = <<>>
    <3>1. Atomic!Drain
      BY <2>2, <1>13 DEF Drain, Atomic!Drain
    <3> QED
      BY <3>1 DEF Atomic!Next
  <2> QED
    BY <2>1, <2>2, <1>13 DEF Drain
<1>14. ASSUME Cancel PROVE [Atomic!Next]_(Atomic!vars)
  <2>1. Atomic!Cancel
    BY <1>14 DEF Cancel, Atomic!Cancel
  <2> QED
    BY <2>1 DEF Atomic!Next
<1> QED
  BY <1>1, <1>2, <1>3, <1>4, <1>5, <1>6, <1>7, <1>8, <1>9, <1>10, <1>11, <1>12, <1>13, <1>14
     DEF Next, Step, MainStep, Terminated

\* For any number of workers and any tree, mutex, condition variable and wake-up
\* goroutines of queue.go behave as the atomic queue that module Journal assumes.
THEOREM QueueImplements == Spec => Implements
<1>1. Init => Atomic!Init
  BY DEF Init, Atomic!Init
<1>2. Types /\ [Next]_vars => [Atomic!Next]_(Atomic!vars)
  BY StepImplements
<1> QED
  BY <1>1, <1>2, QueueTypes, PTL DEF Spec, Implements, Atomic!Spec

-----------------------------------------------------------------------------
(* Nothing is dropped, in a run that starts from one prefix: the counter the *)
(* workers close the queue by counts what is queued, what is in a worker's   *)
(* hands and what somebody is about to push.                                 *)

Busy  == {w \in Worker : cur[w] # NoItem}
Owing == {g \in Worker \cup {Main} : owed[g] # NoItem}

OneSeed == \A i, j \in Seeds : i = j

Counted == main # "drained" => inflight = Len(items) + Cardinality(Busy) + Cardinality(Owing)
Hands ==
    /\ \A w \in Worker :
         /\ owed[w] # NoItem \/ todo[w] # {} => pc[w] = "page"
         /\ pc[w] = "leave" => cur[w] \in finished \cup recorded
    /\ owed[Main] # NoItem => main = "seeding"
    /\ main = "drained" => \A w \in Worker : pc[w] = "exit"
    /\ toSeed \subseteq Seeds
Closing == closed \/ \E w \in Worker : pc[w] = "close"
ClosedAtZero ==
    /\ Closing => inflight = 0 /\ (toSeed = {} \/ main # "seeding")
    /\ toSeed = Seeds => inflight = 0
Counter == Counted /\ Hands /\ ClosedAtZero

\* Where an item can be.
Present(i) ==
    \/ i \in finished \cup recorded \cup toSeed
    \/ \E k \in 1 .. Len(items) : items[k] = i
    \/ \E w \in Worker : cur[w] = i \/ i \in todo[w]
    \/ \E g \in Worker \cup {Main} : owed[g] = i

Kept ==
    /\ \A i \in Revealed : Present(i)
    /\ \A w \in Worker : pc[w] = "page" => \A i \in Subs[cur[w]] : Present(i)

LEMMA HandsAreFinite ==
    /\ IsFiniteSet(Busy) /\ Cardinality(Busy) \in Nat
    /\ IsFiniteSet(Owing) /\ Cardinality(Owing) \in Nat
    /\ IsFiniteSet(Busy') /\ Cardinality(Busy') \in Nat
    /\ IsFiniteSet(Owing') /\ Cardinality(Owing') \in Nat
<1>1. IsFiniteSet(Worker \cup {Main})
  BY QueueAssumption, FS_AddElement
<1>2. IsFiniteSet(Busy) /\ IsFiniteSet(Busy')
  BY FS_Subset, QueueAssumption, Busy \in SUBSET Worker, Busy' \in SUBSET Worker DEF Busy
<1>3. IsFiniteSet(Owing) /\ IsFiniteSet(Owing')
  BY <1>1, FS_Subset, Owing \in SUBSET (Worker \cup {Main}),
     Owing' \in SUBSET (Worker \cup {Main}) DEF Owing
<1> QED
  BY <1>2, <1>3, FS_CardinalityType

\* Somebody at work or about to push keeps the counter above zero and the queue open.
LEMMA WorkKeepsOpen ==
    ASSUME Types, Counter, main # "drained",
           (\E w \in Worker : pc[w] \in Listing) \/ (\E g \in Worker \cup {Main} : owed[g] # NoItem)
    PROVE  inflight > 0 /\ ~Closing /\ toSeed # Seeds
<1>1. Busy # {} \/ Owing # {}
  BY DEF Busy, Owing, Types, HoldsWhileListing
<1>2. Cardinality(Busy) > 0 \/ Cardinality(Owing) > 0
  BY <1>1, HandsAreFinite, FS_EmptySet
<1>3. Len(items) \in Nat
  BY DEF Types, TypeOK
<1>4. inflight > 0
  <2>1. inflight = Len(items) + Cardinality(Busy) + Cardinality(Owing)
    BY DEF Counter, Counted
  <2> QED
    BY <1>2, <1>3, <2>1, HandsAreFinite
<1> QED
  BY <1>4 DEF Counter, ClosedAtZero

\* Nobody's hands change.
LEMMA SameCounter ==
    ASSUME Types, Counter, UNCHANGED <<items, inflight, cur, owed, todo, main, toSeed, finished, recorded>>,
           \A w \in Worker : /\ pc[w] = "page" <=> pc'[w] = "page"
                             /\ pc'[w] = "leave" => pc[w] = "leave"
                             /\ pc[w] = "exit" => pc'[w] = "exit",
           Closing' => Closing
    PROVE  Counter'
<1>1. Busy' = Busy /\ Owing' = Owing
  BY DEF Busy, Owing
<1>2. Counted'
  BY <1>1 DEF Counter, Counted
<1>3. Hands'
  BY DEF Counter, Hands
<1>4. ClosedAtZero'
  BY DEF Counter, ClosedAtZero
<1> QED
  BY <1>2, <1>3, <1>4 DEF Counter

LEMMA RevealedAreItems ==
    ASSUME Types
    PROVE  /\ Revealed \subseteq Item
           /\ \A w \in Worker : pc[w] = "page" => Subs[cur[w]] \subseteq Item
BY QueueAssumption DEF Types, TypeOK, Revealed, HoldsWhileListing, Listing

LEMMA SameKept ==
    ASSUME Types, Kept, \A i \in Item : Present(i) => Present(i)',
           finished' = finished,
           \A w \in Worker : pc'[w] = "page" => pc[w] = "page" /\ cur'[w] = cur[w]
    PROVE  Kept'
<1>1. Revealed' = Revealed
  BY DEF Revealed
<1>2. \A i \in Revealed' : Present(i)'
  BY <1>1, RevealedAreItems DEF Kept
<1>3. ASSUME NEW w \in Worker, pc'[w] = "page", NEW i \in Subs[cur'[w]]
      PROVE  Present(i)'
  <2>1. pc[w] = "page" /\ i \in Subs[cur[w]]
    BY <1>3
  <2>2. i \in Item /\ Present(i)
    BY <2>1, RevealedAreItems DEF Kept
  <2> QED
    BY <2>2
<1> QED
  BY <1>2, <1>3 DEF Kept

-----------------------------------------------------------------------------
(* The counter, step by step *)

LEMMA TakeCounter ==
    ASSUME Types, Counter, NEW w \in Worker, pc[w] \in {"first", "second", "woken"}, Take(w),
           UNCHANGED <<closed, inflight, todo, owed, main, toSeed, finished, recorded>>
    PROVE  Counter'
<1>1. /\ cur' = [cur EXCEPT ![w] = Head(items)] /\ pc' = [pc EXCEPT ![w] = "list"]
      /\ Len(items') = Len(items) - 1 /\ Len(items) \in Nat /\ Head(items) \in Item
  BY TakeMoves DEF Types, TypeOK
<1>2. Busy' = Busy \cup {w} /\ w \notin Busy
  BY <1>1, QueueAssumption DEF Busy, Types, TypeOK, HoldsWhileListing, Listing
<1>3. Cardinality(Busy') = Cardinality(Busy) + 1
  BY <1>2, HandsAreFinite, FS_AddElement
<1>4. Owing' = Owing
  BY DEF Owing
<1>5. inflight \in Int
  BY DEF Types, TypeOK
<1>6. Counted'
  <2> SUFFICES ASSUME main # "drained"
               PROVE  inflight = Len(items') + Cardinality(Busy') + Cardinality(Owing')
    BY DEF Counted
  <2>1. inflight = Len(items) + Cardinality(Busy) + Cardinality(Owing)
    BY DEF Counter, Counted
  <2> QED
    BY <1>1, <1>3, <1>4, <2>1, HandsAreFinite
<1>7. Hands'
  BY <1>1 DEF Counter, Hands, Types, TypeOK
<1>8. Closing' => Closing
  BY <1>1 DEF Closing, Types, TypeOK
<1> QED
  BY <1>6, <1>7, <1>8 DEF Counter, ClosedAtZero

\* The worker at its listing.
LEMMA ListCounter ==
    ASSUME Types, Counter, NEW w \in Worker, ListPages(w) \/ ListFails(w) \/ PagesDone(w)
    PROVE  Counter'
<1> USE DEF queueVars, workerVars, wakeVars, pastVars
<1>1. /\ UNCHANGED <<items, closed, inflight, main, toSeed, cur, owed>>
      /\ finished \subseteq finished' /\ recorded \subseteq recorded'
  BY DEF ListPages, ListFails, PagesDone
<1>2. \E at \in {"page", "leave"} : pc' = [pc EXCEPT ![w] = at]
  BY DEF ListPages, ListFails, PagesDone
<1>3. pc[w] # "exit"
  BY DEF ListPages, ListFails, PagesDone
<1>4. Busy' = Busy /\ Owing' = Owing
  BY <1>1 DEF Busy, Owing
<1>5. Counted'
  BY <1>1, <1>4 DEF Counter, Counted
<1>6. ASSUME NEW v \in Worker
      PROVE  /\ owed'[v] # NoItem \/ todo'[v] # {} => pc'[v] = "page"
             /\ pc'[v] = "leave" => cur'[v] \in finished' \cup recorded'
  <2>1. CASE v # w
    <3>1. pc'[v] = pc[v] /\ todo'[v] = todo[v]
      BY <1>2, <2>1 DEF Types, TypeOK, ListPages, ListFails, PagesDone
    <3> QED
      BY <1>1, <3>1 DEF Counter, Hands
  <2>2. CASE v = w /\ ListPages(w)
    BY <2>2 DEF ListPages, Types, TypeOK
  <2>3. CASE v = w /\ ListFails(w)
    BY <2>3 DEF ListFails, Types, TypeOK, Counter, Hands
  <2>4. CASE v = w /\ PagesDone(w)
    BY <2>4 DEF PagesDone, Types, TypeOK
  <2> QED
    BY <2>1, <2>2, <2>3, <2>4
<1>7. main # "drained"
  BY <1>3 DEF Counter, Hands
<1>8. Hands'
  BY <1>1, <1>6, <1>7 DEF Counter, Hands
<1>9. Closing' => Closing
  BY <1>1, <1>2 DEF Closing, Types, TypeOK
<1> QED
  BY <1>1, <1>5, <1>8, <1>9 DEF Counter, ClosedAtZero

\* An item is counted by the goroutine that will push it.
LEMMA CountCounter ==
    ASSUME Types, Counter, NEW g \in Worker \cup {Main}, NEW i \in Item, owed[g] = NoItem,
           owed' = [owed EXCEPT ![g] = i], inflight' = inflight + 1,
           UNCHANGED <<items, closed, main, pc, cur, finished, recorded>>,
           main # "drained", g = Main => main = "seeding", g # Main => pc[g] = "page",
           \A w \in Worker : todo'[w] # {} => todo[w] # {},
           toSeed' \subseteq toSeed, toSeed' # Seeds, ~Closing
    PROVE  Counter'
<1>1. i # NoItem
  BY QueueAssumption
<1>2. Owing' = Owing \cup {g} /\ g \notin Owing
  BY <1>1 DEF Owing, Types, TypeOK
<1>3. Cardinality(Owing') = Cardinality(Owing) + 1
  BY <1>2, HandsAreFinite, FS_AddElement
<1>4. Busy' = Busy
  BY DEF Busy
<1>5. Counted'
  <2>1. inflight = Len(items) + Cardinality(Busy) + Cardinality(Owing) /\ Len(items) \in Nat
    BY DEF Counter, Counted, Types, TypeOK
  <2>2. inflight' = Len(items') + Cardinality(Busy') + Cardinality(Owing')
    BY <1>3, <1>4, <2>1, HandsAreFinite
  <2> QED
    BY <2>2 DEF Counted
<1>6. Hands'
  <2>1. \A x \in Worker \cup {Main} : owed'[x] # NoItem => owed[x] # NoItem \/ x = g
    BY DEF Types, TypeOK
  <2>2. Main \notin Worker
    BY QueueAssumption DEF Main
  <2> QED
    BY <2>1, <2>2 DEF Counter, Hands
<1>7. ~Closing'
  BY DEF Closing
<1> QED
  BY <1>5, <1>6, <1>7 DEF Counter, ClosedAtZero

LEMMA EnqueueCounter ==
    ASSUME Types, Counter, NEW g \in Worker \cup {Main}, Enqueue(g)
    PROVE  /\ Counter' /\ ~closed
           /\ items' = Append(items, owed[g]) /\ owed[g] \in Item
<1>1. owed[g] # NoItem /\ owed[g] \in Item /\ owed' = [owed EXCEPT ![g] = NoItem]
  BY DEF Enqueue, Types, TypeOK
<1>2. UNCHANGED <<closed, inflight, main, toSeed, cur, todo, finished, recorded>>
  BY DEF Enqueue, workerVars, pastVars
<1>3. main # "drained"
  BY <1>1, QueueAssumption DEF Counter, Hands, Main
<1>4. ~Closing /\ inflight > 0 /\ toSeed # Seeds
  BY <1>1, <1>3, WorkKeepsOpen
<1>5. items' = Append(items, owed[g])
  BY <1>4 DEF Enqueue, Push, Closing
<1>6. Len(items') = Len(items) + 1 /\ Len(items) \in Nat
  BY <1>1, <1>5 DEF Types, TypeOK
<1>7. \A w \in Worker : pc'[w] # pc[w] => pc[w] = "wait" /\ pc'[w] = "woken"
  BY <1>1, PushMoves DEF Enqueue, Types
<1>8. Owing' = Owing \ {g} /\ g \in Owing
  BY <1>1 DEF Owing, Types, TypeOK
<1>9. Cardinality(Owing') = Cardinality(Owing) - 1
  BY <1>8, HandsAreFinite, FS_RemoveElement
<1>10. Busy' = Busy
  BY <1>2 DEF Busy
<1>11. Counted'
  <2>1. inflight = Len(items) + Cardinality(Busy) + Cardinality(Owing)
    BY <1>3 DEF Counter, Counted
  <2>2. inflight = Len(items') + Cardinality(Busy') + Cardinality(Owing')
    BY <1>6, <1>9, <1>10, <2>1, HandsAreFinite
  <2> QED
    BY <1>2, <2>2 DEF Counted
<1>12. Hands'
  <2>1. \A x \in Worker \cup {Main} : owed'[x] # NoItem => owed[x] # NoItem
    BY <1>1 DEF Types, TypeOK
  <2> QED
    BY <1>2, <1>3, <1>7, <2>1 DEF Counter, Hands
<1>13. ~Closing'
  BY <1>2, <1>4, <1>7 DEF Closing
<1> QED
  BY <1>1, <1>2, <1>4, <1>5, <1>11, <1>12, <1>13 DEF Counter, ClosedAtZero, Closing

LEMMA LeaveCounter ==
    ASSUME Types, Counter, OneSeed, NEW w \in Worker, Leave(w)
    PROVE  Counter' /\ cur[w] \in finished \cup recorded
<1>1. /\ pc[w] = "leave" /\ inflight' = inflight - 1 /\ cur' = [cur EXCEPT ![w] = NoItem]
      /\ pc' = [pc EXCEPT ![w] = IF inflight = 1 THEN "close" ELSE "loop"]
      /\ UNCHANGED <<items, closed, main, toSeed, todo, owed, finished, recorded>>
  BY DEF Leave, queueVars, pastVars
<1>2. main # "drained" /\ cur[w] \in finished \cup recorded /\ todo[w] = {} /\ owed[w] = NoItem
  BY <1>1 DEF Counter, Hands
<1>3. inflight > 0 /\ ~Closing /\ toSeed # Seeds /\ inflight \in Int
  BY <1>1, <1>2, WorkKeepsOpen DEF Listing, Types, TypeOK
<1>4. toSeed = {}
  BY <1>3 DEF Counter, Hands, OneSeed
<1>5. Busy' = Busy \ {w} /\ w \in Busy
  BY <1>1 DEF Busy, Types, TypeOK, HoldsWhileListing, Listing
<1>6. Cardinality(Busy') = Cardinality(Busy) - 1
  BY <1>5, HandsAreFinite, FS_RemoveElement
<1>7. Owing' = Owing
  BY <1>1 DEF Owing
<1>8. Counted'
  <2>1. inflight = Len(items) + Cardinality(Busy) + Cardinality(Owing) /\ Len(items) \in Nat
    BY <1>2 DEF Counter, Counted, Types, TypeOK
  <2>2. inflight' = Len(items') + Cardinality(Busy') + Cardinality(Owing')
    BY <1>1, <1>6, <1>7, <2>1, HandsAreFinite
  <2> QED
    BY <2>2 DEF Counted
<1>9. Hands'
  BY <1>1, <1>2 DEF Counter, Hands, Types, TypeOK
<1>10. ClosedAtZero'
  <2>1. Closing' => inflight = 1
    BY <1>1, <1>3 DEF Closing, Types, TypeOK
  <2> QED
    BY <1>1, <1>3, <1>4, <2>1 DEF ClosedAtZero
<1> QED
  BY <1>2, <1>8, <1>9, <1>10 DEF Counter

LEMMA StepCounter == Types /\ Counter /\ OneSeed /\ [Next]_vars => Counter'
<1> SUFFICES ASSUME Types, Counter, OneSeed, [Next]_vars PROVE Counter'
  OBVIOUS
<1> USE DEF queueVars, workerVars, wakeVars, pastVars
\* Steps of a worker on its way, that leave everybody's hands as they are.
<1>1. ASSUME UNCHANGED <<items, inflight, cur, owed, todo, main, toSeed, finished, recorded, closed>>,
             NEW w \in Worker, NEW at \in {"first", "check", "second", "wait", "exit"},
             pc[w] \in {"loop", "first", "check", "second", "woken"},
             pc' = [pc EXCEPT ![w] = at]
      PROVE  Counter'
  <2>1. \A v \in Worker : /\ pc[v] = "page" <=> pc'[v] = "page"
                          /\ pc'[v] = "leave" => pc[v] = "leave"
                          /\ pc[v] = "exit" => pc'[v] = "exit"
                          /\ pc'[v] = "close" => pc[v] = "close"
    BY <1>1 DEF Types, TypeOK
  <2>2. Closing' => Closing
    BY <1>1, <2>1 DEF Closing
  <2> QED
    BY <1>1, <2>1, <2>2, SameCounter
<1>2. ASSUME UNCHANGED <<items, inflight, cur, owed, todo, main, toSeed, finished, recorded, closed>>,
             pc' = pc \/ Broadcast(pc)
      PROVE  Counter'
  <2>1. \A v \in Worker : pc'[v] = pc[v] \/ (pc[v] = "wait" /\ pc'[v] = "woken")
    BY <1>2, BroadcastMoves DEF Types, TypeOK, Waiting
  <2>2. Closing' => Closing
    BY <1>2, <2>1 DEF Closing
  <2> QED
    BY <1>2, <2>1, <2>2, SameCounter
<1>3. ASSUME NEW w \in Worker, Loop(w) \/ CheckAndArm(w) PROVE Counter'
  BY <1>1, <1>3 DEF Loop, CheckAndArm
<1>4. ASSUME NEW w \in Worker, First(w) PROVE Counter'
  <2>1. CASE Take(w)
    BY <1>4, <2>1, TakeCounter DEF First
  <2>2. CASE UNCHANGED <<items, cur>>
             /\ pc' = [pc EXCEPT ![w] = IF closed THEN "exit" ELSE "check"]
    BY <1>1, <1>4, <2>2 DEF First
  <2> QED
    BY <1>4, <2>1, <2>2 DEF First
<1>5. ASSUME NEW w \in Worker, Second(w) PROVE Counter'
  <2>1. CASE pc[w] \in {"second", "woken"} /\ Take(w)
    BY <1>5, <2>1, TakeCounter DEF Second
  <2>2. CASE /\ UNCHANGED <<items, cur>> /\ pc[w] \in {"second", "woken"}
             /\ \E at \in {"wait", "exit"} : pc' = [pc EXCEPT ![w] = at]
    BY <1>1, <1>5, <2>2 DEF Second
  <2> QED
    BY <1>5, <2>1, <2>2 DEF Second, TakeOrWait, TurnAway
<1>6. ASSUME NEW w \in Worker, WakeUp(w) PROVE Counter'
  BY <1>2, <1>6 DEF WakeUp
<1>7. ASSUME StrayWakeUp PROVE Counter'
  BY <1>2, <1>7 DEF StrayWakeUp
<1>8. ASSUME NEW w \in Worker, Count(w) PROVE Counter'
  <2>1. PICK i \in todo[w] : /\ todo' = [todo EXCEPT ![w] = @ \ {i}]
                             /\ owed' = [owed EXCEPT ![w] = i]
    BY <1>8 DEF Count
  <2>2. i \in Item /\ (\A v \in Worker : todo'[v] # {} => todo[v] # {})
    BY <2>1 DEF Types, TypeOK
  <2>3. main # "drained"
    BY <1>8 DEF Count, Counter, Hands
  <2>4. ~Closing /\ toSeed # Seeds
    BY <1>8, <2>3, WorkKeepsOpen DEF Count, Listing
  <2> QED
    BY <1>8, <2>1, <2>2, <2>3, <2>4, QueueAssumption, CountCounter DEF Count, Main
<1>9. ASSUME Seed PROVE Counter'
  <2>1. PICK i \in toSeed : /\ toSeed' = toSeed \ {i}
                            /\ owed' = [owed EXCEPT ![Main] = i]
    BY <1>9 DEF Seed
  <2>2. i \in Item /\ i \in Seeds
    BY <2>1 DEF Types, TypeOK, Counter, Hands
  <2>3. ~Closing
    BY <1>9, <2>1 DEF Seed, Counter, ClosedAtZero
  <2> QED
    BY <1>9, <2>1, <2>2, <2>3, CountCounter DEF Seed
<1>10. ASSUME NEW w \in Worker, CloseQueue(w) PROVE Counter'
  <2>1. [pc EXCEPT ![w] = "exit"] \in [Worker -> Position]
    BY DEF Types, TypeOK, Position
  <2>2. \A x \in Worker : pc'[x] = IF x \in Waiting THEN "woken" ELSE [pc EXCEPT ![w] = "exit"][x]
    BY <2>1, <1>10, BroadcastMoves DEF CloseQueue, Close
  <2>3. \A x \in Worker : /\ pc[x] = "page" <=> pc'[x] = "page"
                          /\ pc'[x] = "leave" => pc[x] = "leave"
                          /\ pc[x] = "exit" => pc'[x] = "exit"
    BY <1>10, <2>2 DEF CloseQueue, Waiting, Types, TypeOK
  <2>4. Closing
    BY <1>10 DEF CloseQueue, Closing
  <2> QED
    BY <1>10, <2>3, <2>4, SameCounter DEF CloseQueue
<1>11. ASSUME NothingToSeed PROVE Counter'
  <2>1. /\ main' = "seeded" /\ main = "seeding" /\ inflight = 0 /\ owed[Main] = NoItem
        /\ UNCHANGED <<items, inflight, cur, owed, todo, toSeed, finished, recorded>>
    BY <1>11 DEF NothingToSeed
  <2>2. \A v \in Worker : pc'[v] = pc[v] \/ (pc[v] = "wait" /\ pc'[v] = "woken")
    BY <1>11, BroadcastMoves DEF NothingToSeed, Close, Types, TypeOK, Waiting
  <2>3. Busy' = Busy /\ Owing' = Owing
    BY <2>1 DEF Busy, Owing
  <2>4. Counted' /\ ClosedAtZero'
    BY <2>1, <2>3 DEF Counter, Counted, ClosedAtZero
  <2>5. Hands'
    BY <2>1, <2>2 DEF Counter, Hands
  <2> QED
    BY <2>4, <2>5 DEF Counter
<1>12. ASSUME Seeded PROVE Counter'
  <2>1. Busy' = Busy /\ Owing' = Owing
    BY <1>12 DEF Seeded, Busy, Owing
  <2>2. Counted' /\ ClosedAtZero'
    BY <1>12, <2>1 DEF Seeded, Counter, Counted, ClosedAtZero, Closing
  <2>3. Hands'
    BY <1>12 DEF Seeded, Counter, Hands
  <2> QED
    BY <2>2, <2>3 DEF Counter
<1>13. ASSUME Drain PROVE Counter'
  <2>1. /\ main' = "drained" /\ main = "seeded" /\ recorded \subseteq recorded'
        /\ \A w \in Worker : pc[w] = "exit"
        /\ UNCHANGED <<closed, inflight, toSeed, pc, cur, todo, owed, finished>>
    BY <1>13 DEF Drain
  <2>2. Counted' /\ ClosedAtZero'
    BY <2>1 DEF Counter, Counted, ClosedAtZero, Closing
  <2>3. Hands'
    BY <2>1 DEF Counter, Hands
  <2> QED
    BY <2>2, <2>3 DEF Counter
<1>14. ASSUME Cancel \/ UNCHANGED vars PROVE Counter'
  BY <1>2, <1>14 DEF Cancel, vars
<1> QED
  BY <1>3, <1>4, <1>5, <1>6, <1>7, <1>8, <1>9, <1>10, <1>11, <1>12, <1>13, <1>14,
     ListCounter, EnqueueCounter, LeaveCounter
     DEF Next, Step, MainStep, Terminated

LEMMA InitCounter == Init => Counter /\ Kept
<1> SUFFICES ASSUME Init PROVE Counter /\ Kept
  OBVIOUS
<1>1. Busy = {} /\ Owing = {} /\ Len(items) = 0 /\ inflight = 0 /\ toSeed = Seeds
  BY DEF Init, Busy, Owing
<1>2. Counted /\ ClosedAtZero
  BY <1>1, FS_EmptySet DEF Counted, ClosedAtZero, Closing, Init
<1>3. Hands
  BY DEF Init, Hands
<1>4. Kept
  BY DEF Init, Kept, Revealed, Present
<1> QED
  BY <1>2, <1>3, <1>4 DEF Counter

-----------------------------------------------------------------------------
(* What is somewhere stays somewhere *)

LEMMA TakeKeeps ==
    ASSUME Types, NEW w \in Worker, pc[w] \in {"first", "second", "woken"}, Take(w), Kept,
           UNCHANGED <<todo, owed, toSeed, finished, recorded>>
    PROVE  Kept'
<1>1. /\ items # <<>> /\ items' = Tail(items) /\ items \in Seq(Item)
      /\ cur' = [cur EXCEPT ![w] = Head(items)] /\ pc' = [pc EXCEPT ![w] = "list"]
  BY DEF Take, Types, TypeOK
<1>2. cur[w] = NoItem
  BY DEF Types, HoldsWhileListing, Listing
<1>3. ASSUME NEW i \in Item, Present(i) PROVE Present(i)'
  <2>1. CASE \E k \in 1 .. Len(items) : items[k] = i
    <3>1. PICK k \in 1 .. Len(items) : items[k] = i
      BY <2>1
    <3>2. CASE k = 1
      <4>1. cur'[w] = i
        BY <1>1, <3>1, <3>2 DEF Types, TypeOK
      <4> QED
        BY <4>1 DEF Present
    <3>3. CASE k # 1
      <4>1. k - 1 \in 1 .. Len(items') /\ items'[k - 1] = i
        BY <1>1, <3>1, <3>3
      <4> QED
        BY <4>1 DEF Present
    <3> QED
      BY <3>2, <3>3
  <2>2. CASE \E v \in Worker : cur[v] = i
    <3>1. PICK v \in Worker : cur[v] = i
      BY <2>2
    <3>2. v # w
      BY <1>2, <3>1, QueueAssumption
    <3>3. cur'[v] = i
      BY <1>1, <3>1, <3>2 DEF Types, TypeOK
    <3> QED
      BY <3>3 DEF Present
  <2> QED
    BY <1>3, <2>1, <2>2 DEF Present
<1>4. \A v \in Worker : pc'[v] = "page" => pc[v] = "page" /\ cur'[v] = cur[v]
  BY <1>1 DEF Types, TypeOK
<1> QED
  BY <1>3, <1>4, SameKept

LEMMA StepKept == Types /\ Counter /\ OneSeed /\ Kept /\ [Next]_vars => Kept'
<1> SUFFICES ASSUME Types, Counter, OneSeed, Kept, [Next]_vars PROVE Kept'
  OBVIOUS
<1> USE DEF queueVars, workerVars, wakeVars, pastVars
<1>1. ASSUME UNCHANGED <<items, cur, owed, todo, toSeed, finished, recorded>>,
             \A w \in Worker : pc'[w] = "page" => pc[w] = "page"
      PROVE  Kept'
  <2>1. \A i \in Item : Present(i) => Present(i)'
    BY <1>1 DEF Present
  <2> QED
    BY <1>1, <2>1, SameKept
<1>2. ASSUME NEW w \in Worker, Loop(w) \/ CheckAndArm(w) PROVE Kept'
  BY <1>1, <1>2 DEF Loop, CheckAndArm, Types, TypeOK
<1>3. ASSUME NEW w \in Worker, First(w) PROVE Kept'
  <2>1. CASE Take(w)
    BY <1>3, <2>1, TakeKeeps DEF First
  <2>2. CASE UNCHANGED <<items, cur>>
             /\ pc' = [pc EXCEPT ![w] = IF closed THEN "exit" ELSE "check"]
    BY <1>1, <1>3, <2>2 DEF First, Types, TypeOK
  <2> QED
    BY <1>3, <2>1, <2>2 DEF First
<1>4. ASSUME NEW w \in Worker, Second(w) PROVE Kept'
  <2>1. CASE pc[w] \in {"second", "woken"} /\ Take(w)
    BY <1>4, <2>1, TakeKeeps DEF Second
  <2>2. CASE /\ UNCHANGED <<items, cur>> /\ pc[w] \in {"second", "woken"}
             /\ \E at \in {"wait", "exit"} : pc' = [pc EXCEPT ![w] = at]
    BY <1>1, <1>4, <2>2 DEF Second, Types, TypeOK
  <2> QED
    BY <1>4, <2>1, <2>2 DEF Second, TakeOrWait, TurnAway
<1>5. ASSUME UNCHANGED <<items, cur, owed, todo, toSeed, finished, recorded>>,
             pc' = pc \/ Broadcast(pc)
      PROVE  Kept'
  <2>1. \A v \in Worker : pc'[v] = pc[v] \/ (pc[v] = "wait" /\ pc'[v] = "woken")
    BY <1>5, BroadcastMoves DEF Types, TypeOK, Waiting
  <2> QED
    BY <1>1, <1>5, <2>1
<1>6. ASSUME NEW w \in Worker, WakeUp(w) PROVE Kept'
  BY <1>5, <1>6 DEF WakeUp
<1>7. ASSUME StrayWakeUp PROVE Kept'
  BY <1>5, <1>7 DEF StrayWakeUp
<1>8. ASSUME NEW w \in Worker, ListPages(w) PROVE Kept'
  <2>1. /\ pc[w] = "list" /\ todo' = [todo EXCEPT ![w] = Subs[cur[w]]]
        /\ pc' = [pc EXCEPT ![w] = "page"] /\ todo[w] = {}
        /\ UNCHANGED <<items, cur, owed, toSeed, finished, recorded>>
    BY <1>8 DEF ListPages, Counter, Hands
  <2>2. \A v \in Worker : todo[v] \subseteq todo'[v]
    BY <2>1 DEF Types, TypeOK
  <2>3. \A i \in Item : Present(i) => Present(i)'
    BY <2>1, <2>2 DEF Present
  <2>4. todo'[w] = Subs[cur[w]]
    BY <2>1 DEF Types, TypeOK
  <2>5. \A i \in Subs[cur[w]] : Present(i)'
    BY <2>4 DEF Present
  <2>6. ASSUME NEW v \in Worker, pc'[v] = "page", NEW i \in Subs[cur'[v]] PROVE Present(i)'
    <3>1. CASE v = w
      BY <2>1, <2>5, <2>6, <3>1
    <3>2. CASE v # w
      <4>1. pc[v] = "page" /\ i \in Subs[cur[v]]
        BY <2>1, <2>6, <3>2 DEF Types, TypeOK
      <4> QED
        BY <2>3, <4>1, RevealedAreItems DEF Kept
    <3> QED
      BY <3>1, <3>2
  <2>7. Revealed' = Revealed
    BY <2>1 DEF Revealed
  <2>8. \A i \in Revealed' : Present(i)'
    BY <2>3, <2>7, RevealedAreItems DEF Kept
  <2> QED
    BY <2>6, <2>8 DEF Kept
<1>9. ASSUME NEW w \in Worker, ListFails(w) PROVE Kept'
  <2>1. /\ UNCHANGED <<items, cur, owed, todo, toSeed, finished>> /\ recorded \subseteq recorded'
        /\ pc' = [pc EXCEPT ![w] = "leave"]
    BY <1>9 DEF ListFails
  <2>2. \A i \in Item : Present(i) => Present(i)'
    BY <2>1 DEF Present
  <2>3. \A v \in Worker : pc'[v] = "page" => pc[v] = "page"
    BY <2>1 DEF Types, TypeOK
  <2> QED
    BY <2>1, <2>2, <2>3, SameKept
<1>10. ASSUME NEW w \in Worker, PagesDone(w) PROVE Kept'
  <2>1. /\ UNCHANGED <<items, cur, owed, todo, toSeed, recorded>>
        /\ finished' = finished \cup {cur[w]} /\ pc[w] = "page"
        /\ pc' = [pc EXCEPT ![w] = "leave"]
    BY <1>10 DEF PagesDone
  <2>2. \A i \in Item : Present(i) => Present(i)'
    BY <2>1 DEF Present
  <2>3. Revealed' = Revealed \cup Subs[cur[w]]
    BY <2>1 DEF Revealed
  <2>4. \A i \in Revealed' : i \in Item /\ Present(i)
    BY <2>1, <2>3, RevealedAreItems DEF Kept
  <2>5. \A v \in Worker : pc'[v] = "page" => pc[v] = "page"
    BY <2>1 DEF Types, TypeOK
  <2>6. \A v \in Worker : pc'[v] = "page" => \A i \in Subs[cur'[v]] : Present(i)'
    BY <2>1, <2>2, <2>5, RevealedAreItems DEF Kept
  <2> QED
    BY <2>2, <2>4, <2>6 DEF Kept
\* An item moves to the goroutine that owes it.
<1>11. ASSUME NEW g \in Worker \cup {Main}, NEW i \in Item, owed[g] = NoItem,
              owed' = [owed EXCEPT ![g] = i],
              UNCHANGED <<items, cur, pc, finished, recorded>>,
              \A x : x \in toSeed => x \in toSeed' \/ x = i,
              \A w \in Worker : \A x \in todo[w] : x \in todo'[w] \/ x = i
       PROVE  Kept'
  <2>1. owed'[g] = i
    BY <1>11 DEF Types, TypeOK
  <2>2. \A h \in Worker \cup {Main} : owed[h] # NoItem => owed'[h] = owed[h]
    BY <1>11 DEF Types, TypeOK
  <2>3. ASSUME NEW x \in Item, Present(x), x # i PROVE Present(x)'
    <3>1. CASE \E h \in Worker \cup {Main} : owed[h] = x
      <4>1. PICK h \in Worker \cup {Main} : owed[h] = x
        BY <3>1
      <4>2. owed'[h] = x
        BY <2>2, <4>1, QueueAssumption
      <4> QED
        BY <4>2 DEF Present
    <3> QED
      BY <1>11, <2>3, <3>1 DEF Present
  <2>4. Present(i)'
    BY <2>1 DEF Present
  <2> QED
    BY <1>11, <2>3, <2>4, SameKept
<1>12. ASSUME NEW w \in Worker, Count(w) PROVE Kept'
  <2>1. PICK i \in todo[w] : /\ todo' = [todo EXCEPT ![w] = @ \ {i}]
                             /\ owed' = [owed EXCEPT ![w] = i]
    BY <1>12 DEF Count
  <2>2. i \in Item /\ \A v \in Worker : \A x \in todo[v] : x \in todo'[v] \/ x = i
    BY <2>1 DEF Types, TypeOK
  <2> QED
    BY <1>11, <1>12, <2>1, <2>2 DEF Count
<1>13. ASSUME Seed PROVE Kept'
  <2>1. PICK i \in toSeed : /\ toSeed' = toSeed \ {i}
                            /\ owed' = [owed EXCEPT ![Main] = i]
    BY <1>13 DEF Seed
  <2>2. i \in Item
    BY DEF Types, TypeOK
  <2> QED
    BY <1>11, <1>13, <2>1, <2>2 DEF Seed
<1>14. ASSUME NEW g \in Worker \cup {Main}, Enqueue(g) PROVE Kept'
  <2>1. items' = Append(items, owed[g]) /\ owed[g] \in Item /\ items \in Seq(Item)
    BY <1>14, EnqueueCounter DEF Types, TypeOK
  <2>2. /\ owed' = [owed EXCEPT ![g] = NoItem]
        /\ UNCHANGED <<toSeed, cur, todo, finished, recorded>>
    BY <1>14 DEF Enqueue
  <2>3. \A v \in Worker : pc'[v] # pc[v] => pc[v] = "wait" /\ pc'[v] = "woken"
    BY <1>14, <2>1, PushMoves DEF Enqueue, Types
  <2>4. ASSUME NEW x \in Item, Present(x) PROVE Present(x)'
    <3>1. CASE \E k \in 1 .. Len(items) : items[k] = x
      <4>1. PICK k \in 1 .. Len(items) : items[k] = x
        BY <3>1
      <4>2. k \in 1 .. Len(items') /\ items'[k] = x
        BY <2>1, <4>1
      <4> QED
        BY <4>2 DEF Present
    <3>2. CASE x = owed[g]
      <4>1. Len(items) + 1 \in 1 .. Len(items') /\ items'[Len(items) + 1] = x
        BY <2>1, <3>2
      <4> QED
        BY <4>1 DEF Present
    <3>3. CASE x # owed[g] /\ \E h \in Worker \cup {Main} : owed[h] = x
      <4>1. PICK h \in Worker \cup {Main} : owed[h] = x
        BY <3>3
      <4>2. owed'[h] = x
        BY <2>2, <3>3, <4>1 DEF Types, TypeOK
      <4> QED
        BY <4>2 DEF Present
    <3> QED
      BY <2>2, <2>4, <3>1, <3>2, <3>3 DEF Present
  <2> QED
    BY <2>2, <2>3, <2>4, SameKept
<1>15. ASSUME NEW w \in Worker, Leave(w) PROVE Kept'
  <2>1. /\ cur' = [cur EXCEPT ![w] = NoItem] /\ pc[w] = "leave"
        /\ UNCHANGED <<items, toSeed, todo, owed, finished, recorded>>
        /\ cur[w] \in finished \cup recorded
    BY <1>15, LeaveCounter DEF Leave
  <2>2. ASSUME NEW x \in Item, Present(x) PROVE Present(x)'
    <3>1. CASE \E v \in Worker \ {w} : cur[v] = x
      <4>1. PICK v \in Worker \ {w} : cur[v] = x
        BY <3>1
      <4>2. cur'[v] = x
        BY <2>1, <4>1 DEF Types, TypeOK
      <4> QED
        BY <4>2 DEF Present
    <3>2. CASE x = cur[w]
      BY <2>1, <3>2 DEF Present
    <3> QED
      BY <2>1, <2>2, <3>1, <3>2 DEF Present
  <2>3. \A v \in Worker : pc'[v] = "page" => pc[v] = "page" /\ cur'[v] = cur[v]
    BY <1>15, <2>1 DEF Leave, Types, TypeOK
  <2> QED
    BY <2>1, <2>2, <2>3, SameKept
<1>16. ASSUME NEW w \in Worker, CloseQueue(w) PROVE Kept'
  <2>1. [pc EXCEPT ![w] = "exit"] \in [Worker -> Position]
    BY DEF Types, TypeOK, Position
  <2>2. \A x \in Worker : pc'[x] = IF x \in Waiting THEN "woken" ELSE [pc EXCEPT ![w] = "exit"][x]
    BY <2>1, <1>16, BroadcastMoves DEF CloseQueue, Close
  <2>3. \A x \in Worker : pc'[x] = "page" => pc[x] = "page"
    BY <1>16, <2>2 DEF CloseQueue, Waiting, Types, TypeOK
  <2> QED
    BY <1>1, <1>16, <2>3 DEF CloseQueue
<1>17. ASSUME NothingToSeed PROVE Kept'
  BY <1>5, <1>17 DEF NothingToSeed, Close
<1>18. ASSUME Drain PROVE Kept'
  <2>1. /\ recorded \subseteq recorded'
        /\ UNCHANGED <<toSeed, pc, cur, todo, owed, finished>>
    BY <1>18 DEF Drain
  <2>2. \A k \in 1 .. Len(items) : items[k] \in recorded' \/ items' = items
    BY <1>18 DEF Drain, Types, TypeOK
  <2>3. \A x \in Item : Present(x) => Present(x)'
    BY <2>1, <2>2 DEF Present
  <2> QED
    BY <2>1, <2>3, SameKept
<1>19. ASSUME Seeded \/ Cancel \/ UNCHANGED vars PROVE Kept'
  BY <1>5, <1>19 DEF Seeded, Cancel, vars
<1> QED
  BY <1>2, <1>3, <1>4, <1>6, <1>7, <1>8, <1>9, <1>10, <1>12, <1>13, <1>14, <1>15, <1>16,
     <1>17, <1>18, <1>19 DEF Next, Step, MainStep, Terminated

\* In a run that starts from one prefix, for any tree, any number of workers and wherever it is
\* cancelled: a prefix that was revealed and is neither listed nor recorded is queued, about to
\* be pushed or in a worker's hands.  With more seeds it is not so (run queue_early).
THEOREM NoPrefixDropped == ASSUME OneSeed PROVE Spec => []NothingDropped
<1>1. Types /\ Kept => NothingDropped
  <2> SUFFICES ASSUME Types, Kept, NEW i \in Revealed PROVE ~Dropped(i)
    BY DEF NothingDropped
  <2>1. Present(i)
    BY DEF Kept
  <2>2. DOMAIN items = 1 .. Len(items) /\ DOMAIN owed = Worker \cup {Main}
    BY DEF Types, TypeOK
  <2> QED
    BY <2>1, <2>2 DEF Present, Dropped
<1> QED
  BY <1>1, OneSeed, InitCounter, StepCounter, StepKept, QueueTypes, PTL DEF Spec
=============================================================================
