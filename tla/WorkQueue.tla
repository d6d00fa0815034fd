----------------------------- MODULE WorkQueue -----------------------------
(***************************************************************************)
(* What queue.go promises its workers: a first-in first-out queue whose    *)
(* operations are atomic, that hands every item to one worker, and that    *)
(* turns a worker away only when the queue is closed and empty or the      *)
(* context is cancelled.  Module Journal uses the queue in this form;      *)
(* module Queue shows that the mutex, the condition variable and the       *)
(* wake-up goroutines of queue.go implement it.                            *)
(***************************************************************************)
EXTENDS Sequences

CONSTANTS Worker, Item, NoItem   \* NoItem is not an item

VARIABLES
    items,      \* queued, oldest first
    closed,
    cancelled,  \* the context of every Pop
    held,       \* held[w]: the item w was handed and has not finished, or NoItem
    turnedAway  \* workers whose Pop returned false

vars == <<items, closed, cancelled, held, turnedAway>>

Init ==
    /\ items = <<>> /\ closed = FALSE /\ cancelled = FALSE
    /\ held = [w \in Worker |-> NoItem] /\ turnedAway = {}

Push(i) ==
    /\ items' = IF closed THEN items ELSE Append(items, i)
    /\ UNCHANGED <<closed, cancelled, held, turnedAway>>

Pop(w) ==
    /\ held[w] = NoItem /\ w \notin turnedAway /\ items # <<>>
    /\ held' = [held EXCEPT ![w] = Head(items)]
    /\ items' = Tail(items)
    /\ UNCHANGED <<closed, cancelled, turnedAway>>

PopFails(w) ==
    /\ held[w] = NoItem
    /\ cancelled \/ (closed /\ items = <<>>)
    /\ turnedAway' = turnedAway \cup {w}
    /\ UNCHANGED <<items, closed, cancelled, held>>

Finish(w) ==
    /\ held[w] # NoItem
    /\ held' = [held EXCEPT ![w] = NoItem]
    /\ UNCHANGED <<items, closed, cancelled, turnedAway>>

\* The worker that finishes last closes the queue and stops.
Close(w) ==
    /\ held[w] = NoItem
    /\ closed' = TRUE /\ turnedAway' = turnedAway \cup {w}
    /\ UNCHANGED <<items, cancelled, held>>

\* Main closes a queue it has put nothing into.
CloseUnused ==
    /\ closed' = TRUE
    /\ UNCHANGED <<items, cancelled, held, turnedAway>>

Cancel ==
    /\ cancelled' = TRUE
    /\ UNCHANGED <<items, closed, held, turnedAway>>

\* Only when every worker has left.
Drain ==
    /\ turnedAway = Worker
    /\ items' = <<>>
    /\ UNCHANGED <<closed, cancelled, held, turnedAway>>

Next ==
    \/ \E i \in Item : Push(i)
    \/ \E w \in Worker : Pop(w) \/ PopFails(w) \/ Finish(w) \/ Close(w)
    \/ CloseUnused \/ Cancel \/ Drain

Spec == Init /\ [][Next]_vars
=============================================================================
