------------------------------ MODULE NodePool ------------------------------
(***************************************************************************)
(* The pool of S3 endpoints: which nodes are isolated, how many faults each *)
(* has, the rotation that hands out live nodes, and the background prober  *)
(* that readmits isolated nodes.                                           *)
(*                                                                         *)
(* Go source: chunked_check_tool/nodepool.go and noderecovery.go.          *)
(*                                                                         *)
(* Every step here is one critical section of NodePool.mu, one atomic      *)
(* addition, or one step of the prober.  A node that is down answers every *)
(* request with a transport fault or a 5xx.                                *)
(***************************************************************************)
EXTENDS Integers, FiniteSets

CONSTANTS
    NumNodes,    \* endpoints of the configuration
    Threshold,   \* node_isolate_threshold
    Recovery,    \* node_recover_probe_interval > 0
    MaxOutages   \* bound: how often a node goes down

ASSUME PoolAssumption ==
    /\ NumNodes \in Nat \ {0}
    /\ Threshold \in Nat \ {0}
    /\ Recovery \in BOOLEAN
    /\ MaxOutages \in Nat

Node == 0 .. NumNodes - 1
NoNode == -1
RecoverSuccesses == 2

VARIABLES
    failed,      \* isolated nodes
    faults,      \* faultCounts
    prober,      \* the recovery goroutine: off, waiting, probing
    probing,     \* isolated nodes this round has still to probe
    streak,      \* the prober's map of consecutive healthy probes
    down,        \* nodes that answer with faults
    outages,     \* history: how often a node went down
    counted,     \* history: faults ever recorded against each node
    isolations   \* history: how often each node was isolated

poolVars   == <<failed, faults>>
proberVars == <<prober, probing, streak>>
netVars    == <<down, outages>>
pastVars   == <<counted, isolations>>
nodeVars   == <<poolVars, proberVars, netVars, pastVars>>

NodeTypeOK ==
    /\ failed \subseteq Node
    /\ faults \in [Node -> Nat]
    /\ prober \in {"off", "waiting", "probing"}
    /\ probing \subseteq Node
    /\ streak \in [Node -> 0 .. RecoverSuccesses - 1]
    /\ down \subseteq Node
    /\ outages \in Nat
    /\ counted \in [Node -> Nat] /\ isolations \in [Node -> Nat]

NodeInit ==
    /\ failed = {}
    /\ faults = [n \in Node |-> 0]
    /\ prober = IF Recovery THEN "waiting" ELSE "off"
    /\ probing = {}
    /\ streak = [n \in Node |-> 0]
    /\ down = {}
    /\ outages = 0
    /\ counted = [n \in Node |-> 0] /\ isolations = [n \in Node |-> 0]

-----------------------------------------------------------------------------
(* The rotation *)

\* How far node n is in the rotation that starts at i.
Distance(i, n) == (n - i) % NumNodes

\* The first of the offered nodes in that rotation.
FirstFrom(i, offered) ==
    IF offered = {} THEN NoNode
    ELSE CHOOSE n \in offered : \A m \in offered : Distance(i, n) <= Distance(i, m)

Assign(i) == FirstFrom(i, Node \ failed)

\* Mutant: the retry of a fault below the threshold may stay on the node.
AssignSame(n) == Assign(n)

AssignOther(n) ==
    LET others == Node \ (failed \cup {n})
    IN IF others # {} THEN FirstFrom(n, others) ELSE Assign(n)

-----------------------------------------------------------------------------
(* RecordFault is an atomic addition, and then, at the threshold, MarkFailed *)

CountFault(n) ==
    /\ faults' = [faults EXCEPT ![n] = @ + 1]
    /\ counted' = [counted EXCEPT ![n] = @ + 1]
    /\ UNCHANGED <<failed, isolations>>

\* Mutant: the fault after the threshold isolates.
AboveThreshold(n) == faults[n] + 1 > Threshold

AtThreshold(n) == faults[n] + 1 >= Threshold

MarkFailed(n) ==
    /\ failed' = failed \cup {n}
    /\ isolations' = IF n \in failed THEN isolations ELSE [isolations EXCEPT ![n] = @ + 1]
    /\ UNCHANGED <<faults, counted>>

Unmark(n) ==
    /\ failed' = failed \ {n}
    /\ faults' = IF n \in failed THEN [faults EXCEPT ![n] = 0] ELSE faults
    /\ UNCHANGED pastVars

-----------------------------------------------------------------------------
(* The prober: one round per tick over a snapshot of the isolated nodes *)

Tick ==
    /\ prober = "waiting"
    /\ failed # {}
    /\ prober' = "probing"
    /\ probing' = failed
    /\ UNCHANGED <<poolVars, streak, pastVars, netVars>>

UnhealthyProbe(n) ==
    /\ streak' = [streak EXCEPT ![n] = 0]
    /\ UNCHANGED <<poolVars, pastVars>>

\* Mutant: one healthy probe too many is asked for.
HealthyProbeLate(n) ==
    IF streak[n] + 1 > RecoverSuccesses
    THEN Unmark(n) /\ streak' = [streak EXCEPT ![n] = 0]
    ELSE streak' = [streak EXCEPT ![n] = @ + 1] /\ UNCHANGED <<poolVars, pastVars>>

HealthyProbe(n) ==
    IF streak[n] + 1 >= RecoverSuccesses
    THEN Unmark(n) /\ streak' = [streak EXCEPT ![n] = 0]
    ELSE streak' = [streak EXCEPT ![n] = @ + 1] /\ UNCHANGED <<poolVars, pastVars>>

Probe ==
    /\ prober = "probing"
    /\ \E n \in probing :
         /\ IF n \in down THEN UnhealthyProbe(n) ELSE HealthyProbe(n)
         /\ probing' = probing \ {n}
         /\ prober' = IF probing = {n} THEN "waiting" ELSE "probing"
    /\ UNCHANGED netVars

\* The prober looks at its context between rounds only.
StopProber ==
    /\ prober = "waiting"
    /\ prober' = "off"
    /\ UNCHANGED <<probing, streak, poolVars, pastVars, netVars>>

-----------------------------------------------------------------------------
(* The nodes themselves *)

GoDown(n) ==
    /\ outages < MaxOutages
    /\ n \notin down
    /\ down' = down \cup {n}
    /\ outages' = outages + 1
    /\ UNCHANGED <<poolVars, proberVars, pastVars>>

ComeUp(n) ==
    /\ n \in down
    /\ down' = down \ {n}
    /\ UNCHANGED <<outages, poolVars, proberVars, pastVars>>

=============================================================================
