---------------------------- MODULE Backup_proofs ---------------------------
(***************************************************************************)
(* Theorems of NodePool, S3Client and Backup, and their proofs.  The       *)
(* backup pipeline implements S3Client and inherits what is proved of the  *)
(* clients and the node pool.                                              *)
(***************************************************************************)
EXTENDS Backup, LeastElement, FiniteSetTheorems, TLAPS

-----------------------------------------------------------------------------
(* The rotation *)

\* A distance in the rotation is a number of nodes.
LEMMA DistanceIsNat ==
    ASSUME NEW i \in Int, NEW n \in Node
    PROVE  Distance(i, n) \in Nat
BY PoolAssumption DEF Distance, Node

\* The rotation finds an offered node, and none only when none is offered.
LEMMA FirstFromOffered ==
    ASSUME NEW i \in Int, NEW S \in SUBSET Node
    PROVE  IF S = {} THEN FirstFrom(i, S) = NoNode ELSE FirstFrom(i, S) \in S
<1>1. CASE S = {}
  BY <1>1 DEF FirstFrom
<1>2. CASE S # {}
  <2> DEFINE D == {Distance(i, n) : n \in S}
  <2>1. D \subseteq Nat /\ D # {}
    BY <1>2, DistanceIsNat
  <2>2. PICK d \in D : \A e \in D : d <= e
    BY <2>1, LeastElementExists
  <2>3. PICK n \in S : d = Distance(i, n)
    BY <2>2
  <2>4. \A m \in S : Distance(i, n) <= Distance(i, m)
    BY <2>2, <2>3
  <2> QED
    BY <1>2, <2>4 DEF FirstFrom
<1> QED
  BY <1>1, <1>2

\* Assign and AssignOther hand out live nodes; NoNode means that there is none.
LEMMA AssignTypes ==
    ASSUME NEW i \in Int, failed \subseteq Node
    PROVE  /\ Assign(i) \in (Node \ failed) \cup {NoNode}
           /\ AssignOther(i) \in (Node \ failed) \cup {NoNode}
<1>1. Assign(i) \in (Node \ failed) \cup {NoNode}
  BY FirstFromOffered, Node \ failed \in SUBSET Node DEF Assign
<1>2. AssignOther(i) \in (Node \ failed) \cup {NoNode}
  <2> DEFINE O == Node \ (failed \cup {i})
  <2>1. CASE O = {}
    BY <2>1, <1>1 DEF AssignOther
  <2>2. CASE O # {}
    <3>1. FirstFrom(i, O) \in O
      BY <2>2, FirstFromOffered, O \in SUBSET Node
    <3> QED
      BY <2>2, <3>1 DEF AssignOther
  <2> QED
    BY <2>1, <2>2
<1> QED
  BY <1>1, <1>2

-----------------------------------------------------------------------------
(* Types.  A client without a node makes no call: a node that a call counts, *)
(* isolates or leaves is a node of the pool.                                *)

CallsBound == \A c \in Client : call[c] # "idle" => bound[c] \in Node

Types == ClientTypeOK /\ CallsBound

\* The steps of the prober and of the nodes keep the types of the pool.
LEMMA PoolStepTypes ==
    ASSUME Types, PoolNext
    PROVE  Types'
<1> USE DEF Types, ClientTypeOK, NodeTypeOK, CallsBound
<1>1. CASE Tick /\ UNCHANGED <<bound, call>>
  BY <1>1 DEF Tick, poolVars, netVars, pastVars
<1>2. CASE Probe /\ UNCHANGED <<bound, call>>
  <2>1. PICK n \in probing :
           /\ IF n \in down THEN UnhealthyProbe(n) ELSE HealthyProbe(n)
           /\ probing' = probing \ {n}
           /\ prober' = IF probing = {n} THEN "waiting" ELSE "probing"
    BY <1>2 DEF Probe
  <2>2. /\ probing' \subseteq Node /\ prober' \in {"off", "waiting", "probing"}
        /\ down' \subseteq Node /\ outages' \in Nat
    BY <1>2, <2>1 DEF Probe, netVars
  <2>3. /\ failed' \subseteq Node /\ faults' \in [Node -> Nat]
        /\ counted' \in [Node -> Nat] /\ isolations' \in [Node -> Nat]
    BY <2>1 DEF UnhealthyProbe, HealthyProbe, Unmark, poolVars, pastVars
  <2>4. streak' \in [Node -> 0 .. RecoverSuccesses - 1]
    BY <2>1 DEF UnhealthyProbe, HealthyProbe, Unmark, RecoverSuccesses
  <2> QED
    BY <1>2, <2>2, <2>3, <2>4
<1>3. CASE StopProber /\ UNCHANGED <<bound, call>>
  BY <1>3 DEF StopProber, poolVars, netVars, pastVars
<1>4. ASSUME NEW n \in Node, (GoDown(n) \/ ComeUp(n)) /\ UNCHANGED <<bound, call>>
      PROVE  Types'
  BY <1>4 DEF GoDown, ComeUp, poolVars, proberVars, pastVars
<1> QED
  BY <1>1, <1>2, <1>3, <1>4 DEF PoolNext

\* The end of one call and the start of the next keep them.
LEMMA NextCallTypes ==
    ASSUME Types, UNCHANGED nodeVars, NEW c \in Client,
           NEW phase \in {"idle", "sent", "void"}, NextCall(c, phase)
    PROVE  Types'
<1> USE DEF Types, ClientTypeOK, NodeTypeOK, CallsBound
<1>1. NodeTypeOK'
  BY DEF nodeVars, poolVars, proberVars, netVars, pastVars
<1>2. call' \in [Client -> Phase] /\ bound' = bound
  BY DEF NextCall, Phase
<1>3. phase # "idle" => bound[c] \in Node
  BY DEF NextCall, MayCall
<1> QED
  BY <1>1, <1>2, <1>3 DEF NextCall

\* The steps of one client keep them.
LEMMA ClientStepTypes ==
    ASSUME Types, NEW c \in Client,
           \/ NewWorker(c) /\ UNCHANGED call
           \/ Begin(c) \/ Return(c)
           \/ MeetFault(c) \/ RecordFault(c) \/ Isolate(c)
           \/ \E attempt \in {"resent", "void"} : Rebind(c, attempt)
    PROVE  Types'
<1> USE DEF Types, ClientTypeOK, NodeTypeOK, CallsBound
<1> c \in Int
  BY ClientAssumption DEF Client
<1>1. CASE NewWorker(c) /\ UNCHANGED call
  <2>1. Assign(c) \in Node
    BY <1>1, AssignTypes DEF NewWorker
  <2> QED
    BY <1>1, <2>1 DEF NewWorker, nodeVars, poolVars, proberVars, netVars, pastVars
<1>2. CASE Begin(c)
  <2>1. PICK cancelled \in BOOLEAN : NextCall(c, FirstAttempt(cancelled))
    BY <1>2 DEF Begin
  <2>2. FirstAttempt(cancelled) \in {"idle", "sent", "void"}
    BY DEF FirstAttempt
  <2> QED
    BY <1>2, <2>1, <2>2, NextCallTypes DEF Begin
<1>3. CASE Return(c)
  BY <1>3, NextCallTypes DEF Return
<1>4. CASE MeetFault(c)
  BY <1>4 DEF MeetFault, Phase, nodeVars, poolVars, proberVars, netVars, pastVars
<1>5. CASE RecordFault(c)
  BY <1>5 DEF RecordFault, CountFault, Phase, proberVars, netVars
<1>6. CASE Isolate(c)
  BY <1>6 DEF Isolate, MarkFailed, Phase, proberVars, netVars
<1>7. ASSUME NEW attempt \in {"resent", "void"}, Rebind(c, attempt)
      PROVE  Types'
  <2>1. bound[c] \in Node /\ bound[c] \in Int
    BY <1>7 DEF Rebind, Node
  <2>2. Target(c) \in Node
    BY <1>7, <2>1, AssignTypes DEF Rebind, Target
  <2> QED
    BY <1>7, <2>2 DEF Rebind, Phase, nodeVars, poolVars, proberVars, netVars, pastVars
<1> QED
  BY <1>1, <1>2, <1>3, <1>4, <1>5, <1>6, <1>7

LEMMA InitTypes == ClientInit => Types
BY PoolAssumption, ClientAssumption
   DEF ClientInit, NodeInit, Types, ClientTypeOK, NodeTypeOK, CallsBound, Phase,
       RecoverSuccesses

LEMMA StepTypes == Types /\ [ClientNext]_clientVars => Types'
<1> SUFFICES ASSUME Types, [ClientNext]_clientVars PROVE Types'
  OBVIOUS
<1>1. CASE ClientNext
  BY <1>1, PoolStepTypes, ClientStepTypes DEF ClientNext
<1>2. CASE UNCHANGED clientVars
  BY <1>2 DEF clientVars, nodeVars, poolVars, proberVars, netVars, pastVars,
              Types, ClientTypeOK, NodeTypeOK, CallsBound
<1> QED
  BY <1>1, <1>2

\* For any number of nodes, clients and outages, all variables of the pool and of
\* the clients keep their types, and a client that is in a call has a node.
THEOREM ClientTypes == ClientSpec => []Types
BY InitTypes, StepTypes, PTL DEF ClientSpec

-----------------------------------------------------------------------------
(* Isolation.  What a client is about to isolate has its threshold of faults; *)
(* a readmission resets faults, never the history.                          *)

\* The clients that stand between RecordFault and MarkFailed for node n.
Marks(n) == {c \in Client : call[c] = "mark" /\ bound[c] = n}

\* The isolations of n that were made or are due.
Due(n) == isolations[n] + Cardinality(Marks(n))

\* The first needs the threshold of faults, every other one a fault more.
DueEarned == \A n \in Node : Due(n) > 0 => counted[n] >= Threshold - 1 + Due(n)

FailedWereIsolated == \A n \in failed : isolations[n] > 0

Counts ==
    /\ \A n \in Node : faults[n] <= counted[n]
    /\ FailedWereIsolated
    /\ DueEarned
    /\ ThresholdIsolates

\* A number of clients is a number.
LEMMA MarksFinite == \A n : IsFiniteSet(Marks(n)) /\ Cardinality(Marks(n)) \in Nat
<1>1. IsFiniteSet(Client)
  BY ClientAssumption, FS_Interval DEF Client
<1>2. \A n : Marks(n) \in SUBSET Client
  BY DEF Marks
<1> QED
  BY <1>1, <1>2, FS_Subset, FS_CardinalityType

\* What a step of the prober or of the nodes may do to the counts: nothing, or
\* to readmit one node.
Readmits(n) == Unmark(n) /\ UNCHANGED <<bound, call>>

LEMMA PoolStepCounts ==
    ASSUME PoolNext
    PROVE  \/ UNCHANGED <<poolVars, pastVars, bound, call>>
           \/ \E n \in probing : Readmits(n)
<1>1. CASE Probe /\ UNCHANGED <<bound, call>>
  <2>1. PICK n \in probing : IF n \in down THEN UnhealthyProbe(n) ELSE HealthyProbe(n)
    BY <1>1 DEF Probe
  <2> QED
    BY <1>1, <2>1 DEF UnhealthyProbe, HealthyProbe, Readmits
<1> QED
  BY <1>1 DEF PoolNext, Tick, StopProber, GoDown, ComeUp, poolVars, proberVars

\* A step that leaves the clients about to isolate as they are leaves what is due.
LEMMA MarksKeepDue ==
    ASSUME Types, DueEarned, UNCHANGED pastVars, \A n \in Node : Marks(n)' = Marks(n)
    PROVE  DueEarned'
BY DEF DueEarned, Due, pastVars

\* A readmitted node has neither faults nor an isolation to answer for.
LEMMA ReadmitCounts ==
    ASSUME Types, Counts, NEW n \in Node, Readmits(n)
    PROVE  Counts'
<1> USE DEF Types, ClientTypeOK, NodeTypeOK, Counts, Readmits, Unmark
<1>1. \A m \in Node : faults'[m] <= faults[m] /\ faults'[m] \in Nat
  OBVIOUS
<1>2. \A m \in Node : faults'[m] >= Threshold => m # n \/ n \notin failed
  BY PoolAssumption
<1>3. (\A m \in Node : faults[m] <= counted[m])'
  BY <1>1 DEF pastVars
<1>4. FailedWereIsolated'
  BY DEF FailedWereIsolated, pastVars
<1>5. DueEarned'
  <2>1. \A m \in Node : Marks(m)' = Marks(m)
    BY DEF Marks
  <2> QED
    BY <2>1, MarksKeepDue
<1>6. ThresholdIsolates'
  BY <1>1, <1>2, PoolAssumption DEF ThresholdIsolates
<1> QED
  BY <1>3, <1>4, <1>5, <1>6

\* A fault is recorded: the count it completes is in the hands of this client.
LEMMA RecordFaultCounts ==
    ASSUME Types, Counts, NEW c \in Client, RecordFault(c)
    PROVE  Counts'
<1> DEFINE n == bound[c]
<1> USE DEF Types, ClientTypeOK, NodeTypeOK, Counts
<1>1. n \in Node /\ call[c] = "count"
  BY DEF RecordFault, CallsBound
<1>2. /\ failed' = failed /\ isolations' = isolations /\ bound' = bound
      /\ faults' = [faults EXCEPT ![n] = @ + 1]
      /\ counted' = [counted EXCEPT ![n] = @ + 1]
      /\ call' = [call EXCEPT ![c] = IF faults[n] + 1 >= Threshold THEN "mark" ELSE "other"]
  BY DEF RecordFault, CountFault, AtThreshold
<1>3. \A m \in Node : /\ counted'[m] \in Nat
                      /\ counted'[m] >= counted[m] /\ faults'[m] <= counted'[m]
  BY <1>1, <1>2
<1>4. DueEarned'
  <2> SUFFICES ASSUME NEW m \in Node, Due(m)' > 0
               PROVE  counted'[m] >= Threshold - 1 + Due(m)'
    BY DEF DueEarned
  <2>1. Due(m) \in Nat /\ (Due(m) > 0 => counted[m] >= Threshold - 1 + Due(m))
    BY MarksFinite DEF DueEarned, Due
  <2>2. CASE m = n /\ faults[n] + 1 >= Threshold
    <3>1. Marks(m)' = Marks(m) \cup {c} /\ c \notin Marks(m)
      BY <1>1, <1>2, <2>2 DEF Marks
    <3>2. Cardinality(Marks(m)') = Cardinality(Marks(m)) + 1
      BY <3>1, MarksFinite, FS_AddElement
    <3>3. Due(m)' = Due(m) + 1
      BY <1>2, <3>2, MarksFinite DEF Due
    <3>4. counted'[m] = counted[m] + 1 /\ counted[m] >= faults[m]
      BY <1>1, <1>2, <2>2
    <3> QED
      BY <2>1, <2>2, <3>3, <3>4, PoolAssumption
  <2>3. CASE ~(m = n /\ faults[n] + 1 >= Threshold)
    <3>1. Marks(m)' = Marks(m)
      BY <1>1, <1>2, <2>3 DEF Marks
    <3>2. Due(m)' = Due(m)
      BY <1>2, <3>1 DEF Due
    <3> QED
      BY <1>3, <2>1, <3>2, PoolAssumption
  <2> QED
    BY <2>2, <2>3
<1>5. FailedWereIsolated'
  BY <1>2 DEF FailedWereIsolated
<1>6. ThresholdIsolates'
  <2> SUFFICES ASSUME NEW m \in Node, faults'[m] >= Threshold
               PROVE  m \in failed \/ \E d \in Client : call'[d] = "mark" /\ bound[d] = m
    BY <1>2 DEF ThresholdIsolates
  <2>1. CASE m = n
    BY <1>1, <1>2, <2>1
  <2>2. CASE m # n
    <3>1. m \in failed \/ \E d \in Client : call[d] = "mark" /\ bound[d] = m
      BY <1>2, <2>2 DEF ThresholdIsolates
    <3> QED
      BY <3>1, <2>2, <1>2
  <2> QED
    BY <2>1, <2>2
<1> QED
  BY <1>3, <1>4, <1>5, <1>6

\* The client isolates the node whose count it completed: an isolation that was
\* due is made, or found to be made already.
LEMMA IsolateCounts ==
    ASSUME Types, Counts, NEW c \in Client, Isolate(c)
    PROVE  Counts'
<1> DEFINE n == bound[c]
<1> USE DEF Types, ClientTypeOK, NodeTypeOK, Counts
<1>1. /\ failed' = failed \cup {n} /\ call[c] = "mark" /\ n \in Node
      /\ isolations' = IF n \in failed THEN isolations ELSE [isolations EXCEPT ![n] = @ + 1]
      /\ faults' = faults /\ counted' = counted /\ bound' = bound
      /\ call' = [call EXCEPT ![c] = "assign"]
  BY DEF Isolate, MarkFailed, CallsBound
<1>2. FailedWereIsolated'
  BY <1>1 DEF FailedWereIsolated
<1>3. DueEarned'
  <2> SUFFICES ASSUME NEW m \in Node, Due(m)' > 0
               PROVE  counted[m] >= Threshold - 1 + Due(m)'
    BY <1>1 DEF DueEarned
  <2>1. Due(m) \in Nat /\ (Due(m) > 0 => counted[m] >= Threshold - 1 + Due(m))
    BY MarksFinite DEF DueEarned, Due
  <2>2. Due(m)' \in Int /\ Due(m)' <= Due(m)
    <3>1. CASE m = n
      <4>1. Marks(m)' = Marks(m) \ {c} /\ c \in Marks(m)
        BY <1>1, <3>1 DEF Marks
      <4>2. Cardinality(Marks(m)') = Cardinality(Marks(m)) - 1
        BY <4>1, MarksFinite, FS_RemoveElement
      <4> QED
        BY <1>1, <4>2, MarksFinite DEF Due
    <3>2. CASE m # n
      <4>1. Marks(m)' = Marks(m)
        BY <1>1, <3>2 DEF Marks
      <4> QED
        BY <1>1, <3>2, <4>1, MarksFinite DEF Due
    <3> QED
      BY <3>1, <3>2
  <2> QED
    BY <2>1, <2>2, PoolAssumption
<1>4. ThresholdIsolates'
  BY <1>1 DEF ThresholdIsolates
<1> QED
  BY <1>1, <1>2, <1>3, <1>4

\* No other step of a client touches the counts or a client about to isolate.
LEMMA OtherStepCounts ==
    ASSUME Types, Counts, NEW c \in Client,
           \/ NewWorker(c) /\ UNCHANGED call
           \/ Begin(c) \/ Return(c) \/ MeetFault(c)
           \/ \E attempt \in {"resent", "void"} : Rebind(c, attempt)
    PROVE  Counts'
<1> USE DEF Types, ClientTypeOK, Counts
<1>1. UNCHANGED nodeVars
  BY DEF NewWorker, Begin, Return, MeetFault, Rebind
<1>2. failed' = failed /\ faults' = faults /\ counted' = counted /\ isolations' = isolations
  BY <1>1 DEF nodeVars, poolVars, pastVars
<1>3. call[c] # "mark" /\ call'[c] # "mark"
  <2>1. CASE NewWorker(c) /\ UNCHANGED call
    BY <2>1 DEF NewWorker, CallsBound, NoNode, Node
  <2>2. CASE Begin(c) \/ Return(c)
    BY <2>2 DEF Begin, Return, NextCall, FirstAttempt, Sent, NoLiveNode
  <2>3. CASE MeetFault(c)
    BY <2>3 DEF MeetFault
  <2>4. CASE \E attempt \in {"resent", "void"} : Rebind(c, attempt)
    BY <2>4 DEF Rebind
  <2> QED
    BY <2>1, <2>2, <2>3, <2>4
<1>4. \A d \in Client \ {c} : call'[d] = call[d] /\ bound'[d] = bound[d]
  BY DEF NewWorker, Begin, Return, NextCall, MeetFault, Rebind
<1>5. DueEarned'
  <2>1. \A m \in Node : Marks(m)' = Marks(m)
    BY <1>3, <1>4 DEF Marks
  <2> QED
    BY <1>2, <2>1, MarksKeepDue DEF pastVars
<1>6. FailedWereIsolated'
  BY <1>2 DEF FailedWereIsolated
<1>7. ThresholdIsolates'
  BY <1>2, <1>3, <1>4 DEF ThresholdIsolates
<1> QED
  BY <1>2, <1>5, <1>6, <1>7

LEMMA InitCounts == ClientInit => Counts
<1> SUFFICES ASSUME ClientInit PROVE Counts
  OBVIOUS
<1>1. DueEarned
  <2>1. \A n \in Node : Marks(n) = {}
    BY DEF ClientInit, Marks
  <2> QED
    BY <2>1, FS_EmptySet DEF ClientInit, NodeInit, DueEarned, Due
<1> QED
  BY <1>1, PoolAssumption
     DEF ClientInit, NodeInit, Counts, FailedWereIsolated, ThresholdIsolates

LEMMA StepCounts == Types /\ Counts /\ [ClientNext]_clientVars => Counts'
<1> SUFFICES ASSUME Types, Counts, [ClientNext]_clientVars PROVE Counts'
  OBVIOUS
<1>1. ASSUME UNCHANGED <<poolVars, pastVars, bound, call>> PROVE Counts'
  <2>1. DueEarned'
    <3>1. \A n \in Node : Marks(n)' = Marks(n)
      BY <1>1 DEF Marks
    <3> QED
      BY <1>1, <3>1, MarksKeepDue DEF Counts
  <2> QED
    BY <1>1, <2>1 DEF poolVars, pastVars, Counts, FailedWereIsolated, ThresholdIsolates
<1>2. CASE PoolNext
  BY <1>1, <1>2, PoolStepCounts, ReadmitCounts DEF Types, ClientTypeOK, NodeTypeOK
<1>3. CASE ClientNext /\ ~PoolNext
  BY <1>3, RecordFaultCounts, IsolateCounts, OtherStepCounts DEF ClientNext
<1>4. CASE UNCHANGED clientVars
  BY <1>1, <1>4 DEF clientVars, nodeVars
<1> QED
  BY <1>2, <1>3, <1>4

\* However the clients, the prober and the outages interleave, a node is isolated
\* only after its threshold of faults, and a count at the threshold is never
\* forgotten: RecordFault adds and compares in two steps, MarkFailed is a third,
\* and a readmission may come between any two.
THEOREM IsolationCorrect == ClientSpec => [](IsolationEarned /\ ThresholdIsolates)
<1>1. Types /\ Counts => IsolationEarned /\ ThresholdIsolates
  <2> SUFFICES ASSUME Types, Counts PROVE IsolationEarned /\ ThresholdIsolates
    OBVIOUS
  <2>1. ASSUME NEW n \in Node, isolations[n] > 0
        PROVE  counted[n] >= Threshold + isolations[n] - 1
    <3>1. isolations[n] \in Nat /\ counted[n] \in Nat /\ Cardinality(Marks(n)) \in Nat
      BY MarksFinite DEF Types, ClientTypeOK, NodeTypeOK
    <3>2. Due(n) > 0 => counted[n] >= Threshold - 1 + Due(n)
      BY DEF Counts, DueEarned
    <3> QED
      BY <2>1, <3>1, <3>2, PoolAssumption DEF Due
  <2> QED
    BY <2>1 DEF Counts, FailedWereIsolated, IsolationEarned
<1> QED
  BY <1>1, InitTypes, StepTypes, InitCounts, StepCounts, PTL DEF ClientSpec

-----------------------------------------------------------------------------
(* The backup pipeline and its clients *)

\* A client whose owner waits for no call is in no call.
Owners ==
    /\ stage \in [Client -> Stage]
    /\ call \in [Client -> Phase]
    /\ \A c \in Client : stage[c] \in {"idle", "gone"} => call[c] = "idle"

LEMMA WorkersAreClients == Worker \subseteq Client /\ Archiver \in Client
BY ClientAssumption DEF Worker, Client, Archiver

\* Whatever the owner of a client goes on to is a call of that client or none.
LEMMA GotoIsNextCall ==
    ASSUME Owners, NEW c \in Client, NEW s \in Stage, Goto(c, s)
    PROVE  /\ Owners'
           /\ \E phase \in {"idle", "sent", "void"} : NextCall(c, phase)
<1> DEFINE phase == IF s \in {"idle", "gone"} THEN "idle" ELSE FirstAttempt(Cancelled(c))
<1>1. phase \in {"idle", "sent", "void"} /\ phase \in Phase
  BY DEF FirstAttempt, Phase
<1>2. NextCall(c, phase) /\ stage' = [stage EXCEPT ![c] = s]
  BY DEF Goto
<1>3. Owners'
  BY <1>1, <1>2 DEF Owners, NextCall
<1> QED
  BY <1>1, <1>2, <1>3

\* Goto when the call before it ended.
Moves(c) == \E s \in Stage : Goto(c, s)

LEMMA FinishMoves ==
    ASSUME NEW w \in Worker, NEW r, Finish(w, r)
    PROVE  Moves(w)
BY DEF Finish, Moves, Stage

LEMMA ProceedMoves ==
    ASSUME NEW w \in Worker, NEW j, NEW s \in Stage, Proceed(w, j, s)
    PROVE  Moves(w)
BY DEF Proceed, Moves

LEMMA NextPartMoves ==
    ASSUME NEW w \in Worker, NEW j, NextPart(w, j)
    PROVE  Moves(w)
<1>1. \E s \in {"complete", "abort", "fetch"} : Proceed(w, j, s)
  BY DEF NextPart
<1> QED
  BY <1>1, ProceedMoves DEF Stage

\* Handle waits for the end of a call before it goes on.
LEMMA HandleEndsCall ==
    ASSUME NEW w \in Worker, Handle(w)
    PROVE  /\ Sent(w) \/ call[w] = "void" \/ NoLiveNode(w)
           /\ Moves(w)
           /\ UNCHANGED nodeVars
<1> DEFINE Over == Sent(w) \/ call[w] = "void" \/ NoLiveNode(w)
<1>1. Answered(w) => Over
  BY DEF Answered, Answers
<1>2. Errs(w) => Over
  BY DEF Errs, Answers, FailsToAnswer
<1>3. \A there \in BOOLEAN : Missing(w, there) => Over
  BY DEF Missing, Answers
<1>4. CASE HeadAnswered(w)
  <2>1. Over
    BY <1>4, <1>1 DEF HeadAnswered
  <2> DEFINE j == [job[w] EXCEPT !.ver = src[TaskKey(w)]]
  <2>2. Finish(w, "mismatch") \/ \E s \in {"create", "get", "put"} : Proceed(w, j, s)
    BY <1>4 DEF HeadAnswered
  <2> HIDE DEF j
  <2>3. Moves(w)
    BY <2>2, FinishMoves, ProceedMoves DEF Stage
  <2> QED
    BY <2>1, <2>3 DEF Handle
<1>5. CASE StreamOpened(w)
  <2>1. Over
    BY <1>5, <1>1 DEF StreamOpened
  <2>2. \E j : \E s \in {"put", "part"} : Proceed(w, j, s)
    BY <1>5 DEF StreamOpened
  <2>3. Moves(w)
    BY <2>2, ProceedMoves DEF Stage
  <2> QED
    BY <2>1, <2>3 DEF Handle
<1>6. CASE CreateAnswered(w) \/ PartAnswered(w)
  <2>1. Over
    BY <1>6, <1>1 DEF CreateAnswered, PartAnswered
  <2>2. \E j : NextPart(w, j)
    BY <1>6 DEF CreateAnswered, PartAnswered
  <2>3. Moves(w)
    BY <2>2, NextPartMoves
  <2> QED
    BY <2>1, <2>3 DEF Handle
<1>7. CASE StoreAnswered(w)
  BY <1>7, <1>1, FinishMoves DEF StoreAnswered, Handle
<1>8. CASE HeadFails(w) \/ RelayFails(w)
  <2>1. Over
    BY <1>8, <1>2, <1>3 DEF HeadFails, RelayFails, Missing, Answers
  <2>2. \E r : Finish(w, r)
    BY <1>8 DEF HeadFails, RelayFails
  <2> QED
    BY <2>1, <2>2, FinishMoves DEF Handle
<1>9. CASE PartFails(w)
  <2>1. Over
    BY <1>9, <1>2, <1>3 DEF PartFails, Missing, Answers
  <2>2. Moves(w)
    BY <1>9, ProceedMoves, "abort" \in Stage DEF PartFails, Stage
  <2> QED
    BY <2>1, <2>2 DEF Handle
<1>10. CASE AbortReturns(w)
  BY <1>10, <1>1, <1>2, FinishMoves DEF AbortReturns, Handle
<1> QED
  BY <1>4, <1>5, <1>6, <1>7, <1>8, <1>9, <1>10 DEF Handle

\* A client step that ends a call and moves its owner is a Return.
LEMMA MoveReturns ==
    ASSUME Owners, NEW c \in Client, Moves(c), UNCHANGED nodeVars,
           Sent(c) \/ call[c] = "void" \/ NoLiveNode(c)
    PROVE  Owners' /\ ClientNext
<1>1. Owners' /\ \E phase \in {"idle", "sent", "void"} : NextCall(c, phase)
  BY GotoIsNextCall DEF Moves
<1> QED
  BY <1>1 DEF ClientNext, Return

\* A client step that begins a call.
LEMMA MoveBegins ==
    ASSUME Owners, NEW c \in Client, NEW s \in Stage \ {"idle", "gone"},
           stage[c] = "idle", Goto(c, s), UNCHANGED nodeVars
    PROVE  Owners' /\ ClientNext
<1>1. Owners'
  BY GotoIsNextCall
<1>2. call[c] = "idle" /\ NextCall(c, FirstAttempt(Cancelled(c)))
  BY DEF Owners, Goto
<1>3. \E cancelled \in BOOLEAN : NextCall(c, FirstAttempt(cancelled))
  <2>1. CASE Cancelled(c)
    <3>1. FirstAttempt(Cancelled(c)) = FirstAttempt(TRUE)
      BY <2>1 DEF FirstAttempt
    <3> QED
      BY <1>2, <3>1
  <2>2. CASE ~Cancelled(c)
    <3>1. FirstAttempt(Cancelled(c)) = FirstAttempt(FALSE)
      BY <2>2 DEF FirstAttempt
    <3> QED
      BY <1>2, <3>1
  <2> QED
    BY <2>1, <2>2
<1>4. Begin(c)
  BY <1>2, <1>3 DEF Begin
<1> QED
  BY <1>1, <1>4 DEF ClientNext

LEMMA WorkerSteps ==
    ASSUME Owners, NEW w \in Worker, WorkerStep(w)
    PROVE  Owners' /\ [ClientNext]_clientVars
<1> w \in Client
  BY WorkersAreClients
<1>1. CASE TakeTask(w)
  <2>1. stage[w] = "idle" /\ Goto(w, "head") /\ UNCHANGED nodeVars
    BY <1>1 DEF TakeTask, Proceed
  <2> QED
    BY <2>1, MoveBegins, "head" \in Stage \ {"idle", "gone"} DEF Stage
<1>2. CASE Handle(w)
  BY <1>2, HandleEndsCall, MoveReturns
<1>3. CASE WorkerExits(w)
  <2>1. /\ stage[w] = "idle" /\ Goto(w, "gone") /\ UNCHANGED nodeVars
    BY <1>3 DEF WorkerExits
  <2>2. Owners'
    BY <2>1, GotoIsNextCall, "gone" \in Stage DEF Stage
  <2>3. call' = call /\ bound' = bound
    BY <2>1 DEF Goto, NextCall, Owners
  <2> QED
    BY <2>1, <2>2, <2>3 DEF clientVars
<1> QED
  BY <1>1, <1>2, <1>3 DEF WorkerStep

LEMMA MainSteps ==
    ASSUME Owners, MainStep
    PROVE  Owners' /\ [ClientNext]_clientVars
<1>1. ASSUME NEW c \in Client, CreateClient(c)
      PROVE  Owners' /\ ClientNext
  BY <1>1 DEF CreateClient, NewWorker, ClientNext, Owners, taskVars
<1>2. CASE StartArchive
  BY <1>1, <1>2, WorkersAreClients DEF StartArchive
<1>3. CASE StartWorker
  BY <1>1, <1>3, WorkersAreClients DEF StartWorker, NextWorker
<1>4. CASE SendArchive
  <2>1. stage[Archiver] = "idle" /\ Goto(Archiver, "archive") /\ UNCHANGED nodeVars
    BY <1>4 DEF SendArchive
  <2> QED
    BY <2>1, MoveBegins, WorkersAreClients, "archive" \in Stage \ {"idle", "gone"} DEF Stage
<1>5. CASE ArchiveReturns
  <2>1. Sent(Archiver) \/ call[Archiver] = "void" \/ NoLiveNode(Archiver)
    BY <1>5 DEF ArchiveReturns, Answers, Errs, FailsToAnswer
  <2>2. Moves(Archiver) /\ UNCHANGED nodeVars
    BY <1>5 DEF ArchiveReturns, Moves, Stage
  <2> QED
    BY <2>1, <2>2, MoveReturns, WorkersAreClients
<1>6. CASE StartReader \/ Finished
  BY <1>6 DEF StartReader, Finished, Owners, clientVars, taskVars
<1> QED
  BY <1>2, <1>3, <1>4, <1>5, <1>6 DEF MainStep

LEMMA RetrySteps ==
    ASSUME Owners, NEW c \in Client, RetryLeg(c)
    PROVE  Owners' /\ ClientNext
<1>1. stage' = stage
  BY DEF RetryLeg, taskVars
<1>2. \/ MeetFault(c) \/ RecordFault(c) \/ Isolate(c)
      \/ \E attempt \in {"resent", "void"} : Rebind(c, attempt)
  BY DEF RetryLeg
<1>3. call[c] # "idle" /\ \E phase \in Phase : call' = [call EXCEPT ![c] = phase]
  BY <1>2 DEF MeetFault, RecordFault, Isolate, Rebind, Phase
<1>4. Owners'
  BY <1>1, <1>3 DEF Owners
<1> QED
  BY <1>2, <1>4 DEF ClientNext

LEMMA NodeSteps ==
    ASSUME Owners, Nodes
    PROVE  Owners' /\ ClientNext
<1>1. UNCHANGED <<bound, call, stage>>
  BY DEF Nodes, backupVars, taskVars
<1>2. Tick \/ Probe \/ StopProber \/ \E n \in Node : GoDown(n) \/ ComeUp(n)
  BY DEF Nodes
<1> QED
  BY <1>1, <1>2 DEF Owners, ClientNext, PoolNext

LEMMA OtherSteps ==
    ASSUME Owners,
           ReaderStep \/ Signal \/ (\E k \in Key : ObjectChanges(k)) \/ Terminated
    PROVE  Owners' /\ UNCHANGED clientVars
<1>1. UNCHANGED <<clientVars, stage>>
  BY DEF ReaderStep, ReadLine, SendLine, EndOfFile, Signal, ObjectChanges, Terminated,
         taskVars, vars, backupVars
<1> QED
  BY <1>1 DEF Owners, clientVars

LEMMA InitClients == Init => Owners /\ ClientInit
BY DEF Init, Owners, ClientInit, Stage, Phase

LEMMA StepClients == Owners /\ [Next]_vars => Owners' /\ [ClientNext]_clientVars
<1> SUFFICES ASSUME Owners, [Next]_vars PROVE Owners' /\ [ClientNext]_clientVars
  OBVIOUS
<1>1. CASE Next
  BY <1>1, WorkerSteps, MainSteps, RetrySteps, NodeSteps, OtherSteps DEF Next
<1>2. CASE UNCHANGED vars
  BY <1>2 DEF vars, backupVars, taskVars, clientVars, Owners
<1> QED
  BY <1>1, <1>2

\* Every step of the pipeline is a step of one client, a step of the pool, or a
\* step neither of them notices: no call of a worker is made before the one in
\* progress ended, no call is repeated more than once, and no node is isolated or readmitted
\* but by the retry and the prober (Handle, runBackup, handleNodeFault).
THEOREM ClientsImplemented == Spec => Clients
BY InitClients, StepClients, PTL DEF Spec, ClientSpec, Clients

\* In a backup, too, isolation is earned and the threshold never missed.
THEOREM BackupIsolation == Spec => [](IsolationEarned /\ ThresholdIsolates)
BY ClientsImplemented, IsolationCorrect, PTL DEF Clients

-----------------------------------------------------------------------------
(* The tasks.  What a worker has found out about its object follows from the *)
(* call it waits for.                                                       *)

Working == {"head", "get", "put", "create", "fetch", "part", "complete", "abort"}
Uploading == {"fetch", "part", "complete", "abort"}

JobShape(j, s) ==
    /\ j \in Job /\ j.line \in Line
    /\ s # "head" => j.ver \in 1 .. Len(Versions[File[j.line].key])
    /\ s \in {"get", "put"} => ~IsMulti(j.line)
    /\ s \in {"create"} \cup Uploading => IsMulti(j.line)
    /\ s \in {"head", "create"} => j.parts = <<>>
    /\ s \in {"fetch", "part"} => Len(j.parts) < Len(File[j.line].cut)
    /\ IF s \in Uploading THEN j.up \in Upload ELSE j.up = NoUpload

Tasks ==
    /\ stage \in [Client -> Stage] /\ job \in [Worker -> Job]
    /\ stage[Archiver] \in {"idle", "archive", "gone"}
    /\ stage[Archiver] = "archive" => main = "archive"
    /\ \A w \in Worker :
         IF stage[w] \in {"idle", "gone"} THEN job[w] = NoJob
         ELSE stage[w] \in Working /\ JobShape(job[w], stage[w])

RunTypes ==
    /\ main \in {"init", "archive", "workers", "waiting", "ended", "failed"}
    /\ sig \in 0 .. 2
    /\ reader \in {"none", "reading", "sending", "done"}
    /\ taken \in 0 .. Len(File) /\ (reader = "sending" => taken < Len(File))
    /\ ch \in Seq(Line) /\ Len(ch) <= ChCap
    /\ changes \in Nat /\ refusals \in Nat /\ lost \in BOOLEAN

BucketTypes ==
    /\ src \in [Key -> Nat] /\ \A k \in Key : src[k] <= Len(Versions[k])
    /\ dst \in [Key -> Copy] /\ uploads \subseteq Upload
    /\ results \in [Line -> Seq(Result)]

\* Only the calls that are repeated have a second leg, and only a second signal makes a
\* worker's call void.
Attempts ==
    /\ \A c \in Client : call[c] \notin {"idle", "sent", "void"} => Repeatable(c)
    /\ \A w \in Worker : call[w] = "void" => sig = 2

\* The two ways a worker leaves a call.
EndsWith(w, r) ==
    /\ results' = [results EXCEPT ![job[w].line] = Append(@, r)]
    /\ job' = [job EXCEPT ![w] = NoJob] /\ stage' = [stage EXCEPT ![w] = "idle"]
GoesOn(w, j, s) ==
    /\ results' = results
    /\ job' = [job EXCEPT ![w] = j] /\ stage' = [stage EXCEPT ![w] = s]

LEMMA ElementOf ==
    ASSUME NEW S, NEW s \in Seq(S), NEW i \in 1 .. Len(s)
    PROVE  s[i] \in S
OBVIOUS

\* Constants as the models use them.
LEMMA FileTypes ==
    ASSUME NEW l \in Line
    PROVE  /\ File[l].key \in Key /\ File[l].cut \in Seq(Nat)
           /\ IsMulti(l) => Len(File[l].cut) > 0
           /\ Versions[File[l].key] \in Seq([multi : BOOLEAN, cut : Seq(Nat), size : Nat])
           /\ \A v \in 1 .. Len(Versions[File[l].key]) : Versions[File[l].key][v].size \in Nat
<1>1. File[l] \in [key : Key, shape : Shape, cut : Seq(Nat)]
  <2> DEFINE T == [key : Key, shape : Shape, cut : Seq(Nat)]
  <2>1. File \in Seq(T) /\ l \in 1 .. Len(File)
    BY BackupAssumption DEF Line
  <2> HIDE DEF T
  <2>2. File[l] \in T
    BY <2>1, ElementOf
  <2> QED
    BY <2>2 DEF T
<1>2. Versions[File[l].key] \in Seq([multi : BOOLEAN, cut : Seq(Nat), size : Nat])
  BY <1>1, BackupAssumption
<1>3. \A v \in 1 .. Len(Versions[File[l].key]) :
        Versions[File[l].key][v] \in [multi : BOOLEAN, cut : Seq(Nat), size : Nat]
  <2> DEFINE T == [multi : BOOLEAN, cut : Seq(Nat), size : Nat]
  <2> HIDE DEF T
  <2>1. Versions[File[l].key] \in Seq(T)
    BY <1>2 DEF T
  <2>2. \A v \in 1 .. Len(Versions[File[l].key]) : Versions[File[l].key][v] \in T
    BY <2>1, ElementOf
  <2> QED
    BY <2>2 DEF T
<1>4. IsMulti(l) => Len(File[l].cut) > 0
  BY BackupAssumption DEF IsMulti
<1> QED
  BY <1>1, <1>2, <1>3, <1>4

LEMMA PartEndIsNat ==
    ASSUME NEW cut \in Seq(Nat), NEW size \in Nat, NEW i \in Nat
    PROVE  PartEnd(cut, size, i) \in Nat
BY DEF PartEnd

LEMMA WorkerIsNotArchiver == \A w \in Worker : w # Archiver /\ w \in Client
BY ClientAssumption DEF Worker, Archiver, Client

LEMMA TaskData ==
    ASSUME Tasks, NEW w \in Worker, stage[w] \in Working
    PROVE  /\ JobShape(job[w], stage[w])
           /\ job[w] \in Job /\ job[w].line \in Line /\ job[w].ver \in Nat /\ job[w].got \in Piece
           /\ job[w].parts \in Seq(Piece) /\ job[w].up \in Upload \cup {NoUpload}
           /\ TaskKey(w) = File[job[w].line].key /\ TaskKey(w) \in Key
           /\ w \in Client
<1>1. JobShape(job[w], stage[w])
  BY DEF Tasks, Working
<1>2. job[w] \in Job /\ job[w].line \in Line
  BY <1>1 DEF JobShape
<1>3. TaskKey(w) = File[job[w].line].key /\ TaskKey(w) \in Key
  BY <1>2, FileTypes DEF TaskKey
<1> QED
  BY <1>1, <1>2, <1>3, WorkerIsNotArchiver DEF Job

\* The range a worker asks for.
LEMMA RangeTypes ==
    ASSUME Tasks, NEW w \in Worker, stage[w] \in {"get", "fetch"}
    PROVE  RangeFrom(w) \in Nat /\ RangeTo(w) \in Nat
<1>1. /\ JobShape(job[w], stage[w]) /\ job[w].line \in Line /\ job[w].parts \in Seq(Piece)
      /\ TaskKey(w) = File[job[w].line].key
  BY TaskData DEF Working
<1>2. HeadSize(w) \in Nat
  BY <1>1, FileTypes DEF JobShape, HeadSize
<1>3. CASE stage[w] = "get"
  BY <1>1, <1>2, <1>3 DEF JobShape, RangeFrom, RangeTo, Uploading
<1>4. CASE stage[w] = "fetch"
  <2>1. PartNumber(w) \in 1 .. Len(File[job[w].line].cut) /\ PartNumber(w) \in Nat
    <3>1. Len(job[w].parts) \in Nat /\ Len(File[job[w].line].cut) \in Nat
      BY <1>1, FileTypes
    <3> QED
      BY <1>1, <1>4, <3>1 DEF JobShape, PartNumber
  <2>2. File[job[w].line].cut[PartNumber(w)] \in Nat
    BY <1>1, <2>1, FileTypes, ElementOf
  <2>3. PartEnd(File[job[w].line].cut, HeadSize(w), PartNumber(w)) \in Nat
    BY <1>1, <1>2, <2>1, FileTypes, PartEndIsNat
  <2> QED
    BY <1>2, <2>2, <2>3 DEF RangeFrom, RangeTo
<1> QED
  BY <1>3, <1>4

LEMMA BytesArePiece ==
    ASSUME NEW v \in Nat, NEW a \in Nat, NEW b \in Nat
    PROVE  Bytes(v, a, b) \in Piece
BY DEF Bytes, Piece

LEMMA FinishEnds ==
    ASSUME NEW w \in Worker, NEW r, Finish(w, r)
    PROVE  EndsWith(w, r)
BY DEF Finish, Goto, EndsWith

LEMMA ProceedGoesOn ==
    ASSUME NEW w \in Worker, NEW j, NEW s, Proceed(w, j, s)
    PROVE  GoesOn(w, j, s)
BY DEF Proceed, Goto, GoesOn

Continues(w) ==
    \E j \in Job, s \in Working : GoesOn(w, j, s) /\ j.line = job[w].line /\ JobShape(j, s)

\* Where the relay goes after a part.
LEMMA NextPartContinues ==
    ASSUME NEW w \in Worker, NEW j \in Job, NextPart(w, j), j.line = job[w].line,
           j.line \in Line, IsMulti(j.line), j.ver \in 1 .. Len(Versions[File[j.line].key]),
           j.up \in Upload, Len(j.parts) <= Len(File[j.line].cut)
    PROVE  /\ \E s \in {"complete", "abort", "fetch"} : GoesOn(w, j, s)
           /\ Continues(w)
<1>1. Len(j.parts) \in Nat /\ Len(File[j.line].cut) \in Nat
  BY FileTypes DEF Job
<1>2. PICK s \in {"complete", "abort", "fetch"} :
        Proceed(w, j, s) /\ (s = "fetch" => Len(j.parts) # Len(File[j.line].cut))
  BY DEF NextPart
<1>3. GoesOn(w, j, s)
  BY <1>2, ProceedGoesOn
<1>4. JobShape(j, s)
  BY <1>1, <1>2 DEF JobShape, Uploading
<1>5. s \in Working
  BY <1>2 DEF Working
<1> QED
  BY <1>2, <1>3, <1>4, <1>5 DEF Continues

\* Every step of Handle reports the line or goes on with it to a call that fits.
LEMMA HandleShape ==
    ASSUME Tasks, RunTypes, BucketTypes, Owners, NEW w \in Worker, Handle(w)
    PROVE  /\ stage[w] \in Working
           /\ (\E r \in Result : EndsWith(w, r)) \/ Continues(w)
<1> USE DEF Result
<1>0. stage[w] \in Working
  BY DEF Handle, HeadAnswered, HeadFails, StreamOpened, CreateAnswered, PartAnswered,
         StoreAnswered, RelayFails, PartFails, AbortReturns, Working
<1>1. /\ JobShape(job[w], stage[w]) /\ job[w] \in Job
      /\ job[w].line \in Line /\ job[w].ver \in Nat /\ job[w].got \in Piece
      /\ job[w].parts \in Seq(Piece) /\ job[w].up \in Upload \cup {NoUpload}
      /\ TaskKey(w) = File[job[w].line].key /\ TaskKey(w) \in Key
  BY <1>0, TaskData
<1>2. CASE HeadAnswered(w)
  <2> DEFINE j == [job[w] EXCEPT !.ver = src[TaskKey(w)]]
  <2>1. /\ stage[w] = "head" /\ src[TaskKey(w)] # 0
        /\ \/ Finish(w, "mismatch")
           \/ IsMulti(j.line) /\ Proceed(w, j, "create")
           \/ ~IsMulti(j.line) /\ (Proceed(w, j, "get") \/ Proceed(w, j, "put"))
    BY <1>2 DEF HeadAnswered
  <2>2. src[TaskKey(w)] \in 1 .. Len(Versions[File[job[w].line].key])
    BY <1>1, <2>1, FileTypes DEF BucketTypes
  <2>3. /\ j \in Job /\ j.line = job[w].line /\ j.up = job[w].up /\ j.parts = job[w].parts
        /\ j.ver = src[TaskKey(w)]
    BY <1>1, <2>2 DEF Job
  <2>4. j.up = NoUpload
    BY <1>1, <2>1, <2>3 DEF JobShape, Uploading
  <2>5. job[w].parts = <<>>
    BY <1>1, <2>1 DEF JobShape
  <2> HIDE DEF j
  <2>6. ASSUME IsMulti(j.line) PROVE JobShape(j, "create")
    BY <1>1, <2>2, <2>3, <2>4, <2>5, <2>6 DEF JobShape, Uploading
  <2>7. ASSUME ~IsMulti(j.line), NEW s \in {"get", "put"} PROVE JobShape(j, s)
    BY <1>1, <2>2, <2>3, <2>4, <2>7 DEF JobShape, Uploading
  <2> QED
    BY <1>0, <2>1, <2>3, <2>6, <2>7, FinishEnds, ProceedGoesOn DEF Continues, Working
<1>3. CASE StreamOpened(w)
  <2> DEFINE p == Bytes(src[TaskKey(w)], RangeFrom(w), RangeTo(w))
             j == [job[w] EXCEPT !.got = p]
             s == IF stage[w] = "get" THEN "put" ELSE "part"
  <2>1. stage[w] \in {"get", "fetch"} /\ Proceed(w, j, s)
    BY <1>3 DEF StreamOpened
  <2>2. p \in Piece
    BY <1>1, <2>1, RangeTypes, BytesArePiece DEF BucketTypes
  <2>3. /\ j \in Job /\ j.line = job[w].line /\ j.up = job[w].up /\ j.parts = job[w].parts
        /\ j.ver = job[w].ver
    BY <1>1, <2>2 DEF Job
  <2> HIDE DEF j, p
  <2>4. JobShape(j, s) /\ s \in Working
    BY <1>1, <2>1, <2>3 DEF JobShape, Uploading, Working
  <2> HIDE DEF s
  <2> QED
    BY <1>0, <2>1, <2>3, <2>4, ProceedGoesOn DEF Continues
<1>4. CASE CreateAnswered(w)
  <2> DEFINE u == <<job[w].line, call[w]>>
             j == [job[w] EXCEPT !.up = u]
  <2>1. stage[w] = "create" /\ Answered(w) /\ NextPart(w, j)
    BY <1>4 DEF CreateAnswered
  <2>2. u \in Upload
    BY <1>1, <2>1 DEF Answered, Answers, Sent, Upload
  <2>3. /\ j \in Job /\ j.line = job[w].line /\ j.up = u /\ j.parts = job[w].parts
        /\ j.ver = job[w].ver
    BY <1>1, <2>2 DEF Job
  <2> HIDE DEF j, u
  <2>4. Len(j.parts) <= Len(File[j.line].cut)
    <3>1. j.parts = <<>>
      BY <1>1, <2>1, <2>3 DEF JobShape
    <3>2. Len(File[j.line].cut) \in Nat
      BY <1>1, <2>3, FileTypes
    <3> QED
      BY <3>1, <3>2
  <2>5. IsMulti(j.line) /\ j.ver \in 1 .. Len(Versions[File[j.line].key]) /\ j.line \in Line
    BY <1>1, <2>1, <2>3 DEF JobShape
  <2> QED
    BY <1>0, <2>1, <2>2, <2>3, <2>4, <2>5, NextPartContinues
<1>5. CASE PartAnswered(w)
  <2> DEFINE j == [job[w] EXCEPT !.parts = Append(@, job[w].got), !.got = NoPiece]
  <2>1. stage[w] = "part" /\ NextPart(w, j)
    BY <1>5 DEF PartAnswered
  <2>2. NoPiece \in Piece /\ Append(job[w].parts, job[w].got) \in Seq(Piece)
        /\ Len(Append(job[w].parts, job[w].got)) = Len(job[w].parts) + 1
    BY <1>1 DEF NoPiece, Piece
  <2>3. /\ j \in Job /\ j.line = job[w].line /\ j.up = job[w].up /\ j.ver = job[w].ver
        /\ j.parts = Append(job[w].parts, job[w].got)
    BY <1>1, <2>2 DEF Job
  <2>4. job[w].up \in Upload
    BY <1>1, <2>1 DEF JobShape, Uploading
  <2> HIDE DEF j
  <2>5. Len(j.parts) <= Len(File[j.line].cut)
    <3>1. Len(job[w].parts) < Len(File[job[w].line].cut)
      BY <1>1, <2>1 DEF JobShape
    <3>2. Len(job[w].parts) \in Nat /\ Len(File[job[w].line].cut) \in Nat
      BY <1>1, FileTypes
    <3> QED
      BY <2>2, <2>3, <3>1, <3>2
  <2>6. IsMulti(j.line) /\ j.ver \in 1 .. Len(Versions[File[j.line].key]) /\ j.line \in Line
    BY <1>1, <2>1, <2>3 DEF JobShape, Uploading
  <2> QED
    BY <1>0, <2>1, <2>3, <2>4, <2>5, <2>6, NextPartContinues
<1>6. CASE StoreAnswered(w)
  BY <1>0, <1>6, FinishEnds DEF StoreAnswered
<1>7. CASE HeadFails(w) \/ RelayFails(w) \/ AbortReturns(w)
  BY <1>0, <1>7, FinishEnds DEF HeadFails, RelayFails, AbortReturns
<1>8. CASE PartFails(w)
  <2>1. stage[w] \in {"fetch", "part", "complete"} /\ GoesOn(w, job[w], "abort")
    BY <1>8, ProceedGoesOn DEF PartFails
  <2>2. JobShape(job[w], "abort") /\ "abort" \in Working
    BY <1>1, <2>1 DEF JobShape, Uploading, Working
  <2> QED
    BY <1>0, <1>1, <2>1, <2>2 DEF Continues
<1> QED
  BY <1>2, <1>3, <1>4, <1>5, <1>6, <1>7, <1>8 DEF Handle

\* How the call of a task ends, and what S3 has done by then.
LEMMA HandleCall ==
    ASSUME NEW w \in Worker, Handle(w)
    PROVE  /\ UNCHANGED <<nodeVars, main, sig, reader, taken, ch, src, changes>>
           /\ \/ Answered(w)
              \/ Errs(w) /\ stage[w] # "idle"
              \/ stage[w] \in {"head", "get", "fetch"} /\ UNCHANGED <<dst, uploads, refusals, lost>>
           /\ (dst' = dst /\ uploads' = uploads) \/ (Executes(w) /\ Sent(w))
<1>1. ASSUME Answered(w) PROVE Executes(w) /\ Sent(w)
  BY <1>1 DEF Answered, Answers
<1>2. ASSUME Errs(w)
      PROVE  (dst' = dst /\ uploads' = uploads) \/ (Executes(w) /\ Sent(w))
  BY <1>2 DEF Errs, Skipped
<1>3. ASSUME NEW there, Missing(w, there)
      PROVE  UNCHANGED <<dst, uploads, refusals, lost>>
  BY <1>3 DEF Missing, Skipped
<1>4. UNCHANGED <<nodeVars, main, sig, reader, taken, ch, src, changes>>
  BY DEF Handle, runVars
<1>5. \/ Answered(w)
      \/ Errs(w) /\ stage[w] # "idle"
      \/ stage[w] \in {"head", "get", "fetch"} /\ UNCHANGED <<dst, uploads, refusals, lost>>
  <2>1. CASE HeadAnswered(w) \/ StreamOpened(w) \/ CreateAnswered(w) \/ PartAnswered(w)
             \/ StoreAnswered(w) \/ AbortReturns(w)
    BY <2>1 DEF HeadAnswered, StreamOpened, CreateAnswered, PartAnswered, StoreAnswered,
                AbortReturns
  <2>2. CASE HeadFails(w)
    BY <1>3, <2>2 DEF HeadFails
  <2>3. CASE RelayFails(w)
    BY <1>3, <2>3 DEF RelayFails
  <2>4. CASE PartFails(w)
    BY <1>3, <2>4 DEF PartFails
  <2> QED
    BY <2>1, <2>2, <2>3, <2>4 DEF Handle
<1> QED
  BY <1>1, <1>2, <1>4, <1>5

LEMMA CopyTypes ==
    ASSUME Tasks, NEW w \in Worker, stage[w] \in Working
    PROVE  MyCopy(w) \in Copy
<1>1. job[w].got \in Piece /\ job[w].parts \in Seq(Piece)
  BY TaskData
<1>2. <<job[w].got>> \in Seq(Piece)
  BY <1>1
<1> QED
  BY <1>1, <1>2 DEF MyCopy, Copy

LEMMA HandleBuckets ==
    ASSUME Tasks, RunTypes, BucketTypes, NEW w \in Worker, Handle(w), stage[w] \in Working
    PROVE  /\ dst' \in [Key -> Copy] /\ uploads' \subseteq Upload
           /\ refusals' \in Nat /\ lost' \in BOOLEAN /\ (lost => lost')
<1>1. /\ job[w].line \in Line /\ TaskKey(w) \in Key /\ MyCopy(w) \in Copy
  BY TaskData, CopyTypes
<1>2. ASSUME Executes(w), Sent(w) PROVE dst' \in [Key -> Copy] /\ uploads' \subseteq Upload
  <2>1. dst' \in [Key -> Copy]
    BY <1>1, <1>2 DEF Executes, BucketTypes
  <2>2. <<job[w].line, call[w]>> \in Upload
    BY <1>1, <1>2 DEF Sent, Upload
  <2>3. uploads' \subseteq Upload
    BY <1>2, <2>2 DEF Executes, BucketTypes
  <2> QED
    BY <2>1, <2>3
<1>3. refusals' \in Nat /\ lost' \in BOOLEAN /\ (lost => lost')
  <2>1. CASE Answered(w)
    BY <2>1 DEF Answered, RunTypes
  <2>2. CASE Errs(w)
    <3>1. /\ \/ refusals' = refusals + 1
             \/ refusals' = refusals
          /\ \/ lost' = lost
             \/ lost' = (lost \/ stage[w] = "abort")
             \/ lost' = (lost \/ (stage[w] = "abort" /\ Sent(w)))
             \/ lost' = (lost \/ stage[w] = "create")
      BY <2>2, Zenon DEF Errs
    <3>2. refusals' \in Nat
      BY <3>1 DEF RunTypes
    <3>3. lost' \in BOOLEAN /\ (lost => lost')
      <4>1. lost \in BOOLEAN
        BY DEF RunTypes
      <4>2. ASSUME NEW b, lost' = (lost \/ b) PROVE lost' \in BOOLEAN /\ (lost => lost')
        BY <4>2
      <4> QED
        BY <3>1, <4>1, <4>2
    <3> QED
      BY <3>2, <3>3
  <2> QED
    BY <2>1, <2>2, HandleCall DEF RunTypes
<1> QED
  BY <1>2, <1>3, HandleCall DEF BucketTypes

\* The upload of a task is its worker's as long as it is open, unless S3 left somebody
\* without an answer.
LEMMA HandleUploads ==
    ASSUME Tasks, RunTypes, BucketTypes, Attempts, NEW w \in Worker, Handle(w),
           stage[w] \in Working, sig < 2, ~lost'
    PROVE  \A u \in uploads' : u = job'[w].up \/ (u \in uploads /\ u # job[w].up)
<1>1. /\ JobShape(job[w], stage[w]) /\ w \in Client /\ w # Archiver
      /\ job \in [Worker -> Job]
  BY TaskData, WorkerIsNotArchiver DEF Tasks
<1>2. NoUpload \notin uploads
  BY BackupAssumption DEF BucketTypes, Upload, NoUpload, Line
<1>3. CASE stage[w] \in {"head", "get", "put"}
  <2>1. uploads' = uploads
    BY <1>3, HandleCall DEF Executes
  <2>2. job[w].up = NoUpload
    BY <1>1, <1>3 DEF JobShape, Uploading
  <2> QED
    BY <1>2, <2>1, <2>2
<1>4. CASE stage[w] = "create" /\ ~CreateAnswered(w)
  <2>1. Errs(w)
    BY <1>4 DEF Handle, HeadAnswered, HeadFails, StreamOpened, PartAnswered, StoreAnswered,
                RelayFails, PartFails, AbortReturns
  <2>2. uploads' = uploads
    BY <1>4, <2>1 DEF Errs, Skipped
  <2>3. job[w].up = NoUpload
    BY <1>1, <1>4 DEF JobShape, Uploading
  <2> QED
    BY <1>2, <2>2, <2>3
<1>5. CASE CreateAnswered(w)
  <2> DEFINE u == <<job[w].line, call[w]>>
             j == [job[w] EXCEPT !.up = u]
  <2>1. stage[w] = "create" /\ Executes(w) /\ NextPart(w, j)
    BY <1>5 DEF CreateAnswered, Answered
  <2>2. uploads' = uploads \cup {u}
    BY <2>1 DEF Executes
  <2>3. j.up = u
    BY <1>1 DEF JobShape, Job
  <2> HIDE DEF j
  <2>4. job'[w] = j
    BY <1>1, <2>1 DEF NextPart, Proceed
  <2>5. job[w].up = NoUpload
    BY <1>1, <2>1 DEF JobShape, Uploading
  <2> QED
    BY <1>2, <2>2, <2>3, <2>4, <2>5
<1>6. CASE StreamOpened(w) /\ stage[w] = "fetch"
  <2> DEFINE p == Bytes(src[TaskKey(w)], RangeFrom(w), RangeTo(w))
             j == [job[w] EXCEPT !.got = p]
  <2>1. Executes(w) /\ Proceed(w, j, "part")
    BY <1>6 DEF StreamOpened, Answered
  <2>2. uploads' = uploads
    BY <1>6, <2>1 DEF Executes
  <2>3. j.up = job[w].up
    BY <1>1 DEF JobShape, Job
  <2> HIDE DEF j
  <2>4. job'[w] = j
    BY <1>1, <2>1 DEF Proceed
  <2> QED
    BY <2>2, <2>3, <2>4
<1>7. CASE PartAnswered(w)
  <2> DEFINE j == [job[w] EXCEPT !.parts = Append(@, job[w].got), !.got = NoPiece]
  <2>1. stage[w] = "part" /\ Executes(w) /\ NextPart(w, j)
    BY <1>7 DEF PartAnswered, Answered
  <2>2. uploads' = uploads
    BY <2>1 DEF Executes
  <2>3. j.up = job[w].up
    BY <1>1 DEF JobShape, Job
  <2> HIDE DEF j
  <2>4. job'[w] = j
    BY <1>1, <2>1 DEF NextPart, Proceed
  <2> QED
    BY <2>2, <2>3, <2>4
<1>8. CASE StoreAnswered(w) /\ stage[w] = "complete"
  BY <1>8 DEF StoreAnswered, Answered, Executes
<1>9. CASE PartFails(w)
  <2>1. job' = [job EXCEPT ![w] = job[w]]
    BY <1>9 DEF PartFails, Proceed
  <2>2. uploads' \subseteq uploads
    BY <1>9, HandleCall DEF Executes, PartFails
  <2> QED
    BY <1>1, <2>1, <2>2
<1>10. CASE AbortReturns(w)
  <2>1. stage[w] = "abort" /\ (Answered(w) \/ Errs(w))
    BY <1>10 DEF AbortReturns
  <2>2. CASE Executes(w)
    BY <2>1, <2>2 DEF Executes
  <2>3. CASE ~Executes(w)
    <3>1. /\ ~Sent(w) /\ FailsToAnswer(w, Repeatable(w), Cancelled(w))
      BY <2>1, <2>3 DEF Answered, Answers, Errs, Skipped
    <3>2. ~Repeatable(w)
      BY <2>1 DEF Repeatable
    <3>3. call[w] # "void" /\ ~NoLiveNode(w)
      BY <1>1, <3>2 DEF Attempts, NoLiveNode
    <3> QED
      BY <3>1, <3>3 DEF FailsToAnswer
  <2> QED
    BY <2>2, <2>3
<1> QED
  BY <1>3, <1>4, <1>5, <1>6, <1>7, <1>8, <1>9, <1>10
     DEF Handle, HeadAnswered, HeadFails, StreamOpened, StoreAnswered, RelayFails, Working

-----------------------------------------------------------------------------
(* Type correctness of the pipeline *)

Pipeline == Owners /\ Tasks /\ RunTypes /\ BucketTypes /\ Attempts

\* A step of a worker on its task keeps the tasks in shape.
LEMMA HandlePipeline ==
    ASSUME Pipeline, NEW w \in Worker, Handle(w)
    PROVE  Tasks' /\ RunTypes' /\ BucketTypes'
<1> USE DEF Pipeline
<1>1. stage[w] \in Working /\ ((\E r \in Result : EndsWith(w, r)) \/ Continues(w))
  BY HandleShape
<1>2. UNCHANGED <<main, sig, reader, taken, ch, src, changes>>
  BY HandleCall
<1>3. /\ dst' \in [Key -> Copy] /\ uploads' \subseteq Upload
      /\ refusals' \in Nat /\ lost' \in BOOLEAN
  BY <1>1, HandleBuckets
<1>4. RunTypes'
  BY <1>2, <1>3 DEF RunTypes
<1>5. w # Archiver /\ w \in Client /\ Archiver \in Client
  BY WorkerIsNotArchiver, WorkersAreClients
<1>6. job[w].line \in Line
  BY <1>1, TaskData
<1>7. ASSUME NEW r \in Result, EndsWith(w, r)
      PROVE  Tasks' /\ results' \in [Line -> Seq(Result)]
  <2>1. results' \in [Line -> Seq(Result)]
    BY <1>6, <1>7 DEF EndsWith, BucketTypes
  <2>2. NoJob \in Job
    BY DEF NoJob, Job, NoPiece, Piece
  <2>3. stage' \in [Client -> Stage] /\ job' \in [Worker -> Job]
    BY <1>7, <2>2 DEF EndsWith, Tasks, Stage
  <2>4. stage'[Archiver] = stage[Archiver]
    BY <1>5, <1>7 DEF EndsWith, Tasks
  <2>5. \A v \in Worker \ {w} : stage'[v] = stage[v] /\ job'[v] = job[v]
    BY <1>5, <1>7, WorkersAreClients DEF EndsWith, Tasks
  <2>6. stage'[w] = "idle" /\ job'[w] = NoJob
    BY <1>5, <1>7 DEF EndsWith, Tasks
  <2> QED
    BY <1>2, <2>1, <2>3, <2>4, <2>5, <2>6 DEF Tasks
<1>8. ASSUME Continues(w)
      PROVE  Tasks' /\ results' \in [Line -> Seq(Result)]
  <2>1. PICK j \in Job, s \in Working : GoesOn(w, j, s) /\ JobShape(j, s)
    BY <1>8 DEF Continues
  <2>2. results' \in [Line -> Seq(Result)]
    BY <2>1 DEF GoesOn, BucketTypes
  <2>3. stage' \in [Client -> Stage] /\ job' \in [Worker -> Job]
    BY <2>1 DEF GoesOn, Tasks, Stage, Working
  <2>4. stage'[Archiver] = stage[Archiver]
    BY <1>5, <2>1 DEF GoesOn, Tasks
  <2>5. \A v \in Worker \ {w} : stage'[v] = stage[v] /\ job'[v] = job[v]
    BY <1>5, <2>1, WorkersAreClients DEF GoesOn, Tasks
  <2>6. stage'[w] = s /\ job'[w] = j /\ s \notin {"idle", "gone"}
    BY <1>5, <2>1 DEF GoesOn, Tasks, Working
  <2> QED
    BY <1>2, <2>1, <2>2, <2>3, <2>4, <2>5, <2>6 DEF Tasks
<1>9. src' \in [Key -> Nat] /\ \A k \in Key : src'[k] <= Len(Versions[k])
  BY <1>2 DEF BucketTypes
<1> QED
  BY <1>1, <1>3, <1>4, <1>7, <1>8, <1>9 DEF BucketTypes

LEMMA TakePipeline ==
    ASSUME Pipeline, NEW w \in Worker, TakeTask(w)
    PROVE  /\ Tasks' /\ RunTypes' /\ BucketTypes'
           /\ ch \in Seq(Line) /\ ch # <<>> /\ ch' = Tail(ch) /\ Head(ch) \in Line
           /\ job[w] = NoJob /\ stage[w] = "idle" /\ results' = results
           /\ \E j \in Job : job' = [job EXCEPT ![w] = j] /\ j.line = Head(ch)
<1> USE DEF Pipeline
<1> DEFINE j == [NoJob EXCEPT !.line = Head(ch)]
<1>1. /\ stage[w] = "idle" /\ ch # <<>> /\ ch' = Tail(ch) /\ Proceed(w, j, "head")
      /\ UNCHANGED <<main, sig, reader, taken, bucketVars, envVars>>
  BY DEF TakeTask
<1>2. GoesOn(w, j, "head")
  BY <1>1, ProceedGoesOn
<1>3. ch \in Seq(Line) /\ Head(ch) \in Line /\ Tail(ch) \in Seq(Line) /\ Len(Tail(ch)) <= ChCap
  BY <1>1, BackupAssumption DEF RunTypes
<1>4. Line \subseteq Nat /\ NoPiece \in Piece
  BY DEF Line, NoPiece, Piece
<1>5. /\ j \in Job /\ j.line = Head(ch) /\ j.parts = <<>> /\ j.up = NoUpload
  <2>1. j = [line |-> Head(ch), ver |-> 0, got |-> NoPiece, parts |-> <<>>, up |-> NoUpload]
    BY DEF NoJob
  <2>2. Head(ch) \in Nat
    BY <1>3, <1>4
  <2>3. <<>> \in Seq(Piece)
    OBVIOUS
  <2> HIDE DEF j
  <2> QED
    BY <1>4, <2>1, <2>2, <2>3 DEF Job
<1> HIDE DEF j
<1>6. JobShape(j, "head")
  BY <1>3, <1>5 DEF JobShape, Uploading
<1>7. w # Archiver /\ w \in Client /\ Archiver \in Client
  BY WorkerIsNotArchiver, WorkersAreClients
<1>8. stage' \in [Client -> Stage] /\ job' \in [Worker -> Job]
  BY <1>2, <1>5 DEF GoesOn, Tasks, Stage
<1>9. stage'[Archiver] = stage[Archiver]
  BY <1>2, <1>7 DEF GoesOn, Tasks
<1>10. \A v \in Worker \ {w} : stage'[v] = stage[v] /\ job'[v] = job[v]
  BY <1>2, <1>7, WorkersAreClients DEF GoesOn, Tasks
<1>11. stage'[w] = "head" /\ job'[w] = j /\ "head" \in Working
  BY <1>2, <1>7 DEF GoesOn, Tasks, Working
<1>12. Tasks'
  BY <1>1, <1>6, <1>8, <1>9, <1>10, <1>11 DEF Tasks
<1>13. RunTypes'
  BY <1>1, <1>3 DEF RunTypes, envVars
<1>14. BucketTypes'
  BY <1>1, <1>2 DEF BucketTypes, bucketVars, GoesOn
<1>15. job[w] = NoJob
  BY <1>1 DEF Tasks
<1> QED
  BY <1>1, <1>2, <1>3, <1>5, <1>12, <1>13, <1>14, <1>15 DEF GoesOn

LEMMA ExitPipeline ==
    ASSUME Pipeline, NEW w \in Worker, WorkerExits(w)
    PROVE  /\ Tasks' /\ RunTypes' /\ BucketTypes'
           /\ stage' = [stage EXCEPT ![w] = "gone"]
           /\ UNCHANGED <<job, results, main, sig, reader, taken, ch>>
<1> USE DEF Pipeline
<1>1. /\ stage[w] = "idle" /\ stage' = [stage EXCEPT ![w] = "gone"]
      /\ UNCHANGED <<job, results, main, sig, reader, taken, ch, bucketVars, envVars>>
  BY DEF WorkerExits, Goto, runVars
<1>2. w # Archiver /\ w \in Client /\ Archiver \in Client
  BY WorkerIsNotArchiver, WorkersAreClients
<1>3. Tasks'
  <2>1. stage' \in [Client -> Stage] /\ stage'[Archiver] = stage[Archiver]
    BY <1>1, <1>2 DEF Tasks, Stage
  <2>2. \A v \in Worker : stage'[v] = IF v = w THEN "gone" ELSE stage[v]
    BY <1>1, WorkersAreClients DEF Tasks
  <2> QED
    BY <1>1, <2>1, <2>2 DEF Tasks
<1>4. RunTypes' /\ BucketTypes'
  BY <1>1 DEF RunTypes, BucketTypes, bucketVars, envVars
<1> QED
  BY <1>1, <1>3, <1>4

LEMMA RetryPipeline ==
    ASSUME Pipeline, NEW c \in Client, RetryLeg(c)
    PROVE  /\ Tasks' /\ RunTypes' /\ BucketTypes'
           /\ UNCHANGED <<main, sig, reader, taken, ch, stage, job, results, src, dst>>
           /\ lost => lost'
           /\ uploads' = uploads \/ lost'
<1> USE DEF Pipeline
<1>1. /\ UNCHANGED <<main, sig, reader, taken, ch, stage, job, results, src, dst, changes, refusals>>
      /\ \/ UNCHANGED <<uploads, lost>>
         \/ /\ stage[c] = "create" /\ lost' = TRUE
            /\ uploads' = uploads \cup {<<job[c].line, "sent">>}
  BY DEF RetryLeg, runVars, taskVars
<1>2. Tasks'
  BY <1>1 DEF Tasks
<1>3. RunTypes'
  BY <1>1 DEF RunTypes
<1>4. ASSUME stage[c] = "create" PROVE <<job[c].line, "sent">> \in Upload
  <2>1. c \in Worker
    BY <1>4, ClientAssumption DEF Tasks, Client, Worker, Archiver
  <2>2. job[c].line \in Line
    BY <1>4, <2>1, TaskData DEF Working
  <2> QED
    BY <2>2 DEF Upload
<1>5. BucketTypes'
  BY <1>1, <1>4 DEF BucketTypes
<1> QED
  BY <1>1, <1>2, <1>3, <1>5

LEMMA MainPipeline ==
    ASSUME Pipeline, MainStep
    PROVE  /\ Tasks' /\ RunTypes' /\ BucketTypes'
           /\ UNCHANGED <<sig, taken, ch, job, results>>
           /\ \A w \in Worker : stage'[w] = stage[w]
           /\ lost => lost'
           /\ UNCHANGED dst
           /\ UNCHANGED uploads
<1> USE DEF Pipeline
<1>0. Archiver \in Client /\ \A w \in Worker : w # Archiver /\ w \in Client
  BY WorkerIsNotArchiver, WorkersAreClients
<1>1. CASE StartArchive \/ StartWorker \/ StartReader \/ Finished
  <2>1. /\ UNCHANGED <<sig, taken, ch, job, results, stage, bucketVars, envVars>>
        /\ main' \in {"archive", "workers", "waiting", "ended"} /\ reader' \in {reader, "reading"}
        /\ main' = "archive" \/ main # "archive"
    BY <1>1 DEF StartArchive, StartWorker, StartReader, Finished, CreateClient, taskVars
  <2>2. Tasks'
    BY <2>1 DEF Tasks
  <2>3. RunTypes' /\ BucketTypes'
    BY <2>1 DEF RunTypes, BucketTypes, bucketVars, envVars
  <2> QED
    BY <2>1, <2>2, <2>3 DEF envVars, bucketVars
<1>2. CASE SendArchive
  <2>1. /\ stage' = [stage EXCEPT ![Archiver] = "archive"] /\ main = "archive"
        /\ UNCHANGED <<main, sig, reader, taken, ch, job, results, bucketVars, envVars>>
    BY <1>2 DEF SendArchive, Goto, runVars
  <2>2. /\ stage' \in [Client -> Stage] /\ stage'[Archiver] = "archive"
        /\ \A w \in Worker : stage'[w] = stage[w]
    BY <1>0, <2>1 DEF Tasks, Stage
  <2>3. Tasks'
    BY <2>1, <2>2 DEF Tasks
  <2>4. RunTypes' /\ BucketTypes'
    BY <2>1 DEF RunTypes, BucketTypes, bucketVars, envVars
  <2> QED
    BY <2>1, <2>2, <2>3, <2>4 DEF envVars, bucketVars
<1>3. CASE ArchiveReturns
  <2>1. /\ stage' = [stage EXCEPT ![Archiver] = "gone"]
        /\ UNCHANGED <<sig, reader, taken, ch, job, results, src, changes>>
        /\ main' \in {"workers", "failed"}
        /\ stage[Archiver] = "archive"
    BY <1>3 DEF ArchiveReturns, Goto
  <2>2. /\ stage' \in [Client -> Stage] /\ stage'[Archiver] = "gone"
        /\ \A w \in Worker : stage'[w] = stage[w]
    BY <1>0, <2>1 DEF Tasks, Stage
  <2>3. Tasks'
    BY <2>1, <2>2 DEF Tasks
  <2>4. /\ UNCHANGED <<dst, uploads>>
        /\ refusals' \in {refusals, refusals + 1}
        /\ lost' = lost
    <3>1. CASE Skipped /\ UNCHANGED <<refusals, lost>>
      BY <3>1 DEF Skipped
    <3>2. CASE Errs(Archiver)
      <4>1. UNCHANGED <<dst, uploads>> /\ refusals' \in {refusals, refusals + 1}
        BY <3>2 DEF Errs, Skipped
      <4>2. \E b : lost' = (lost \/ (stage[Archiver] = "abort" /\ b))
        <5>1. \/ lost' = (lost \/ stage[Archiver] = "abort")
              \/ lost' = (lost \/ (stage[Archiver] = "abort" /\ Sent(Archiver)))
          BY <3>2, Zenon DEF Errs
        <5>2. CASE lost' = (lost \/ stage[Archiver] = "abort")
          <6>1. lost' = (lost \/ (stage[Archiver] = "abort" /\ TRUE))
            BY <5>2
          <6> QED
            BY <6>1
        <5> QED
          BY <5>1, <5>2
      <4> QED
        BY <2>1, <4>1, <4>2 DEF RunTypes
    <3> QED
      BY <1>3, <3>1, <3>2 DEF ArchiveReturns
  <2>5. RunTypes' /\ BucketTypes'
    BY <2>1, <2>4 DEF RunTypes, BucketTypes
  <2> QED
    BY <2>1, <2>2, <2>3, <2>4, <2>5
<1> QED
  BY <1>1, <1>2, <1>3 DEF MainStep

LEMMA ReaderPipeline ==
    ASSUME Pipeline, ReaderStep
    PROVE  /\ Tasks' /\ RunTypes' /\ BucketTypes'
           /\ UNCHANGED <<main, sig, stage, job, uploads, dst, lost>>
<1> USE DEF Pipeline
<1>1. UNCHANGED <<clientVars, main, sig, stage, job, bucketVars, envVars>>
  BY DEF ReaderStep, ReadLine, SendLine, EndOfFile, taskVars
<1>2. Tasks'
  BY <1>1 DEF Tasks
<1>3. CASE ReadLine
  <2>1. /\ ch' = ch /\ NextLine \in Line
        /\ \/ reader' \in {"done", "sending"} /\ taken' = taken /\ results' = results
           \/ /\ reader' = "reading" /\ taken' = NextLine
              /\ results' = [results EXCEPT ![NextLine] = Append(@, "parse_failed")]
    BY <1>3 DEF ReadLine, MoreLines
  <2>2. taken' \in 0 .. Len(File) /\ (reader' = "sending" => taken' < Len(File))
    BY <2>1 DEF RunTypes, NextLine, Line
  <2>3. RunTypes'
    BY <1>1, <2>1, <2>2 DEF RunTypes, envVars
  <2>4. results' \in [Line -> Seq(Result)]
    <3>1. results[NextLine] \in Seq(Result) /\ "parse_failed" \in Result
      BY <2>1 DEF BucketTypes, Result
    <3>2. Append(results[NextLine], "parse_failed") \in Seq(Result)
      BY <3>1
    <3> QED
      BY <2>1, <3>2 DEF BucketTypes
  <2>5. BucketTypes'
    BY <1>1, <2>4 DEF BucketTypes, bucketVars
  <2> QED
    BY <1>1, <1>2, <2>3, <2>5 DEF bucketVars, envVars
<1>4. CASE SendLine
  <2>1. /\ results' = results /\ reader = "sending" /\ reader' \in {"done", "reading"}
        /\ \/ ch' = ch /\ taken' = taken
           \/ ch' = Append(ch, NextLine) /\ taken' = NextLine /\ Len(ch) < ChCap
    BY <1>4 DEF SendLine, taskVars
  <2>2. NextLine \in Line /\ NextLine \in 0 .. Len(File)
    BY <2>1 DEF RunTypes, NextLine, Line
  <2>3. Append(ch, NextLine) \in Seq(Line) /\ Len(Append(ch, NextLine)) = Len(ch) + 1
        /\ Len(ch) \in Nat
    BY <2>2 DEF RunTypes
  <2>4. ch' \in Seq(Line) /\ Len(ch') <= ChCap
    <3>1. ChCap \in Nat
      BY BackupAssumption
    <3> QED
      BY <2>1, <2>3, <3>1 DEF RunTypes
  <2>5. RunTypes'
    BY <1>1, <2>1, <2>2, <2>4 DEF RunTypes, envVars
  <2>6. BucketTypes'
    BY <1>1, <2>1 DEF BucketTypes, bucketVars
  <2> QED
    BY <1>1, <1>2, <2>5, <2>6 DEF bucketVars, envVars
<1>5. CASE EndOfFile
  <2>1. RunTypes'
    BY <1>1, <1>5 DEF EndOfFile, RunTypes, envVars
  <2>2. BucketTypes'
    BY <1>1, <1>5 DEF EndOfFile, BucketTypes, bucketVars, taskVars
  <2> QED
    BY <1>1, <1>2, <2>1, <2>2 DEF bucketVars, envVars
<1> QED
  BY <1>3, <1>4, <1>5 DEF ReaderStep

LEMMA OutsidePipeline ==
    ASSUME Pipeline,
           Signal \/ Nodes \/ (\E k \in Key : ObjectChanges(k)) \/ Terminated \/ UNCHANGED vars
    PROVE  /\ Tasks' /\ RunTypes' /\ BucketTypes'
           /\ UNCHANGED <<main, reader, taken, ch, stage, job, results, dst, uploads, lost, call>>
           /\ sig' \in {sig, sig + 1}
<1> USE DEF Pipeline
<1>1. CASE Signal
  <2>1. /\ UNCHANGED <<main, reader, taken, ch, stage, job, results, bucketVars, envVars, call>>
        /\ sig' = sig + 1 /\ sig < MaxSignals
    BY <1>1 DEF Signal, taskVars, clientVars
  <2>2. sig' \in 0 .. 2
    BY <2>1, BackupAssumption DEF RunTypes
  <2>3. Tasks' /\ RunTypes' /\ BucketTypes'
    BY <2>1, <2>2 DEF Tasks, RunTypes, BucketTypes, bucketVars, envVars
  <2> QED
    BY <2>1, <2>3 DEF bucketVars, envVars
<1>2. CASE Nodes \/ Terminated \/ UNCHANGED vars
  <2>1. /\ UNCHANGED <<main, sig, reader, taken, ch, stage, job, results, bucketVars, envVars, call>>
    BY <1>2 DEF Nodes, Terminated, vars, backupVars, runVars, taskVars, clientVars
  <2>2. Tasks' /\ RunTypes' /\ BucketTypes'
    BY <2>1 DEF Tasks, RunTypes, BucketTypes, bucketVars, envVars
  <2> QED
    BY <2>1, <2>2 DEF bucketVars, envVars
<1>3. ASSUME NEW k \in Key, ObjectChanges(k)
      PROVE  /\ Tasks' /\ RunTypes' /\ BucketTypes'
             /\ UNCHANGED <<main, reader, taken, ch, stage, job, results, dst, uploads, lost, call>>
             /\ sig' \in {sig, sig + 1}
  <2>1. /\ UNCHANGED <<main, sig, reader, taken, ch, stage, job, results, dst, uploads, refusals,
                       lost, call>>
        /\ changes' = changes + 1
        /\ \E v \in 0 .. Len(Versions[k]) : src' = [src EXCEPT ![k] = v]
    BY <1>3 DEF ObjectChanges, runVars, taskVars, clientVars
  <2>2. Len(Versions[k]) \in Nat
    BY BackupAssumption
  <2>3. src' \in [Key -> Nat] /\ \A i \in Key : src'[i] <= Len(Versions[i])
    BY <2>1, <2>2 DEF BucketTypes
  <2>4. Tasks' /\ RunTypes'
    BY <2>1 DEF Tasks, RunTypes
  <2>5. BucketTypes'
    BY <2>1, <2>3 DEF BucketTypes
  <2> QED
    BY <2>1, <2>4, <2>5
<1> QED
  BY <1>1, <1>2, <1>3

\* Goto leaves its client in a first attempt or in none.
LEMMA GotoAttempts ==
    ASSUME Owners, Attempts, NEW c \in Client, NEW s, Goto(c, s), sig' = sig
    PROVE  Attempts'
<1>1. /\ \A d \in Client \ {c} : call'[d] = call[d] /\ stage'[d] = stage[d]
      /\ call'[c] \in {"idle", "sent", "void"}
      /\ call'[c] = "void" => Cancelled(c)
  BY DEF Owners, Goto, NextCall, FirstAttempt
<1>2. \A d \in Client \ {c} : Repeatable(d)' <=> Repeatable(d)
  <2> SUFFICES ASSUME NEW d \in Client \ {c} PROVE Repeatable(d)' <=> Repeatable(d)
    OBVIOUS
  <2> QED
    BY <1>1 DEF Repeatable
<1>3. \A w \in Worker : w \in Client /\ (w = c /\ call'[c] = "void" => sig = 2)
  BY <1>1, WorkerIsNotArchiver DEF Cancelled
<1>4. \A d \in Client : call'[d] \notin {"idle", "sent", "void"} => d # c /\ Repeatable(d)
  BY <1>1 DEF Attempts
<1>5. \A d \in Client : call'[d] \notin {"idle", "sent", "void"} => Repeatable(d)'
  BY <1>2, <1>4
<1>6. \A w \in Worker : call'[w] = "void" => sig' = 2
  BY <1>1, <1>3 DEF Attempts
<1> QED
  BY <1>5, <1>6 DEF Attempts

LEMMA StepAttempts ==
    ASSUME Pipeline, [Next]_vars
    PROVE  Attempts'
<1> USE DEF Pipeline
<1>0. ASSUME UNCHANGED <<call, stage>>, sig' \in {sig, sig + 1}, RunTypes' PROVE Attempts'
  BY <1>0 DEF Attempts, Repeatable, RunTypes
<1>1. ASSUME NEW w \in Worker, WorkerStep(w) PROVE Attempts'
  <2>1. w \in Client
    BY WorkersAreClients
  <2>2. CASE TakeTask(w)
    BY <2>1, <2>2, GotoAttempts DEF TakeTask, Proceed
  <2>3. CASE Handle(w)
    <3>1. Moves(w) /\ sig' = sig
      BY <2>3, HandleEndsCall, HandleCall
    <3> QED
      BY <2>1, <3>1, GotoAttempts DEF Moves
  <2>4. CASE WorkerExits(w)
    BY <2>1, <2>4, GotoAttempts DEF WorkerExits, runVars
  <2> QED
    BY <1>1, <2>2, <2>3, <2>4 DEF WorkerStep
<1>2. CASE MainStep
  <2>1. CASE SendArchive \/ ArchiveReturns
    <3>1. \E s : Goto(Archiver, s)
      BY <2>1 DEF SendArchive, ArchiveReturns
    <3> QED
      BY <1>2, <3>1, GotoAttempts, WorkersAreClients, MainPipeline
  <2>2. CASE ~(SendArchive \/ ArchiveReturns)
    <3>1. UNCHANGED <<call, stage>>
      BY <1>2, <2>2 DEF MainStep, StartArchive, StartWorker, StartReader, Finished, CreateClient,
                       clientVars, taskVars
    <3> QED
      BY <1>0, <1>2, <3>1, MainPipeline
  <2> QED
    BY <2>1, <2>2
<1>3. CASE ReaderStep
  <2>1. UNCHANGED <<call, stage>>
    BY <1>3 DEF ReaderStep, ReadLine, SendLine, EndOfFile, taskVars, clientVars
  <2> QED
    BY <1>0, <1>3, <2>1, ReaderPipeline
<1>4. ASSUME NEW c \in Client, RetryLeg(c) PROVE Attempts'
  <2>1. UNCHANGED <<stage, sig>>
    BY <1>4 DEF RetryLeg, taskVars, runVars
  <2>2. /\ \E phase \in {"count", "mark", "assign", "other", "resent", "void"} :
             /\ call' = [call EXCEPT ![c] = phase]
             /\ phase = "void" => Cancelled(c)
        /\ Repeatable(c) \/ call[c] \notin {"idle", "sent", "void"}
    BY <1>4 DEF RetryLeg, MeetFault, RecordFault, Isolate, Rebind
  <2>3. Repeatable(c)
    BY <2>2 DEF Attempts
  <2>4. \A d \in Client : Repeatable(d)' <=> Repeatable(d)
    BY <2>1 DEF Repeatable
  <2>5. \A d \in Client \ {c} : call'[d] = call[d]
    BY <2>2 DEF Owners
  <2>6. \A w \in Worker : w \in Client /\ (w = c => (call'[c] = "void" => sig = 2))
    BY <2>2, WorkerIsNotArchiver DEF Owners, Cancelled
  <2>7. \A d \in Client : call'[d] \notin {"idle", "sent", "void"} => Repeatable(d)'
    BY <2>3, <2>4, <2>5 DEF Attempts
  <2>8. \A w \in Worker : call'[w] = "void" => sig' = 2
    BY <2>1, <2>5, <2>6 DEF Attempts
  <2> QED
    BY <2>7, <2>8 DEF Attempts
<1>5. CASE Signal \/ Nodes \/ (\E k \in Key : ObjectChanges(k)) \/ Terminated \/ UNCHANGED vars
  BY <1>0, <1>5, OutsidePipeline
<1> QED
  BY <1>1, <1>2, <1>3, <1>4, <1>5 DEF Next

LEMMA StepPipeline == Pipeline /\ [Next]_vars => Pipeline'
<1> SUFFICES ASSUME Pipeline, [Next]_vars PROVE Pipeline'
  OBVIOUS
<1>1. Owners' /\ Attempts'
  BY StepClients, StepAttempts DEF Pipeline
<1>2. Tasks' /\ RunTypes' /\ BucketTypes'
  <2>1. ASSUME NEW w \in Worker, WorkerStep(w) PROVE Tasks' /\ RunTypes' /\ BucketTypes'
    BY <2>1, HandlePipeline, TakePipeline, ExitPipeline DEF WorkerStep
  <2> QED
    BY <2>1, MainPipeline, ReaderPipeline, RetryPipeline, OutsidePipeline DEF Next
<1> QED
  BY <1>1, <1>2 DEF Pipeline

LEMMA InitPipeline == Init => Pipeline
<1> SUFFICES ASSUME Init PROVE Pipeline
  OBVIOUS
<1>1. Owners
  BY InitClients
<1>2. NoJob \in Job /\ NoCopy \in Copy
  <2>1. NoPiece \in Piece /\ <<>> \in Seq(Piece)
    BY DEF NoPiece, Piece
  <2> QED
    BY <2>1 DEF NoJob, Job, NoCopy, Copy
<1>3. Tasks
  BY <1>2, WorkersAreClients DEF Init, Tasks, Stage
<1>4. RunTypes
  <2>1. Len(File) \in Nat /\ ChCap \in Nat
    BY BackupAssumption
  <2>2. <<>> \in Seq(Line) /\ Len(<<>>) = 0
    OBVIOUS
  <2>3. /\ main = "init" /\ sig = 0 /\ reader = "none" /\ taken = 0 /\ ch = <<>>
        /\ changes = 0 /\ refusals = 0 /\ lost = FALSE
    BY DEF Init
  <2>4. 0 \in 0 .. Len(File) /\ Len(ch) <= ChCap /\ ch \in Seq(Line)
    BY <2>1, <2>2, <2>3
  <2>5. lost \in BOOLEAN
    BY <2>3
  <2>6. taken \in 0 .. Len(File)
    BY <2>3, <2>4
  <2> QED
    BY <2>3, <2>4, <2>5, <2>6 DEF RunTypes
<1>5. BucketTypes
  <2>1. src \in [Key -> Nat] /\ \A k \in Key : src[k] <= Len(Versions[k])
    <3>1. \A k \in Key : Versions[k] \in Seq([multi : BOOLEAN, cut : Seq(Nat), size : Nat])
      BY BackupAssumption
    <3>2. \A k \in Key : Len(Versions[k]) \in Nat /\ (Versions[k] # <<>> => Len(Versions[k]) >= 1)
      BY <3>1
    <3> QED
      BY <3>2 DEF Init
  <2>2. results \in [Line -> Seq(Result)]
    BY DEF Init
  <2> QED
    BY <1>2, <2>1, <2>2 DEF Init, BucketTypes
<1>6. Attempts
  BY WorkerIsNotArchiver DEF Init, ClientInit, Attempts
<1> QED
  BY <1>1, <1>3, <1>4, <1>5, <1>6 DEF Pipeline

LEMMA PipelineHolds == Spec => []Pipeline
BY InitPipeline, StepPipeline, PTL DEF Spec

\* For every input list, bucket, pool of nodes and number of workers, all variables of the
\* backup keep their types: a worker's task has the parts, the ranges and the upload that the
\* call it waits for needs, whatever the source bucket became since its HEAD, and no more lines
\* wait than the channel holds.
THEOREM BackupTypes == Spec => []TypeOK
<1>1. Pipeline /\ Types => TypeOK
  BY DEF Pipeline, Types, Owners, Tasks, RunTypes, BucketTypes, TypeOK
<1> QED
  BY <1>1, PipelineHolds, ClientsImplemented, ClientTypes, PTL DEF Clients

-----------------------------------------------------------------------------
(* One result for each line: a line that was taken is in the channel, with   *)
(* one worker, or reported, and in only one of these places.                 *)

Queued(l) == \E i \in 1 .. Len(ch) : ch[i] = l
HeldBy(w, l) == job[w].line = l

Lines ==
    /\ \A i, j \in 1 .. Len(ch) : ch[i] = ch[j] => i = j
    /\ \A l \in Line :
         /\ Queued(l) => l <= taken /\ results[l] = <<>> /\ \A w \in Worker : ~HeldBy(w, l)
         /\ \A w \in Worker : HeldBy(w, l) =>
               l <= taken /\ results[l] = <<>> /\ \A v \in Worker \ {w} : ~HeldBy(v, l)
         /\ Len(results[l]) <= 1 /\ (results[l] # <<>> => l <= taken)
         /\ l <= taken => results[l] # <<>> \/ Queued(l) \/ \E w \in Worker : HeldBy(w, l)

\* A worker leaves a closed and empty channel, and main comes after them.
RunOver ==
    /\ main \in {"init", "archive", "workers"} => reader = "none"
    /\ reader = "done" /\ sig = 0 => ~MoreLines
    /\ \A w \in Worker : stage[w] = "gone" => reader = "done" /\ ch = <<>>
    /\ main = "ended" => \A w \in Worker : stage[w] = "gone"

LEMMA LinesStay ==
    ASSUME Lines, UNCHANGED <<taken, ch, results>>,
           \A w \in Worker : job'[w].line = job[w].line
    PROVE  Lines'
<1>1. \A l : Queued(l)' <=> Queued(l)
  BY DEF Queued
<1>2. \A w \in Worker : \A l : HeldBy(w, l)' <=> HeldBy(w, l)
  BY DEF HeldBy
<1> QED
  BY <1>1, <1>2 DEF Lines

\* A line that is handed over: appended, taken by a worker, or reported.
LEMMA ReportLines ==
    ASSUME Pipeline, Lines, NEW w \in Worker, NEW r \in Result, EndsWith(w, r),
           UNCHANGED <<taken, ch>>, stage[w] \in Working
    PROVE  Lines'
<1>0. job[w].line \in Line /\ job \in [Worker -> Job] /\ results \in [Line -> Seq(Result)]
  BY TaskData DEF Pipeline, Tasks, BucketTypes
<1> PICK l0 \in Line : l0 = job[w].line
  BY <1>0
<1>1. job \in [Worker -> Job] /\ results \in [Line -> Seq(Result)]
  BY <1>0
<1>2. \A l : Queued(l)' <=> Queued(l)
  BY DEF Queued
<1>3. \A l \in Line : l # 0
  BY DEF Line
<1>4. \A v \in Worker : \A l \in Line : HeldBy(v, l)' <=> v # w /\ HeldBy(v, l)
  BY <1>1, <1>3 DEF HeldBy, EndsWith, NoJob
<1>5. HeldBy(w, l0)
  BY DEF HeldBy
<1>6. /\ results'[l0] # <<>> /\ Len(results'[l0]) <= 1 /\ l0 <= taken
      /\ \A v \in Worker : HeldBy(v, l0) => v = w
  <2>1. results[l0] = <<>> /\ l0 <= taken /\ \A v \in Worker : HeldBy(v, l0) => v = w
    BY <1>1, <1>5 DEF Lines
  <2>2. results'[l0] = Append(<<>>, r)
    BY <1>1, <2>1 DEF EndsWith
  <2>3. Append(<<>>, r) # <<>> /\ Len(Append(<<>>, r)) <= 1
    OBVIOUS
  <2> QED
    BY <2>1, <2>2, <2>3
<1>7. \A l \in Line \ {l0} : results'[l] = results[l]
  BY <1>1 DEF EndsWith
<1>8. ~Queued(l0)
  BY <1>1, <1>5 DEF Lines
<1>9. (\A i, j \in 1 .. Len(ch) : ch[i] = ch[j] => i = j)'
  BY DEF Lines
<1>10. ASSUME NEW l \in Line
       PROVE  /\ Queued(l) => l <= taken /\ results'[l] = <<>> /\ \A v \in Worker : ~HeldBy(v, l)'
              /\ \A v \in Worker : HeldBy(v, l)' =>
                    l <= taken /\ results'[l] = <<>> /\ \A u \in Worker \ {v} : ~HeldBy(u, l)'
              /\ Len(results'[l]) <= 1 /\ (results'[l] # <<>> => l <= taken)
              /\ l <= taken => results'[l] # <<>> \/ Queued(l) \/ \E v \in Worker : HeldBy(v, l)'
  <2>1. CASE l = l0
    <3>1. \A v \in Worker : ~HeldBy(v, l)'
      BY <1>4, <1>6, <2>1
    <3>2. ~Queued(l)
      BY <1>8, <2>1
    <3>3. results'[l] # <<>> /\ Len(results'[l]) <= 1 /\ l <= taken
      BY <1>6, <2>1
    <3> QED
      BY <3>1, <3>2, <3>3
  <2>2. CASE l # l0
    BY <1>4, <1>5, <1>7, <2>2 DEF Lines, HeldBy
  <2> QED
    BY <2>1, <2>2
<1> QED
  BY <1>2, <1>9, <1>10 DEF Lines

LEMMA TakeLines ==
    ASSUME Pipeline, Lines, NEW w \in Worker, TakeTask(w)
    PROVE  Lines'
<1>1. /\ ch \in Seq(Line) /\ ch # <<>> /\ ch' = Tail(ch) /\ Head(ch) \in Line
      /\ job[w] = NoJob /\ results' = results /\ taken' = taken
      /\ \E j \in Job : job' = [job EXCEPT ![w] = j] /\ j.line = Head(ch)
  BY TakePipeline DEF TakeTask
<1>2. /\ Head(ch) = ch[1] /\ 1 \in 1 .. Len(ch) /\ Len(ch') = Len(ch) - 1 /\ Len(ch) \in Nat
      /\ \A i \in 1 .. Len(ch') : ch'[i] = ch[i + 1] /\ i + 1 \in 1 .. Len(ch) /\ i + 1 # 1
      /\ \A i \in 1 .. Len(ch) : i # 1 => i - 1 \in 1 .. Len(ch') /\ ch'[i - 1] = ch[i]
  BY <1>1
<1>3. \A l : Queued(l)' <=> Queued(l) /\ l # Head(ch)
  <2>1. ASSUME NEW l, Queued(l)' PROVE Queued(l) /\ l # Head(ch)
    <3>1. PICK i \in 1 .. Len(ch') : ch'[i] = l
      BY <2>1 DEF Queued
    <3>2. ch[i + 1] = l /\ i + 1 \in 1 .. Len(ch) /\ i + 1 # 1
      BY <1>2, <3>1
    <3> QED
      BY <1>2, <3>2 DEF Lines, Queued
  <2>2. ASSUME NEW l, Queued(l), l # Head(ch) PROVE Queued(l)'
    BY <1>2, <2>2 DEF Queued
  <2> QED
    BY <2>1, <2>2
<1>4. Queued(Head(ch))
  BY <1>2 DEF Queued
<1>5. \A l \in Line : l # 0
  BY DEF Line
<1>6. \A v \in Worker : \A l \in Line : HeldBy(v, l)' <=> IF v = w THEN l = Head(ch) ELSE HeldBy(v, l)
  BY <1>1 DEF HeldBy, Pipeline, Tasks
<1>7. \A l \in Line : ~HeldBy(w, l)
  BY <1>1, <1>5 DEF HeldBy, NoJob
<1>8. (\A i, j \in 1 .. Len(ch) : ch[i] = ch[j] => i = j)'
  BY <1>2 DEF Lines
<1> QED
  BY <1>1, <1>3, <1>4, <1>6, <1>7, <1>8 DEF Lines

LEMMA ReaderLines ==
    ASSUME Pipeline, Lines, ReaderStep
    PROVE  Lines'
<1>1. job' = job /\ ch \in Seq(Line) /\ taken \in Nat /\ results \in [Line -> Seq(Result)]
  BY ReaderPipeline DEF Pipeline, RunTypes, BucketTypes
<1>2. \A w \in Worker : \A l : HeldBy(w, l)' <=> HeldBy(w, l)
  BY <1>1 DEF HeldBy
<1>3. \A l \in Line : l \in Nat
  BY DEF Line
<1>4. CASE UNCHANGED <<ch, taken, results>>
  BY <1>1, <1>4, LinesStay
<1>5. CASE /\ ch' = ch /\ taken' = NextLine /\ NextLine \in Line
           /\ results' = [results EXCEPT ![NextLine] = Append(@, "parse_failed")]
  <2>1. \A l : Queued(l)' <=> Queued(l)
    BY <1>5 DEF Queued
  <2>2. results[NextLine] = <<>> /\ ~Queued(NextLine) /\ \A w \in Worker : ~HeldBy(w, NextLine)
    BY <1>1, <1>5 DEF Lines, NextLine
  <2>3. results'[NextLine] # <<>> /\ Len(results'[NextLine]) <= 1
    <3>1. results'[NextLine] = Append(<<>>, "parse_failed")
      BY <1>1, <1>5, <2>2
    <3>2. Append(<<>>, "parse_failed") # <<>> /\ Len(Append(<<>>, "parse_failed")) <= 1
      OBVIOUS
    <3> QED
      BY <3>1, <3>2
  <2>4. \A l \in Line \ {NextLine} : results'[l] = results[l] /\ (l <= taken' <=> l <= taken)
    BY <1>1, <1>3, <1>5 DEF NextLine
  <2>5. NextLine <= taken'
    BY <1>1, <1>5 DEF NextLine
  <2>6. ASSUME NEW l \in Line
        PROVE  /\ Queued(l)' => l <= taken' /\ results'[l] = <<>> /\ \A w \in Worker : ~HeldBy(w, l)'
               /\ \A w \in Worker : HeldBy(w, l)' =>
                     l <= taken' /\ results'[l] = <<>> /\ \A v \in Worker \ {w} : ~HeldBy(v, l)'
               /\ Len(results'[l]) <= 1 /\ (results'[l] # <<>> => l <= taken')
               /\ l <= taken' => results'[l] # <<>> \/ Queued(l)' \/ \E w \in Worker : HeldBy(w, l)'
    <3>1. CASE l = NextLine
      <4>1. ~Queued(l)' /\ \A w \in Worker : ~HeldBy(w, l)'
        BY <1>2, <2>1, <2>2, <3>1
      <4>2. l <= taken' /\ results'[l] # <<>> /\ Len(results'[l]) <= 1
        BY <2>3, <2>5, <3>1
      <4> QED
        BY <4>1, <4>2
    <3>2. CASE l # NextLine
      BY <1>2, <2>1, <2>4, <3>2 DEF Lines
    <3> QED
      BY <3>1, <3>2
  <2>7. (\A i, j \in 1 .. Len(ch) : ch[i] = ch[j] => i = j)'
    BY <1>5 DEF Lines
  <2> QED
    BY <2>6, <2>7 DEF Lines
<1>6. CASE results' = results /\ ch' = Append(ch, NextLine) /\ taken' = NextLine
  <2>1. NextLine \in Nat /\ NextLine = taken + 1
    BY <1>1 DEF NextLine
  <2>2. /\ Len(ch') = Len(ch) + 1 /\ Len(ch) \in Nat /\ ch'[Len(ch) + 1] = NextLine
        /\ \A i \in 1 .. Len(ch) : ch'[i] = ch[i]
        /\ \A i \in 1 .. Len(ch') : i = Len(ch) + 1 \/ i \in 1 .. Len(ch)
    BY <1>1, <1>6
  <2>3. \A l : Queued(l)' <=> Queued(l) \/ l = NextLine
    BY <2>2 DEF Queued
  <2>4. \A i \in 1 .. Len(ch) : ch[i] \in Line /\ Queued(ch[i])
    BY <1>1 DEF Queued
  <2>5. \A i \in 1 .. Len(ch) : ch[i] # NextLine
    BY <1>1, <1>3, <2>1, <2>4 DEF Lines
  <2>6. (\A i, j \in 1 .. Len(ch) : ch[i] = ch[j] => i = j)'
    BY <2>2, <2>5 DEF Lines
  <2>7. \A l \in Line : l <= taken' <=> l <= taken \/ l = NextLine
    BY <1>1, <1>3, <1>6, <2>1
  <2>8. NextLine \in Line => /\ results[NextLine] = <<>> /\ ~Queued(NextLine)
                             /\ \A w \in Worker : ~HeldBy(w, NextLine)
    BY <1>1, <2>1 DEF Lines
  <2>9. NextLine <= taken'
    BY <1>6, <2>1
  <2>10. ASSUME NEW l \in Line
         PROVE  /\ Queued(l)' => l <= taken' /\ results'[l] = <<>> /\ \A w \in Worker : ~HeldBy(w, l)'
                /\ \A w \in Worker : HeldBy(w, l)' =>
                      l <= taken' /\ results'[l] = <<>> /\ \A v \in Worker \ {w} : ~HeldBy(v, l)'
                /\ Len(results'[l]) <= 1 /\ (results'[l] # <<>> => l <= taken')
                /\ l <= taken' => results'[l] # <<>> \/ Queued(l)' \/ \E w \in Worker : HeldBy(w, l)'
    <3>1. CASE l = NextLine
      <4>1. Queued(l)' /\ l <= taken' /\ results'[l] = <<>> /\ \A w \in Worker : ~HeldBy(w, l)'
        BY <1>2, <1>6, <2>3, <2>8, <2>9, <3>1
      <4>2. Len(results'[l]) <= 1
        BY <1>6 DEF Lines
      <4> QED
        BY <4>1, <4>2
    <3>2. CASE l # NextLine
      BY <1>2, <1>6, <2>3, <2>7, <3>2 DEF Lines
    <3> QED
      BY <3>1, <3>2
  <2> QED
    BY <2>6, <2>10 DEF Lines
<1> QED
  BY <1>4, <1>5, <1>6 DEF ReaderStep, ReadLine, SendLine, EndOfFile, taskVars, MoreLines

LEMMA StepLines == Pipeline /\ Lines /\ [Next]_vars => Lines'
<1> SUFFICES ASSUME Pipeline, Lines, [Next]_vars PROVE Lines'
  OBVIOUS
<1>1. ASSUME NEW w \in Worker, Handle(w) PROVE Lines'
  <2>1. stage[w] \in Working /\ ((\E r \in Result : EndsWith(w, r)) \/ Continues(w))
    BY <1>1, HandleShape DEF Pipeline
  <2>2. UNCHANGED <<taken, ch>>
    BY <1>1, HandleCall
  <2>3. CASE \E r \in Result : EndsWith(w, r)
    BY <2>1, <2>2, <2>3, ReportLines
  <2>4. CASE Continues(w)
    <3>1. results' = results /\ \A v \in Worker : job'[v].line = job[v].line
      BY <2>4 DEF Continues, GoesOn, Pipeline, Tasks
    <3> QED
      BY <2>2, <3>1, LinesStay
  <2> QED
    BY <2>1, <2>3, <2>4
<1>2. ASSUME NEW w \in Worker, WorkerStep(w) PROVE Lines'
  BY <1>1, <1>2, TakeLines, ExitPipeline, LinesStay DEF WorkerStep
<1>3. ASSUME NEW c \in Client, RetryLeg(c) PROVE Lines'
  BY <1>3, RetryPipeline, LinesStay
<1>4. CASE MainStep
  BY <1>4, MainPipeline, LinesStay
<1>5. CASE Signal \/ Nodes \/ (\E k \in Key : ObjectChanges(k)) \/ Terminated \/ UNCHANGED vars
  BY <1>5, OutsidePipeline, LinesStay
<1> QED
  BY <1>2, <1>3, <1>4, <1>5, ReaderLines DEF Next

LEMMA StepRunOver == Pipeline /\ RunOver /\ [Next]_vars => RunOver'
<1> SUFFICES ASSUME Pipeline, RunOver, [Next]_vars PROVE RunOver'
  OBVIOUS
<1> USE DEF RunOver
<1>1. ASSUME UNCHANGED <<main, sig, reader, taken>>,
             \A w \in Worker : stage'[w] = "gone" => reader = "done" /\ ch' = <<>>,
             \A w \in Worker : stage[w] = "gone" => stage'[w] = "gone"
      PROVE  RunOver'
  BY <1>1 DEF MoreLines, NextLine
<1>2. ASSUME NEW w \in Worker, WorkerStep(w) PROVE RunOver'
  <2>0. \A v \in Worker : v \in Client
    BY WorkersAreClients
  <2>1. CASE Handle(w)
    <3>1. UNCHANGED <<main, sig, reader, taken, ch>>
      BY <2>1, HandleCall
    <3>2. stage[w] \in Working /\ \E s \in Working \cup {"idle"} : stage' = [stage EXCEPT ![w] = s]
      BY <2>1, HandleShape DEF Pipeline, EndsWith, Continues, GoesOn
    <3>3. \A v \in Worker : stage'[v] = "gone" <=> stage[v] = "gone"
      BY <2>0, <3>2 DEF Working, Pipeline, Tasks
    <3> QED
      BY <1>1, <3>1, <3>3
  <2>2. CASE TakeTask(w)
    <3>1. UNCHANGED <<main, sig, reader, taken>> /\ stage' = [stage EXCEPT ![w] = "head"]
          /\ stage[w] = "idle" /\ ch # <<>>
      BY <2>2 DEF TakeTask, Proceed, Goto
    <3>2. \A v \in Worker : stage'[v] = "gone" <=> stage[v] = "gone"
      BY <2>0, <3>1 DEF Pipeline, Tasks
    <3> QED
      BY <1>1, <3>1, <3>2
  <2>3. CASE WorkerExits(w)
    <3>1. reader = "done" /\ ch = <<>> /\ UNCHANGED <<main, sig, reader, taken, ch>>
          /\ stage' = [stage EXCEPT ![w] = "gone"]
      BY <2>3, ExitPipeline DEF WorkerExits
    <3>2. \A v \in Worker : stage[v] = "gone" => stage'[v] = "gone"
      BY <2>0, <3>1 DEF Pipeline, Tasks
    <3> QED
      BY <1>1, <3>1, <3>2
  <2> QED
    BY <1>2, <2>1, <2>2, <2>3 DEF WorkerStep
<1>3. ASSUME NEW c \in Client, RetryLeg(c) PROVE RunOver'
  <2>1. UNCHANGED <<main, sig, reader, taken, ch, stage>>
    BY <1>3, RetryPipeline
  <2> QED
    BY <1>1, <2>1
<1>4. CASE MainStep
  <2>1. UNCHANGED <<sig, taken, ch>> /\ \A w \in Worker : stage'[w] = stage[w]
    BY <1>4, MainPipeline
  <2>2. CASE StartArchive \/ SendArchive \/ StartWorker
    <3>1. reader' = reader /\ main \in {"init", "archive", "workers"} /\ main' # "ended"
      BY <2>2 DEF StartArchive, SendArchive, StartWorker, CreateClient, runVars
    <3> QED
      BY <2>1, <3>1 DEF MoreLines, NextLine
  <2>3. CASE ArchiveReturns
    <3>1. reader' = reader /\ stage[Archiver] = "archive" /\ main' # "ended"
      BY <2>3 DEF ArchiveReturns
    <3>2. reader = "none"
      BY <3>1 DEF Pipeline, Tasks
    <3> QED
      BY <2>1, <3>1, <3>2
  <2>4. CASE StartReader
    <3>1. main = "workers" /\ reader' = "reading" /\ main' = "waiting"
      BY <2>4 DEF StartReader
    <3> QED
      BY <2>1, <3>1
  <2>5. CASE Finished
    <3>1. main' = "ended" /\ reader' = reader /\ \A w \in Worker : stage[w] = "gone"
      BY <2>5 DEF Finished
    <3> QED
      BY <2>1, <3>1 DEF MoreLines, NextLine
  <2> QED
    BY <1>4, <2>2, <2>3, <2>4, <2>5 DEF MainStep
<1>5. CASE ReaderStep
  <2>1. UNCHANGED <<main, sig, stage>>
    BY <1>5, ReaderPipeline
  <2>2. reader \in {"reading", "sending"}
    BY <1>5 DEF ReaderStep, ReadLine, SendLine, EndOfFile
  <2>3. reader' = "done" /\ sig = 0 => ~MoreLines'
    BY <1>5 DEF ReaderStep, ReadLine, SendLine, EndOfFile, MoreLines, NextLine
  <2> QED
    BY <2>1, <2>2, <2>3
<1>6. CASE Signal \/ Nodes \/ (\E k \in Key : ObjectChanges(k)) \/ Terminated \/ UNCHANGED vars
  <2>1. UNCHANGED <<main, reader, taken, ch, stage>> /\ sig' \in {sig, sig + 1} /\ sig \in Nat
    BY <1>6, OutsidePipeline DEF Pipeline, RunTypes
  <2> QED
    BY <2>1 DEF MoreLines, NextLine
<1> QED
  BY <1>2, <1>3, <1>4, <1>5, <1>6 DEF Next

LEMMA InitLines == Init => Lines /\ RunOver
<1> SUFFICES ASSUME Init PROVE Lines /\ RunOver
  OBVIOUS
<1>1. /\ Len(ch) = 0 /\ taken = 0 /\ main = "init" /\ reader = "none"
      /\ \A w \in Worker : stage[w] = "idle" /\ job[w].line = 0
      /\ \A l \in Line : results[l] = <<>>
  BY WorkersAreClients DEF Init, NoJob
<1>2. \A l \in Line : l \in Nat /\ l > 0
  BY DEF Line
<1>3. \A l \in Line : ~Queued(l) /\ (\A w \in Worker : ~HeldBy(w, l)) /\ ~(l <= taken)
                      /\ Len(results[l]) <= 1
  BY <1>1, <1>2 DEF Queued, HeldBy
<1>4. \A i, j \in 1 .. Len(ch) : ch[i] = ch[j] => i = j
  BY <1>1
<1>5. Lines
  BY <1>1, <1>3, <1>4 DEF Lines
<1>6. RunOver
  BY <1>1 DEF RunOver
<1> QED
  BY <1>5, <1>6

\* Whatever fails and whenever the run is interrupted, each line the reader is through with has
\* exactly one result when the run ends, no line ever has two, and without a signal the reader
\* goes through every line its buffer can hold (Handle, fileSource.Run).
THEOREM OneResultForEachLine == Spec => []OneResultPerLine
<1>1. Pipeline /\ Lines /\ RunOver => OneResultPerLine
  <2> SUFFICES ASSUME Pipeline, Lines, RunOver PROVE OneResultPerLine
    OBVIOUS
  <2>1. \A l \in Line : Len(results[l]) <= 1 /\ Len(results[l]) \in Nat
    BY DEF Lines, Pipeline, BucketTypes
  <2>2. ASSUME main = "ended" PROVE \A l \in 1 .. taken : Len(results[l]) = 1
    <3>1. 0 \in Worker
      BY ClientAssumption DEF Worker
    <3>2. reader = "done" /\ ch = <<>> /\ \A w \in Worker : job[w] = NoJob
      BY <2>2, <3>1 DEF RunOver, Pipeline, Tasks
    <3>3. \A l \in Line : l # 0
      BY DEF Line
    <3>4. \A l \in Line : ~Queued(l) /\ \A w \in Worker : ~HeldBy(w, l)
      BY <3>2, <3>3 DEF Queued, HeldBy, NoJob
    <3>5. \A l \in 1 .. taken : l \in Line /\ l <= taken
      BY DEF Line, Pipeline, RunTypes
    <3>6. \A l \in 1 .. taken : results[l] # <<>>
      BY <3>4, <3>5 DEF Lines
    <3>7. \A l \in Line : results[l] # <<>> => Len(results[l]) # 0
      BY DEF Pipeline, BucketTypes
    <3>8. ASSUME NEW l \in 1 .. taken PROVE Len(results[l]) = 1
      <4>1. Len(results[l]) \in Nat /\ Len(results[l]) <= 1
        BY <2>1, <3>5
      <4>2. Len(results[l]) # 0
        BY <3>5, <3>6, <3>7
      <4>3. PICK n \in Nat : n = Len(results[l])
        BY <4>1
      <4>4. n <= 1 /\ n # 0
        BY <4>1, <4>2, <4>3
      <4>5. n = 1
        BY <4>4
      <4> QED
        BY <4>3, <4>5
    <3> QED
      BY <3>8
  <2>3. main = "ended" /\ sig = 0 => ~MoreLines
    <3>1. 0 \in Worker
      BY ClientAssumption DEF Worker
    <3> QED
      BY <3>1 DEF RunOver
  <2> QED
    BY <2>1, <2>2, <2>3 DEF OneResultPerLine
<1> QED
  BY <1>1, PipelineHolds, InitLines, StepLines, StepRunOver, PTL DEF Spec

-----------------------------------------------------------------------------
(* What a worker's step may do to the backup bucket.  A copy that was stored *)
(* is reported with its step, or its worker aborts and reports it then.      *)

Stores(w) == dst' = [dst EXCEPT ![TaskKey(w)] = MyCopy(w)]

LEMMA HandleCopies ==
    ASSUME Pipeline, NEW w \in Worker, Handle(w)
    PROVE  \/ dst' = dst /\ \E r \in Result \ {"ok"} :
                               EndsWith(w, r) /\ (stage[w] = "abort" => r = "failed_upload")
           \/ dst' = dst /\ stage[w] # "abort" /\ Continues(w)
           \/ /\ Stores(w) /\ EndsWith(w, "ok")
              /\ \E v \in 1 .. Len(Versions[TaskKey(w)]) : MyCopy(w) = Whole(TaskKey(w), v)
           \/ Stores(w) /\ \E r \in {"failed_etag", "failed_upload"} : EndsWith(w, r)
           \/ Stores(w) /\ GoesOn(w, job[w], "abort")
<1> USE DEF Pipeline
<1>1. /\ stage[w] \in Working /\ ((\E r \in Result : EndsWith(w, r)) \/ Continues(w))
      /\ JobShape(job[w], stage[w]) /\ TaskKey(w) = File[job[w].line].key
  BY HandleShape, TaskData
<1>2. (dst' = dst /\ uploads' = uploads) \/ (Executes(w) /\ Sent(w))
  BY HandleCall
<1>3. dst' = dst \/ (Stores(w) /\ stage[w] \in {"put", "complete"})
  BY <1>2 DEF Executes, Stores
<1>4. CASE HeadAnswered(w)
  <2>1. stage[w] = "head" /\ (Finish(w, "mismatch") \/ \E j, s : Proceed(w, j, s))
    BY <1>4 DEF HeadAnswered
  <2>2. dst' = dst
    BY <1>3, <2>1
  <2>3. CASE Finish(w, "mismatch")
    BY <2>1, <2>2, <2>3, FinishEnds DEF Result
  <2>4. CASE \E j, s : Proceed(w, j, s)
    <3>1. results' = results
      BY <2>4 DEF Proceed
    <3>2. ~\E r \in Result : EndsWith(w, r)
      <4> SUFFICES ASSUME NEW r \in Result, EndsWith(w, r) PROVE FALSE
        OBVIOUS
      <4>1. job[w].line \in Line
        BY <1>1 DEF JobShape
      <4>2. results'[job[w].line] = Append(results[job[w].line], r)
        BY <4>1 DEF EndsWith, BucketTypes
      <4>3. results[job[w].line] \in Seq(Result)
        BY <4>1 DEF BucketTypes
      <4>4. Len(Append(results[job[w].line], r)) = Len(results[job[w].line]) + 1
            /\ Len(results[job[w].line]) \in Nat
        BY <4>3
      <4> QED
        BY <3>1, <4>2, <4>4
    <3> QED
      BY <1>1, <2>1, <2>2, <3>2
  <2> QED
    BY <2>1, <2>3, <2>4
<1>5. CASE HeadFails(w)
  <2>1. stage[w] = "head" /\ EndsWith(w, "failed_head")
    BY <1>5, FinishEnds DEF HeadFails
  <2> QED
    BY <1>3, <2>1 DEF Result
<1>6. CASE StreamOpened(w) \/ CreateAnswered(w) \/ PartAnswered(w)
  <2>1. stage[w] \in {"get", "fetch", "create", "part"} /\ stage'[w] # "idle"
    <3>1. \E j, s : s # "idle" /\ Proceed(w, j, s)
      <4>1. CASE StreamOpened(w)
        <5>1. \E j : Proceed(w, j, IF stage[w] = "get" THEN "put" ELSE "part")
          BY <4>1 DEF StreamOpened
        <5> QED
          BY <5>1
      <4>2. CASE CreateAnswered(w) \/ PartAnswered(w)
        <5>1. PICK j : NextPart(w, j)
          BY <4>2 DEF CreateAnswered, PartAnswered
        <5> QED
          BY <5>1 DEF NextPart
      <4> QED
        BY <1>6, <4>1, <4>2
    <3>2. stage'[w] # "idle"
      BY <3>1, WorkersAreClients DEF Proceed, Goto, Tasks
    <3> QED
      BY <1>6, <3>2 DEF StreamOpened, CreateAnswered, PartAnswered
  <2>2. ~\E r \in Result : EndsWith(w, r)
    BY <2>1, WorkersAreClients DEF EndsWith, Tasks
  <2> QED
    BY <1>1, <1>3, <2>1, <2>2
<1>7. CASE StoreAnswered(w)
  <2>1. /\ stage[w] \in {"put", "complete"} /\ Stores(w)
        /\ EndsWith(w, IF Verified(w) THEN "ok" ELSE "failed_etag")
    BY <1>7, FinishEnds DEF StoreAnswered, Answered, Executes, Stores
  <2>2. CASE Verified(w)
    <3>1. job[w].ver \in 1 .. Len(Versions[TaskKey(w)])
      BY <1>1, <2>1 DEF JobShape
    <3> QED
      BY <2>1, <2>2, <3>1 DEF Verified
  <2> QED
    BY <2>1, <2>2
<1>8. CASE RelayFails(w) \/ AbortReturns(w)
  <2>1. EndsWith(w, "failed_upload")
    BY <1>8, FinishEnds DEF RelayFails, AbortReturns
  <2> QED
    BY <1>3, <2>1 DEF Result
<1>9. CASE PartFails(w)
  <2>1. stage[w] \in {"fetch", "part", "complete"} /\ GoesOn(w, job[w], "abort")
    BY <1>9, ProceedGoesOn DEF PartFails
  <2>2. Continues(w)
    <3>1. job[w] \in Job /\ JobShape(job[w], "abort") /\ "abort" \in Working
      BY <1>1, <2>1 DEF JobShape, Uploading, Working
    <3> QED
      BY <2>1, <3>1 DEF Continues
  <2> QED
    BY <1>3, <2>1, <2>2
<1> QED
  BY <1>4, <1>5, <1>6, <1>7, <1>8, <1>9 DEF Handle

\* The copy under a key is faithful, or a line other than l put a bad one there: it is
\* reported, or its worker is about to.
FaithfulCopy(k) == \E v \in 1 .. Len(Versions[k]) : dst[k] = Whole(k, v)
Bad(m) == Reported(m, "failed_upload") \/ Reported(m, "failed_etag")
Aborting(m) == \E w \in Worker : job[w].line = m /\ stage[w] = "abort"
OkStands ==
    \A l \in Line : Reported(l, "ok") =>
        \/ FaithfulCopy(File[l].key)
        \/ \E m \in Line \ {l} : File[m].key = File[l].key /\ (Bad(m) \/ Aborting(m))

\* What a list of results with one more holds.
LEMMA AppendedResult ==
    ASSUME NEW s \in Seq(Result), NEW r \in Result, NEW q
    PROVE  q \in {Append(s, r)[i] : i \in DOMAIN Append(s, r)}
           <=> q \in {s[i] : i \in DOMAIN s} \/ q = r
<1>1. /\ DOMAIN s = 1 .. Len(s) /\ DOMAIN Append(s, r) = 1 .. Len(s) + 1 /\ Len(s) \in Nat
      /\ \A i \in 1 .. Len(s) : Append(s, r)[i] = s[i]
      /\ Append(s, r)[Len(s) + 1] = r
  OBVIOUS
<1>2. \A i \in 1 .. Len(s) + 1 : i \in 1 .. Len(s) \/ i = Len(s) + 1
  BY <1>1
<1>3. 1 .. Len(s) \subseteq 1 .. Len(s) + 1 /\ Len(s) + 1 \in 1 .. Len(s) + 1
  BY <1>1
<1> QED
  BY <1>1, <1>2, <1>3

LEMMA ReportedGrows ==
    ASSUME Pipeline, NEW w \in Worker, NEW r \in Result, EndsWith(w, r), stage[w] \in Working
    PROVE  \A m \in Line : \A q : Reported(m, q)' <=> Reported(m, q) \/ (m = job[w].line /\ q = r)
<1>1. job[w].line \in Line /\ results \in [Line -> Seq(Result)]
  BY TaskData DEF Pipeline, BucketTypes
<1>2. ASSUME NEW m \in Line, NEW q
      PROVE  Reported(m, q)' <=> Reported(m, q) \/ (m = job[w].line /\ q = r)
  <2>1. results'[m] = IF m = job[w].line THEN Append(results[m], r) ELSE results[m]
    BY <1>1 DEF EndsWith
  <2>2. results[m] \in Seq(Result)
    BY <1>1
  <2>3. CASE m = job[w].line
    <3>1. results'[m] = Append(results[m], r)
      BY <2>1, <2>3
    <3>2. q \in {Append(results[m], r)[i] : i \in DOMAIN Append(results[m], r)}
          <=> q \in {results[m][i] : i \in DOMAIN results[m]} \/ q = r
      BY <2>2, AppendedResult
    <3>3. Reported(m, q)' <=> q \in {Append(results[m], r)[i] : i \in DOMAIN Append(results[m], r)}
      BY <3>1 DEF Reported
    <3> QED
      BY <2>3, <3>2, <3>3 DEF Reported
  <2>4. CASE m # job[w].line
    BY <2>1, <2>4 DEF Reported
  <2> QED
    BY <2>3, <2>4
<1> QED
  BY <1>2

LEMMA StepOkStands == Pipeline /\ Lines /\ OkStands /\ [Next]_vars => OkStands'
<1> SUFFICES ASSUME Pipeline, Lines, OkStands, [Next]_vars PROVE OkStands'
  OBVIOUS
<1>1. ASSUME dst' = dst,
             \A l \in Line : /\ Reported(l, "ok")' => Reported(l, "ok")
                             /\ Bad(l) \/ Aborting(l) => Bad(l)' \/ Aborting(l)'
      PROVE  OkStands'
  <2>1. \A k : FaithfulCopy(k)' <=> FaithfulCopy(k)
    BY <1>1 DEF FaithfulCopy
  <2> QED
    BY <1>1, <2>1 DEF OkStands
<1>2. ASSUME dst' = dst, results' = results,
             \A w \in Worker : job'[w].line = job[w].line /\ (stage[w] = "abort" => stage'[w] = "abort")
      PROVE  OkStands'
  <2>1. \A l, r : Reported(l, r)' <=> Reported(l, r)
    BY <1>2 DEF Reported
  <2>2. \A l \in Line : Bad(l) \/ Aborting(l) => Bad(l)' \/ Aborting(l)'
    BY <1>2, <2>1 DEF Bad, Aborting
  <2> QED
    BY <1>1, <1>2, <2>1, <2>2
<1>3. ASSUME NEW w \in Worker, Handle(w) PROVE OkStands'
  <2>1. /\ stage[w] \in Working /\ job[w].line \in Line /\ TaskKey(w) = File[job[w].line].key
        /\ TaskKey(w) \in Key
    BY <1>3, HandleShape, TaskData DEF Pipeline
  <2> PICK l0 \in Line : l0 = job[w].line
    BY <2>1
  <2>2. \A v \in Worker \ {w} : v \in Client /\ job[v].line # l0
    BY <2>1, WorkersAreClients DEF Lines, HeldBy
  <2>3. /\ stage \in [Client -> Stage] /\ job \in [Worker -> Job] /\ dst \in [Key -> Copy]
        /\ w \in Client
    BY WorkersAreClients DEF Pipeline, Tasks, BucketTypes
  <2>4. \A q : ~Reported(l0, q)
    <3>1. results[l0] = <<>>
      BY DEF Lines, HeldBy
    <3>2. DOMAIN results[l0] = {}
      BY <3>1
    <3> QED
      BY <3>2 DEF Reported
  \* What the step leaves of the other workers.
  <2>5. ASSUME NEW r \in Result, EndsWith(w, r)
        PROVE  /\ \A m \in Line : \A q : Reported(m, q)' <=> Reported(m, q) \/ (m = l0 /\ q = r)
               /\ \A m \in Line : m # l0 => (Aborting(m)' <=> Aborting(m))
    <3>1. \A m \in Line : \A q : Reported(m, q)' <=> Reported(m, q) \/ (m = l0 /\ q = r)
      BY <2>1, <2>5, ReportedGrows
    <3>2. \A v \in Worker \ {w} : stage'[v] = stage[v] /\ job'[v] = job[v]
      BY <2>2, <2>3, <2>5 DEF EndsWith
    <3>3. job'[w].line = 0 /\ job[w].line = l0 /\ stage'[w] = "idle"
      BY <2>3, <2>5 DEF EndsWith, NoJob
    <3>4. \A m \in Line : m # l0 => (Aborting(m)' <=> Aborting(m))
      BY <3>2, <3>3 DEF Aborting
    <3> QED
      BY <3>1, <3>4
  <2>6. ASSUME NEW j \in Job, NEW s, GoesOn(w, j, s), j.line = job[w].line
        PROVE  /\ \A m \in Line : \A q : Reported(m, q)' <=> Reported(m, q)
               /\ \A m \in Line : m # l0 => (Aborting(m)' <=> Aborting(m))
               /\ s = "abort" => Aborting(l0)'
               /\ stage[w] # "abort" => ~Aborting(l0)
    <3>1. \A m \in Line : \A q : Reported(m, q)' <=> Reported(m, q)
      BY <2>6 DEF GoesOn, Reported
    <3>2. \A v \in Worker \ {w} : stage'[v] = stage[v] /\ job'[v] = job[v]
      BY <2>2, <2>3, <2>6 DEF GoesOn
    <3>3. job'[w].line = l0 /\ job[w].line = l0 /\ stage'[w] = s
      BY <2>3, <2>6 DEF GoesOn
    <3>4. \A m \in Line : m # l0 => (Aborting(m)' <=> Aborting(m))
      BY <3>2, <3>3 DEF Aborting
    <3>5. s = "abort" => Aborting(l0)'
      BY <3>3 DEF Aborting
    <3>6. stage[w] # "abort" => ~Aborting(l0)
      BY <2>2 DEF Aborting
    <3> QED
      BY <3>1, <3>4, <3>5, <3>6
  \* A copy is stored under another line's key only with a bad report to come.
  <2>7. ASSUME Stores(w) PROVE \A k \in Key : k # File[l0].key => (FaithfulCopy(k)' <=> FaithfulCopy(k))
    BY <2>1, <2>3, <2>7 DEF Stores, FaithfulCopy
  <2>8. \A l \in Line : File[l].key \in Key
    BY FileTypes
  <2>9. CASE dst' = dst /\ \E r \in Result \ {"ok"} :
                              EndsWith(w, r) /\ (stage[w] = "abort" => r = "failed_upload")
    <3>1. PICK r \in Result \ {"ok"} : EndsWith(w, r) /\ (stage[w] = "abort" => r = "failed_upload")
      BY <2>9
    <3>2. \A l \in Line : Reported(l, "ok")' => Reported(l, "ok")
      BY <2>5, <3>1
    <3>3. \A l \in Line : Bad(l) => Bad(l)'
      BY <2>5, <3>1 DEF Bad
    <3>4. \A l \in Line : l # l0 => (Aborting(l) => Aborting(l)')
      BY <2>5, <3>1
    <3>5. Aborting(l0) => Bad(l0)'
      <4>1. Aborting(l0) => stage[w] = "abort"
        BY <2>2 DEF Aborting
      <4>2. r = "failed_upload" => Reported(l0, "failed_upload")'
        BY <2>5, <3>1
      <4> QED
        BY <3>1, <4>1, <4>2 DEF Bad
    <3> QED
      BY <1>1, <2>9, <3>2, <3>3, <3>4, <3>5
  <2>10. CASE dst' = dst /\ stage[w] # "abort" /\ Continues(w)
    <3>1. PICK j \in Job, s \in Working : GoesOn(w, j, s) /\ j.line = job[w].line
      BY <2>10 DEF Continues
    <3>2. \A l \in Line : /\ Reported(l, "ok")' => Reported(l, "ok")
                          /\ Bad(l) \/ Aborting(l) => Bad(l)' \/ Aborting(l)'
      BY <2>6, <2>10, <3>1 DEF Bad
    <3> QED
      BY <1>1, <2>10, <3>2
  <2>11. CASE /\ Stores(w) /\ EndsWith(w, "ok")
              /\ \E v \in 1 .. Len(Versions[TaskKey(w)]) : MyCopy(w) = Whole(TaskKey(w), v)
    <3>1. FaithfulCopy(File[l0].key)'
      <4>1. dst'[File[l0].key] = MyCopy(w)
        BY <2>1, <2>3, <2>11 DEF Stores
      <4> QED
        BY <2>1, <2>11, <4>1 DEF FaithfulCopy
    <3>2. "ok" \in Result
      BY DEF Result
    <3>3. \A m \in Line : Bad(m) \/ Aborting(m) => Bad(m)' \/ Aborting(m)' \/ m = l0
      BY <2>5, <2>11, <3>2 DEF Bad
    <3>4. ASSUME NEW l \in Line, Reported(l, "ok")', File[l].key # File[l0].key
          PROVE  \/ FaithfulCopy(File[l].key)'
                 \/ \E m \in Line \ {l} : File[m].key = File[l].key /\ (Bad(m)' \/ Aborting(m)')
      <4>1. Reported(l, "ok")
        BY <2>5, <2>11, <3>2, <3>4
      <4>2. FaithfulCopy(File[l].key)' <=> FaithfulCopy(File[l].key)
        BY <2>7, <2>8, <2>11, <3>4
      <4> QED
        BY <3>3, <3>4, <4>1, <4>2 DEF OkStands
    <3>5. ASSUME NEW l \in Line, File[l].key = File[l0].key PROVE FaithfulCopy(File[l].key)'
      BY <3>1, <3>5
    <3> QED
      BY <3>4, <3>5 DEF OkStands
  <2>12. CASE Stores(w) /\ \E r \in {"failed_etag", "failed_upload"} : EndsWith(w, r)
    <3>1. PICK r \in {"failed_etag", "failed_upload"} : EndsWith(w, r) /\ r \in Result
      BY <2>12 DEF Result
    <3>2. Bad(l0)'
      BY <2>5, <3>1 DEF Bad
    <3>3. ~Reported(l0, "ok")'
      BY <2>4, <2>5, <3>1
    <3>4. \A m \in Line : Bad(m) \/ Aborting(m) => Bad(m)' \/ Aborting(m)'
      BY <2>5, <3>1, <3>2 DEF Bad
    <3>5. ASSUME NEW l \in Line, Reported(l, "ok")'
          PROVE  \/ FaithfulCopy(File[l].key)'
                 \/ \E m \in Line \ {l} : File[m].key = File[l].key /\ (Bad(m)' \/ Aborting(m)')
      <4>1. Reported(l, "ok") /\ l # l0
        BY <2>5, <3>1, <3>3, <3>5
      <4>2. CASE File[l].key = File[l0].key
        BY <3>2, <4>1, <4>2
      <4>3. CASE File[l].key # File[l0].key
        <5>1. FaithfulCopy(File[l].key)' <=> FaithfulCopy(File[l].key)
          BY <2>7, <2>8, <2>12, <4>3
        <5> QED
          BY <3>4, <4>1, <5>1 DEF OkStands
      <4> QED
        BY <4>2, <4>3
    <3> QED
      BY <3>5 DEF OkStands
  <2>13. CASE Stores(w) /\ GoesOn(w, job[w], "abort")
    <3>1. /\ \A m \in Line : \A q : Reported(m, q)' <=> Reported(m, q)
          /\ \A m \in Line : m # l0 => (Aborting(m)' <=> Aborting(m))
          /\ Aborting(l0)'
      BY <2>3, <2>6, <2>13
    <3>2. \A m \in Line : Bad(m) \/ Aborting(m) => Bad(m)' \/ Aborting(m)'
      BY <3>1 DEF Bad
    <3>3. ASSUME NEW l \in Line, Reported(l, "ok")'
          PROVE  \/ FaithfulCopy(File[l].key)'
                 \/ \E m \in Line \ {l} : File[m].key = File[l].key /\ (Bad(m)' \/ Aborting(m)')
      <4>1. Reported(l, "ok") /\ l # l0
        BY <2>4, <3>1, <3>3
      <4>2. CASE File[l].key = File[l0].key
        BY <3>1, <4>1, <4>2
      <4>3. CASE File[l].key # File[l0].key
        <5>1. FaithfulCopy(File[l].key)' <=> FaithfulCopy(File[l].key)
          BY <2>7, <2>8, <2>13, <4>3
        <5> QED
          BY <3>2, <4>1, <5>1 DEF OkStands
      <4> QED
        BY <4>2, <4>3
    <3> QED
      BY <3>3 DEF OkStands
  <2> QED
    BY <1>3, <2>9, <2>10, <2>11, <2>12, <2>13, HandleCopies
<1>4. ASSUME NEW w \in Worker, TakeTask(w) PROVE OkStands'
  <2>1. dst' = dst /\ results' = results /\ stage[w] = "idle"
        /\ \A v \in Worker \ {w} : stage'[v] = stage[v] /\ job'[v] = job[v]
    BY <1>4, TakePipeline, WorkersAreClients
       DEF TakeTask, Proceed, Goto, Pipeline, Tasks, bucketVars
  <2>2. \A l, r : Reported(l, r)' <=> Reported(l, r)
    BY <2>1 DEF Reported
  <2>3. \A l \in Line : Bad(l) \/ Aborting(l) => Bad(l)' \/ Aborting(l)'
    BY <2>1, <2>2 DEF Bad, Aborting
  <2> QED
    BY <1>1, <2>1, <2>2, <2>3
<1>5. ASSUME NEW w \in Worker, WorkerExits(w) PROVE OkStands'
  <2>1. dst' = dst /\ results' = results /\ job' = job /\ stage[w] = "idle"
    BY <1>5 DEF WorkerExits, bucketVars
  <2>2. \A v \in Worker : stage[v] = "abort" => stage'[v] = "abort"
    BY <1>5, <2>1, ExitPipeline, WorkersAreClients DEF Pipeline, Tasks
  <2> QED
    BY <1>2, <2>1, <2>2
<1>6. ASSUME NEW c \in Client, RetryLeg(c) PROVE OkStands'
  BY <1>2, <1>6, RetryPipeline
<1>7. CASE MainStep
  BY <1>2, <1>7, MainPipeline
<1>8. CASE ReaderStep
  <2>1. UNCHANGED <<stage, job, dst>>
    BY <1>8, ReaderPipeline
  <2>2. CASE results' = results
    BY <1>2, <2>1, <2>2
  <2>3. CASE /\ NextLine \in Line /\ taken' = NextLine
             /\ results' = [results EXCEPT ![NextLine] = Append(@, "parse_failed")]
    <3>1. results[NextLine] = <<>> /\ results \in [Line -> Seq(Result)]
      BY <2>3 DEF Lines, NextLine, Pipeline, RunTypes, BucketTypes
    <3>2. results'[NextLine] = <<"parse_failed">>
      BY <2>3, <3>1
    <3>3. \A q : Reported(NextLine, q) => FALSE
      BY <3>1 DEF Reported
    <3>4. ASSUME NEW l \in Line, l = NextLine PROVE ~Reported(l, "ok")'
      <4>1. results'[l] = <<"parse_failed">>
        BY <3>2, <3>4
      <4>2. \A i \in DOMAIN results'[l] : results'[l][i] = "parse_failed"
        BY <4>1
      <4> QED
        BY <4>2 DEF Reported
    <3>5. ASSUME NEW l \in Line, l # NextLine PROVE \A q : Reported(l, q)' <=> Reported(l, q)
      <4>1. results'[l] = results[l]
        BY <2>3, <3>1, <3>5
      <4> QED
        BY <4>1 DEF Reported
    <3>6. \A l \in Line : Aborting(l)' <=> Aborting(l)
      BY <2>1 DEF Aborting
    <3>7. \A l \in Line : /\ Reported(l, "ok")' => Reported(l, "ok")
                          /\ Bad(l) \/ Aborting(l) => Bad(l)' \/ Aborting(l)'
      BY <3>3, <3>4, <3>5, <3>6 DEF Bad
    <3> QED
      BY <1>1, <2>1, <3>7
  <2> QED
    BY <1>8, <2>2, <2>3 DEF ReaderStep, ReadLine, SendLine, EndOfFile, taskVars, MoreLines
<1>9. CASE Signal \/ Nodes \/ (\E k \in Key : ObjectChanges(k)) \/ Terminated \/ UNCHANGED vars
  BY <1>2, <1>9, OutsidePipeline
<1> QED
  BY <1>3, <1>4, <1>5, <1>6, <1>7, <1>8, <1>9 DEF Next, WorkerStep

LEMMA InitOkStands == Init => OkStands
<1> SUFFICES ASSUME Init, NEW l \in Line PROVE ~Reported(l, "ok")
  BY DEF OkStands
<1>1. results[l] = <<>>
  BY DEF Init
<1> QED
  BY <1>1 DEF Reported

\* backup_ok is the truth, for every input, bucket, failure and signal: under the key of such a
\* line is a faithful copy of one version of the object, unless a line of the same key that is
\* in backup_failed, or still with a worker, put a bad copy over it.
THEOREM OkIsFaithful == Spec => []OkMeansFaithful
<1>1. OkStands => OkMeansFaithful
  <2> SUFFICES ASSUME OkStands, NEW l \in Line, Reported(l, "ok")
               PROVE  LET k == File[l].key
                          others == {m \in Line \ {l} : File[m].key = k}
                      IN \/ \E v \in 1 .. Len(Versions[k]) : dst[k] = Whole(k, v)
                         \/ \E m \in others : Reported(m, "failed_upload") \/ Reported(m, "failed_etag")
                         \/ \E w \in Worker : job[w].line \in others
    BY DEF OkMeansFaithful
  <2> QED
    BY DEF OkStands, FaithfulCopy, Bad, Aborting
<1> QED
  BY <1>1, PipelineHolds, InitLines, StepLines, InitOkStands, StepOkStands, PTL DEF Spec
-----------------------------------------------------------------------------
(* Uploads in progress: each belongs to the worker that created it, until a  *)
(* second signal, an unanswered create or an abort that was not performed.   *)

UploadsHeld == sig < 2 /\ ~lost => NoUploadLeft

LEMMA HandleHolds ==
    ASSUME Pipeline, UploadsHeld, NEW w \in Worker, Handle(w)
    PROVE  UploadsHeld'
<1> USE DEF Pipeline
<1>1. stage[w] \in Working /\ job \in [Worker -> Job]
  BY HandleShape DEF Tasks
<1>2. \E j : job' = [job EXCEPT ![w] = j]
  BY HandleShape DEF EndsWith, Continues, GoesOn
<1>3. sig' = sig /\ (lost => lost')
  BY <1>1, HandleCall, HandleBuckets
<1> SUFFICES ASSUME sig < 2, ~lost', NEW u \in uploads'
             PROVE  \E v \in Worker : job'[v].up = u
  BY <1>3 DEF UploadsHeld, NoUploadLeft
<1>4. u = job'[w].up \/ (u \in uploads /\ u # job[w].up)
  BY <1>1, HandleUploads
<1>5. CASE u \in uploads /\ u # job[w].up
  <2>1. PICK v \in Worker : job[v].up = u
    BY <1>3, <1>5 DEF UploadsHeld, NoUploadLeft
  <2>2. v # w
    BY <1>5, <2>1
  <2>3. job'[v] = job[v]
    BY <1>1, <1>2, <2>2
  <2> QED
    BY <2>1, <2>3
<1> QED
  BY <1>4, <1>5

LEMMA TakeHolds ==
    ASSUME Pipeline, UploadsHeld, NEW w \in Worker, TakeTask(w)
    PROVE  UploadsHeld'
<1> USE DEF Pipeline
<1>1. /\ job[w] = NoJob /\ (\E j \in Job : job' = [job EXCEPT ![w] = j])
      /\ job \in [Worker -> Job]
  BY TakePipeline DEF Tasks
<1>2. UNCHANGED <<sig, lost, uploads>>
  BY DEF TakeTask, bucketVars, envVars
<1>3. NoUpload \notin uploads
  BY BackupAssumption DEF BucketTypes, Upload, NoUpload, Line
<1> SUFFICES ASSUME sig < 2, ~lost, NEW u \in uploads
             PROVE  \E v \in Worker : job'[v].up = u
  BY <1>2 DEF UploadsHeld, NoUploadLeft
<1>4. PICK v \in Worker : job[v].up = u
  BY DEF UploadsHeld, NoUploadLeft
<1>5. v # w
  BY <1>1, <1>3, <1>4 DEF NoJob
<1>6. job'[v] = job[v]
  BY <1>1, <1>5
<1> QED
  BY <1>4, <1>6

LEMMA StepHolds == Pipeline /\ UploadsHeld /\ [Next]_vars => UploadsHeld'
<1> SUFFICES ASSUME Pipeline, UploadsHeld, [Next]_vars PROVE UploadsHeld'
  OBVIOUS
<1>1. ASSUME UNCHANGED <<job, uploads>>, sig' \in {sig, sig + 1}, lost => lost'
      PROVE  UploadsHeld'
  <2>1. sig \in Nat
    BY DEF Pipeline, RunTypes
  <2> QED
    BY <1>1, <2>1 DEF UploadsHeld, NoUploadLeft
<1>2. ASSUME NEW w \in Worker, WorkerStep(w) PROVE UploadsHeld'
  <2>1. CASE WorkerExits(w)
    BY <1>1, <2>1 DEF WorkerExits, bucketVars, envVars, runVars
  <2> QED
    BY <1>2, <2>1, HandleHolds, TakeHolds DEF WorkerStep
<1>3. ASSUME NEW c \in Client, RetryLeg(c) PROVE UploadsHeld'
  <2>1. /\ UNCHANGED <<sig, job>> /\ (lost => lost')
        /\ uploads' = uploads \/ lost'
    BY <1>3, RetryPipeline
  <2>2. CASE lost'
    BY <2>2 DEF UploadsHeld
  <2> QED
    BY <1>1, <2>1, <2>2
<1>4. CASE MainStep
  BY <1>1, <1>4, MainPipeline
<1>5. CASE ReaderStep
  BY <1>1, <1>5, ReaderPipeline
<1>6. CASE Signal \/ Nodes \/ (\E k \in Key : ObjectChanges(k)) \/ Terminated \/ UNCHANGED vars
  BY <1>1, <1>6, OutsidePipeline
<1> QED
  BY <1>2, <1>3, <1>4, <1>5, <1>6 DEF Next

\* Before a second signal, and while S3 answers every create and performs every abort it is
\* sent, a multipart upload in progress belongs to a worker that is relaying it: no failure of
\* the relay leaves one behind (relayMultipart).
THEOREM UploadsAreAborted == Spec => []UploadsAborted
<1>1. Init => UploadsHeld
  BY DEF Init, UploadsHeld, NoUploadLeft
<1>2. UploadsHeld => UploadsAborted
  BY DEF UploadsHeld, UploadsAborted
<1> QED
  BY <1>1, <1>2, PipelineHolds, StepHolds, PTL DEF Spec

-----------------------------------------------------------------------------
(* One node that fails, as often as it likes, never fails a call that is     *)
(* repeated: only its own faults are counted, so it is the only node that is *)
(* isolated, and the second attempt stands at another node or at a node that *)
(* is up again.                                                             *)

InFault == {"count", "mark", "assign", "other"}

SoleFault ==
    /\ outages = 0 => /\ down = {} /\ failed = {}
                      /\ \A c \in Client : call[c] \in {"idle", "sent", "void"}
    /\ outages = 1 =>
         \E n \in Node :
            /\ down \subseteq {n} /\ failed \subseteq {n}
            /\ \A c \in Client :
                 /\ call[c] \in InFault => bound[c] = n
                 /\ call[c] = "assign" /\ n \in down => n \in failed
                 /\ NumNodes > 1 /\ call[c] = "resent" => bound[c] \notin down

\* The node that the second attempt goes to is not the one that is down.
LEMMA TargetIsUp ==
    ASSUME Types, NumNodes > 1, NEW c \in Client, NEW n \in Node, call[c] \in {"assign", "other"},
           bound[c] = n, down \subseteq {n}, failed \subseteq {n},
           call[c] = "assign" /\ n \in down => n \in failed
    PROVE  Target(c) # NoNode /\ Target(c) \notin down
<1>1. failed \subseteq Node /\ n \in Int
  BY DEF Types, ClientTypeOK, NodeTypeOK, Node
<1>2. NoNode \notin Node
  BY DEF NoNode, Node
<1>3. Node \ {n} # {}
  <2>1. 0 \in Node /\ 1 \in Node
    BY PoolAssumption DEF Node
  <2> QED
    BY <2>1
<1>4. CASE call[c] = "assign"
  <2>1. Target(c) = Assign(n) /\ Node \ failed # {}
    BY <1>3, <1>4 DEF Target
  <2>2. Assign(n) \in Node \ failed
    BY <1>1, <2>1, FirstFromOffered, Node \ failed \in SUBSET Node DEF Assign
  <2> QED
    BY <1>2, <1>4, <2>1, <2>2
<1>5. CASE call[c] = "other"
  <2> DEFINE O == Node \ (failed \cup {n})
  <2>1. Target(c) = AssignOther(n) /\ O # {}
    BY <1>3, <1>5 DEF Target
  <2>2. FirstFrom(n, O) \in O
    BY <1>1, <2>1, FirstFromOffered, O \in SUBSET Node
  <2>3. AssignOther(n) = FirstFrom(n, O)
    BY <2>1 DEF AssignOther
  <2> QED
    BY <1>2, <2>1, <2>2, <2>3
<1> QED
  BY <1>4, <1>5

LEMMA InitSoleFault == ClientInit => SoleFault
BY DEF ClientInit, NodeInit, SoleFault

\* The prober readmits no node that is down, and a node that has come up does not go
\* down again.
LEMMA PoolSoleFault ==
    ASSUME Types, SoleFault, PoolNext
    PROVE  SoleFault'
<1>1. outages \in Nat /\ UNCHANGED <<bound, call>>
  BY DEF Types, ClientTypeOK, NodeTypeOK, PoolNext
<1>2. CASE Tick \/ Probe \/ StopProber
  <2>1. UNCHANGED <<down, outages>>
    BY <1>2 DEF Tick, Probe, StopProber, netVars
  <2>2. failed' \subseteq failed /\ failed \cap down \subseteq failed'
    <3>1. CASE Tick \/ StopProber
      BY <3>1 DEF Tick, StopProber, poolVars
    <3>2. CASE Probe
      BY <3>2 DEF Probe, UnhealthyProbe, HealthyProbe, Unmark, poolVars
    <3> QED
      BY <1>2, <3>1, <3>2
  <2>3. outages = 0 => failed' = {}
    BY <2>2 DEF SoleFault
  <2>4. ASSUME outages = 1
        PROVE  \E n \in Node :
                  /\ down \subseteq {n} /\ failed' \subseteq {n}
                  /\ \A c \in Client :
                       /\ call[c] \in InFault => bound[c] = n
                       /\ call[c] = "assign" /\ n \in down => n \in failed'
                       /\ NumNodes > 1 /\ call[c] = "resent" => bound[c] \notin down
    BY <2>2, <2>4 DEF SoleFault
  <2> QED
    BY <1>1, <2>1, <2>3, <2>4 DEF SoleFault
<1>3. ASSUME NEW n \in Node, GoDown(n)
      PROVE  SoleFault'
  <2>1. outages' = outages + 1 /\ down' = down \cup {n} /\ failed' = failed
    BY <1>3 DEF GoDown, poolVars
  <2>2. CASE outages = 0
    <3>1. outages' = 1 /\ down' = {n} /\ failed' = {} /\ \A c \in Client : call'[c] \in {"idle", "sent", "void"}
      BY <1>1, <2>1, <2>2 DEF SoleFault
    <3> QED
      BY <3>1 DEF SoleFault, InFault
  <2>3. CASE outages # 0
    <3>1. outages' # 0 /\ outages' # 1
      BY <1>1, <2>1, <2>3
    <3> QED
      BY <3>1 DEF SoleFault
  <2> QED
    BY <2>2, <2>3
<1>4. ASSUME NEW n \in Node, ComeUp(n)
      PROVE  SoleFault'
  <2>1. outages' = outages /\ down' \subseteq down /\ failed' = failed
    BY <1>4 DEF ComeUp, poolVars
  <2> QED
    BY <1>1, <2>1 DEF SoleFault
<1> QED
  BY <1>2, <1>3, <1>4 DEF PoolNext

LEMMA ClientSoleFault ==
    ASSUME Types, SoleFault, NEW c \in Client,
           \/ NewWorker(c) /\ UNCHANGED call
           \/ Begin(c) \/ Return(c)
           \/ MeetFault(c) \/ RecordFault(c) \/ Isolate(c)
           \/ \E attempt \in {"resent", "void"} : Rebind(c, attempt)
    PROVE  SoleFault'
<1>1. /\ UNCHANGED <<down, outages>> /\ call \in [Client -> Phase]
      /\ \A d \in Client \ {c} : call'[d] = call[d] /\ bound'[d] = bound[d]
  BY DEF Types, ClientTypeOK, NewWorker, Begin, Return, NextCall, MeetFault, RecordFault, Isolate,
     Rebind, nodeVars, netVars
<1>2. CASE outages = 0
  <2>1. /\ down = {} /\ failed = {} /\ call[c] \in {"idle", "sent", "void"}
    BY <1>2 DEF SoleFault
  <2>2. (NewWorker(c) /\ UNCHANGED call) \/ Begin(c) \/ Return(c)
    BY <2>1 DEF MeetFault, RecordFault, Isolate, Rebind
  <2>3. failed' = {} /\ call'[c] \in {"idle", "sent", "void"}
    BY <1>1, <2>1, <2>2 DEF NewWorker, Begin, Return, NextCall, FirstAttempt, nodeVars, poolVars
  <2>4. \A d \in Client : call'[d] \in {"idle", "sent", "void"}
    BY <1>1, <1>2, <2>3 DEF SoleFault
  <2> QED
    BY <1>1, <1>2, <2>1, <2>3, <2>4 DEF SoleFault
<1>3. CASE outages = 1
  <2> PICK n \in Node :
         /\ down \subseteq {n} /\ failed \subseteq {n}
         /\ \A d \in Client :
              /\ call[d] \in InFault => bound[d] = n
              /\ call[d] = "assign" /\ n \in down => n \in failed
              /\ NumNodes > 1 /\ call[d] = "resent" => bound[d] \notin down
    BY <1>3 DEF SoleFault
  <2>1. /\ failed \subseteq failed' /\ failed' \subseteq {n}
        /\ call'[c] \in InFault => bound'[c] = n
        /\ call'[c] = "assign" /\ n \in down => n \in failed'
        /\ NumNodes > 1 /\ call'[c] = "resent" => bound'[c] \notin down
    <3>1. CASE NewWorker(c) /\ UNCHANGED call
      <4>1. call[c] = "idle"
        BY <3>1 DEF NewWorker, Types, CallsBound, NoNode, Node
      <4> QED
        BY <3>1, <4>1 DEF NewWorker, nodeVars, poolVars, InFault
    <3>2. CASE Begin(c) \/ Return(c)
      BY <1>1, <3>2 DEF Begin, Return, NextCall, FirstAttempt, nodeVars, poolVars, InFault
    <3>3. CASE MeetFault(c)
      BY <1>1, <3>3 DEF MeetFault, nodeVars, poolVars, InFault
    <3>4. CASE RecordFault(c)
      BY <1>1, <3>4 DEF RecordFault, CountFault, InFault
    <3>5. CASE Isolate(c)
      BY <1>1, <3>5 DEF Isolate, MarkFailed, InFault
    <3>6. ASSUME NEW attempt \in {"resent", "void"}, Rebind(c, attempt)
          PROVE  /\ failed \subseteq failed' /\ failed' \subseteq {n}
                 /\ call'[c] \in InFault => bound'[c] = n
                 /\ call'[c] = "assign" /\ n \in down => n \in failed'
                 /\ NumNodes > 1 /\ call'[c] = "resent" => bound'[c] \notin down
      <4>1. /\ call[c] \in {"assign", "other"} /\ failed' = failed
            /\ call'[c] = attempt /\ bound'[c] = Target(c)
        BY <1>1, <3>6 DEF Rebind, nodeVars, poolVars, Types, ClientTypeOK
      <4>2. NumNodes > 1 => Target(c) \notin down
        BY <4>1, TargetIsUp DEF InFault
      <4> QED
        BY <4>1, <4>2 DEF InFault
    <3> QED
      BY <3>1, <3>2, <3>3, <3>4, <3>5, <3>6
  <2>2. \A d \in Client :
           /\ call'[d] \in InFault => bound'[d] = n
           /\ call'[d] = "assign" /\ n \in down => n \in failed'
           /\ NumNodes > 1 /\ call'[d] = "resent" => bound'[d] \notin down
    BY <1>1, <2>1
  <2> QED
    BY <1>1, <1>3, <2>1, <2>2 DEF SoleFault
<1>4. CASE outages # 0 /\ outages # 1
  BY <1>1, <1>4 DEF SoleFault
<1> QED
  BY <1>2, <1>3, <1>4

LEMMA StepSoleFault == Types /\ SoleFault /\ [ClientNext]_clientVars => SoleFault'
<1> SUFFICES ASSUME Types, SoleFault, [ClientNext]_clientVars PROVE SoleFault'
  OBVIOUS
<1>1. CASE ClientNext
  BY <1>1, PoolSoleFault, ClientSoleFault DEF ClientNext
<1>2. CASE UNCHANGED clientVars
  BY <1>2 DEF clientVars, nodeVars, poolVars, netVars, SoleFault
<1> QED
  BY <1>1, <1>2

\* With another node to go to, a call that is repeated and not cancelled is answered.
LEMMA RepeatedIsAnswered ==
    ASSUME Types, SoleFault, NumNodes > 1, outages <= 1, NEW c \in Client, call[c] # "void"
    PROVE  ~FailsToAnswer(c, TRUE, FALSE)
<1>1. outages = 0 \/ outages = 1
  BY DEF Types, ClientTypeOK, NodeTypeOK
<1>2. CASE outages = 0
  BY <1>2 DEF SoleFault, FailsToAnswer, NoLiveNode, Sent
<1>3. CASE outages = 1
  <2> PICK n \in Node :
         /\ down \subseteq {n} /\ failed \subseteq {n}
         /\ \A d \in Client :
              /\ call[d] \in InFault => bound[d] = n
              /\ call[d] = "assign" /\ n \in down => n \in failed
              /\ NumNodes > 1 /\ call[d] = "resent" => bound[d] \notin down
    BY <1>3 DEF SoleFault
  <2>1. call[c] \in {"assign", "other"} => Target(c) # NoNode
    BY TargetIsUp DEF InFault
  <2> QED
    BY <2>1 DEF FailsToAnswer, NoLiveNode
<1> QED
  BY <1>1, <1>2, <1>3

LEMMA SoleFaultHolds == ClientSpec => [](Types /\ SoleFault)
BY InitTypes, StepTypes, InitSoleFault, StepSoleFault, PTL DEF ClientSpec

\* What is premised of the environment is premised of every state before.
LEMMA EnvironmentCounts ==
    ASSUME Pipeline, Types, [Next]_vars
    PROVE  outages <= outages' /\ refusals <= refusals' /\ changes <= changes' /\ sig <= sig'
<1>0. outages \in Nat /\ refusals \in Nat /\ changes \in Nat /\ sig \in Nat
  BY DEF Pipeline, RunTypes, Types, ClientTypeOK, NodeTypeOK
<1>1. outages' \in {outages, outages + 1}
  <2>1. [ClientNext]_clientVars
    BY StepClients DEF Pipeline
  <2> QED
    BY <2>1 DEF ClientNext, PoolNext, Tick, Probe, StopProber, GoDown, ComeUp, NewWorker, Begin, Return,
       MeetFault, RecordFault, Isolate, Rebind, clientVars, nodeVars, netVars
<1>2. refusals' \in {refusals, refusals + 1}
  <2>1. ASSUME NEW c \in Client, Errs(c) PROVE refusals' \in {refusals, refusals + 1}
    BY <2>1 DEF Errs
  <2>2. ASSUME NEW w \in Worker, Handle(w) PROVE refusals' \in {refusals, refusals + 1}
    BY <2>1, <2>2, WorkersAreClients DEF Handle, HeadAnswered, HeadFails, StreamOpened, CreateAnswered,
       PartAnswered, StoreAnswered, RelayFails, PartFails, AbortReturns, Answered, Missing
  <2>3. CASE MainStep
    BY <2>1, <2>3, WorkersAreClients DEF MainStep, StartArchive, SendArchive, ArchiveReturns, StartWorker,
       StartReader, Finished, CreateClient, envVars
  <2>4. CASE ~MainStep /\ ~\E w \in Worker : Handle(w)
    BY <2>4 DEF Next, ReaderStep, ReadLine, SendLine, EndOfFile, WorkerStep, TakeTask, WorkerExits,
       RetryLeg, Signal, Nodes, ObjectChanges, Terminated, vars, backupVars, envVars
  <2> QED
    BY <2>2, <2>3, <2>4
<1>3. changes' \in {changes, changes + 1} /\ sig' \in {sig, sig + 1}
  <2>1. CASE \E w \in Worker : WorkerStep(w)
    BY <2>1, HandleCall DEF WorkerStep, TakeTask, WorkerExits, envVars, runVars
  <2>2. CASE MainStep
    BY <2>2 DEF MainStep, StartArchive, SendArchive, ArchiveReturns, StartWorker, StartReader, Finished,
       CreateClient, envVars, runVars
  <2>3. CASE ~MainStep /\ ~\E w \in Worker : WorkerStep(w)
    BY <2>3 DEF Next, ReaderStep, ReadLine, SendLine, EndOfFile, RetryLeg, Signal, Nodes, ObjectChanges,
       Terminated, vars, backupVars, envVars, runVars
  <2> QED
    BY <2>1, <2>2, <2>3
<1> QED
  BY <1>0, <1>1, <1>2, <1>3

\* The list's objects are there, the archive is not cancelled, and nothing has failed.
SourceStays == changes = 0 => \A l \in Line : src[File[l].key] # 0
ArchiveHeard == call[Archiver] = "void" => sig > 0
Calm == SourceStays /\ ArchiveHeard /\ OneNodeDoesNotMatter

LEMMA StepSource ==
    ASSUME Pipeline, Types, SourceStays, [Next]_vars
    PROVE  SourceStays'
<1>1. CASE \E k \in Key : ObjectChanges(k)
  <2>1. changes' = changes + 1 /\ changes \in Nat
    BY <1>1 DEF ObjectChanges, Pipeline, RunTypes
  <2> QED
    BY <2>1 DEF SourceStays
<1>2. CASE ~\E k \in Key : ObjectChanges(k)
  <2>1. UNCHANGED <<src, changes>>
    <3>1. CASE \E w \in Worker : WorkerStep(w)
      BY <3>1, HandleCall DEF WorkerStep, TakeTask, WorkerExits, envVars, bucketVars
    <3>2. CASE MainStep
      BY <3>2 DEF MainStep, StartArchive, SendArchive, ArchiveReturns, StartWorker, StartReader, Finished,
         CreateClient, envVars, bucketVars
    <3>3. CASE ~MainStep /\ ~\E w \in Worker : WorkerStep(w)
      BY <1>2, <3>3 DEF Next, ReaderStep, ReadLine, SendLine, EndOfFile, RetryLeg, Signal, Nodes,
         Terminated, vars, backupVars, envVars, bucketVars
    <3> QED
      BY <3>1, <3>2, <3>3
  <2> QED
    BY <2>1 DEF SourceStays
<1> QED
  BY <1>1, <1>2

LEMMA StepHeard ==
    ASSUME Pipeline, Types, ArchiveHeard, [Next]_vars
    PROVE  ArchiveHeard'
<1>0. /\ call \in [Client -> Phase] /\ Archiver \in Client /\ sig \in Nat /\ sig <= sig'
      /\ sig' \in Nat
  <2>1. sig' \in Nat
    BY StepPipeline DEF Pipeline, RunTypes
  <2> QED
    BY <2>1, EnvironmentCounts, WorkersAreClients DEF Types, ClientTypeOK, Pipeline, RunTypes
<1>1. CASE call'[Archiver] = call[Archiver]
  BY <1>0, <1>1 DEF ArchiveHeard
<1>2. ASSUME NEW s, Goto(Archiver, s)
      PROVE  call'[Archiver] = "void" => sig > 0
  BY <1>0, <1>2 DEF Goto, NextCall, FirstAttempt, Cancelled
<1>3. ASSUME NEW w \in Worker, WorkerStep(w)
      PROVE  call'[Archiver] = call[Archiver]
  <2>1. PICK s : Goto(w, s)
    BY <1>3, HandleEndsCall DEF WorkerStep, TakeTask, WorkerExits, Proceed, Moves
  <2>2. w # Archiver
    BY WorkerIsNotArchiver
  <2> QED
    BY <1>0, <2>1, <2>2 DEF Goto, NextCall
<1>4. ASSUME NEW c \in Client, RetryLeg(c)
      PROVE  call'[Archiver] = call[Archiver] \/ (call'[Archiver] = "void" => sig > 0)
  <2>1. CASE c = Archiver
    BY <1>0, <1>4, <2>1 DEF RetryLeg, MeetFault, RecordFault, Isolate, Rebind, Cancelled
  <2>2. CASE c # Archiver
    BY <1>0, <1>4, <2>2 DEF RetryLeg, MeetFault, RecordFault, Isolate, Rebind
  <2> QED
    BY <2>1, <2>2
<1>5. CASE MainStep
  <2>1. UNCHANGED call \/ \E s : Goto(Archiver, s)
    BY <1>5 DEF MainStep, StartArchive, SendArchive, ArchiveReturns, StartWorker, StartReader, Finished,
       CreateClient, clientVars
  <2> QED
    BY <1>0, <1>1, <1>2, <2>1 DEF ArchiveHeard
<1>6. CASE ReaderStep \/ Signal \/ Nodes \/ (\E k \in Key : ObjectChanges(k)) \/ Terminated
           \/ UNCHANGED vars
  <2>1. call' = call
    BY <1>6 DEF ReaderStep, ReadLine, SendLine, EndOfFile, Signal, Nodes, ObjectChanges, Terminated,
       vars, clientVars
  <2> QED
    BY <1>1, <2>1
<1> QED
  BY <1>0, <1>1, <1>3, <1>4, <1>5, <1>6 DEF Next, ArchiveHeard

\* With the premises, a worker's HEAD is answered while no second signal came.
LEMMA HeadIsAnswered ==
    ASSUME Pipeline, Types, SoleFault, SourceStays, NEW w \in Worker, HeadFails(w),
           NumNodes > 1, outages <= 1, refusals' = 0, changes = 0, sig < 2
    PROVE  FALSE
<1>1. w \in Client /\ stage[w] = "head" /\ job[w].line \in Line /\ TaskKey(w) = File[job[w].line].key
  BY TaskData, WorkersAreClients DEF HeadFails, Pipeline, Working
<1>2. src[TaskKey(w)] # 0
  BY <1>1 DEF SourceStays
<1>3. Errs(w)
  BY <1>2 DEF HeadFails, Missing
<1>4. Repeatable(w) /\ ~Cancelled(w) /\ call[w] # "void"
  BY <1>1, WorkerIsNotArchiver DEF Repeatable, Cancelled, Pipeline, Attempts
<1>5. ~FailsToAnswer(w, Repeatable(w), Cancelled(w))
  BY <1>1, <1>4, RepeatedIsAnswered DEF FailsToAnswer
<1>6. refusals' = refusals + 1 /\ refusals \in Nat
  BY <1>3, <1>5 DEF Errs, Pipeline, RunTypes
<1> QED
  BY <1>6

LEMMA ArchiveIsAnswered ==
    ASSUME Pipeline, Types, SoleFault, ArchiveHeard, stage[Archiver] = "archive", Errs(Archiver),
           NumNodes > 1, outages <= 1, refusals' = 0, sig = 0
    PROVE  FALSE
<1>1. Archiver \in Client /\ Repeatable(Archiver) /\ ~Cancelled(Archiver) /\ call[Archiver] # "void"
  BY WorkersAreClients DEF Repeatable, Cancelled, ArchiveHeard
<1>2. ~FailsToAnswer(Archiver, Repeatable(Archiver), Cancelled(Archiver))
  BY <1>1, RepeatedIsAnswered DEF FailsToAnswer
<1>3. refusals' = refusals + 1 /\ refusals \in Nat
  BY <1>2 DEF Errs, Pipeline, RunTypes
<1> QED
  BY <1>3

\* A worker reports failed_head in one place only.
LEMMA OtherReports ==
    ASSUME NEW w \in Worker, Handle(w), ~HeadFails(w)
    PROVE  UNCHANGED results \/ \E r \in Result \ {"failed_head"} : Finish(w, r)
<1>1. \A j, s : Proceed(w, j, s) => UNCHANGED results
  BY DEF Proceed
<1>2. \A j : NextPart(w, j) => UNCHANGED results
  BY <1>1 DEF NextPart
<1>3. CASE HeadAnswered(w)
  BY <1>1, <1>3 DEF HeadAnswered, Result
<1>4. CASE StreamOpened(w) \/ PartFails(w)
  BY <1>1, <1>4 DEF StreamOpened, PartFails
<1>5. CASE CreateAnswered(w) \/ PartAnswered(w)
  BY <1>2, <1>5 DEF CreateAnswered, PartAnswered
<1>6. CASE StoreAnswered(w) \/ RelayFails(w) \/ AbortReturns(w)
  BY <1>6 DEF StoreAnswered, RelayFails, AbortReturns, Result
<1> QED
  BY <1>3, <1>4, <1>5, <1>6 DEF Handle

LEMMA NoHeadReported ==
    ASSUME Pipeline, Types, SoleFault, SourceStays, [Next]_vars,
           NumNodes > 1, outages <= 1, refusals' = 0, changes = 0, sig < 2,
           \A l \in Line : ~Reported(l, "failed_head")
    PROVE  \A l \in Line : ~Reported(l, "failed_head")'
<1>1. CASE UNCHANGED results
  BY <1>1 DEF Reported
<1>2. ASSUME NEW w \in Worker, Handle(w)
      PROVE  \A l \in Line : ~Reported(l, "failed_head")'
  <2>1. ~HeadFails(w)
    BY HeadIsAnswered
  <2>2. CASE \E r \in Result \ {"failed_head"} : Finish(w, r)
    <3>1. PICK r \in Result \ {"failed_head"} : EndsWith(w, r)
      BY <2>2, FinishEnds
    <3>2. stage[w] \in Working
      BY <1>2, HandleShape DEF Pipeline
    <3> QED
      BY <3>1, <3>2, ReportedGrows
  <2> QED
    BY <1>1, <1>2, <2>1, <2>2, OtherReports
<1>3. CASE ReadLine
  <2>1. CASE UNCHANGED results
    BY <1>1, <2>1
  <2>2. CASE results' = [results EXCEPT ![NextLine] = Append(@, "parse_failed")] /\ NextLine \in Line
    <3>1. results \in [Line -> Seq(Result)] /\ "parse_failed" \in Result
      BY DEF Pipeline, BucketTypes, Result
    <3> DEFINE n == NextLine
    <3>2. results'[n] = Append(results[n], "parse_failed") /\ results[n] \in Seq(Result)
          /\ \A l \in Line \ {n} : results'[l] = results[l]
      BY <2>2, <3>1
    <3> HIDE DEF n
    <3>3. ASSUME NEW l \in Line, l = n, Reported(l, "failed_head")'
          PROVE  FALSE
      <4>1. "failed_head" \in {Append(results[l], "parse_failed")[i] :
                                 i \in DOMAIN Append(results[l], "parse_failed")}
        BY <3>2, <3>3 DEF Reported
      <4>2. "failed_head" \in {results[l][i] : i \in DOMAIN results[l]}
        BY <3>1, <4>1, AppendedResult
      <4> QED
        BY <4>2 DEF Reported
    <3>4. ASSUME NEW l \in Line, l # n PROVE ~Reported(l, "failed_head")'
      BY <3>2, <3>4 DEF Reported
    <3> QED
      BY <3>3, <3>4
  <2> QED
    BY <1>3, <2>1, <2>2 DEF ReadLine, MoreLines
<1>4. CASE ~ReadLine /\ ~\E w \in Worker : Handle(w)
  <2>1. CASE MainStep
    BY <1>1, <2>1, MainPipeline
  <2>2. CASE SendLine \/ EndOfFile
    BY <1>1, <2>2 DEF SendLine, EndOfFile, taskVars
  <2>3. CASE \E w \in Worker : TakeTask(w) \/ WorkerExits(w)
    BY <1>1, <2>3 DEF TakeTask, WorkerExits, Proceed
  <2>4. CASE \E c \in Client : RetryLeg(c)
    BY <1>1, <2>4, RetryPipeline
  <2>5. CASE Signal \/ Nodes \/ (\E k \in Key : ObjectChanges(k)) \/ Terminated \/ UNCHANGED vars
    BY <1>1, <2>5, OutsidePipeline
  <2> QED
    BY <1>4, <2>1, <2>2, <2>3, <2>4, <2>5 DEF Next, ReaderStep, WorkerStep
<1> QED
  BY <1>2, <1>3, <1>4

LEMMA StepCalm == Pipeline /\ Types /\ SoleFault /\ Calm /\ [Next]_vars => Calm'
<1> SUFFICES ASSUME Pipeline, Types, SoleFault, Calm, [Next]_vars PROVE Calm'
  OBVIOUS
<1>1. SourceStays' /\ ArchiveHeard'
  BY StepSource, StepHeard DEF Calm
<1>2. ASSUME NumNodes > 1, outages' <= 1, refusals' = 0, changes' = 0
      PROVE  /\ sig' = 0 => main' # "failed"
             /\ sig' < 2 => \A l \in Line : ~Reported(l, "failed_head")'
  <2>1. /\ outages <= 1 /\ refusals = 0 /\ changes = 0 /\ (sig' = 0 => sig = 0) /\ (sig' < 2 => sig < 2)
    <3>1. /\ outages \in Nat /\ refusals \in Nat /\ changes \in Nat /\ sig \in Nat
          /\ outages' \in Nat /\ sig' \in Nat
      <4>1. sig' \in Nat
        BY StepPipeline DEF Pipeline, RunTypes
      <4>2. outages' \in Nat
        BY StepTypes, StepClients DEF Pipeline, Types, ClientTypeOK, NodeTypeOK
      <4> QED
        BY <4>1, <4>2 DEF Pipeline, RunTypes, Types, ClientTypeOK, NodeTypeOK
    <3> QED
      BY <1>2, <3>1, EnvironmentCounts
  <2>2. /\ sig = 0 => main # "failed"
        /\ sig < 2 => \A l \in Line : ~Reported(l, "failed_head")
    BY <1>2, <2>1 DEF Calm, OneNodeDoesNotMatter
  <2>3. ASSUME sig = 0
        PROVE  main' # "failed"
    <3>1. CASE MainStep
      <4>1. ArchiveReturns => main' = "workers"
        BY <1>2, <2>1, <2>3, ArchiveIsAnswered DEF ArchiveReturns, Calm
      <4> QED
        BY <2>2, <2>3, <3>1, <4>1 DEF MainStep, StartArchive, SendArchive, StartWorker, StartReader, Finished,
           runVars
    <3>2. CASE ~MainStep
      <4>1. main' = main
        <5>1. CASE \E w \in Worker : WorkerStep(w)
          BY <5>1, HandleCall DEF WorkerStep, TakeTask, WorkerExits, runVars
        <5>2. CASE ~\E w \in Worker : WorkerStep(w)
          BY <3>2, <5>2, ReaderPipeline, RetryPipeline, OutsidePipeline DEF Next
        <5> QED
          BY <5>1, <5>2
      <4> QED
        BY <2>2, <2>3, <4>1
    <3> QED
      BY <3>1, <3>2
  <2>4. ASSUME sig < 2
        PROVE  \A l \in Line : ~Reported(l, "failed_head")'
    BY <1>2, <2>1, <2>2, <2>4, NoHeadReported DEF Calm
  <2> QED
    BY <2>1, <2>3, <2>4
<1>3. OneNodeDoesNotMatter'
  BY <1>2 DEF OneNodeDoesNotMatter
<1> QED
  BY <1>1, <1>3 DEF Calm

LEMMA InitCalm ==
    ASSUME ObjectsExist, Init
    PROVE  Calm
<1>1. SourceStays
  BY FileTypes DEF ObjectsExist, Init, SourceStays
<1>2. ArchiveHeard /\ main # "failed"
  BY WorkersAreClients DEF Init, ClientInit, ArchiveHeard
<1>3. \A l \in Line : ~Reported(l, "failed_head")
  BY DEF Init, Reported
<1> QED
  BY <1>1, <1>2, <1>3 DEF Calm, OneNodeDoesNotMatter

\* However the faults of one node fall among the calls, the counts, the isolation and the
\* prober's readmissions, and whatever the other workers do with the pool: with a second node
\* that answers, the archive is uploaded and no HEAD is reported failed, unless a
\* signal cancelled it (handleNodeFault, Assign, AssignOther).
THEOREM OneNodeIsHarmless ==
    ASSUME ObjectsExist
    PROVE  Spec => []OneNodeDoesNotMatter
<1>1. Init => Calm
  BY InitCalm
<1>2. Calm => OneNodeDoesNotMatter
  BY DEF Calm
<1>3. Spec => [](Types /\ SoleFault)
  BY ClientsImplemented, SoleFaultHolds, PTL DEF Clients
<1> QED
  BY <1>1, <1>2, <1>3, PipelineHolds, StepCalm, PTL DEF Spec
=============================================================================
