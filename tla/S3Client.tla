------------------------------ MODULE S3Client ------------------------------
(***************************************************************************)
(* The S3 clients of the workers.  Each is bound to one node; a call that  *)
(* meets a node fault is counted against the node, the client is bound to  *)
(* another node, and the call is made once more.  Uploads from a stream    *)
(* are not repeated.                                                       *)
(*                                                                         *)
(* Go source: chunked_check_tool/s3client.go (handleNodeFault, rebuild,    *)
(* the retry around every call) and main.go (newWorker).                   *)
(*                                                                         *)
(* call[c] is where client c stands:                                       *)
(*   idle    no call                                                       *)
(*   sent    the first attempt is under way                                *)
(*   count   it met a node fault, RecordFault is next                      *)
(*   mark    the count reached the threshold, MarkFailed is next           *)
(*   assign  the node is isolated, Assign is next                          *)
(*   other   the node is below the threshold, AssignOther is next          *)
(*   resent  the second attempt is under way                               *)
(*   void    an attempt made under a cancelled context: it is never sent   *)
(***************************************************************************)
EXTENDS NodePool

CONSTANTS
    NumWorkers,  \* check_concurrency
    MaxFaults    \* bound: no call starts on a node with this many faults recorded

ASSUME ClientAssumption == NumWorkers \in Nat \ {0} /\ MaxFaults \in Nat

\* The client after those of the workers uploads the list archive.
Client == 0 .. NumWorkers
Archiver == NumWorkers

Phase == {"idle", "sent", "count", "mark", "assign", "other", "resent", "void"}

VARIABLES
    bound,       \* nodeIdx of each client, NoNode before newWorker made it
    call         \* where each client stands in its call

clientVars == <<nodeVars, bound, call>>

ClientTypeOK ==
    /\ NodeTypeOK
    /\ bound \in [Client -> Node \cup {NoNode}]
    /\ call \in [Client -> Phase]

ClientInit ==
    /\ NodeInit
    /\ bound = [c \in Client |-> NoNode]
    /\ call = [c \in Client |-> "idle"]

-----------------------------------------------------------------------------
(* newWorker *)

NewWorker(c) ==
    /\ bound[c] = NoNode
    /\ Assign(c) # NoNode
    /\ bound' = [bound EXCEPT ![c] = Assign(c)]
    /\ UNCHANGED nodeVars

-----------------------------------------------------------------------------
(* handleNodeFault *)

\* A call may start: the bound of the model, not a condition of the code.
MayCall(c) == bound[c] # NoNode /\ counted[bound[c]] < MaxFaults

MeetFault(c) ==
    /\ call[c] = "sent"
    /\ bound[c] \in down
    /\ call' = [call EXCEPT ![c] = "count"]
    /\ UNCHANGED <<nodeVars, bound>>

\* Mutant: the threshold is ignored, the first fault isolates.
RecordFirstFault(c) ==
    /\ call[c] = "count"
    /\ CountFault(bound[c])
    /\ call' = [call EXCEPT ![c] = "mark"]
    /\ UNCHANGED <<proberVars, netVars, bound>>

RecordFault(c) ==
    /\ call[c] = "count"
    /\ CountFault(bound[c])
    /\ call' = [call EXCEPT ![c] = IF AtThreshold(bound[c]) THEN "mark" ELSE "other"]
    /\ UNCHANGED <<proberVars, netVars, bound>>

Isolate(c) ==
    /\ call[c] = "mark"
    /\ MarkFailed(bound[c])
    /\ call' = [call EXCEPT ![c] = "assign"]
    /\ UNCHANGED <<proberVars, netVars, bound>>

\* The node the second attempt goes to.
Target(c) == IF call[c] = "assign" THEN Assign(bound[c]) ELSE AssignOther(bound[c])

Rebind(c, attempt) ==
    /\ call[c] \in {"assign", "other"}
    /\ Target(c) # NoNode
    /\ bound' = [bound EXCEPT ![c] = Target(c)]
    /\ call' = [call EXCEPT ![c] = attempt]
    /\ UNCHANGED nodeVars

NoLiveNode(c) == call[c] \in {"assign", "other"} /\ Target(c) = NoNode

-----------------------------------------------------------------------------
(* How an attempt ends *)

Sent(c) == call[c] \in {"sent", "resent"}

\* The node answers.
Answers(c) == Sent(c) /\ bound[c] \notin down

\* The call returns an error other than a refusal by S3.
FailsToAnswer(c, repeatable, cancelled) ==
    \/ call[c] = "void"
    \/ Sent(c) /\ cancelled
    \/ Sent(c) /\ bound[c] \in down /\ (call[c] = "resent" \/ ~repeatable)
    \/ NoLiveNode(c)

\* What call[c] is after a call ends: idle, or the next call's first attempt.
NextCall(c, phase) ==
    /\ phase # "idle" => MayCall(c)
    /\ call' = [call EXCEPT ![c] = phase]
    /\ UNCHANGED bound

FirstAttempt(cancelled) == IF cancelled THEN "void" ELSE "sent"

-----------------------------------------------------------------------------
(* The clients by themselves: calls of any kind, at any time *)

Begin(c) ==
    /\ call[c] = "idle"
    /\ \E cancelled \in BOOLEAN : NextCall(c, FirstAttempt(cancelled))
    /\ UNCHANGED nodeVars

Return(c) ==
    /\ Sent(c) \/ call[c] = "void" \/ NoLiveNode(c)
    /\ \E phase \in {"idle", "sent", "void"} : NextCall(c, phase)
    /\ UNCHANGED nodeVars

PoolNext ==
    \/ (Tick \/ Probe \/ StopProber) /\ UNCHANGED <<bound, call>>
    \/ \E n \in Node : (GoDown(n) \/ ComeUp(n)) /\ UNCHANGED <<bound, call>>

ClientNext ==
    \/ PoolNext
    \/ \E c \in Client :
         \/ NewWorker(c) /\ UNCHANGED call
         \/ Begin(c) \/ Return(c)
         \/ MeetFault(c) \/ RecordFault(c) \/ Isolate(c)
         \/ \E attempt \in {"resent", "void"} : Rebind(c, attempt)

ClientSpec == ClientInit /\ [][ClientNext]_clientVars

-----------------------------------------------------------------------------
(* Properties *)

\* A node is isolated only after the threshold of faults was recorded against it,
\* and again only for a fault of its own: of the clients that stand between
\* RecordFault and MarkFailed while the prober readmits the node (nodepool.go:94-99),
\* each isolates it at most once, for the fault it counted itself.
IsolationEarned ==
    \A n \in Node :
        /\ n \in failed => isolations[n] > 0
        /\ isolations[n] > 0 => counted[n] >= Threshold + isolations[n] - 1

\* A count at the threshold never goes unnoticed: the node is isolated, or the
\* client that counted is about to isolate it.
ThresholdIsolates ==
    \A n \in Node : faults[n] >= Threshold =>
        n \in failed \/ \E c \in Client : call[c] = "mark" /\ bound[c] = n

\* "the node must accumulate a fresh threshold of faults to be isolated again"
\* (noderecovery.go:8-9, nodepool.go:113-115): isolation finds the threshold of
\* faults since the last readmission.  The code does not keep it (README, section 7).
FreshThreshold ==
    [][\A n \in Node : n \in failed' \ failed => faults[n] >= Threshold]_clientVars

=============================================================================
