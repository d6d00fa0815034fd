------------------------------- MODULE Check --------------------------------
(***************************************************************************)
(* A check run: a source of tasks (the listing of a bucket, -list-file or  *)
(* -check-file), the check workers with their HEAD and their probes, the   *)
(* result files of module Output, the checkpoints' flushes, two signals    *)
(* and the shutdown.                                                       *)
(*                                                                         *)
(* Go source: chunked_check_tool/checker.go, verify_task.go, mpoffset.go,  *)
(* check_file_source.go, list_file_source.go, file_source.go, output.go    *)
(* (NewOutput and the Write methods), main.go (run).                       *)
(*                                                                         *)
(* An object is a size, the boundaries of its parts (cuts) and the places  *)
(* where a chunk header or a trailer was stored with the data (marks); a   *)
(* probe sees a mark that lies wholly inside the range it reads.           *)
(***************************************************************************)
EXTENDS Output

CONSTANTS
    Task,        \* objects, one line or listing entry each
    Checker,     \* check workers
    ObjCap,      \* capacity of objCh
    Window,      \* probeWindow
    MarkLength,  \* length of a chunk header, at most Window
    Scenario     \* the configurations, inputs and buckets to start from

\* A configuration that LoadConfig accepts, with the source of the tasks.
Config ==
    {c \in [mode : {"off", "offset", "segment"}, input : {"none", "check", "list"},
            threshold : Nat, segment : Nat, okLog : BOOLEAN, mpOkLog : BOOLEAN] :
        c.mode = "segment" => c.segment > 0}

Object ==
    [multi : BOOLEAN, size : Nat, cuts : Seq(Nat), marks : SUBSET Nat,
     etag : [count : Int, offs : Seq(Int)]]

InputLine == [id : Task, multi : BOOLEAN, count : Int, offs : Seq(Int)]

Bounds == [faults : Nat, changes : Nat, flushes : Nat, opens : Nat, signals : 0 .. 2]

ASSUME CheckAssumption ==
    /\ Line = [file : File, task : Task]
    /\ {"parse_failed", "corrupted", "mp", "list_parse_failed", "corrupted_mp", "ok_mp",
        "ok_objects", "check_failed", "mp_check_failed"} \subseteq File
    /\ {ObjCap, Window, MarkLength} \subseteq Nat \ {0} /\ MarkLength <= Window
    /\ \A s \in Scenario :
        /\ s.conf \in Config /\ s.input \in Seq(InputLine)
        /\ s.bucket \in [Task -> Object] /\ s.later \in [Task -> Object]
        /\ s.checkers \subseteq Checker /\ s.checkers # {}
        /\ s.bounds \in Bounds

\* A key is listed once, and no line of an input file repeats another.
InputDistinct ==
    \A s \in Scenario : \A i, j \in DOMAIN s.input : s.input[i].id = s.input[j].id => i = j

\* Leaves out the one combination whose unverified objects have no file.
NoOffsetCheckFile == \A s \in Scenario : s.conf.input = "check" => s.conf.mode # "offset"

\* Whole chunk headers and trailers, each at the start or at the end of a part.
PartEnd(o, i) == IF i < Len(o.cuts) THEN o.cuts[i + 1] ELSE o.size

MarksAtPartEnds ==
    \A s \in Scenario : \A t \in Task :
        LET o == s.bucket[t]
        IN /\ o.cuts # <<>> /\ o.cuts[1] = 0 /\ (~o.multi => Len(o.cuts) = 1)
           /\ \A m \in o.marks : /\ m + MarkLength <= o.size
                                 /\ \E i \in DOMAIN o.cuts : m \in {o.cuts[i], PartEnd(o, i) - MarkLength}

VARIABLES
    sc,          \* the scenario: conf, input, later, checkers
    object,      \* object[t] as it is in the bucket
    left,        \* bounds: faults, changes, flushes, opens still to come
    signals,     \* 0, 1 (listCtx cancelled), 2 (hardCtx cancelled)
    toRead,      \* input not yet read
    reader,      \* reading, sending, reporting, done (objCh closed)
    offer,       \* the task the reader wants to send
    objCh,
    pc,          \* check workers: idle, head, probe, write, exit
    job,         \* the task of a check worker
    plan,        \* probes it has not made
    dest,        \* the file its result line goes to
    main,        \* running, flushing, closing, done
    verdict,     \* history: verdicts reached for a task
    sent,        \* history: tasks the source has sent
    refused,     \* history: tasks for which a call failed
    changed      \* history: tasks whose object changed since its line was made

readVars  == <<toRead, reader, offer, sent>>
workVars  == <<pc, job, plan, dest, verdict>>
worldVars == <<object, changed>>
vars == <<outVars, sc, worldVars, left, signals, readVars, objCh, workVars, refused, main>>

conf == sc.conf
FileInput == conf.input # "none"

-----------------------------------------------------------------------------
(* Offsets and probes: the functions *)

\* partcnt >= 1 offsets, the first 0, strictly increasing.
ValidOffsets(e) ==
    /\ e.count >= 1 /\ Len(e.offs) = e.count
    /\ e.offs[1] = 0
    /\ \A i \in 2 .. e.count : e.offs[i - 1] < e.offs[i]

\* <md5>-<partcnt>-<off0>|<off1>..., each offset within the object; anything else has none.
ETagOffsets(o) ==
    IF ValidOffsets(o.etag) /\ \A i \in DOMAIN o.etag.offs : o.etag.offs[i] <= o.size
    THEN o.etag.offs ELSE <<>>

Segments(size) ==
    [i \in 1 .. (size + conf.segment - 1) \div conf.segment |-> (i - 1) * conf.segment]

\* The task of a listed object.
ResolveOffsets(t) ==
    LET o == object[t]
        offs == CASE conf.mode = "offset"  -> ETagOffsets(o)
                  [] conf.mode = "segment" -> Segments(o.size)
                  [] conf.mode = "off"     -> <<>>
    IN [id |-> t, multi |-> o.multi, size |-> o.size, head |-> FALSE,
        offs |-> IF o.multi THEN offs ELSE <<>>]

\* A line of the input file: -list-file takes multipart lines only.
Parses(l) ==
    \/ l.multi /\ ValidOffsets(l)
    \/ ~l.multi /\ conf.input = "check"

LineTask(l) ==
    [id |-> l.id, multi |-> l.multi, size |-> 0, head |-> TRUE, offs |-> l.offs]

AtLeast0(n) == IF n < 0 THEN 0 ELSE n
AtMost(n, m) == IF n > m THEN m ELSE n

\* Mutant: the tail starts one early.
EarlyTail(size) == [start |-> AtLeast0(size - Window - 1), length |-> AtMost(Window, size)]

TailProbe(size) == [start |-> AtLeast0(size - Window), length |-> AtMost(Window, size)]

\* The range around a part boundary, within the object if its size is known.
Around(task, off) ==
    LET s == AtLeast0(off - Window)
        e == IF task.size > 0 THEN AtMost(off + Window, task.size) ELSE off + Window
    IN [start |-> s, length |-> e - s]

\* Mutant: a probe around an offset behind the end of the object is kept.
AllBoundaryProbes(task) ==
    [i \in 1 .. AtLeast0(Len(task.offs) - 1) |-> Around(task, task.offs[i + 1])]

\* One probe for each boundary but the first, unless there is nothing to read.
BoundaryProbes(task) ==
    LET upTo[n \in 0 .. Len(task.offs)] ==
            IF n <= 1 THEN <<>>
            ELSE LET p == Around(task, task.offs[n])
                 IN IF p.length > 0 THEN Append(upTo[n - 1], p) ELSE upTo[n - 1]
    IN upTo[Len(task.offs)]

Probes(task) ==
    LET head == [start |-> 0, length |-> Window]
        tail == IF task.size > 0 \/ ~task.multi THEN <<TailProbe(task.size)>> ELSE <<>>
    IN IF 0 < task.size /\ task.size <= conf.threshold
       THEN <<[start |-> 0, length |-> conf.threshold]>>
       ELSE <<head>> \o BoundaryProbes(task) \o tail

\* S3 refuses a range that starts at or behind the end of the object (416).
Readable(t, p) == p.start < object[t].size

Match(t, p) ==
    \E m \in object[t].marks :
        p.start <= m /\ m + MarkLength <= AtMost(p.start + p.length, object[t].size)

-----------------------------------------------------------------------------
(* Routing: which file a verdict goes to, and which files NewOutput opens *)

Opens(c, f) ==
    LET mp == c.mode # "off" \/ c.input # "none"
    IN CASE f = "mp"                -> c.input = "check" \/ (c.input = "none" /\ c.mode = "off")
         [] f = "list_parse_failed" -> c.input = "none" /\ c.mode = "offset"
         [] f = "corrupted_mp"      -> mp
         [] f = "ok_mp"             -> mp /\ c.mpOkLog
         [] f = "mp_check_failed"   -> mp
         [] f = "ok_objects"        -> c.okLog
         [] OTHER                   -> TRUE

Route(v, multi) ==
    CASE v = "failed"     -> IF multi THEN "mp_check_failed" ELSE "check_failed"
      [] v = "corrupted"  -> IF multi THEN "corrupted_mp" ELSE "corrupted"
      [] v = "clean"      -> IF multi THEN "ok_mp" ELSE "ok_objects"
      [] v = "unverified" -> IF conf.mode = "offset" THEN "list_parse_failed" ELSE "mp"

-----------------------------------------------------------------------------
(* Check workers *)

Reached(t, v, task) ==
    verdict' = [verdict EXCEPT ![t] = Append(@, [is |-> v, multi |-> task.multi, offs |-> task.offs])]

\* Mutant: the result line is given up when the second signal has come.
SettleUnlessAborted(c, v, task) ==
    /\ Reached(task.id, v, task)
    /\ pc' = [pc EXCEPT ![c] = IF Route(v, task.multi) \in Started /\ signals < 2 THEN "write" ELSE "idle"]
    /\ dest' = [dest EXCEPT ![c] = Route(v, task.multi)]

\* The Write method of a file that is not opened does nothing.
Settle(c, v, task) ==
    /\ Reached(task.id, v, task)
    /\ pc' = [pc EXCEPT ![c] = IF Route(v, task.multi) \in Started THEN "write" ELSE "idle"]
    /\ dest' = [dest EXCEPT ![c] = Route(v, task.multi)]

\* Mutant: an empty object is probed like any other.
DispatchAll(c, task) ==
    /\ job' = [job EXCEPT ![c] = task]
    /\ IF task.multi /\ task.offs = <<>>
       THEN Settle(c, "unverified", task) /\ UNCHANGED plan
       ELSE /\ pc' = [pc EXCEPT ![c] = "probe"]
            /\ plan' = [plan EXCEPT ![c] = Probes(task)]
            /\ UNCHANGED <<dest, verdict>>

\* An empty regular object is clean, a multipart object without offsets unverified.
Dispatch(c, task) ==
    /\ job' = [job EXCEPT ![c] = task]
    /\ \/ ~task.multi /\ task.size = 0 /\ Settle(c, "clean", task) /\ UNCHANGED plan
       \/ task.multi /\ task.offs = <<>> /\ Settle(c, "unverified", task) /\ UNCHANGED plan
       \/ /\ IF task.multi THEN task.offs # <<>> ELSE task.size > 0
          /\ pc' = [pc EXCEPT ![c] = "probe"]
          /\ plan' = [plan EXCEPT ![c] = Probes(task)]
          /\ UNCHANGED <<dest, verdict>>

Receive(c) ==
    /\ pc[c] = "idle" /\ objCh # <<>>
    /\ objCh' = Tail(objCh)
    /\ LET task == Head(objCh)
       IN \/ ~task.head /\ Dispatch(c, task)
          \/ /\ task.head
             /\ job' = [job EXCEPT ![c] = task]
             /\ pc' = [pc EXCEPT ![c] = "head"]
             /\ UNCHANGED <<plan, dest, verdict>>
    /\ UNCHANGED <<outVars, sc, worldVars, left, signals, readVars, refused, main>>

\* A call fails: always once hardCtx is cancelled, else as often as the bound allows.
CallFails(t) ==
    /\ signals = 2 \/ left.faults > 0
    /\ left' = IF signals = 2 THEN left ELSE [left EXCEPT !.faults = @ - 1]
    /\ refused' = refused \union {t}

\* The object is what HEAD says: drift to regular drops the offsets of the line, drift to
\* multipart leaves none.
HeadAnswers(c) ==
    /\ pc[c] = "head" /\ signals < 2
    /\ LET o == object[job[c].id]
       IN Dispatch(c, [id |-> job[c].id, multi |-> o.multi, size |-> o.size, head |-> TRUE,
                       offs |-> IF o.multi THEN job[c].offs ELSE <<>>])
    /\ UNCHANGED <<outVars, sc, worldVars, left, signals, readVars, objCh, refused, main>>

\* Mutant: a HEAD that fails is made again.
HeadRepeated(c) ==
    /\ pc[c] = "head"
    /\ CallFails(job[c].id)
    /\ UNCHANGED <<outVars, sc, worldVars, signals, readVars, objCh, workVars, main>>

\* The type of the line decides which file a task without a HEAD goes to.
HeadFails(c) ==
    /\ pc[c] = "head"
    /\ CallFails(job[c].id)
    /\ Settle(c, "failed", job[c])
    /\ UNCHANGED <<outVars, sc, worldVars, signals, readVars, objCh, job, plan, main>>

\* The first probe that matches or fails settles the object.
Probe(c) ==
    /\ pc[c] = "probe" /\ signals < 2
    /\ LET t == job[c].id
           p == Head(plan[c])
       IN \/ ~Readable(t, p) /\ Settle(c, "failed", job[c]) /\ UNCHANGED plan
          \/ Readable(t, p) /\ Match(t, p) /\ Settle(c, "corrupted", job[c]) /\ UNCHANGED plan
          \/ /\ Readable(t, p) /\ ~Match(t, p)
             /\ plan' = [plan EXCEPT ![c] = Tail(@)]
             /\ IF Tail(plan[c]) = <<>> THEN Settle(c, "clean", job[c])
                ELSE UNCHANGED <<pc, dest, verdict>>
    /\ UNCHANGED <<outVars, sc, worldVars, left, signals, readVars, objCh, job, refused, main>>

ProbeFails(c) ==
    /\ pc[c] = "probe"
    /\ CallFails(job[c].id)
    /\ Settle(c, "failed", job[c])
    /\ UNCHANGED <<outVars, sc, worldVars, signals, readVars, objCh, job, plan, main>>

\* A Write method.
Write(c) ==
    /\ pc[c] = "write"
    /\ Push([file |-> dest[c], task |-> job[c].id])
    /\ pc' = [pc EXCEPT ![c] = "idle"]
    /\ UNCHANGED <<sc, worldVars, left, signals, readVars, objCh, job, plan, dest, verdict, refused, main>>

CheckerExits(c) ==
    /\ pc[c] = "idle"
    /\ objCh = <<>> /\ reader = "done"
    /\ pc' = [pc EXCEPT ![c] = "exit"]
    /\ UNCHANGED <<outVars, sc, worldVars, left, signals, readVars, objCh, job, plan, dest, verdict, refused, main>>

-----------------------------------------------------------------------------
(* The source of the tasks *)

\* A line is read, an entry of a page taken.  A file source looks at listCtx first.
Read ==
    /\ reader = "reading" /\ toRead # <<>>
    /\ FileInput => signals = 0
    /\ LET l == Head(toRead)
       IN IF FileInput /\ ~Parses(l)
          THEN reader' = "reporting" /\ offer' = LineTask(l)
          ELSE /\ reader' = "sending"
               /\ offer' = IF FileInput THEN LineTask(l) ELSE ResolveOffsets(l.id)
    /\ toRead' = Tail(toRead)
    /\ UNCHANGED <<outVars, sc, worldVars, left, signals, sent, objCh, workVars, refused, main>>

ReportMalformed ==
    /\ reader = "reporting"
    /\ Push([file |-> "parse_failed", task |-> offer.id])
    /\ reader' = "reading"
    /\ UNCHANGED <<sc, worldVars, left, signals, toRead, offer, sent, objCh, workVars, refused, main>>

Send ==
    /\ reader = "sending"
    /\ Len(objCh) < ObjCap
    /\ objCh' = Append(objCh, offer)
    /\ sent' = sent \union {offer.id}
    /\ reader' = "reading"
    /\ UNCHANGED <<outVars, sc, worldVars, left, signals, toRead, offer, workVars, refused, main>>

\* The input is read, or a signal ends the reading; a file source gives up a blocked send
\* on the first signal, a listing on the second.  Then objCh is closed.
SourceEnds ==
    /\ \/ reader = "reading" /\ (toRead = <<>> \/ signals > 0)
       \/ reader = "sending" /\ signals > (IF FileInput THEN 0 ELSE 1)
    /\ reader' = "done"
    /\ UNCHANGED <<outVars, sc, worldVars, left, signals, toRead, offer, sent, objCh, workVars, refused, main>>

-----------------------------------------------------------------------------
(* Checkpoints, shutdown, environment *)

runVars == <<sc, worldVars, signals, readVars, objCh, workVars, refused>>

CheckpointFlush ==
    /\ main = "running" /\ ~FileInput
    /\ left.flushes > 0
    /\ left' = [left EXCEPT !.flushes = @ - 1]
    /\ CallFlush
    /\ UNCHANGED <<runVars, main>>

\* Mutant: the run waits for its source instead of its workers.
SourceDone == main = "running" /\ reader = "done"

WorkersDone == main = "running" /\ \A c \in Checker : pc[c] = "exit"

\* journalRun.Stop: a last checkpoint.
StopJournal ==
    /\ WorkersDone /\ ~FileInput
    /\ CallFlush
    /\ main' = "flushing"
    /\ UNCHANGED <<runVars, left>>

Close ==
    /\ \/ main = "flushing" /\ flush = "idle"
       \/ WorkersDone /\ FileInput
    /\ CloseOutput
    /\ main' = "closing"
    /\ UNCHANGED <<runVars, left>>

RunReturns ==
    /\ main = "closing" /\ Closed
    /\ main' = "done"
    /\ UNCHANGED <<outVars, runVars, left>>

OutputStep ==
    /\ \/ \E f \in File : Writer(f) \/ Ask(f)
       \/ FlushReturns
    /\ UNCHANGED <<runVars, left, main>>

OpenFails ==
    /\ left.opens > 0
    /\ left' = [left EXCEPT !.opens = @ - 1]
    /\ \E f \in File : WriterLoses(f)
    /\ UNCHANGED <<runVars, main>>

Signal ==
    /\ left.signals > 0
    /\ left' = [left EXCEPT !.signals = @ - 1]
    /\ signals' = signals + 1
    /\ UNCHANGED <<outVars, sc, worldVars, readVars, objCh, workVars, refused, main>>

\* Another user replaces an object between its listing or its line and its verdict; at
\* other times it makes no difference.
ObjectChanges ==
    /\ left.changes > 0
    /\ left' = [left EXCEPT !.changes = @ - 1]
    /\ \E t \in Task :
        /\ verdict[t] = <<>> /\ object[t] # sc.later[t]
        /\ FileInput \/ \A i \in DOMAIN toRead : toRead[i].id # t
        /\ object' = [object EXCEPT ![t] = sc.later[t]]
        /\ changed' = changed \union {t}
    /\ UNCHANGED <<outVars, sc, signals, readVars, objCh, workVars, refused, main>>

Terminated == main = "done" /\ UNCHANGED vars

-----------------------------------------------------------------------------

Init ==
    /\ sc \in Scenario
    /\ object = sc.bucket /\ changed = {}
    /\ left = sc.bounds /\ signals = 0
    /\ toRead = sc.input /\ reader = "reading" /\ sent = {}
    /\ offer = [id |-> 0, multi |-> FALSE, size |-> 0, head |-> FALSE, offs |-> <<>>]
    /\ objCh = <<>>
    /\ pc = [c \in Checker |-> IF c \in sc.checkers THEN "idle" ELSE "exit"]
    /\ job = [c \in Checker |-> offer]
    /\ plan = [c \in Checker |-> <<>>]
    /\ dest = [c \in Checker |-> "none"]
    /\ main = "running"
    /\ verdict = [t \in Task |-> <<>>]
    /\ refused = {}
    /\ OutInit({f \in File : Opens(sc.conf, f)})

Work(c) ==
    \/ Receive(c) \/ HeadAnswers(c) \/ HeadFails(c) \/ Probe(c) \/ ProbeFails(c) \/ Write(c)
    \/ CheckerExits(c)

Source == Read \/ ReportMalformed \/ Send \/ SourceEnds

Main == StopJournal \/ Close \/ RunReturns

Next ==
    \/ \E c \in Checker : Work(c)
    \/ Source
    \/ Main
    \/ CheckpointFlush
    \/ OutputStep
    \/ OpenFails
    \/ Signal
    \/ ObjectChanges
    \/ Terminated

Spec == Init /\ [][Next]_vars

\* Every goroutine that can go on does, and every S3 call answers or fails.
FairSpec ==
    /\ Spec
    /\ \A c \in Checker : WF_vars(Work(c))
    /\ WF_vars(Source) /\ WF_vars(Main)
    /\ \A f \in File : WF_vars((Writer(f) \/ Ask(f)) /\ UNCHANGED <<runVars, left, main>>)
    /\ WF_vars(FlushReturns /\ UNCHANGED <<runVars, left, main>>)

-----------------------------------------------------------------------------
(* Properties *)

\* Types; a probe that is still to be made asks for at least one byte.
TypeOK ==
    /\ OutTypes
    /\ reader \in {"reading", "sending", "reporting", "done"}
    /\ \A c \in Checker :
        /\ pc[c] \in {"idle", "head", "probe", "write", "exit"}
        /\ pc[c] = "probe" => plan[c] # <<>>
        /\ pc[c] = "write" => dest[c] \in Started
        /\ \A i \in DOMAIN plan[c] : plan[c][i].start >= 0 /\ plan[c][i].length > 0
    /\ Len(objCh) <= ObjCap
    /\ signals \in 0 .. 2
    /\ main \in {"running", "flushing", "closing", "done"}

\* What the configuration leaves out on purpose: clean objects without their log, and in
\* segment mode a listed multipart object of size 0.
Silent(v) ==
    \/ v.is = "clean" /\ ~(IF v.multi THEN conf.mpOkLog ELSE conf.okLog)
    \/ v.is = "unverified" /\ conf.mode = "segment" /\ conf.input = "none"

LinesOf(t) == {l \in written \union lost : l.task = t}

\* When a run has ended, however it was interrupted and whatever drifted, every task its
\* source handed over has one verdict and one line in a result file, unless the
\* configuration asks for none: nothing a check was started for disappears.
EveryTaskReported ==
    main = "done" =>
        \A t \in sent :
            /\ Len(verdict[t]) = 1
            /\ Cardinality(LinesOf(t)) = (IF Silent(verdict[t][1]) THEN 0 ELSE 1)

\* An object that did not change, probed at its real part boundaries (or read whole), is
\* never called clean while one of its parts starts with a chunk header or ends with a
\* trailer, and never called corrupted without one.
VerdictRight ==
    \A t \in Task : t \notin changed =>
        \A i \in DOMAIN verdict[t] :
            LET v == verdict[t][i]
            IN /\ (v.is = "clean" /\ (object[t].multi => v.offs = object[t].cuts))
                      => object[t].marks = {}
               /\ v.is = "corrupted" => object[t].marks # {}

\* A task is reported as failed only when one of its calls failed or its object changed:
\* no probe asks for a range the object does not have.  Empty multipart objects are the
\* exception (their first probe is refused).
FailedMeansFailed ==
    \A t \in Task : \A i \in DOMAIN verdict[t] :
        verdict[t][i].is = "failed" =>
            \/ t \in refused \union changed
            \/ object[t].multi /\ object[t].size = 0

\* Close is called when nobody can push or flush any more: a send on a closed channel
\* would end the process, a flush of a writer that is gone would never return.
ClosedLast ==
    closing => /\ \A c \in Checker : pc[c] = "exit"
               /\ reader = "done" /\ flush = "idle"

\* Every run ends, whatever fails and however it is interrupted.
RunEnds == <>(main = "done")
=============================================================================
