------------------------------- MODULE Backup -------------------------------
(***************************************************************************)
(* -backup-file: the input list is archived in the backup bucket, then the *)
(* backup workers relay the objects it names, each through its own S3      *)
(* client, and put every line into one result file.                        *)
(*                                                                         *)
(* Go source: chunked_check_tool/backup.go, main.go (runBackup,            *)
(* uploadBackupList), file_source.go, and the calls of s3client.go.        *)
(*                                                                         *)
(* An object of the source bucket is the number of its present version, 0  *)
(* when there is none.  A copy is the list of its parts, each with the     *)
(* version and the range its bytes were read from: equal copies, and only  *)
(* those, have equal ETags.                                                *)
(***************************************************************************)
EXTENDS S3Client, Sequences

CONSTANTS
    Key,         \* keys of the source bucket
    Versions,    \* Versions[k]: the versions key k may have, [multi, cut, size] each
    File,        \* the lines of the input: [key, shape, cut] each
    ChCap,       \* capacity of the task channel
    MaxSignals,  \* bound: signals (the code counts two)
    MaxChanges,  \* bound: writes to the source bucket during the run
    MaxRefusals  \* bound: calls that S3 refuses (4xx)

Line == 1 .. Len(File)
Worker == 0 .. NumWorkers - 1
Shape == {"regular", "multipart", "malformed", "long"}
Result == {"ok", "mismatch", "parse_failed",
           "failed_head", "failed_upload", "failed_etag"}
Stage == {"idle", "archive", "head", "get", "put",
          "create", "fetch", "part", "complete", "abort", "gone"}

ASSUME BackupAssumption ==
    /\ Versions \in [Key -> Seq([multi : BOOLEAN, cut : Seq(Nat), size : Nat])]
    /\ File \in Seq([key : Key, shape : Shape, cut : Seq(Nat)])
    /\ \A l \in Line : File[l].shape = "multipart" => Len(File[l].cut) > 0
    /\ ChCap \in Nat \ {0}
    /\ MaxSignals \in 0 .. 2 /\ MaxChanges \in Nat /\ MaxRefusals \in Nat

\* Every line names an object that is there when the run starts.
ObjectsExist == \A l \in Line : Versions[File[l].key] # <<>>

Piece == [ver : Nat, from : Nat, to : Nat]
Copy == [multi : BOOLEAN, parts : Seq(Piece)]
NoCopy == [multi |-> FALSE, parts |-> <<>>]
NoPiece == [ver |-> 0, from |-> 0, to |-> 0]
Upload == Line \X {"sent", "resent"}
NoUpload == <<0, "sent">>
Job == [line : Nat, ver : Nat, got : Piece, parts : Seq(Piece),
        up : Upload \cup {NoUpload}]
NoJob == [line |-> 0, ver |-> 0, got |-> NoPiece, parts |-> <<>>, up |-> NoUpload]

VARIABLES
    main,        \* where runBackup stands
    sig,         \* signals: 1 cancels listCtx, 2 cancels hardCtx
    reader,      \* the file source: none, reading, sending, done (channel closed)
    taken,       \* lines the reader is through with
    ch,          \* the task channel
    stage,       \* what each client's owner is doing: the call it waits for
    job,         \* each worker's task
    src,         \* the source bucket: present version of each key
    dst,         \* the backup bucket: the copy under each key
    uploads,     \* the backup bucket: multipart uploads in progress
    results,     \* for each line, what was written for it, in order
    changes, refusals, \* history: what the bounds count
    lost         \* history: S3 left a create unanswered or an abort undone

runVars    == <<main, sig, reader, taken, ch>>
bucketVars == <<src, dst, uploads>>
envVars    == <<changes, refusals, lost>>
taskVars   == <<stage, job, results>>
backupVars == <<runVars, bucketVars, envVars, taskVars>>
vars       == <<clientVars, backupVars>>

TypeOK ==
    /\ ClientTypeOK
    /\ main \in {"init", "archive", "workers", "waiting", "ended", "failed"}
    /\ sig \in 0 .. 2
    /\ reader \in {"none", "reading", "sending", "done"}
    /\ taken \in 0 .. Len(File)
    /\ ch \in Seq(Line) /\ Len(ch) <= ChCap
    /\ stage \in [Client -> Stage]
    /\ job \in [Worker -> Job]
    /\ src \in [Key -> Nat] /\ \A k \in Key : src[k] <= Len(Versions[k])
    /\ dst \in [Key -> Copy]
    /\ uploads \subseteq Upload
    /\ results \in [Line -> Seq(Result)]
    /\ changes \in Nat /\ refusals \in Nat /\ lost \in BOOLEAN

Init ==
    /\ ClientInit
    /\ main = "init" /\ sig = 0
    /\ reader = "none" /\ taken = 0 /\ ch = <<>>
    /\ stage = [c \in Client |-> "idle"]
    /\ job = [w \in Worker |-> NoJob]
    /\ src = [k \in Key |-> IF Versions[k] = <<>> THEN 0 ELSE 1]
    /\ dst = [k \in Key |-> NoCopy]
    /\ uploads = {}
    /\ results = [l \in Line |-> <<>>]
    /\ changes = 0 /\ refusals = 0 /\ lost = FALSE

Up == main \notin {"ended", "failed"}

-----------------------------------------------------------------------------
(* Objects, ranges and copies *)

\* Bytes from .. to - 1 of version v; the empty range is the same of any version.
Bytes(v, from, to) == [ver |-> IF from = to THEN 0 ELSE v, from |-> from, to |-> to]

\* Where part i ends when an object of that size is cut at these offsets.
PartEnd(cut, size, i) == IF i < Len(cut) THEN cut[i + 1] ELSE size

\* The copy whose ETag is that of version v of k.
Whole(k, v) ==
    LET o == Versions[k][v]
    IN [multi |-> o.multi,
        parts |-> [i \in 1 .. Len(o.cut) |-> Bytes(v, o.cut[i], PartEnd(o.cut, o.size, i))]]

TaskKey(w)  == File[job[w].line].key
IsMulti(l)  == File[l].shape = "multipart"
HeadSize(w) == Versions[TaskKey(w)][job[w].ver].size

\* The range the worker downloads next: the object, or the part after those it has.
PartNumber(w) == Len(job[w].parts) + 1
RangeFrom(w) == IF IsMulti(job[w].line) THEN File[job[w].line].cut[PartNumber(w)] ELSE 0
RangeTo(w) ==
    IF IsMulti(job[w].line)
    THEN PartEnd(File[job[w].line].cut, HeadSize(w), PartNumber(w))
    ELSE HeadSize(w)

\* A ranged GET of the present version returns as many bytes as were asked for.
Readable(w) ==
    /\ src[TaskKey(w)] # 0
    /\ RangeTo(w) <= Versions[TaskKey(w)][src[TaskKey(w)]].size

MyCopy(w) ==
    IF IsMulti(job[w].line) THEN [multi |-> TRUE, parts |-> job[w].parts]
    ELSE [multi |-> FALSE, parts |-> <<job[w].got>>]

-----------------------------------------------------------------------------
(* S3 calls of the workers *)

\* The calls s3client.go repeats; uploads from a stream, complete and abort are not.
Repeatable(c) == stage[c] \in {"archive", "head", "get", "create", "fetch"}

\* The archive runs under listCtx, the workers under hardCtx.
Cancelled(c) == IF c = Archiver THEN sig > 0 ELSE sig = 2

\* The owner of client c goes on to a call, or to no call.
Goto(c, s) ==
    /\ stage' = [stage EXCEPT ![c] = s]
    /\ NextCall(c, IF s \in {"idle", "gone"} THEN "idle" ELSE FirstAttempt(Cancelled(c)))

\* What the call does to the backup bucket when S3 executes it.
Executes(w) ==
    /\ dst' = IF stage[w] \in {"put", "complete"}
              THEN [dst EXCEPT ![TaskKey(w)] = MyCopy(w)] ELSE dst
    /\ uploads' = CASE stage[w] = "create" -> uploads \cup {<<job[w].line, call[w]>>}
                    [] stage[w] \in {"complete", "abort"} -> uploads \ {job[w].up}
                    [] OTHER -> uploads

Skipped == UNCHANGED <<dst, uploads>>

Answered(w) == Answers(w) /\ Executes(w) /\ UNCHANGED <<refusals, lost>>

\* The call returns an error.  One that was sent may have been executed.
Errs(c) ==
    \/ /\ Answers(c)
       /\ refusals < MaxRefusals
       /\ refusals' = refusals + 1
       /\ Skipped
       /\ lost' = (lost \/ stage[c] = "abort")
    \/ /\ FailsToAnswer(c, Repeatable(c), Cancelled(c))
       /\ UNCHANGED refusals
       /\ \/ Skipped /\ lost' = (lost \/ (stage[c] = "abort" /\ Sent(c)))
          \/ c # Archiver /\ Sent(c) /\ Executes(c) /\ lost' = (lost \/ stage[c] = "create")

\* An answer that S3 gives only for this state of the object: 404, or too few bytes.
Missing(w, there) == Answers(w) /\ ~there /\ Skipped /\ UNCHANGED <<refusals, lost>>

-----------------------------------------------------------------------------
(* BackupChecker.Handle *)

\* One line for the task, and the worker is free.
Finish(w, r) ==
    /\ results' = [results EXCEPT ![job[w].line] = Append(@, r)]
    /\ job' = [job EXCEPT ![w] = NoJob]
    /\ Goto(w, "idle")

Proceed(w, j, s) ==
    /\ job' = [job EXCEPT ![w] = j]
    /\ Goto(w, s)
    /\ UNCHANGED results

TakeTask(w) ==
    /\ stage[w] = "idle" /\ ch # <<>>
    /\ ch' = Tail(ch)
    /\ Proceed(w, [NoJob EXCEPT !.line = Head(ch)], "head")
    /\ UNCHANGED <<nodeVars, main, sig, reader, taken, bucketVars, envVars>>

\* A part of no length ends the relay before anything is downloaded.
NextPart(w, j) ==
    LET done == Len(j.parts)
        cut  == File[j.line].cut
        size == Versions[File[j.line].key][j.ver].size
    IN IF done = Len(cut) THEN Proceed(w, j, "complete")
       ELSE IF PartEnd(cut, size, done + 1) <= cut[done + 1] THEN Proceed(w, j, "abort")
       ELSE Proceed(w, j, "fetch")

HeadAnswered(w) ==
    LET k == TaskKey(w)
        o == Versions[k][src[k]]
        j == [job[w] EXCEPT !.ver = src[k]]
    IN /\ stage[w] = "head" /\ src[k] # 0
       /\ Answered(w)
       /\ \/ o.multi # IsMulti(j.line) /\ Finish(w, "mismatch")
          \/ o.multi /\ IsMulti(j.line) /\ Proceed(w, j, "create")
          \/ ~o.multi /\ ~IsMulti(j.line) /\ o.size > 0 /\ Proceed(w, j, "get")
          \/ ~o.multi /\ ~IsMulti(j.line) /\ o.size = 0 /\ Proceed(w, j, "put")

\* Mutant: a cancelled HEAD drops its task.
HeadFailsQuietly(w) ==
    /\ stage[w] = "head"
    /\ Errs(w) \/ Missing(w, src[TaskKey(w)] # 0)
    /\ IF Cancelled(w) THEN Proceed(w, NoJob, "idle") ELSE Finish(w, "failed_head")

HeadFails(w) ==
    /\ stage[w] = "head"
    /\ Errs(w) \/ Missing(w, src[TaskKey(w)] # 0)
    /\ Finish(w, "failed_head")

StreamOpened(w) ==
    /\ stage[w] \in {"get", "fetch"}
    /\ Answered(w) /\ Readable(w)
    /\ Proceed(w, [job[w] EXCEPT !.got = Bytes(src[TaskKey(w)], RangeFrom(w), RangeTo(w))],
               IF stage[w] = "get" THEN "put" ELSE "part")

CreateAnswered(w) ==
    /\ stage[w] = "create"
    /\ Answered(w)
    /\ NextPart(w, [job[w] EXCEPT !.up = <<job[w].line, call[w]>>])

PartAnswered(w) ==
    /\ stage[w] = "part"
    /\ Answered(w)
    /\ NextPart(w, [job[w] EXCEPT !.parts = Append(@, job[w].got), !.got = NoPiece])

\* Mutant: the copy is judged by its number of parts.
VerifiedBySize(w) ==
    Len(MyCopy(w).parts) = Len(Whole(TaskKey(w), job[w].ver).parts)

\* The ETag of the answer is compared with the one of the HEAD.
Verified(w) == MyCopy(w) = Whole(TaskKey(w), job[w].ver)

StoreAnswered(w) ==
    /\ stage[w] \in {"put", "complete"}
    /\ Answered(w)
    /\ Finish(w, IF Verified(w) THEN "ok" ELSE "failed_etag")

RelayFails(w) ==
    /\ stage[w] \in {"get", "put", "create"}
    /\ Errs(w) \/ (stage[w] = "get" /\ Missing(w, Readable(w)))
    /\ Finish(w, "failed_upload")

\* Mutant: the upload is left as it is.
PartFailsUnaborted(w) ==
    /\ stage[w] \in {"fetch", "part", "complete"}
    /\ Errs(w) \/ (stage[w] = "fetch" /\ Missing(w, Readable(w)))
    /\ Finish(w, "failed_upload")

PartFails(w) ==
    /\ stage[w] \in {"fetch", "part", "complete"}
    /\ Errs(w) \/ (stage[w] = "fetch" /\ Missing(w, Readable(w)))
    /\ Proceed(w, job[w], "abort")

\* Mutant: the abort is repeated until it works.
AbortRepeated(w) ==
    /\ stage[w] = "abort"
    /\ \/ Answered(w) /\ Finish(w, "failed_upload")
       \/ Errs(w) /\ Proceed(w, job[w], "abort")

\* Whether the abort works is not looked at.
AbortReturns(w) ==
    /\ stage[w] = "abort"
    /\ Answered(w) \/ Errs(w)
    /\ Finish(w, "failed_upload")

Handle(w) ==
    /\ \/ HeadAnswered(w) \/ HeadFails(w)
       \/ StreamOpened(w) \/ CreateAnswered(w) \/ PartAnswered(w) \/ StoreAnswered(w)
       \/ RelayFails(w) \/ PartFails(w) \/ AbortReturns(w)
    /\ UNCHANGED <<nodeVars, runVars, src, changes>>

\* Mutant: a call is repeated as long as it meets faults.
RetryLoop(c) ==
    /\ \/ Repeatable(c) /\ MeetFault(c)
       \/ RecordFault(c) \/ Isolate(c) \/ Rebind(c, FirstAttempt(Cancelled(c)))
    /\ UNCHANGED <<runVars, taskVars, bucketVars, envVars>>

\* The node-fault leg of a call that is repeated.  A create that met a fault may
\* have been executed.
RetryLeg(c) ==
    /\ \/ /\ Repeatable(c) /\ MeetFault(c)
          /\ \/ UNCHANGED <<uploads, lost>>
             \/ /\ stage[c] = "create"
                /\ uploads' = uploads \cup {<<job[c].line, "sent">>}
                /\ lost' = TRUE
       \/ /\ RecordFault(c) \/ Isolate(c) \/ Rebind(c, IF Cancelled(c) THEN "void" ELSE "resent")
          /\ UNCHANGED <<uploads, lost>>
    /\ UNCHANGED <<runVars, taskVars, src, dst, changes, refusals>>

-----------------------------------------------------------------------------
(* runBackup *)

CreateClient(c) == NewWorker(c) /\ UNCHANGED <<call, sig, reader, taken, ch, taskVars, bucketVars, envVars>>

StartArchive == main = "init" /\ CreateClient(Archiver) /\ main' = "archive"

SendArchive ==
    /\ main = "archive" /\ stage[Archiver] = "idle"
    /\ Goto(Archiver, "archive")
    /\ UNCHANGED <<nodeVars, runVars, job, results, bucketVars, envVars>>

\* No object is touched unless the list is archived.
ArchiveReturns ==
    /\ stage[Archiver] = "archive"
    /\ \/ /\ Answers(Archiver) /\ Skipped /\ UNCHANGED <<refusals, lost>>
          /\ main' = "workers"
       \/ Errs(Archiver) /\ main' = "failed"
    /\ Goto(Archiver, "gone")
    /\ UNCHANGED <<nodeVars, sig, reader, taken, ch, job, results, src, changes>>

\* The workers get their clients in order.
NextWorker == {w \in Worker : bound[w] = NoNode /\ \A v \in 0 .. w - 1 : bound[v] # NoNode}

\* newWorker's log.Fatalf is never reached: the one call made before isolates at
\* most one node, and succeeded on another.  The deadlock check would find it.
StartWorker ==
    /\ main = "workers"
    /\ \E w \in NextWorker : CreateClient(w)
    /\ UNCHANGED main

StartReader ==
    /\ main = "workers" /\ NextWorker = {}
    /\ main' = "waiting"
    /\ reader' = "reading"
    /\ UNCHANGED <<clientVars, sig, taken, ch, taskVars, bucketVars, envVars>>

WorkerExits(w) ==
    /\ stage[w] = "idle" /\ reader = "done" /\ ch = <<>>
    /\ Goto(w, "gone")
    /\ UNCHANGED <<nodeVars, runVars, job, results, bucketVars, envVars>>

Finished ==
    /\ main = "waiting"
    /\ \A w \in Worker : stage[w] = "gone"
    /\ main' = "ended"
    /\ UNCHANGED <<clientVars, sig, reader, taken, ch, taskVars, bucketVars, envVars>>

-----------------------------------------------------------------------------
(* fileSource.Run: done means that it returned and the channel is closed *)

NextLine == taken + 1
MoreLines == NextLine \in Line /\ File[NextLine].shape # "long"

ReadLine ==
    /\ reader = "reading" /\ MoreLines
    /\ \/ /\ sig > 0
          /\ reader' = "done"
          /\ UNCHANGED <<taken, results>>
       \/ /\ sig = 0 /\ File[NextLine].shape = "malformed"
          /\ results' = [results EXCEPT ![NextLine] = Append(@, "parse_failed")]
          /\ taken' = NextLine
          /\ UNCHANGED reader
       \/ /\ sig = 0 /\ File[NextLine].shape # "malformed"
          /\ reader' = "sending"
          /\ UNCHANGED <<taken, results>>
    /\ UNCHANGED <<clientVars, main, sig, ch, stage, job, bucketVars, envVars>>

SendLine ==
    /\ reader = "sending"
    /\ \/ /\ Len(ch) < ChCap
          /\ ch' = Append(ch, NextLine)
          /\ taken' = NextLine
          /\ reader' = "reading"
       \/ /\ sig > 0
          /\ reader' = "done"
          /\ UNCHANGED <<ch, taken>>
    /\ UNCHANGED <<clientVars, main, sig, taskVars, bucketVars, envVars>>

\* The end of the file, or a line longer than the scanner's buffer.
EndOfFile ==
    /\ reader = "reading" /\ ~MoreLines
    /\ reader' = "done"
    /\ UNCHANGED <<clientVars, main, sig, taken, ch, taskVars, bucketVars, envVars>>

-----------------------------------------------------------------------------
(* The operator, the nodes, and the users of the source bucket *)

Signal ==
    /\ Up
    /\ sig < MaxSignals
    /\ sig' = sig + 1
    /\ UNCHANGED <<clientVars, main, reader, taken, ch, taskVars, bucketVars, envVars>>

Nodes ==
    /\ Up
    /\ \/ Tick \/ Probe
       \/ sig = 2 /\ StopProber
       \/ \E n \in Node : GoDown(n) \/ ComeUp(n)
    /\ UNCHANGED <<bound, call, backupVars>>

ObjectChanges(k) ==
    /\ Up
    /\ changes < MaxChanges
    /\ changes' = changes + 1
    /\ src' \in {[src EXCEPT ![k] = v] : v \in (0 .. Len(Versions[k])) \ {src[k]}}
    /\ UNCHANGED <<clientVars, runVars, taskVars, dst, uploads, refusals, lost>>

Terminated == ~Up /\ UNCHANGED vars

WorkerStep(w) == TakeTask(w) \/ Handle(w) \/ WorkerExits(w)
ReaderStep == ReadLine \/ SendLine \/ EndOfFile
MainStep == StartArchive \/ SendArchive \/ ArchiveReturns \/ StartWorker
            \/ StartReader \/ Finished

Next ==
    \/ MainStep
    \/ ReaderStep
    \/ \E w \in Worker : WorkerStep(w)
    \/ \E c \in Client : RetryLeg(c)
    \/ Signal
    \/ Nodes
    \/ \E k \in Key : ObjectChanges(k)
    \/ Terminated

Spec == Init /\ [][Next]_vars

\* Goroutines are scheduled, and a request is answered or breaks.
FairSpec ==
    /\ Spec
    /\ WF_vars(MainStep) /\ WF_vars(ReaderStep)
    /\ \A w \in Worker : WF_vars(WorkerStep(w))
    /\ \A c \in Client : WF_vars(RetryLeg(c))

-----------------------------------------------------------------------------
(* Properties *)

\* Every line the run took from the file ends in one result file, whatever fails
\* and whenever it is interrupted, and no line in two; without a signal the run
\* takes every line that its buffer can hold (Handle, fileSource.Run).
OneResultPerLine ==
    /\ \A l \in Line : Len(results[l]) <= 1
    /\ main = "ended" =>
         /\ \A l \in 1 .. taken : Len(results[l]) = 1
         /\ sig = 0 => ~MoreLines

Reported(l, r) == r \in {results[l][i] : i \in DOMAIN results[l]}

\* backup_ok is the truth about the backup bucket: under the key of such a line is
\* a byte-faithful copy of one version of the object, unless another line of the
\* same key, in backup_failed or still being relayed, put a bad copy over it
\* (backup, relayMultipart; the source may change between HEAD and GET).
OkMeansFaithful ==
    \A l \in Line : Reported(l, "ok") =>
        LET k == File[l].key
            others == {m \in Line \ {l} : File[m].key = k}
        IN \/ \E v \in 1 .. Len(Versions[k]) : dst[k] = Whole(k, v)
           \/ \E m \in others : Reported(m, "failed_upload") \/ Reported(m, "failed_etag")
           \/ \E w \in Worker : job[w].line \in others

NoUploadLeft == \A u \in uploads : \E w \in Worker : job[w].up = u

\* "Any failure aborts the in-progress upload so no partial object lingers"
\* (backup.go:112-113): while S3 answers every create and performs every abort it
\* is sent, an upload in progress belongs to a relay in progress.  A second signal
\* breaks it (README, section 7).
NoUploadLingers == ~lost => NoUploadLeft

\* The same before a second signal, the part of it that the code keeps.
UploadsAborted == (sig < 2 /\ ~lost) => NoUploadLeft

\* One node may fail at any time and as often as it likes: while another one
\* answers, no HEAD fails and the archive is uploaded (the reason the retry always
\* moves to another node, s3client.go:316-324).
OneNodeDoesNotMatter ==
    (NumNodes > 1 /\ outages <= 1 /\ refusals = 0 /\ changes = 0) =>
        /\ sig = 0 => main # "failed"
        /\ sig < 2 => \A l \in Line : ~Reported(l, "failed_head")

\* Every run ends: workers, reader and main wait for each other, and a signal may
\* come at any time.
RunEnds == <>~Up

\* The clients of the pipeline behave as S3Client says.
Clients == ClientSpec

=============================================================================
