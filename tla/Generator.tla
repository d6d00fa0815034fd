----------------------------- MODULE Generator -----------------------------
(***************************************************************************)
(* data_generator: one goroutine walks the fan-chain tree and hands out    *)
(* object keys, workers upload an object per key, and a writer goroutine   *)
(* keeps one md5 line per uploaded object.  One signal stops the run.      *)
(*                                                                         *)
(* Go source: data_generator/main.go, treegen.go, md5writer.go,            *)
(* s3client.go.                                                            *)
(*                                                                         *)
(* A call to S3 that returns an error may have been executed.  pc[w] is    *)
(* where worker w stands:                                                  *)
(*   range     at the key channel     part      PutObjectPart              *)
(*   put       PutObject              complete  CompleteMultipartUpload    *)
(*   init      NewMultipartUpload     abort     AbortMultipartUpload       *)
(*   record    uploaded, MD5Writer.Write is next        gone               *)
(***************************************************************************)
EXTENDS Integers, Sequences, FiniteSets

CONSTANTS
    Depth, Width, FilesPerDir,   \* shape of the tree
    Worker,
    KeyCap, RecordCap,           \* the two channels (1024 in the code)
    Size, PartSize,              \* sizes the random draws may give
    PatternLengths,              \* of multipart_endpoint_pattern, 0 without one
    MaxErrors,                   \* bound: calls that fail before the signal
    DiskMayFail

ASSUME GeneratorAssumption ==
    /\ Depth \in Nat \ {0} /\ Width \in Nat \ {0, 1} /\ FilesPerDir \in Nat \ {0}
    /\ Worker # {}
    /\ KeyCap \in Nat \ {0} /\ RecordCap \in Nat \ {0}
    /\ Size \subseteq Nat \ {0} /\ PartSize \subseteq Nat \ {0}
    /\ PatternLengths \subseteq Nat \ {1, 2} /\ MaxErrors \in Nat /\ DiskMayFail \in BOOLEAN

VARIABLES
    next,        \* the next key of the walk: layer, dir (0 for the bridge) and file
    idx,         \* how many keys were handed out
    keyCh,       \* keys with their idx
    walked,      \* the walk has ended and closed keyCh
    pc, job,     \* each worker's place and its object: key, idx, parts, part
    patternLength, cancelled, errors,
    open,        \* multipart uploads in the bucket, by key
    unaborted,   \* uploads whose create or abort returned an error
    uploaded, failed,  \* Stats: how often each object was counted
    records,     \* MD5Writer.ch
    md5,         \* the writer: running, draining, gone
    buffered, lines,   \* md5 lines in its buffer, in the file
    md5err,      \* MD5Writer.err
    main         \* workers, closing, done

walkVars  == <<patternLength, next, idx, walked>>
workVars  == <<pc, job>>
s3Vars    == <<open, unaborted>>
statVars  == <<uploaded, failed>>
md5Vars   == <<records, md5, buffered, lines, md5err>>
vars == <<walkVars, keyCh, workVars, cancelled, errors, s3Vars, statVars, md5Vars, main>>

-----------------------------------------------------------------------------
(* treegen.go *)

LeafCount(layer) == IF layer = Depth THEN Width ELSE Width - 1

Key == {k \in (1 .. Depth) \X (0 .. Width) \X (1 .. FilesPerDir) : k[2] <= LeafCount(k[1])}

\* walkLayer: the files of the bridge, of its leaves, then the next layer.
After(k) ==
    CASE k[3] < FilesPerDir -> <<k[1], k[2], k[3] + 1>>
      [] k[3] = FilesPerDir /\ k[2] < LeafCount(k[1]) -> <<k[1], k[2] + 1, 1>>
      [] k[3] = FilesPerDir /\ k[2] = LeafCount(k[1]) -> <<k[1] + 1, 0, 1>>

\* Mutant: each layer numbers its objects from 0.
EmitsByLayer ==
    /\ ~walked /\ next[1] <= Depth
    /\ Len(keyCh) < KeyCap
    /\ keyCh' = Append(keyCh, [key |-> next, idx |-> idx])
    /\ next' = After(next) /\ idx' = IF After(next)[2] = 0 THEN 0 ELSE idx + 1
    /\ UNCHANGED <<patternLength, walked, workVars, cancelled, errors, s3Vars, statVars, md5Vars, main>>

WalkEmits ==
    /\ ~walked /\ next[1] <= Depth
    /\ Len(keyCh) < KeyCap
    /\ keyCh' = Append(keyCh, [key |-> next, idx |-> idx])
    /\ next' = After(next) /\ idx' = idx + 1
    /\ UNCHANGED <<patternLength, walked, workVars, cancelled, errors, s3Vars, statVars, md5Vars, main>>

\* The walk is through, or its select sees the signal: keyCh is closed.
WalkEnds ==
    /\ ~walked
    /\ next[1] > Depth \/ cancelled
    /\ walked' = TRUE
    /\ UNCHANGED <<patternLength, next, idx, keyCh, workVars, cancelled, errors, s3Vars, statVars,
                   md5Vars, main>>

-----------------------------------------------------------------------------
(* A worker: runWorkers and processOne *)

Goto(w, place) == pc' = [pc EXCEPT ![w] = place]

NoJob == [key |-> <<>>, idx |-> 0, parts |-> 0, part |-> 0]

\* processOne returns, with an error after counting the object as failed.
Finish(w) == Goto(w, "range") /\ job' = [job EXCEPT ![w] = NoJob]

\* IncUploaded and IncFailed, for one object.
Count(counter, k) == [counter EXCEPT ![k] = @ + 1]

Fail(w, k) == failed' = Count(failed, k) /\ Finish(w)

CeilDiv(a, b) == (a + b - 1) \div b

\* The draws of size and part size decide how many parts UploadObjectMultipart sends, and
\* whether the configured pattern fits them.
TakeKey(w) ==
    /\ pc[w] = "range" /\ keyCh # <<>> /\ ~cancelled
    /\ keyCh' = Tail(keyCh)
    /\ \E s \in Size, p \in PartSize :
         LET parts == CeilDiv(s, p)
             task == [key |-> Head(keyCh).key, idx |-> Head(keyCh).idx, parts |-> parts, part |-> 1]
         IN \/ /\ patternLength = 0
               /\ Goto(w, "put") /\ job' = [job EXCEPT ![w] = task] /\ UNCHANGED failed
            \/ /\ patternLength = parts + 2
               /\ Goto(w, "init") /\ job' = [job EXCEPT ![w] = task] /\ UNCHANGED failed
            \/ /\ patternLength \notin {0, parts + 2}
               /\ Fail(w, task.key)
    /\ UNCHANGED <<walkVars, cancelled, errors, s3Vars, uploaded, md5Vars, main>>

\* The signal: the worker that received a key drops it and ends.
WorkerQuits(w) ==
    /\ pc[w] = "range" /\ keyCh # <<>> /\ cancelled
    /\ keyCh' = Tail(keyCh)
    /\ Goto(w, "gone")
    /\ UNCHANGED <<walkVars, job, cancelled, errors, s3Vars, statVars, md5Vars, main>>

WorkerEnds(w) ==
    /\ pc[w] = "range" /\ keyCh = <<>> /\ walked
    /\ Goto(w, "gone")
    /\ UNCHANGED <<walkVars, keyCh, job, cancelled, errors, s3Vars, statVars, md5Vars, main>>

Calling(w, place) ==
    /\ pc[w] = place
    /\ UNCHANGED <<walkVars, keyCh, cancelled, md5Vars, main>>

\* A call returns an error: any call after the signal, else as often as the bound allows.
Errs ==
    /\ cancelled \/ errors < MaxErrors
    /\ errors' = IF cancelled THEN errors ELSE errors + 1

Uploaded(w) ==
    /\ uploaded' = Count(uploaded, job[w].key)
    /\ Goto(w, "record")
    /\ UNCHANGED <<failed, job>>

PutAnswers(w) ==
    /\ Calling(w, "put")
    /\ Uploaded(w)
    /\ UNCHANGED <<errors, open, unaborted>>

PutFails(w) ==
    /\ Calling(w, "put") /\ Errs
    /\ Fail(w, job[w].key)
    /\ UNCHANGED <<uploaded, open, unaborted>>

InitAnswers(w) ==
    /\ Calling(w, "init")
    /\ open' = open \union {job[w].key}
    /\ Goto(w, "part")
    /\ UNCHANGED <<job, errors, unaborted, statVars>>

\* An upload that was created although the call failed is nobody's to abort.
InitFails(w) ==
    /\ Calling(w, "init") /\ Errs
    /\ Fail(w, job[w].key)
    /\ \/ UNCHANGED <<open, unaborted>>
       \/ open' = open \union {job[w].key} /\ unaborted' = unaborted \union {job[w].key}
    /\ UNCHANGED uploaded

PartAnswers(w) ==
    /\ Calling(w, "part")
    /\ IF job[w].part < job[w].parts
       THEN job' = [job EXCEPT ![w].part = @ + 1] /\ UNCHANGED pc
       ELSE Goto(w, "complete") /\ UNCHANGED job
    /\ UNCHANGED <<errors, s3Vars, statVars>>

PartFails(w) ==
    /\ Calling(w, "part") /\ Errs
    /\ Goto(w, "abort")
    /\ UNCHANGED <<job, s3Vars, statVars>>

CompleteAnswers(w) ==
    /\ Calling(w, "complete")
    /\ open' = open \ {job[w].key}
    /\ Uploaded(w)
    /\ UNCHANGED <<errors, unaborted>>

\* Mutant: an upload that could not be completed is not aborted.
CompleteFailsUnaborted(w) ==
    /\ Calling(w, "complete") /\ Errs
    /\ Fail(w, job[w].key)
    /\ UNCHANGED <<s3Vars, uploaded>>

\* Mutant: the failure is counted at once, and again when the abort has returned.
CompleteFailsCounted(w) ==
    /\ Calling(w, "complete") /\ Errs
    /\ Goto(w, "abort")
    /\ open' \in {open, open \ {job[w].key}}
    /\ failed' = Count(failed, job[w].key)
    /\ UNCHANGED <<job, unaborted, uploaded>>

CompleteFails(w) ==
    /\ Calling(w, "complete") /\ Errs
    /\ Goto(w, "abort")
    /\ open' \in {open, open \ {job[w].key}}
    /\ UNCHANGED <<job, unaborted, statVars>>

\* The abort uses the context of the run; its error is ignored.
AbortReturns(w) ==
    /\ Calling(w, "abort")
    /\ Fail(w, job[w].key)
    /\ \/ open' = open \ {job[w].key} /\ UNCHANGED <<errors, unaborted>>
       \/ Errs /\ unaborted' = unaborted \union {job[w].key} /\ UNCHANGED open
    /\ UNCHANGED uploaded

\* Mutant: Write does not look at the end of the writer.
WriteBlocks(w) ==
    /\ pc[w] = "record"
    /\ Len(records) < RecordCap
    /\ records' = Append(records, job[w].key)
    /\ Finish(w)
    /\ UNCHANGED <<walkVars, keyCh, cancelled, errors, s3Vars, statVars, md5, buffered, lines,
                   md5err, main>>

\* MD5Writer.Write: with room in the channel and a writer that has ended, either branch.
Write(w) ==
    /\ pc[w] = "record"
    /\ \/ /\ Len(records) < RecordCap
          /\ records' = Append(records, job[w].key)
          /\ Finish(w) /\ UNCHANGED failed
       \/ /\ md5 = "gone"
          /\ IF md5err THEN Fail(w, job[w].key) ELSE Finish(w) /\ UNCHANGED failed
          /\ UNCHANGED records
    /\ UNCHANGED <<walkVars, keyCh, cancelled, errors, s3Vars, uploaded, md5, buffered, lines,
                   md5err, main>>

DoWork(w) ==
    \/ TakeKey(w) \/ WorkerQuits(w) \/ WorkerEnds(w)
    \/ PutAnswers(w) \/ PutFails(w)
    \/ InitAnswers(w) \/ InitFails(w) \/ PartAnswers(w) \/ PartFails(w)
    \/ CompleteAnswers(w) \/ CompleteFails(w) \/ AbortReturns(w)
    \/ Write(w)

-----------------------------------------------------------------------------
(* The md5 writer and main *)

\* writeOne: into the buffer, which the file may have to take first.
WriteOne ==
    /\ md5 \in {"running", "draining"} /\ records # <<>>
    /\ records' = Tail(records)
    /\ \/ /\ buffered' = buffered \union {Head(records)}
          /\ UNCHANGED <<md5, lines, md5err>>
       \/ /\ lines' = lines \union buffered /\ buffered' = {Head(records)}
          /\ UNCHANGED <<md5, md5err>>
       \/ /\ DiskMayFail
          /\ md5err' = TRUE /\ md5' = "gone"
          /\ UNCHANGED <<buffered, lines>>
    /\ UNCHANGED <<walkVars, keyCh, workVars, cancelled, errors, s3Vars, statVars, main>>

\* Mutant: the writer ends on its context, with whatever is still in the channel.
StopAtOnce ==
    /\ md5 = "draining"
    /\ md5' = "gone"
    /\ lines' = lines \union buffered /\ buffered' = {}
    /\ UNCHANGED <<walkVars, keyCh, workVars, cancelled, errors, s3Vars, statVars, records, md5err,
                   main>>

\* The channel is empty after the cancellation; the flush and the close may fail.
WriterEnds ==
    /\ md5 = "draining" /\ records = <<>>
    /\ md5' = "gone"
    /\ \/ lines' = lines \union buffered /\ buffered' = {} /\ UNCHANGED md5err
       \/ DiskMayFail /\ md5err' = TRUE /\ UNCHANGED <<buffered, lines>>
    /\ UNCHANGED <<walkVars, keyCh, workVars, cancelled, errors, s3Vars, statVars, records, main>>

\* wg.Wait returned, Close cancels the writer's context.
CloseMD5 ==
    /\ main = "workers" /\ \A w \in Worker : pc[w] = "gone"
    /\ main' = "closing"
    /\ md5' = IF md5 = "gone" THEN md5 ELSE "draining"
    /\ UNCHANGED <<walkVars, keyCh, workVars, cancelled, errors, s3Vars, statVars, records, buffered,
                   lines, md5err>>

\* The summary is printed; the run ends with an error if md5err is set.
MainEnds ==
    /\ main = "closing" /\ md5 = "gone"
    /\ main' = "done"
    /\ UNCHANGED <<walkVars, keyCh, workVars, cancelled, errors, s3Vars, statVars, md5Vars>>

Signal ==
    /\ ~cancelled /\ main = "workers"
    /\ cancelled' = TRUE
    /\ UNCHANGED <<walkVars, keyCh, workVars, errors, s3Vars, statVars, md5Vars, main>>

Terminated == main = "done" /\ UNCHANGED vars

Init ==
    /\ patternLength \in PatternLengths
    /\ next = <<1, 0, 1>> /\ idx = 0 /\ keyCh = <<>> /\ walked = FALSE
    /\ pc = [w \in Worker |-> "range"]
    /\ job = [w \in Worker |-> NoJob]
    /\ cancelled = FALSE /\ errors = 0
    /\ open = {} /\ unaborted = {}
    /\ uploaded = [k \in Key |-> 0] /\ failed = [k \in Key |-> 0]
    /\ records = <<>> /\ md5 = "running" /\ buffered = {} /\ lines = {} /\ md5err = FALSE
    /\ main = "workers"

Next ==
    \/ WalkEmits \/ WalkEnds
    \/ \E w \in Worker : DoWork(w)
    \/ WriteOne \/ WriterEnds
    \/ CloseMD5 \/ MainEnds
    \/ Signal
    \/ Terminated

Spec == Init /\ [][Next]_vars

\* Goroutines run and calls return.
FairSpec ==
    /\ Spec
    /\ WF_vars(WalkEmits \/ WalkEnds)
    /\ \A w \in Worker : WF_vars(DoWork(w))
    /\ WF_vars(WriteOne \/ WriterEnds)
    /\ WF_vars(CloseMD5 \/ MainEnds)

-----------------------------------------------------------------------------
(* Properties *)

\* The keys in hand are distinct keys of the tree with distinct ordinals, which the round robin
\* of the endpoints rests on (treegen.go:29), and no more than the two channels hold wait.
TypeOK ==
    /\ Len(keyCh) <= KeyCap /\ Len(records) <= RecordCap
    /\ \A i \in DOMAIN keyCh : keyCh[i].key \in Key /\ keyCh[i].idx = idx - Len(keyCh) + i - 1
    /\ \A v, w \in Worker : v # w /\ pc[v] \notin {"range", "gone"} /\ pc[w] \notin {"range", "gone"}
          => job[v].key # job[w].key /\ job[v].idx # job[w].idx

Counted(counter) == {k \in Key : counter[k] > 0}

\* No object is counted twice, though its upload may fail in one step and its abort in another:
\* it is uploaded or failed, and both only where its line could not be written (main.go:149-160).
\* A run that was not interrupted handed out the documented number of keys (treegen.go:28) and
\* counted every one.
EveryKeyAccounted ==
    main = "done" =>
        /\ \A k \in Key : uploaded[k] <= 1 /\ failed[k] <= 1
        /\ ~md5err => \A k \in Key : uploaded[k] = 0 \/ failed[k] = 0
        /\ ~cancelled =>
              /\ idx = (Depth + (Width - 1) * (Depth - 1) + Width) * FilesPerDir
              /\ Counted(uploaded) \union Counted(failed) = Key

\* A run that ends without an error has a line in the md5 file for exactly the objects it
\* uploaded, interrupted or not: none is lost between a worker, the channel, the buffer and the
\* file.  If the writer died, the run ends with its error (md5writer.go:17-23, main.go:75-83).
Md5Complete == main = "done" /\ ~md5err => lines = Counted(uploaded)

\* When the run is over, an upload that is neither completed nor aborted is one whose create
\* or abort call returned an error (s3client.go:171-172).
UploadsSettled == main = "done" => open \subseteq unaborted

\* The run ends, also when the md5 writer has died and when the signal comes while the walk,
\* the workers and the writer wait for each other.
RunEnds == <>(main = "done")

=============================================================================
