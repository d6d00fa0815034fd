# Verification of chunked_check_tool

TLA+ modules, TLC runs and TLAPS proofs about the programs of this repository.
The subject is `chunked_check_tool`, a scanner that lists an S3 bucket, probes
every object for the traces of a chunked upload and writes what it finds into
result files, for days at a time, over faulty nodes, and through signals and
kills. `data_generator`, `list_only` and `list_sub` are small companions.

1. Inventory
2. Plan
3. Module `Journal`: state, actions and the code
4. The other modules: state, actions and the code
5. Properties
6. Runs, bounds and fairness
7. Disagreements between code and documentation
8. Proofs
9. What is not modelled

To repeat everything: `tlc -config Journal_kill.cfg MCJournal.tla` (and so on for
every `.cfg`: the prefix of its name is that of the module, `Queue_*` belong to
`MCQueue`; the three runs that expect a violation are named in section 6), and
`tlapm` on `LeastElement.tla` and the `*_proofs.tla`.

## 1. Inventory

Paths are relative to `src/chunked_check_tool` unless they say otherwise.

| Component | State it keeps | Operations | Meets | What makes it correct |
|---|---|---|---|---|
| Resume journal (`journal.go`) | per prefix: seed token, page counts, next tokens, position, pagination flag; pending discoveries; `journal.txt` | RecordSeed, AddDiscovered, RegisterPage, Terminal, MarkPaginationDone, Snapshot, Commit; checkpoint; replay; seeding | lister and checkers call it; the checkpoint goroutine calls Output | a resume never skips an object without a result line |
| Lister (`lister.go`) | `inflight`, per worker: prefix, token, page | Seed, Run, processPrefix | queue, objCh, journal, S3, Output | every prefix is listed or recorded; the queue closes when and only when all work is done |
| Queue (`queue.go`) | items, closed, a condition variable | Push, Pop, Close, Drain | list workers, signal handler | no lost wake-up, no lost item |
| run() and shutdown (`main.go`) | two contexts, wait groups, objCh | seeding, waiting, draining, closing | all | a run ends, and an interrupted run is a complete checkpoint |
| Output (`output.go`) | one channel, buffer and goroutine per result file | Write*, FlushAndWait, Close | every producer, the checkpoint | a line pushed before FlushAndWait is in its file after it; none is lost at Close |
| Checker (`checker.go`, `verify_task.go`) | none of its own | Handle, verify, probes | S3 client, Output, journal | every task gets exactly one verdict, the right one |
| Node pool and recovery (`nodepool.go`, `noderecovery.go`) | isolated nodes, fault counts, probe streaks | Assign, AssignOther, RecordFault, Unmark, recoveryRound | S3 clients, prober | isolation at the threshold, a fresh threshold after readmission |
| S3 client (`s3client.go`) | its node | List, Get, Head, Put, multipart; one retry on another node | node pool | one retry, on a live node, none for business errors |
| Backup (`backup.go`, `backup_source.go`) | an upload in progress | HEAD gate, relay, abort | S3 client, Output | every line ends in one of the outcome files; no orphan upload |
| File inputs (`file_source.go`, `list_file_source.go`, `check_file_source.go`) | the line being sent | Run, line parsers | objCh, Output | every line is sent, reported or left unread after a signal |
| Mode 3 walk (`walker.go`) | semaphore, wait group | runRecursiveWalk | S3, objCh | ends; every directory listed once or recorded |
| Offsets, lines, resume list (`mpoffset.go`, `lineformat.go`, `resume_list.go`) | none | parse, format | | round trips, boundaries |
| Statistics, progress, configuration | counters, settings | | | not the subject of properties |
| `data_generator` | task channel, counters, MD5 writer | tree walk, uploads | S3 | every object of the tree is uploaded or counted as failed |
| `list_only`, `list_sub` | queue, counters | listing strategies | S3 | the strategies end and count each object once |

What is hard here, and hardly reached by tests: goroutines that meet in the
tracker while a checkpoint is between its four steps; kills between any two
steps, resumes that are killed again; a page being listed twice at once after a
resume; queue termination by a counter; a condition variable woken by a context;
two signals at any moment; appends that fail half-way; writers that are asked to
flush while lines keep coming; objects whose type changes between their line, the
HEAD and the probes; walks that hold a semaphore while they block; fault counts
that race with readmission; retries of calls that may have worked.
`PROJECT.json` lists each of these hazards at the line where it bites, with the
properties that watch it.

## 2. Plan

The most important behaviour is what the tool promises of a kill: recovery may
redo work, but never skips an object. It comes first, with everything it rests on
(lister, queue termination, checkers, result files, signals), in one module.

| Step | Module | Content | Abstract specification | Runs | Theorems |
|---|---|---|---|---|---|
| 1, done | `Journal`, `MCJournal`, `JournalInv`, `Journal_proofs` | Mode 2 scan with its journal | | `journal_*` | `TypeCorrect`, `InterruptedRunCanResume` |
| 2, done | `NodePool`, `S3Client`, `Backup_proofs` | isolation, readmission, the single retry on another node | | with step 3 | `ClientTypes`, `IsolationCorrect` |
| 3, done | `Backup`, `MCBackup`, `Backup_proofs` | list archive, file source, backup workers, relay and abort, two signals | `ClientSpec` of `S3Client` | `backup_*` | `ClientsImplemented`, `BackupIsolation`, `BackupTypes`, `OneResultForEachLine`, `OkIsFaithful`, `UploadsAreAborted`, `OneNodeIsHarmless` |
| 4, done | `WorkQueue`, `Queue`, `MCQueue`, `Queue_proofs` | mutex, wait set, context wake-up, inflight | `WorkQueue`, the atomic queue | `queue*` | `QueueTypes`, `WakeupsKept`, `QueueImplements`, `NoPrefixDropped` |
| 5, done | `Output`, `Check_proofs` | channels, buffers, flush hand-off, Close | `OutSpec` | with step 6 | `FlushAndWaitCovers`, `CloseWritesEverything` |
| 6, done | `Check`, `MCCheck`, `Check_proofs` | file inputs, Handle, drift, probe plans, offsets, routing, over `Output` | `OutSpec` of `Output` | `check` | `CheckImplementsOutput`, `CheckRunsWriteEverything`, `CheckTypesHold`, `FilesClosedLast`, `FailedForAReason`, `VerdictsAreRight`, `NothingDisappears` |
| 7, done | `Walk`, `MCWalk`, `Walk_proofs` | Mode 3 | | `walk` | `WalkTypes`, `SlotsNeverLeak`, `ObjChClosedLast`, `NothingLeftBehind`, `EachListedOnce`, `NoSubtreeLost` |
| 8, done | `Generator`, `MCGenerator`, `Generator_proofs` | `data_generator` | | `generator` | `KeysDistinct`, `EveryKeyIsAccounted`, `Md5FileComplete`, `NoUploadLeftOpen` |
| 9, done | `JournalFrontier_proofs` | `IInv` (in `JournalInv`) is inductive in a safe deployment | | | `FrontierAlwaysClosed`, `NothingEverLost` |
| 10, done | `Journal_proofs` | `ClosingOK` (in `JournalInv`) is inductive: a clean run leaves nothing open | | | `CleanRunForgetsNothing` |

TLC's time goes to few runs, one for each question.

## 3. Module `Journal`: state, actions and the code

`Journal.tla` is one Mode 2 process at a time: the main goroutine, the list
workers, the check workers, the result writers, the checkpoint goroutine and the
operating system that may end it. Each step of the model is one step that other
goroutines can see: a tracker call (each takes the tracker's mutex), a channel
operation, a change of `inflight` together with the queue call next to it, a
write.

| Variables | Code |
|---|---|
| `main`, `toSeed`, `seeded` | where `run()` stands, the seeds not yet pushed (`main.go:502-576`) |
| `sig` | cancelled contexts: 1 for `listCtx`, 2 for `hardCtx` (`main.go:149-168`) |
| `queue`, `closed`, `inflight` | `Queue.items`, `Queue.closed`, `Lister.inflight` |
| `pc`, `cur`, `tok`, `seq` | a list worker's place in `Run`/`processPrefix`, its prefix, token and page sequence number |
| `new`, `todo`, `subs` | what is left of the loops over the page: discoveries to record, objects to emit, sub-prefixes to push |
| `objCh`, `chk`, `handled` | the task channel, each checker's task, whether its line is pushed |
| `pend` | `pendingDiscovered` |
| `tracked`, `base`, `pagDone`, `left`, `next`, `pos` | the tracker's `states`: `baseToken`, `paginationDone`, `outstanding`, `nextTokens`, `position`; the length of `left[p]` is `maxSeq + 1` |
| `ckpt`, `ckptFor`, `snap`, `fd` | the checkpoint goroutine: its step, who waits for it, its batch, the offset of its file |
| `journaled`, `jdone`, `jtok`, `ending` | what `journal.txt` replays to, and how the file ends |
| `pushed`, `written`, `listFailed` | result lines in a channel or buffer, in a file; lines of `list_failed.txt` |
| `retired`, `shortWrites`, `runs` | history and bounds |

Abstractions: a continuation token is the number of pages before the page it asks
for; a prefix, an object and a result line are model values; a position counts
terminal pages, so it is one more than the field. The tracker forgets pages it has
passed, the model keeps their entries and looks at the same ones. `Pages` is what
S3 answers, constant during the scan. The lines that carry no prefix (wording,
statistics, progress) are left out. `Queue.Pop` is one step: that a cancelled
context wakes it is taken for granted here and is the subject of `Queue`.

The journal file is what its lines replay to. `ending` says how it ends: `whole`,
`torn` (a kill or a bad rollback left a fragment, which replay drops) or `broken`
(replay refuses it). The next batch's first line continues a fragment, because the
file is reopened for appending as it is; the merged line names no prefix of the
bucket or has no known verb. A kill during `append` leaves any prefix of the batch
that respects the order discovered, cursors, dones; inside each group the order is
that of a Go map.

What the operating system and the deployment may do is in six named constants:
`SameDir` (`output_dir_timestamp` off, so that every run appends to the same
files), `FirstBatchMayFail`, `RetryMayFail` (short writes in the first batch of a
process, and right after another one), `FirstBatchMayTear` (a kill during the very
first batch of a new file), `LineMayTear` (a kill inside a line), and `MaxRuns`,
`MaxSignals`, `MaxListErrors`, `MaxShortWrites` bound how often something happens.

## 4. The other modules: state, actions and the code

### `NodePool`, `S3Client`, `Backup`

`NodePool` is what all clients share, `S3Client` adds one client per worker,
`Backup` the program that uses them; each extends the one before. `ClientSpec` lets
clients call whenever they like and is what `Backup` is shown to implement; the
theorems about isolation are stated for it.

| Variables | Code |
|---|---|
| `failed`, `faults` | `NodePool.failed`, `NodePool.faultCounts` |
| `prober`, `probing`, `streak` | the goroutine of `startNodeRecovery`, the snapshot its round works through, `successes` |
| `down` | nodes that answer with transport faults or 5xx: external, changed by `GoDown`, `ComeUp` |
| `bound`, `call` | `S3Client.nodeIdx`; where a call stands between its first attempt, `handleNodeFault` and its second attempt |
| `main` | where `runBackup` stands: archive, newWorker for each worker, waiting |
| `sig` | cancelled contexts, as in `Journal` |
| `reader`, `taken`, `ch` | `fileSource.Run`, the lines it is through with, the task channel |
| `stage`, `job` | the call a worker waits for, and what it knows: line, HEAD answer, open download, parts sent, upload id |
| `src`, `dst`, `uploads` | the two buckets: external, changed by the calls and by `ObjectChanges` |
| `results` | the lines of backup_ok, backup_failed (with the stage), mismatch and parse_failed |
| `outages`, `counted`, `isolations`, `changes`, `refusals`, `lost` | history: what bounds and properties count |

`RecordFault` is an atomic addition, and `MarkFailed` takes the lock afterwards: two
steps, with a third for the choice of the other node, so the prober and the other
clients come between them. A call the code repeats goes through
`sent -> count -> (mark -> assign | other) -> resent`; uploads from a stream,
complete and abort return the first fault. An attempt under a cancelled context is
`void`: the client library refuses it before anything is sent, and the error is not
a node fault. A call that breaks after it was sent may have been executed.

An object is the number of its present version. A copy is the list of its parts
with the version and range each was read from, and two ETags are equal if and only
if the copies are: the model has no hash collisions, and bytes of different
versions differ. A ranged GET answers when the version at that moment is long
enough; a shorter answer is the length check of `downloadRangeOnce`. A line of the
input is its key, its cut and its shape: `regular`, `multipart`, `malformed`, or
`long`, a line that does not fit the scanner's buffer of 1 MiB and ends the reading.

### `WorkQueue`, `Queue`

`WorkQueue` is what the other modules take the queue for: push, pop, close, cancel
and drain are atomic, an item goes to one worker, and a worker is turned away only
by a closed empty queue or a cancelled context. `Queue` is the code of `queue.go`,
with as much of `lister.go` and `main.go` as decides who pushes and who closes.

| Variables | Code |
|---|---|
| `items`, `closed`, `cancelled` | `Queue.items`, `Queue.closed`, `listCtx` |
| `inflight`, `owed` | `Lister.inflight`, and the item a goroutine has counted and will push in its next step |
| `main`, `toSeed` | where `run()` stands between its seeds |
| `pc` | a worker in `Run` and `Pop`: `loop`, `first` (critical section 1), `check` (context), `second` (critical section 2), `wait`, `woken` (out of `Cond.Wait`, not yet holding the mutex), then the listing, `leave` and `close` |
| `cur`, `todo` | the item a worker lists, sub-prefixes not yet counted |
| `armed`, `strays` | wake-up goroutines of a Pop in progress, and of a Pop that has returned: their `select` may still broadcast |
| `missed`, `finished`, `recorded` | history; `recorded` is `list_failed` |

A critical section is one step, because the mutex is held for all of it and
`Cond.Wait` registers the caller before it gives the mutex back. `Signal` wakes an
arbitrary waiter, which then competes for the mutex like everybody else. The pages of
a prefix are listed in one step; what happens between pages is in `Journal`. Mode 1
is a set of `Seeds` without sub-prefixes: main pushes them page by page, and any
worker may run between two of them.

### `Output`, `Check`

`Output` is `output.go` with arbitrary producers, and `OutSpec` what they may do.
`Check` extends it with the run that uses it: a source (the entries of a listing, or
the lines of `-list-file` and `-check-file`), the check workers, checkpoints, two
signals and the shutdown.

| Variables | Code |
|---|---|
| `chan`, `buf`, `opened` | each file's channel, the `bufio` buffers of its writer, the owner directories it opened the file in |
| `writer` | `off` (`NewOutput` did not open the file), `select`, `drain` (serving a flush request), `gone` |
| `written`, `lost` | lines in files; lines dropped because their file could not be opened |
| `flush`, `asked`, `closing` | `FlushAndWait` between its sends and its replies, the writers it has reached, `Close` |
| `pushed`, `owed` | history: lines pushed; pushed before the last `FlushAndWait` |
| `sc`, `left` | configuration, input, bucket and bounds of the scenario; constant, and what is left of the bounds |
| `object`, `changed` | the bucket: external, changed by `ObjectChanges` |
| `toRead`, `reader`, `offer`, `objCh` | the source and the task channel |
| `pc`, `job`, `plan`, `dest` | a check worker: its place, its task, probes still to make, the file of its line |
| `main`, `signals` | the end of `run()`, cancelled contexts |
| `verdict`, `sent`, `refused` | history |

An object has a size, the boundaries of its parts (`cuts`), an ETag (a part count and
offsets, which need not be right), and `marks`, the places where a chunk header or a
trailer is stored with its data. A probe sees a mark that lies wholly in the range it
reads, as the regular expressions need the whole header; the bytes of the header are
left out. S3 refuses a range that starts at or behind the end of an object.
`BoundaryProbes`, `TailProbe`, `ETagOffsets` and `Segments` are the functions of the
code on integers, with a window of 2 instead of 128 bytes.

### `Walk`

| Variables | Code |
|---|---|
| `walk` | the goroutine of each prefix: `waiting` (at the semaphore), `listing`, `emitting` (in the loop over a page), `done` |
| `page`, `left` | its continuation token, objects of the page still to come |
| `sem`, `wg` | slots taken, the `WaitGroup` |
| `objCh`, `closed`, `consumer` | the task channel and who ranges over it (check workers; main in list-only mode) |
| `signals`, `errors`, `checking` | cancelled contexts, LIST errors so far, `is_check` |
| `failed`, `invalid`, `listed`, `got` | `list_failed` and `invalid_keys`; how often an object was counted and received |

The semaphore's `select` takes either branch when a slot is free and the context is
cancelled. `ListPage` does not look at its context, so a cancelled `listCtx` only
makes waiting walks give up; running ones page on.

### `Generator`

| Variables | Code |
|---|---|
| `next`, `idx`, `walked`, `keyCh` | the loops of `walkLayer` as one key (layer, directory, file), the ordinal, the key channel |
| `patternLength` | the length of `multipart_endpoint_pattern`, 0 without one: chosen at the start |
| `pc`, `job` | a worker's call, and its object with the parts it has and the part it is at |
| `open`, `unaborted` | multipart uploads in the bucket; those whose create or abort call returned an error |
| `uploaded`, `failed` | the counters of `Stats`, split by key: how often each key was counted |
| `records`, `md5`, `buffered`, `lines`, `md5err` | the MD5 writer: its channel, its goroutine (`running`, `draining` after its context, `gone`), its buffer, its file, its error |
| `main`, `cancelled`, `errors` | `main`, the signal, failed calls so far |

A call that returns an error may have been executed, and after the signal every call
may return one. The random draws of sizes are a choice over `Size` and `PartSize`.

## 5. Properties

`Journal`:

- `TypeOK`: types; `pos[p]` never passes the registered pages; only a checker with
  a task has handled one.
- `FrontierClosed`: whatever a resume would skip is finished. Every page before a
  cursor, and every page of a done prefix, has all its result lines in files and
  all its sub-prefixes in the journal. It relates the journal to the result files
  and to the bucket, across processes.
- `NothingLost`: the same promise read forwards. If the process is killed now, a
  resume lists every object that is in no result file.
- `CleanRunJournalsAll`: a run that ends without signal, LIST error or failed
  append leaves no open entry in the journal and no state in the tracker. A short write
  right after another one breaks it (section 8), so the runs have `RetryMayFail = FALSE`.
- `InterruptedRunResumable`: after signals and LIST errors, the lines of
  `list_failed` lead to every object without a result line.
- `RunEnds`: a run that started seeding ends or is killed.

`Queue`:

- `NoLostWakeup`: while the context lives, a woken worker is on its way for every
  queued item as long as somebody waits; nobody waits on a closed queue.
- `NothingDropped`: every prefix that was seeded or revealed is listed, recorded,
  queued, about to be pushed or in a worker's hands. With one seed it holds; with
  several it does not (section 7).
- `Implements`: the code of `queue.go` implements `WorkQueue`.
- `EndsUnlessMissed`: the scan ends, unless a wake-up goroutine broadcast between its
  Pop's look at the context and its Wait. `ScanEnds`, without the exception, is
  refuted (section 7).

`Output`, `Check`:

- `TypeOK`: types; every probe still to be made asks for at least one byte; a worker
  writes only to a file that is open.
- `FlushCovers`: when `FlushAndWait` has returned, every line pushed before the call
  is in its file, or lost with a file that could not be opened.
- `CloseCovers`: when `Close` has returned, no line is left in a channel or buffer.
- `ClosedLast`: `Close` is called when nobody can push or flush any more.
- `EveryTaskReported`: when a run has ended, however it was interrupted and whatever
  drifted, every task handed over has one verdict and one line, unless the
  configuration asks for none.
- `VerdictRight`: an object that did not change, probed at its real boundaries or
  read whole, is not called clean with a mark at a part's start or end, nor
  corrupted without one.
- `FailedMeansFailed`: a task is reported as failed only when a call failed or its
  object changed, so no probe plan asks for a range the object does not have.
- `RunEnds`: every run ends.

`Walk`:

- `SlotsHeld`: the slots taken are those of the walks on a page, and at most
  `list_concurrency`.
- `ClosedLast`: `objCh` is closed only when no walk is alive.
- `EndedWalksCovered`: a walk that has ended counted every object and started every
  sub-walk, up to a page from which a record goes on.
- `WholeTree`: at the end each object was received (or counted in list-only mode),
  is in `invalid_keys`, or lies under a record.
- `ListedOnce`: no object is counted or received twice.
- `RunEnds`: the walk ends. `TypeOK`, types and cursors that exist, is proved.

`Generator`:

- `TypeOK`: the channels' bounds; the keys in hand are distinct, with distinct ordinals.
- `EveryKeyAccounted`: no key is counted twice as uploaded or twice as failed, and
  both only when the md5 writer has an error; a run that was not interrupted handed out
  as many keys as `treegen.go:28` says and counted each of them.
- `Md5Complete`: a run that ends without an error has a line for exactly the objects
  it uploaded.
- `UploadsSettled`: at the end only uploads whose create or abort call returned an
  error are left.
- `RunEnds`: the run ends.

`NodePool`, `S3Client`, `Backup`:

- `IsolationEarned`: no node is isolated before its threshold of faults was recorded,
  and each isolation after the first has a fault of its own: a client that stands
  between its fault and `MarkFailed` isolates once, however often the node is
  readmitted meanwhile. It does not ask for a fresh threshold (section 7, 6).
- `ThresholdIsolates`: a count at the threshold is never forgotten, although adding,
  comparing and isolating are separate steps and a readmission resets the count.
- `TypeOK`: types of all variables of the three modules.
- `OneResultPerLine`: every line the run took gets exactly one result, whatever fails
  and whenever signals come; without a signal, every line is taken.
- `OkMeansFaithful`: under the key of a line in backup_ok is a faithful copy of one
  version, unless another line of the same key overwrote it and is in backup_failed
  or still at work. It relates the result files to the backup bucket.
- `UploadsAborted`: until the second signal, and as long as S3 answered each create
  and performed each abort it was sent, no multipart upload outlives its relay.
- `OneNodeDoesNotMatter`: while one node is down and another is not, no HEAD fails
  and the archive goes up.
- `RunEnds`: every run ends. `Clients`: the pipeline implements `ClientSpec`.

`FreshThreshold` (`S3Client`) and `NoUploadLingers` (`Backup`) state what the
documentation promises and the code does not keep (section 7, 6 and 5).

## 6. Runs, bounds and fairness

| Run | Expects | Instance and bounds | Shows |
|---|---|---|---|
| `journal_kill` | pass | `LatePages`; 2 list workers, 1 checker, 2 processes, a kill anywhere | the safety properties, with a sub-prefix on a last page without objects that a resume lists twice at once |
| `journal_listonly` | pass | `TwinPages`, list-only; 2 list workers, 2 processes, 2 short writes, a key and a token with the separator, pages without objects first, between and last | terminals reported by the lister, rollback and retry of a batch, cursors that are withheld |
| `journal_signals` | pass | `WidePages`; 1 list worker, 2 signals, 1 LIST error, 1 process | interruption in the middle of a page; the run ends |
| `journal_bare` | violation of `FrontierClosed` | `BarePages` | section 7, 1 |
| `queue` | pass | 3 workers, 1 seed with 2 sub-prefixes, a signal, 1 LIST error | wake-ups, termination by `inflight`, the refinement |
| `queue_hang` | violation of `ScanEnds` | 2 workers, 1 seed, a signal | section 7, 2 |
| `queue_early` | violation of `NothingDropped` | 1 worker, 2 seeds | section 7, 3 |
| `check` | pass | every object of size 0, 1, 2, 3, 5, 8 with up to 3 parts and every placement of marks, bad ETags, all modes and sources, one at a time; three runs of 2 workers over 2 objects with faults, changes, 2 signals, checkpoints and a file that cannot be opened | verdicts, routing, flush and close |
| `walk` | pass | 5 prefixes, 3 levels, 2 slots, 2 consumers, channel of 1, 2 signals, 2 LIST errors, a key and a prefix with the separator, both modes | the walk under interruption |
| `generator` | pass | depth 2, width 2, 1 file a directory, 2 workers, channels of 1, patterns of length 0, 4 (fits) and 5 (does not), 1 failing call, a failing disk, a signal | accounting, the md5 file, uploads |
| `backup_relay` | pass | `Rewritten`, `TwiceLines`; 2 workers, 2 nodes, 1 outage, 1 change of the source | safety while a node fails and the object changes under the relay |
| `backup_signals` | pass | `Plain`, `MixedLines`; 2 workers, 1 node, 1 outage, 2 signals, 1 refusal | interruption at any point, with malformed, mismatched, relayed and over-long lines; a stale isolation after a readmission; the run ends; implements `ClientSpec` |

The bounds reach the cases that matter. Journal: one object per page suffices for a
page that is partly terminal (pages of two objects are in `WidePages`), two pages for
a cursor in the middle, a parent and a child for a lost subtree, two processes for
a resume, two workers for a shared prefix, and a channel of one place for a full
channel. `journal_kill` and `journal_listonly` use symmetry of the two list
workers; both check invariants only. Queue: two waiters and one worker that pushes
are all a signal can mistake. Check: with a window of 2 the sizes lie below, at and
above the window, its double and the threshold of 3, and parts are shorter than,
as long as and longer than a window. Walk: three walks compete for two slots, and one
is cut off below another. Generator: the key channel, the record channel and both
workers can be full and busy at once.

For the backup, two workers suffice for a relay that another one overwrites and for
the counts of one node to meet, two nodes for a retry that must move (one in
`backup_signals`, so that every node is isolated while the workers go on), a threshold of
two for both legs of `handleNodeFault`, a channel of one place for a full channel,
and two parts (`backup_relay`) for a failure after a part that worked. The two lines of
`backup_signals` that end with their HEAD bring the third fault that a client needs to
isolate the node again after its readmission; the states of that run reach two isolations,
with no more faults than `IsolationEarned` asks for. The other relay, of a regular object,
is in `backup_relay`. `MaxFaults`, the faults after
which no call starts on a node, is 20, and no state of these runs has a node with 19,
so it removes nothing.

Fairness is what the code's scheduling gives: goroutines run, mutexes and channel
operations that stay possible are granted, S3 and the file system answer or fail
(calls have time limits or a transport that gives up). Nothing is fair about
signals, errors, outages, repairs, the prober, kills, restarts or changes of the bucket.

- `journal_signals`: list workers, checkers, the checkpoint and main are weakly fair.
  The checkpoint's `select` does not starve a ready case, so the checkpoints that main
  waits for are strongly fair against ticks. It has one list worker: with two, the lost
  wake-up of `Queue.Pop` can stop the shutdown (`queue_hang`), which `Journal`
  abstracts from; with one worker the next `Push` or `Close` always follows.
- `queue`, `queue_hang`: each worker, each wake-up goroutine and main are weakly fair. A
  worker that waits has no step of its own, so fairness does not wake it.
- `check`: each check worker, the source, main, each writer and the flush are weakly fair.
- `walk`: each walk, the closing goroutine and each consumer are weakly fair. That suffices
  for the semaphore: a walk that never gets a slot would need the others to start for
  ever, and they are finitely many.
- `generator`: the walk, each worker, the md5 writer and main are weakly fair.
- Backup: main, the reader, each worker and each call's retry are weakly fair: a run
  ends even with every node isolated.

Deadlock is checked in every run but those of `Queue`, where the lost wake-up is one;
`Terminated` is the end of the last process. `EndsUnlessMissed` takes the place of the
deadlock check there: only a missed broadcast may stop the scan.

## 7. Disagreements between code and documentation

Three are shown by runs:

1. `journal_bare`. A page without objects is passed at `RegisterPage`, before its
   sub-prefixes are recorded (`lister.go:174-177`), against `lister.go:169-171`.
   S3 does return such pages (a page of common prefixes only).
2. `queue_hang`. `Pop` does not look at the context between locking and waiting
   (`queue.go:68-71`), so a broadcast in between is missed. Two workers in that place
   when the signal comes, and one push of a third: `Signal` wakes one, the other
   waits for ever, and the shutdown with it, against `queue.go:55`, `main.go:139-141`.
3. `queue_early`. A worker that finishes all prefixes counted so far, while main has
   more seeds to push, closes the queue (`lister.go:119-121`); the rest is dropped and
   the run ends as a success, against `lister.go:22-24` and `lister.go:62-64`. Mode 1
   seeds page by page with a LIST call in between (`main.go:436-490`), so a first page
   of short sub-prefixes suffices; both resumes seed in a loop.

The others have no run of their own. To see one, change the constants of a run as said.

4. With time-stamped output directories a resumed run's new journal can hold some of
   its seeds only, because the checkpoint loop runs during seeding, against
   `journal.go:388-389` (`journal_kill` with `FanPages`, `Prefix = {r, a, b}`,
   `SameDir = FALSE`, `MaxRuns = 3` violates `FrontierClosed`). A fragment left by a kill
   is skipped by replay but not removed before the file is appended to, with the effect
   `journal.go:501-503` describes for short writes (`LineMayTear = TRUE`). The rollback of
   a short write has the wrong offset in the first batch of a reopened file and after
   another short write (`journal.go:523`, `FirstBatchMayFail`, `RetryMayFail`), against
   `journal.go:504-505`. The discovered lines of a batch are in the order of a map, so a kill
   in the first batch of a new file may leave a child without the root (`FirstBatchMayTear`).
5. After the second signal the abort of a broken relay is sent under the cancelled
   context, so it is not sent at all (`backup.go:133` and the other aborts), against
   `backup.go:40-41`, `backup.go:112-113`, `main.go:135-137` (`backup_signals` with
   `NoUploadLingers`).
6. A client adds its fault and reaches the threshold, the node is isolated by another
   client and readmitted, and then the first one isolates it with a count of 0
   (`nodepool.go:94-95`), against `nodepool.go:113-115` and `noderecovery.go:7-9`
   (`backup_signals` with `FreshThreshold`).
7. `-check-file` with `multipart_check_mode=1`: a regular line whose object is multipart
   now has no offsets, and its line goes to `list_parse_failed.txt` (`checker.go:193`),
   which the file-input modes do not open (`output.go:147-155`), so the object is in no
   file, against `checker.go:139-140` and `output.go:139-140`, which open `mp.txt` for it
   (`check` with `Scenario <- Drift` violates `EveryTaskReported`).
8. `ListPage` takes no notice of its context (`s3client.go:205-208` says so), so on the
   first signal running listings page on, against `lister.go:34-36` and `main.go:125`,
   `walker.go:36-37`; a walk that gets its slot after the signal starts, against `walker.go:35`.
9. Mode 3 gives one `S3Client` to all its goroutines (`main.go:495`), though the client
   rebinds itself without a lock and its documentation says that each worker owns one.
10. In `offset` mode an ETag without valid offsets goes to `list_parse_failed.txt`,
   against `verify_task.go:48-50` (`mp.txt`). In `segment` mode `mp_check_failed.txt`
   holds synthetic offsets, against `output.go:128-131`. A multipart object of size 0 with
   the offset 0 always ends in `mp_check_failed`: its head probe is refused.
11. `FlushAndWait` returns although a line was lost with a file that could not be opened
   or a write that failed, against `output.go:494-495`; the journal then claims the page.
12. A line longer than 1 MiB ends the reading of an input file and the run still reports
   success (`file_source.go:60-63`, `main.go:667-669`), where `file_source.go:33-34` has only
   malformed lines to report. A line that a signal cancels is counted as read
   (`file_source.go:67`), against `file_source.go:38`.
13. `data_generator`: `totalObjects` counts the leaves only (`main.go:88-91`), one third less
   than `treegen.go:28` at depth 2, width 2; an object whose md5 line could not be written
   counts as uploaded and as failed (`main.go:149-157`); an interrupted run prints "done" and
   exits with 0; after the signal its aborts go out under the cancelled context.

## 8. Proofs

Every invariant the runs check is also a theorem: it holds for every bucket,
tree, input, number of goroutines, capacity and bound. `Check_proofs.tla` begins with the
theorems about `Output`, `Backup_proofs.tla` with those about `S3Client`.

### Hypotheses

The assumptions on the constants (`BucketAssumption`, `ConfigAssumption`,
`QueueAssumption` and so on) say what the types of the constants are, and are evaluated
by TLC in every run. Among them: `Worker` is finite and not empty and `Checker` finite in
`Journal` (`config.go:107-112` replaces a concurrency below one), `Worker` not empty in
`Generator`, and `Consumer` not empty in `Walk`; `Check` gives the type of every scenario. A theorem
that needs more states it as a hypothesis, a named predicate on constants:

| Hypothesis | Used by | What it says, and why |
|---|---|---|
| `SafeDeployment` (`JournalInv`) | `FrontierAlwaysClosed`, `NothingEverLost` | the conditions of section 7, items 1 and 4; without any one of them TLC finds a violation |
| `RootReachesAll` (`JournalInv`) | `NothingEverLost`, `InterruptedRunCanResume` | `Object` is what a listing from the root reaches: the code promises nothing about other objects |
| `~RetryMayFail` | `CleanRunForgetsNothing` | no short write right after another one: the offset it is rolled back to counts the bytes of the first, so part of a failed batch stays, and names prefixes that nobody tracks (section 7, item 4; `journal_kill` with `RetryMayFail = TRUE`, `MaxShortWrites = 2` violates `CleanRunJournalsAll`) |
| `RootReachesEveryPrefix` (`JournalInv`) | `CleanRunForgetsNothing` | `Prefix` is what a listing from the root reaches; a command that is started over on an old journal names the others again only by listing them |
| `OneSeed` (`Queue`) | `NoPrefixDropped` | one seed, as in Mode 2; with several it fails (run `queue_early`) |
| `KeysOnOnePage` (`Walk`) | `EachListedOnce` | S3 puts a key on one page of one prefix |
| `Descends(Height)` (`Walk`) | `NoSubtreeLost` | sub-prefixes are longer than their prefix, so the way down ends |
| `MarksAtPartEnds` (`Check`) | `VerdictsAreRight` | chunk headers and trailers lie whole at the start or end of a part, the premise of the probe plan |
| `InputDistinct`, `NoOffsetCheckFile` (`Check`) | `NothingDisappears` | a line of the input has its own identity; section 7, item 7 is left out |
| `ObjectsExist` (`Backup`) | `OneNodeIsHarmless` | the keys of the list exist: a HEAD of a missing key is a failure of the object, not of the node |

The MC modules assert that their instances meet `RootReachesAll`,
`RootReachesEveryPrefix`, `KeysOnOnePage` and
`Descends` for some height, `ObjectsExist` and the hypotheses of `Check`.

### `Journal`

`TypeCorrect == Spec => [](TypeOK /\ RangeOK)`. `TypeOK` alone is not inductive:
the page a worker asks for exists because its token does, so the invariant is
joined with `RangeOK` (every token in the tracker, the seeds, the queue, the
workers, a batch or the journal names a page of its prefix). The proof first
establishes what the tracker's operators return (`AdvanceStops`: the position
moves forward, stops at the end or before a page that is not terminal, and passes
terminal pages only; `ReportedCounts`; one lemma per tracker operation, and for a
batch that is cut or loses its first line), then that each group of actions keeps
the types, then the ranges, and combines them.

`FrontierAlwaysClosed` rests on `IInv` (`JournalInv.tla`), whose parts
are proved one after the other for each group of actions. `FrontierClosed` speaks about
the file; what a batch will put there is decided while it is taken, by positions that
checkers move. So the invariant goes backwards from the file: `FileOK` (what is
journaled is settled), `SnapOK` (what a batch claims is settled once the flush is over),
`PosOK` and `CountOK` (a page that the position has passed counts zero, and a count
never falls below the unfinished objects of its page, although after a resume tasks of
the same object can exist twice), `TaskOK` and `PageOK` (who will report them),
`OrderOK` (listing never runs ahead of a page that is neither settled nor registered)
and `DiscoveryOK` (a sub-prefix is recorded or in the hands of the worker that holds
the page). `RootOK` says that nothing is listed before the root is recorded, or a kill
would leave a journal that starts in the middle. A prefix that is covered is exempt from
the counts: a resumed run may list it a second time and count it anyhow.
`NothingEverLost` follows by taking for the pages a resume lists a set closed under listing.

`InterruptedRunCanResume` needs no condition on the deployment. `CourseOK` follows
a process from its seeds to its end: `inflight` counts at least what is queued or
listed, so the worker that closes the queue leaves nothing in it; main goes past each
barrier only when those it waited for are gone. On it rests `Resumable`: in every set of
pages that is closed under listing from what is open (seeds, recorded lines, the queue,
the next page of each worker and the sub-prefixes it has not pushed) each object is
found, unless it has its line or somebody has it in hand. At the end nothing is open but
the recorded lines, and nobody has anything in hand. Each step either keeps the open
pages, or makes them fewer by a page whose objects it takes in hand and whose
sub-prefixes it opens.

`CleanRunForgetsNothing` is the opposite bound. `IInv` shows that a count never falls below
the work that is left, so nothing is skipped; `ClosingOK` shows that it never stays above
it, so nothing is kept. A count is at most the reports still to come, from list workers,
`objCh` and checkers together (`ReportsOK`); a position stops only before a page that
counts (`StopOK`); a tracked prefix is queued, being listed or paginated to its end
(`PaginationOK`). When everybody is gone the reports are none, so each count is zero, each
position is at the end and each tracked prefix is done (`QuietIsDone`): the last snapshot
holds all there is. That it covers the *file* too is `DueOK`: a prefix that the journal
holds open, from this process or from one that was killed, is tracked or will be found in
every set of pages that is closed under listing from what is open. At the end nothing is
open, so the last batch closes whatever is due (`QuietIsDue`). `HeldOK` and `BatchOK` keep
the commit from dropping the state of a page in a worker's hands, and `TornOK` says that
the fragment a kill leaves swallows only the line of a discovery or a seed, which the
prefix's own done line repeats. The bounds hold only while the run is clean, and
a run does not become clean again (`SmoothBefore`), so `ClosingOK` asks for them only then.
A signal, a LIST error or a push on a closed queue each leaves something open for ever.
The steps that need care are the two that change several counts at once: `ListPage`
registers a page with a report for each of its objects, and a restart that lists the
tree from the root again over a journal with open lines.

### `S3Client`, `Backup`

`ClientTypes` and `IsolationCorrect` are about `ClientSpec`, for any number of nodes and
clients, any threshold, with and without the prober. `ClientTypes` needs `CallsBound` (a
client in a call has a node, so what is counted, isolated or left is never -1) and that
`Assign` and `AssignOther` return a live node or none (`AssignTypes`), which rests on the
first node of a rotation being there (`LeastElement.tla`). `IsolationCorrect` is
`[](IsolationEarned /\ ThresholdIsolates)`; the invariant behind it, `Counts`, adds that
`faults` never exceeds the history `counted`, and counts, for each node, the isolations made
and those due (`Due`: the clients between their fault and `MarkFailed`): the first takes the
threshold from that history, every other one more fault, and no readmission takes any back.
`IsolationEarned` alone is not inductive, because `MarkFailed` adds an isolation and no fault.

`ClientsImplemented == Spec => Clients`: `Owners` (a client whose owner waits for no call
is in none) is inductive, `Handle` moves on only when a call ended (`HandleEndsCall`), so
a worker's step is a `Return`, a `Begin`, a step of its retry, or is not seen by the
clients. `BackupIsolation` follows from the two, and all later proofs about the
pipeline use it for the client's part of a step.

`BackupTypes` joins the types with `Tasks`, what a task holds at each stage.
`OneResultForEachLine`: a line that was taken is in exactly one place (the reader, the
channel, a worker, the results), and the end of the run empties all but the last.
`OkIsFaithful`: another line of the same key may overwrite a copy that was reported as
good; the invariant `OkStands` follows whoever put a bad copy there from its answer,
over the abort, to its line in backup_failed.
`UploadsAreAborted`: an upload in the bucket has one worker that knows its id.
`OneNodeIsHarmless` has two invariants. `SoleFault`: while at most one node was ever down,
only that node has counts or is isolated, and a client that repeats its call
is bound to another node, so the repeated call is answered (`RepeatedIsAnswered`): the
rotation that `AssignOther` walks has a live node which is not the one it leaves. `Calm`
then follows the calls of the HEAD and the archive to their results.

### `Queue`

`QueueTypes` joins `TypeOK` with `HoldsWhileListing` (a worker has an item exactly between
its Pop and its Leave), which the refinement needs: `WorkQueue` hands an item only to a
worker that has none. `WakeupsKept` is an induction on `NoLostWakeup` itself; the step
that needs care is a woken worker that finds the queue taken and waits again, which the
count of woken workers allows because the item is gone too. `QueueImplements` maps the
worker that exits to a worker turned away, and shows each critical section to be one step
of `WorkQueue` or a stutter. `NoPrefixDropped`: `inflight` is the number of queued items,
of items counted and not yet pushed, and of workers that hold one; it is zero for the
first time when all are gone, so a queue that is closed stays empty.

### `Output`, `Check`

`FlushAndWaitCovers` needs that a line is always in one place (`LinesKept`), and that of a
writer that was asked nothing owed is left in the channel once it is back in its `select`,
although new lines came while it drained. `CloseWritesEverything` needs that a writer is
gone only after its channel was closed and empty. A check run's steps are steps of
`Output` (`CheckImplementsOutput`), which carries both over (`CheckRunsWriteEverything`).

The properties of `Check` itself rest on five invariants, in the order of their use:
`Base` (types; plans and destinations fit the place a worker is at), `Winding` (which
goroutines are over at each stage of the shutdown), `Judging` (the probes made and to be
made of a task are those of its plan, cut from an object that is still the same, or the
object is in `changed`), `Routing` (a verdict goes to the one file, which is open, that its
configuration names) and `Single` (a task is in one place). `VerdictsAreRight` adds the
arithmetic of windows and part ends, and `FailedForAReason` that no probe starts behind the
end. `BoundaryProbes` is a recursive function of the number of boundaries: the
code's loop, one boundary at a time. Its properties (every probe reads something and
starts within the object, every boundary has its probe) hold by induction on natural
numbers, which the library's theorem cannot give here; the proof takes a least
counterexample instead (`LeastElement.tla`).

### `Walk`, `Generator`

`SlotsNeverLeak` and `ObjChClosedLast` rest on `sem` and `wg` being the numbers of holding
and of living walks, a fact about cardinalities of sets that change by one element, or,
when a page is turned, by all its sub-prefixes, none of which was started before.
`NothingLeftBehind` adds what a living walk has done so far. `EachListedOnce`
needs that what a walk has still to emit was never counted. `NoSubtreeLost` goes from one
page to a subtree: `DeliverInv` says that each page's objects and sub-walks are accounted
for, and the recursive function `Shown` is only used through the equation it satisfies;
that the way down ends is the hypothesis `Descends`.

`Generator_proofs.tla` has one invariant, `Inv`: the walk's position and the keys handed
out agree in number and order (so ordinals are distinct and the number at the end is the
documented one), each key is in one place, a key that is still to be handled was not counted
and one that was counted was counted once (`OncePerKey`, `FreshKeys`), a record is with a worker, in the channel, in the
buffer or in the file unless the writer has an error, and an open upload belongs to a
worker whose next call settles it.

### Model-checked only

The temporal properties about fairness (`RunEnds`, `EndsUnlessMissed`) stay with
TLC: liveness is out of the prover's reach.

## 9. What is not modelled

- Mode 1's paging of the root prefix beyond its pushes: its objects go to `objCh` as in
  `Walk`, and an interrupted page is recorded as there.
- Statistics, progress, configuration, wording, `.log` files: no property is about them.
- A journal that cannot be opened (`journal.go:408-413`): the run then has no
  journal, and nothing is claimed of it.
- Machine crashes: nothing is synced, a kill loses what is in the process only.
- Changes of the bucket during a journaled scan (`Backup` and `Check` have them).
- Kills of a backup run: nothing is resumed from it. The flush of its result files is
  that of `Output`, which `Backup` does not repeat.
- An archive that was uploaded although its call failed: nothing reads it.
- The two LIST protocols: a page comes with the token S3 owes for it. The
  comment at `s3client.go:269-273` accepts that a V1 page without marker and contents
  ends a listing.
- The line syntax of the journal beyond what `ending` says of fragments, of
  `-resume-list`, of result lines and of input lines beyond their shape: prefixes
  that contain a line feed are outside the model.
- `data_generator`'s endpoints, bytes and statistics; `list_only` and `list_sub`, which
  are benchmarks: they keep totals only, and their queue has the structure of `Queue`.
