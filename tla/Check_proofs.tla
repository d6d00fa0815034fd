---------------------------- MODULE Check_proofs ----------------------------
(***************************************************************************)
(* Theorems of Output and Check, and their proofs.                         *)
(*                                                                         *)
(* What FlushAndWait and Close promise holds for any number of files,      *)
(* lines and producers, any channel capacity and any failure to open a     *)
(* file.  The invariant follows a line from its channel to its file: a     *)
(* line that was pushed before the call is, once its writer has answered,  *)
(* behind the channel (the drain found it empty) and behind the buffer.    *)
(* A check run uses the result files as module Output says, so it inherits *)
(* both.                                                                   *)
(***************************************************************************)
EXTENDS Check, LeastElement, FiniteSetTheorems

\* A line pushed before the call whose writer has answered is in its file.
Answered ==
    \A l \in owed :
        (flush = "idle" \/ (l.file \in asked /\ writer[l.file] # "drain")) => l \in written \union lost

\* A writer ends with nothing left behind.
GoneEmpty ==
    \A f \in File : writer[f] = "gone" => closing /\ chan[f] = <<>> /\ buf[f] = {}

OutInv ==
    /\ OutTypes
    /\ \A l \in pushed : l.file \in Started
    /\ LinesKept
    /\ Answered
    /\ GoneEmpty

LEMMA OutInitInv == ASSUME NEW started \in SUBSET File, OutInit(started) PROVE OutInv
  <1>1. OutTypes
    <2>1. <<>> \in Seq(Line) /\ Len(<<>>) <= Capacity
      BY OutputAssumption
    <2>2. chan \in [File -> Seq(Line)] /\ \A f \in File : Len(chan[f]) <= Capacity
      BY <2>1 DEF OutInit
    <2> QED BY <2>2 DEF OutInit, OutTypes
  <1>2. pushed = {} /\ owed = {} /\ \A f \in File : writer[f] # "gone"
    BY DEF OutInit
  <1> QED BY <1>1, <1>2 DEF OutInv, LinesKept, Answered, GoneEmpty

Elements(q) == {q[i] : i \in DOMAIN q}

\* Appending a line keeps the others in the channel.
LEMMA AppendKeeps ==
    ASSUME NEW q \in Seq(Line), NEW k \in Line
    PROVE  Elements(q) \subseteq Elements(Append(q, k)) /\ k \in Elements(Append(q, k))
  <1>1. \A i \in DOMAIN q : i \in DOMAIN Append(q, k) /\ Append(q, k)[i] = q[i]
    OBVIOUS
  <1>2. Len(q) + 1 \in DOMAIN Append(q, k) /\ Append(q, k)[Len(q) + 1] = k
    OBVIOUS
  <1> QED BY <1>1, <1>2 DEF Elements

\* Taking the head off a channel leaves the other lines in it.
LEMMA RestQueued ==
    ASSUME NEW q \in Seq(Line), q # <<>>
    PROVE  /\ Head(q) \in Line /\ Tail(q) \in Seq(Line) /\ Len(Tail(q)) <= Len(q)
           /\ Elements(q) \subseteq {Head(q)} \union Elements(Tail(q))
  <1>1. Head(q) \in Line /\ Tail(q) \in Seq(Line) /\ Len(Tail(q)) = Len(q) - 1 /\ Head(q) = q[1]
    OBVIOUS
  <1>2. ASSUME NEW i \in DOMAIN q, i # 1 PROVE q[i] \in Elements(Tail(q))
    <2>1. i - 1 \in DOMAIN Tail(q) /\ Tail(q)[i - 1] = q[i]
      BY <1>2
    <2> QED BY <2>1 DEF Elements
  <1> QED BY <1>1, <1>2 DEF Elements

LEMMA TypesStep == ASSUME OutTypes, [OutNext]_outVars PROVE OutTypes'
  <1> USE OutputAssumption DEF OutTypes
  <1>1. ASSUME NEW l \in Line, Push(l) PROVE OutTypes'
    <2>1. l.file \in File /\ chan[l.file] \in Seq(Line)
      OBVIOUS
    <2>2. Append(chan[l.file], l) \in Seq(Line) /\ Len(Append(chan[l.file], l)) <= Capacity
      BY <1>1, <2>1 DEF Push
    <2> QED BY <1>1, <2>1, <2>2 DEF Push, flushVars
  <1>2. ASSUME NEW f \in File, WriterTakes(f) PROVE OutTypes'
    <2>1. chan[f] \in Seq(Line) /\ chan[f] # <<>>
      BY <1>2 DEF WriterTakes
    <2>2. Head(chan[f]) \in Line /\ Tail(chan[f]) \in Seq(Line) /\ Len(Tail(chan[f])) <= Capacity
      BY <2>1, RestQueued
    <2> QED BY <1>2, <2>2 DEF WriterTakes, flushVars
  <1>3. ASSUME NEW f \in File, WriterLoses(f) PROVE OutTypes'
    <2>1. chan[f] \in Seq(Line) /\ chan[f] # <<>>
      BY <1>3 DEF WriterLoses
    <2>2. Head(chan[f]) \in Line /\ Tail(chan[f]) \in Seq(Line) /\ Len(Tail(chan[f])) <= Capacity
      BY <2>1, RestQueued
    <2> QED BY <1>3, <2>2 DEF WriterLoses, flushVars
  <1>4. ASSUME NEW f \in File, Tick(f) PROVE OutTypes'
    BY <1>4 DEF Tick, Flushed, flushVars
  <1>5. ASSUME NEW f \in File, Answer(f) PROVE OutTypes'
    BY <1>5 DEF Answer, Flushed, flushVars
  <1>6. ASSUME NEW f \in File, WriterEnds(f) PROVE OutTypes'
    BY <1>6 DEF WriterEnds, Flushed, flushVars
  <1>7. ASSUME NEW f \in File, Ask(f) PROVE OutTypes'
    <2>1. asked' \subseteq File /\ writer' \in [File -> {"off", "select", "drain", "gone"}]
      BY <1>7 DEF Ask
    <2>2. buf' \in [File -> SUBSET Line] /\ written' \subseteq Line
      BY <1>7 DEF Ask, Flushed
    <2> QED BY <1>7, <2>1, <2>2 DEF Ask
  <1>8. CASE CallFlush
    BY <1>8 DEF CallFlush, writerVars
  <1>9. CASE FlushReturns
    BY <1>9 DEF FlushReturns, writerVars
  <1>10. CASE CloseOutput
    BY <1>10 DEF CloseOutput, flushVars
  <1>11. CASE UNCHANGED outVars
    BY <1>11 DEF outVars, writerVars, flushVars
  <1> QED
    BY <1>1, <1>2, <1>3, <1>4, <1>5, <1>6, <1>7, <1>8, <1>9, <1>10, <1>11 DEF OutNext, Writer

\* A started writer stays one, a file that was not opened stays so.
LEMMA StartedStep == ASSUME OutTypes, [OutNext]_outVars PROVE Started' = Started
  <1> SUFFICES ASSUME NEW g \in File PROVE writer'[g] = "off" <=> writer[g] = "off"
    BY DEF Started
  <1> USE DEF OutTypes
  <1>1. ASSUME NEW l \in Line, Push(l) PROVE writer' = writer
    BY <1>1 DEF Push
  <1>2. ASSUME NEW f \in File, Writer(f) \/ WriterLoses(f) \/ Ask(f)
        PROVE  writer'[g] = "off" <=> writer[g] = "off"
    BY <1>2 DEF Writer, WriterTakes, Tick, Answer, WriterEnds, WriterLoses, Ask
  <1>3. ASSUME CallFlush \/ FlushReturns \/ UNCHANGED outVars PROVE writer' = writer
    BY <1>3 DEF CallFlush, FlushReturns, outVars, writerVars
  <1>4. CASE CloseOutput
    BY <1>4 DEF CloseOutput
  <1> QED BY <1>1, <1>2, <1>3, <1>4 DEF OutNext

\* Nothing leaves a file, and lines that were lost stay lost.
LEMMA FilesGrow ==
    ASSUME OutTypes, [OutNext]_outVars
    PROVE  written \union lost \subseteq (written \union lost)'
  BY DEF OutNext, Push, Writer, WriterTakes, WriterLoses, Tick, Flushed, CallFlush, Ask, Answer,
         FlushReturns, CloseOutput, WriterEnds, outVars, writerVars, flushVars

\* A line moves forward only: from its channel to the buffer or the lost ones, from the
\* buffer to its file.
LEMMA KeptStep ==
    ASSUME OutTypes, \A l \in pushed : l.file \in Started, LinesKept, [OutNext]_outVars
    PROVE  LinesKept'
  <1> DEFINE Kept(l) == l \in Queued(l.file) \/ l \in buf[l.file] \/ l \in written \union lost
  <1> SUFFICES ASSUME NEW l \in pushed' PROVE Kept(l)'
    BY DEF LinesKept
  <1> USE OutputAssumption DEF OutTypes
  <1>1. ASSUME NEW k \in Line, Push(k) PROVE Kept(l)'
    <2>1. k.file \in File /\ chan[k.file] \in Seq(Line)
      OBVIOUS
    <2>2. CASE l = k
      <3>1. chan'[k.file] = Append(chan[k.file], k)
        BY <1>1, <2>1 DEF Push
      <3>2. k \in Elements(chan'[k.file])
        BY <2>1, <3>1, AppendKeeps
      <3> QED BY <2>2, <3>2 DEF Queued, Elements
    <2>3. CASE l # k
      <3>1. l \in pushed /\ Kept(l) /\ l \in Line /\ l.file \in File
        BY <1>1, <2>3 DEF Push, LinesKept
      <3>2. chan'[l.file] = chan[l.file] \/ chan'[l.file] = Append(chan[l.file], k)
        BY <1>1, <3>1 DEF Push
      <3>3. Elements(chan[l.file]) \subseteq Elements(chan'[l.file])
        BY <3>1, <3>2, AppendKeeps
      <3>4. Queued(l.file) \subseteq Queued(l.file)'
        BY <3>3 DEF Queued, Elements
      <3> QED BY <1>1, <3>1, <3>4 DEF Push
    <2> QED BY <2>2, <2>3
  <1>2. ASSUME NEW f \in File, WriterTakes(f) \/ WriterLoses(f) PROVE Kept(l)'
    <2>1. l \in pushed /\ Kept(l) /\ l.file \in File
      BY <1>2 DEF WriterTakes, WriterLoses, LinesKept
    <2>2. chan[f] \in Seq(Line) /\ chan[f] # <<>>
      BY <1>2 DEF WriterTakes, WriterLoses
    <2>3. CASE l.file # f
      <3>1. chan'[l.file] = chan[l.file] /\ buf'[l.file] = buf[l.file]
        BY <1>2, <2>1, <2>3 DEF WriterTakes, WriterLoses
      <3>2. Queued(l.file)' = Queued(l.file)
        BY <3>1 DEF Queued
      <3> QED BY <1>2, <2>1, <3>1, <3>2 DEF WriterTakes, WriterLoses
    <2>4. CASE l.file = f
      <3>1. chan'[f] = Tail(chan[f])
        BY <1>2, <2>2 DEF WriterTakes, WriterLoses
      <3>2. l \in Queued(f) => l = Head(chan[f]) \/ l \in Queued(f)'
        <4>1. Elements(chan[f]) \subseteq {Head(chan[f])} \union Elements(chan'[f])
          BY <2>2, <3>1, RestQueued
        <4> QED BY <4>1 DEF Queued, Elements
      <3>3. l = Head(chan[f]) => l \in buf'[f] \/ l \in lost'
        BY <1>2 DEF WriterTakes, WriterLoses
      <3>4. buf[f] \subseteq buf'[f] /\ written' = written /\ lost \subseteq lost'
        BY <1>2 DEF WriterTakes, WriterLoses
      <3> QED BY <2>1, <2>4, <3>2, <3>3, <3>4
    <2> QED BY <2>3, <2>4
  <1>3. ASSUME NEW f \in File, Tick(f) \/ Answer(f) \/ WriterEnds(f) \/ Ask(f) PROVE Kept(l)'
    <2>1. l \in pushed /\ Kept(l) /\ l.file \in File
      BY <1>3 DEF Tick, Answer, WriterEnds, Ask, Flushed, LinesKept, flushVars
    <2>2. chan' = chan /\ lost' = lost
      BY <1>3 DEF Tick, Answer, WriterEnds, Ask
    <2>3. Queued(l.file)' = Queued(l.file)
      BY <2>2 DEF Queued
    <2>4. Flushed(f) \/ (buf' = buf /\ written' = written)
      BY <1>3 DEF Tick, Answer, WriterEnds, Ask
    <2>5. l \in buf[l.file] => l \in buf'[l.file] \/ l \in written'
      BY <2>1, <2>4 DEF Flushed
    <2>6. written \subseteq written'
      BY <2>4 DEF Flushed
    <2> QED BY <2>1, <2>2, <2>3, <2>5, <2>6
  <1>4. CASE CallFlush \/ FlushReturns \/ CloseOutput \/ UNCHANGED outVars
    <2>1. pushed' = pushed /\ chan' = chan /\ buf' = buf /\ written' = written /\ lost' = lost
      BY <1>4 DEF CallFlush, FlushReturns, CloseOutput, outVars, writerVars
    <2> QED BY <2>1 DEF LinesKept, Queued
  <1> QED BY <1>1, <1>2, <1>3, <1>4 DEF OutNext, Writer

\* The writer answers only when the drain found its channel empty; a later push is not owed.
LEMMA AnsweredStep ==
    ASSUME OutInv, [OutNext]_outVars
    PROVE  Answered'
  <1> USE OutputAssumption DEF OutTypes, OutInv
  <1> SUFFICES ASSUME NEW l \in owed',
                      flush' = "idle" \/ (l.file \in asked' /\ writer'[l.file] # "drain")
               PROVE  l \in (written \union lost)'
    BY DEF Answered
  <1>1. CASE /\ l \in owed
             /\ flush = "idle" \/ (l.file \in asked /\ writer[l.file] # "drain")
    BY <1>1, FilesGrow DEF Answered
  <1>2. ASSUME NEW k \in Line, Push(k) PROVE l \in (written \union lost)'
    BY <1>1, <1>2 DEF Push, flushVars
  <1>3. ASSUME NEW f \in File, WriterTakes(f) \/ WriterLoses(f) \/ Tick(f)
        PROVE  l \in (written \union lost)'
    BY <1>1, <1>3 DEF WriterTakes, WriterLoses, Tick, flushVars
  <1>4. ASSUME NEW f \in File, Answer(f) \/ WriterEnds(f) \/ Ask(f)
        PROVE  l \in (written \union lost)'
    <2>1. l \in owed /\ flush' = flush /\ l \in pushed /\ l.file \in File
      BY <1>4 DEF Answer, WriterEnds, Ask, flushVars
    <2>2. CASE l.file # f
      BY <1>1, <1>4, <2>1, <2>2 DEF Answer, WriterEnds, Ask, flushVars
    <2>3. CASE l.file = f /\ chan[f] = <<>> /\ Flushed(f)
      <3>1. l \notin Queued(f)
        BY <2>3 DEF Queued
      <3>2. l \in buf[f] \/ l \in written \union lost
        BY <2>1, <2>3, <3>1 DEF LinesKept
      <3> QED BY <2>1, <2>3, <3>2, FilesGrow DEF Flushed
    <2>4. CASE l.file = f /\ ~(chan[f] = <<>> /\ Flushed(f))
      <3>1. Ask(f) /\ writer'[f] = "drain"
        BY <1>4, <2>4 DEF Answer, WriterEnds, Ask
      <3>2. flush = "idle"
        BY <2>1, <2>4, <3>1
      <3> QED BY <3>1, <3>2 DEF Ask
    <2> QED BY <2>2, <2>3, <2>4
  <1>5. CASE CallFlush
    BY <1>5 DEF CallFlush
  <1>6. CASE FlushReturns
    <2>1. l \in owed /\ l \in pushed /\ l.file \in Started
      BY <1>6 DEF FlushReturns
    <2>2. l.file \in asked /\ writer[l.file] # "drain"
      BY <1>6, <2>1 DEF FlushReturns
    <2> QED BY <1>1, <2>1, <2>2
  <1>7. CASE CloseOutput
    BY <1>1, <1>7 DEF CloseOutput, flushVars
  <1>8. CASE UNCHANGED outVars
    BY <1>1, <1>8 DEF outVars, writerVars, flushVars
  <1> QED BY <1>2, <1>3, <1>4, <1>5, <1>6, <1>7, <1>8 DEF OutNext, Writer

LEMMA GoneStep == ASSUME OutInv, [OutNext]_outVars PROVE GoneEmpty'
  <1> USE OutputAssumption DEF OutTypes, OutInv
  <1> SUFFICES ASSUME NEW g \in File, writer'[g] = "gone"
               PROVE  closing' /\ chan'[g] = <<>> /\ buf'[g] = {}
    BY DEF GoneEmpty
  <1>1. ASSUME NEW k \in Line, Push(k) PROVE closing' /\ chan'[g] = <<>> /\ buf'[g] = {}
    BY <1>1 DEF Push, GoneEmpty
  <1>2. ASSUME NEW f \in File, Writer(f) \/ WriterLoses(f)
        PROVE  closing' /\ chan'[g] = <<>> /\ buf'[g] = {}
    BY <1>2 DEF Writer, WriterTakes, WriterLoses, Tick, Answer, WriterEnds, Flushed, GoneEmpty
  <1>3. ASSUME NEW f \in File, Ask(f) PROVE closing' /\ chan'[g] = <<>> /\ buf'[g] = {}
    BY <1>3 DEF Ask, Flushed, GoneEmpty
  <1>4. CASE CallFlush \/ FlushReturns \/ UNCHANGED outVars
    BY <1>4 DEF CallFlush, FlushReturns, outVars, writerVars, flushVars, GoneEmpty
  <1>5. CASE CloseOutput
    BY <1>5 DEF CloseOutput, GoneEmpty
  <1> QED BY <1>1, <1>2, <1>3, <1>4, <1>5 DEF OutNext

LEMMA OutInvStep == ASSUME OutInv, [OutNext]_outVars PROVE OutInv'
  <1>1. OutTypes'
    BY TypesStep DEF OutInv
  <1>2. Started' = Started
    BY StartedStep DEF OutInv
  <1>3. \A l \in pushed' : l.file \in Started'
    <2> SUFFICES ASSUME NEW l \in pushed' PROVE l \in pushed \/ l.file \in Started
      BY <1>2 DEF OutInv
    <2> QED
      BY DEF OutNext, Push, Writer, WriterTakes, WriterLoses, Tick, CallFlush, Ask, Answer,
             FlushReturns, CloseOutput, WriterEnds, outVars
  <1>4. LinesKept'
    BY KeptStep DEF OutInv
  <1>5. Answered' /\ GoneEmpty'
    BY AnsweredStep, GoneStep
  <1> QED BY <1>1, <1>3, <1>4, <1>5 DEF OutInv

LEMMA OutInvImplies == OutInv => FlushCovers /\ CloseCovers /\ LinesKept
  <1> SUFFICES ASSUME OutInv PROVE FlushCovers /\ CloseCovers
    BY DEF OutInv
  <1>1. FlushCovers
    BY DEF OutInv, Answered, FlushCovers
  <1>2. ASSUME Closed, NEW l \in pushed PROVE l \in written \union lost
    <2>1. l.file \in File /\ chan[l.file] = <<>> /\ buf[l.file] = {}
      BY <1>2 DEF Closed, OutInv, GoneEmpty, Started
    <2> QED BY <2>1 DEF OutInv, LinesKept, Queued
  <1> QED BY <1>1, <1>2 DEF CloseCovers

LEMMA OutInvariant == OutSpec => []OutInv
  <1>1. (\E started \in SUBSET File : OutInit(started)) => OutInv
    BY OutInitInv
  <1>2. OutInv /\ [OutNext]_outVars => OutInv'
    BY OutInvStep
  <1> QED BY <1>1, <1>2, PTL DEF OutSpec

\* When FlushAndWait returns, every line that was pushed before the call is in its file or
\* was dropped because the file could not be opened, however many producers push meanwhile.
THEOREM FlushAndWaitCovers == OutSpec => []FlushCovers
  BY OutInvariant, OutInvImplies, PTL

\* After Close nothing that was pushed is left in a channel or a buffer.
THEOREM CloseWritesEverything == OutSpec => []CloseCovers
  BY OutInvariant, OutInvImplies, PTL

-----------------------------------------------------------------------------
(* A check run and its result files *)

\* Whatever is on its way carries a task of the input.
Known ==
    /\ toRead \in Seq(InputLine)
    /\ reader \in {"sending", "reporting"} => offer.id \in Task
    /\ \A i \in DOMAIN objCh : objCh[i].id \in Task
    /\ \A c \in Checker : pc[c] \in {"head", "probe", "write"} => job[c].id \in Task

\* The shapes of the variables the argument reads.
Shapes ==
    /\ DOMAIN pc = Checker /\ DOMAIN job = Checker
    /\ \E S : objCh \in Seq(S)

LEMMA AppendElements ==
    ASSUME NEW S, NEW q \in Seq(S), NEW r
    PROVE  /\ Append(q, r) \in Seq(S \union {r})
           /\ \A i \in DOMAIN Append(q, r) :
                Append(q, r)[i] = r \/ \E j \in DOMAIN q : Append(q, r)[i] = q[j]
  <1>1. q \in Seq(S \union {r}) /\ r \in S \union {r}
    OBVIOUS
  <1> QED BY <1>1

LEMMA TailElements ==
    ASSUME NEW S, NEW q \in Seq(S), q # <<>>
    PROVE  /\ Tail(q) \in Seq(S)
           /\ \E i \in DOMAIN q : Head(q) = q[i]
           /\ \A i \in DOMAIN Tail(q) : \E j \in DOMAIN q : Tail(q)[i] = q[j]
  <1>1. Head(q) = q[1] /\ 1 \in DOMAIN q
    OBVIOUS
  <1>2. ASSUME NEW i \in DOMAIN Tail(q) PROVE Tail(q)[i] = q[i + 1] /\ i + 1 \in DOMAIN q
    BY <1>2
  <1> QED BY <1>1, <1>2

LEMMA SettleMoves ==
    ASSUME NEW c \in Checker, NEW v, NEW task, DOMAIN pc = Checker, Settle(c, v, task)
    PROVE  /\ DOMAIN pc' = Checker /\ pc'[c] \in {"write", "idle"}
           /\ \A d \in Checker \ {c} : pc'[d] = pc[d]
  BY DEF Settle

LEMMA DispatchMoves ==
    ASSUME NEW c \in Checker, NEW task, Shapes, Dispatch(c, task)
    PROVE  /\ DOMAIN pc' = Checker /\ pc'[c] \in {"write", "idle", "probe"}
           /\ \A d \in Checker \ {c} : pc'[d] = pc[d] /\ job'[d] = job[d]
           /\ DOMAIN job' = Checker /\ job'[c] = task
  <1>1. DOMAIN job' = Checker /\ job'[c] = task /\ \A d \in Checker \ {c} : job'[d] = job[d]
    BY DEF Dispatch, Shapes
  <1>2. \/ \E v \in {"clean", "unverified"} : Settle(c, v, task)
        \/ pc' = [pc EXCEPT ![c] = "probe"]
    BY DEF Dispatch
  <1>3. DOMAIN pc' = Checker /\ pc'[c] \in {"write", "idle", "probe"}
        /\ \A d \in Checker \ {c} : pc'[d] = pc[d]
    BY <1>2, SettleMoves DEF Shapes
  <1> QED BY <1>1, <1>3

LEMMA InitIds == Init => Known /\ Shapes
  <1> SUFFICES ASSUME Init PROVE Known /\ Shapes
    OBVIOUS
  <1>1. toRead \in Seq(InputLine)
    BY CheckAssumption DEF Init, InputLine
  <1>2. objCh = <<>> /\ reader = "reading" /\ DOMAIN pc = Checker /\ DOMAIN job = Checker
        /\ \A c \in Checker : pc[c] \in {"idle", "exit"}
    BY DEF Init
  <1>3. objCh \in Seq({})
    BY <1>2
  <1> QED BY <1>1, <1>2, <1>3 DEF Known, Shapes

\* The workers: a task is taken from objCh and kept while it is worked on.
LEMMA WorkIds ==
    ASSUME Known, Shapes, NEW c \in Checker, Work(c)
    PROVE  Known' /\ Shapes'
  <1>1. toRead' = toRead /\ reader' = reader /\ offer' = offer
    BY DEF Work, Receive, HeadAnswers, HeadFails, Probe, ProbeFails, Write, CheckerExits, readVars
  <1>2. PICK S : objCh \in Seq(S)
    BY DEF Shapes
  <1> DEFINE Moved == /\ DOMAIN pc' = Checker /\ DOMAIN job' = Checker
                      /\ \A d \in Checker \ {c} : pc'[d] = pc[d] /\ job'[d] = job[d]
                      /\ pc'[c] \in {"head", "probe", "write"} => job'[c].id \in Task
  <1> HIDE DEF Moved
  <1>3. objCh' = objCh \/ (objCh # <<>> /\ objCh' = Tail(objCh))
    BY DEF Work, Receive, HeadAnswers, HeadFails, Probe, ProbeFails, Write, CheckerExits
  <1>4. objCh' \in Seq(S) /\ \A i \in DOMAIN objCh' : objCh'[i].id \in Task
    <2>1. CASE objCh' = objCh
      BY <1>2, <2>1 DEF Known
    <2>2. CASE objCh # <<>> /\ objCh' = Tail(objCh)
      BY <1>2, <2>2, TailElements DEF Known
    <2> QED BY <1>3, <2>1, <2>2
  <1>5. Moved => Known' /\ Shapes'
    <2> SUFFICES ASSUME Moved PROVE Known' /\ Shapes'
      OBVIOUS
    <2>1. \A d \in Checker : pc'[d] \in {"head", "probe", "write"} => job'[d].id \in Task
      BY DEF Moved, Known
    <2>2. DOMAIN pc' = Checker /\ DOMAIN job' = Checker
      BY DEF Moved
    <2> QED BY <1>1, <1>4, <2>1, <2>2 DEF Known, Shapes
  <1>6. CASE Receive(c)
    <2> DEFINE task == Head(objCh)
    <2>1. task.id \in Task
      BY <1>2, <1>6, TailElements DEF Receive, Known
    <2>2. Dispatch(c, task) => Moved
      BY <2>1, DispatchMoves DEF Shapes, Moved
    <2>3. job' = [job EXCEPT ![c] = task] /\ pc' = [pc EXCEPT ![c] = "head"] => Moved
      BY <2>1 DEF Shapes, Moved
    <2>4. Moved
      BY <1>6, <2>2, <2>3 DEF Receive
    <2> QED BY <1>5, <2>4
  <1>7. CASE HeadAnswers(c)
    <2>1. PICK task : Dispatch(c, task) /\ task.id = job[c].id
      BY <1>7 DEF HeadAnswers
    <2>2. job[c].id \in Task
      BY <1>7 DEF HeadAnswers, Known
    <2>3. Moved
      BY <2>1, <2>2, DispatchMoves DEF Shapes, Moved
    <2> QED BY <1>5, <2>3
  <1>8. CASE HeadFails(c) \/ Probe(c) \/ ProbeFails(c) \/ Write(c) \/ CheckerExits(c)
    <2>1. job' = job
      BY <1>8 DEF HeadFails, Probe, ProbeFails, Write, CheckerExits
    <2>2. \/ \E v \in {"clean", "corrupted", "failed"} : Settle(c, v, job[c])
          \/ pc' = pc
          \/ pc' = [pc EXCEPT ![c] = "idle"]
          \/ pc' = [pc EXCEPT ![c] = "exit"]
      BY <1>8 DEF HeadFails, Probe, ProbeFails, Write, CheckerExits
    <2>3. DOMAIN pc' = Checker /\ \A d \in Checker \ {c} : pc'[d] = pc[d]
      BY <2>2, SettleMoves DEF Shapes
    <2>4. pc'[c] \in {"head", "probe", "write"} => pc[c] \in {"head", "probe", "write"}
      BY <1>8, <2>2 DEF HeadFails, Probe, ProbeFails, Write, CheckerExits, Shapes
    <2>5. Moved
      BY <2>1, <2>3, <2>4 DEF Known, Shapes, Moved
    <2> QED BY <1>5, <2>5
  <1> QED BY <1>6, <1>7, <1>8 DEF Work

LEMMA SourceIds ==
    ASSUME Known, Shapes, Source
    PROVE  Known' /\ Shapes'
  <1>1. pc' = pc /\ job' = job
    BY DEF Source, Read, ReportMalformed, Send, SourceEnds, workVars
  <1>2. PICK S : objCh \in Seq(S)
    BY DEF Shapes
  <1>3. CASE Read
    <2>1. Head(toRead) \in InputLine /\ Tail(toRead) \in Seq(InputLine)
      BY <1>3 DEF Read, Known
    <2>2. Head(toRead).id \in Task
      BY <2>1 DEF InputLine
    <2>3. offer'.id = Head(toRead).id
      BY <1>3 DEF Read, LineTask, ResolveOffsets
    <2> QED BY <1>1, <1>3, <2>1, <2>2, <2>3 DEF Read, Known, Shapes
  <1>4. CASE Send
    <2>1. objCh' = Append(objCh, offer) /\ offer.id \in Task /\ reader' = "reading"
          /\ toRead' = toRead
      BY <1>4 DEF Send, Known
    <2>2. objCh' \in Seq(S \union {offer}) /\ \A i \in DOMAIN objCh' : objCh'[i].id \in Task
      BY <1>2, <2>1, AppendElements DEF Known
    <2> QED BY <1>1, <2>1, <2>2 DEF Known, Shapes
  <1>5. CASE ReportMalformed \/ SourceEnds
    BY <1>1, <1>5 DEF ReportMalformed, SourceEnds, Known, Shapes
  <1> QED BY <1>3, <1>4, <1>5 DEF Source

LEMMA IdsStep == ASSUME Known, Shapes, [Next]_vars PROVE Known' /\ Shapes'
  <1>1. CASE \E c \in Checker : Work(c)
    BY <1>1, WorkIds
  <1>2. CASE Source
    BY <1>2, SourceIds
  <1>3. CASE Main \/ CheckpointFlush \/ OutputStep \/ OpenFails \/ Signal \/ ObjectChanges
             \/ Terminated \/ UNCHANGED vars
    <2>1. UNCHANGED <<readVars, objCh, workVars>>
      BY <1>3 DEF Main, StopJournal, Close, RunReturns, CheckpointFlush, OutputStep, OpenFails,
                  Signal, ObjectChanges, Terminated, runVars, vars
    <2> QED BY <2>1 DEF Known, Shapes, readVars, workVars
  <1> QED BY <1>1, <1>2, <1>3 DEF Next

-----------------------------------------------------------------------------
(* The implementation *)

\* Every step of a check run is a step of the result files or leaves them alone.
LEMMA UsesOutput == ASSUME OutTypes, Known, [Next]_vars PROVE [OutNext]_outVars
  <1>1. ASSUME NEW c \in Checker, Work(c) PROVE [OutNext]_outVars
    <2>1. CASE Write(c)
      <3>1. Push([file |-> dest[c], task |-> job[c].id]) /\ job[c].id \in Task
        BY <2>1 DEF Write, Known
      <3>2. dest[c] \in File
        BY <3>1 DEF Push, Started
      <3>3. [file |-> dest[c], task |-> job[c].id] \in Line
        BY <3>1, <3>2, CheckAssumption
      <3> QED BY <3>1, <3>3 DEF OutNext
    <2>2. CASE ~Write(c)
      BY <1>1, <2>2 DEF Work, Receive, HeadAnswers, HeadFails, Probe, ProbeFails, CheckerExits
    <2> QED BY <2>1, <2>2
  <1>2. CASE Source
    <2>1. CASE ReportMalformed
      <3>1. Push([file |-> "parse_failed", task |-> offer.id]) /\ offer.id \in Task
        BY <2>1 DEF ReportMalformed, Known
      <3>2. "parse_failed" \in File
        BY <3>1 DEF Push, Started
      <3>3. [file |-> "parse_failed", task |-> offer.id] \in Line
        BY <3>1, <3>2, CheckAssumption
      <3> QED BY <3>1, <3>3 DEF OutNext
    <2>2. CASE Read \/ Send \/ SourceEnds
      BY <2>2 DEF Read, Send, SourceEnds
    <2> QED BY <1>2, <2>1, <2>2 DEF Source
  <1>3. CASE Main
    BY <1>3 DEF Main, StopJournal, Close, RunReturns, OutNext
  <1>4. CASE CheckpointFlush \/ OutputStep \/ OpenFails
    BY <1>4 DEF CheckpointFlush, OutputStep, OpenFails, OutNext
  <1>5. CASE Signal \/ ObjectChanges \/ Terminated \/ UNCHANGED vars
    BY <1>5 DEF Signal, ObjectChanges, Terminated, vars
  <1> QED BY <1>1, <1>2, <1>3, <1>4, <1>5 DEF Next

\* The result files of a check run behave as module Output says.
THEOREM CheckImplementsOutput == Spec => OutSpec
  <1>1. Init => \E started \in SUBSET File : OutInit(started)
    BY DEF Init
  <1>2. Init => OutInv /\ Known /\ Shapes
    BY <1>1, OutInitInv, InitIds
  <1>3. OutInv /\ Known /\ Shapes /\ [Next]_vars => [OutNext]_outVars
    BY UsesOutput DEF OutInv
  <1>4. OutInv /\ Known /\ Shapes /\ [Next]_vars => OutInv' /\ Known' /\ Shapes'
    BY <1>3, OutInvStep, IdsStep
  <1> QED BY <1>1, <1>2, <1>3, <1>4, PTL DEF Spec, OutSpec

\* A check run's checkpoints and its end find the lines in their files.
THEOREM CheckRunsWriteEverything == Spec => [](FlushCovers /\ CloseCovers)
  BY CheckImplementsOutput, FlushAndWaitCovers, CloseWritesEverything, PTL

-----------------------------------------------------------------------------
(* The probe plan of a task.  BoundaryProbes is recursive: its equation has  *)
(* a solution for every number of boundaries, and what the solution holds    *)
(* follows from the least number for which it would not.                     *)

TaskRec == [id : Task, multi : BOOLEAN, size : Nat, head : BOOLEAN, offs : Seq(Int)]
ProbeRec == [start : Nat, length : Nat \ {0}]

PlanStep(task, f, n) ==
    IF n <= 1 THEN <<>>
    ELSE LET p == Around(task, task.offs[n])
         IN IF p.length > 0 THEN Append(f[n - 1], p) ELSE f[n - 1]

PlanUpTo(task, m, f) == f = [n \in 0 .. m |-> PlanStep(task, f, n)]

LEMMA PlanExists == ASSUME NEW task, NEW m \in Nat PROVE \E f : PlanUpTo(task, m, f)
  <1> DEFINE Bad == {k \in Nat : ~ \E f : PlanUpTo(task, k, f)}
  <1> SUFFICES ASSUME Bad # {} PROVE FALSE
    OBVIOUS
  <1>1. PICK k \in Bad : \A j \in Bad : k <= j
    BY LeastElementExists
  <1>2. k # 0
    <2> DEFINE f == [n \in 0 .. 0 |-> <<>>]
    <2>1. PlanUpTo(task, 0, f)
      BY DEF PlanUpTo, PlanStep
    <2> QED BY <2>1
  <1>3. k - 1 \in Nat /\ k - 1 \notin Bad
    BY <1>1, <1>2
  <1>4. PICK g : PlanUpTo(task, k - 1, g)
    BY <1>3
  <1> DEFINE f == [n \in 0 .. k |-> IF n < k THEN g[n] ELSE PlanStep(task, g, k)]
  <1>5. ASSUME NEW n \in 0 .. k PROVE f[n] = PlanStep(task, f, n)
    <2>1. PlanStep(task, f, n) = PlanStep(task, g, n)
      BY <1>3 DEF PlanStep
    <2>2. n < k => g[n] = PlanStep(task, g, n)
      BY <1>3, <1>4 DEF PlanUpTo
    <2> QED BY <2>1, <2>2
  <1>6. PlanUpTo(task, k, f)
    BY <1>5 DEF PlanUpTo
  <1> QED BY <1>6

LEMMA BoundaryUnfolds ==
    ASSUME NEW task, Len(task.offs) \in Nat
    PROVE  \E f : /\ BoundaryProbes(task) = f[Len(task.offs)]
                  /\ \A n \in 0 .. Len(task.offs) : f[n] = PlanStep(task, f, n)
  <1> DEFINE L == Len(task.offs)
             f == CHOOSE f : PlanUpTo(task, L, f)
  <1>1. BoundaryProbes(task) = f[L]
    BY DEF BoundaryProbes, PlanUpTo, PlanStep
  <1>2. PlanUpTo(task, L, f)
    BY PlanExists
  <1> HIDE DEF f
  <1>3. \A n \in 0 .. L : f[n] = PlanStep(task, f, n)
    BY <1>2 DEF PlanUpTo
  <1> QED BY <1>1, <1>3

AroundBoundary(task, n, p) == \E i \in 2 .. n : p = Around(task, task.offs[i]) /\ p.length > 0

\* What a plan holds: the probes of the boundaries with something to read, and no others.
Holds(task, n, q) ==
    /\ q \in Seq(ProbeRec)
    /\ \A j \in DOMAIN q : AroundBoundary(task, n, q[j])
    /\ \A p : AroundBoundary(task, n, p) => \E j \in DOMAIN q : q[j] = p

LEMMA AroundTyped ==
    ASSUME NEW task, task.size \in Nat, NEW off \in Int, Around(task, off).length > 0
    PROVE  Around(task, off) \in ProbeRec
  <1>1. Window \in Nat
    BY CheckAssumption
  <1> QED BY <1>1 DEF Around, AtLeast0, AtMost, ProbeRec

LEMMA AppendHolds ==
    ASSUME NEW task, NEW n \in Nat, n > 1, NEW q, Holds(task, n - 1, q), task.size \in Nat,
           NEW p, p = Around(task, task.offs[n]), task.offs[n] \in Int
    PROVE  Holds(task, n, IF p.length > 0 THEN Append(q, p) ELSE q)
  <1>1. \A r : AroundBoundary(task, n, r) <=> AroundBoundary(task, n - 1, r) \/ (r = p /\ p.length > 0)
    <2>1. 2 .. n = (2 .. n - 1) \union {n}
      OBVIOUS
    <2> QED BY <2>1 DEF AroundBoundary
  <1>2. CASE p.length > 0
    <2>1. p \in ProbeRec
      BY <1>2, AroundTyped
    <2>2. q \in Seq(ProbeRec)
      BY DEF Holds
    <2> DEFINE r == Append(q, p)
    <2>3. /\ r \in Seq(ProbeRec) /\ DOMAIN r = DOMAIN q \union {Len(q) + 1} /\ r[Len(q) + 1] = p
          /\ \A j \in DOMAIN q : r[j] = q[j]
      BY <2>1, <2>2
    <2> HIDE DEF r
    <2>4. \A j \in DOMAIN r : AroundBoundary(task, n, r[j])
      BY <1>1, <1>2, <2>3 DEF Holds
    <2>5. \A s : AroundBoundary(task, n, s) => \E j \in DOMAIN r : r[j] = s
      BY <1>1, <2>3 DEF Holds
    <2>6. Holds(task, n, r)
      BY <2>3, <2>4, <2>5 DEF Holds
    <2> QED BY <1>2, <2>6 DEF r
  <1>3. CASE ~(p.length > 0)
    BY <1>1, <1>3 DEF Holds
  <1> QED BY <1>2, <1>3

LEMMA BoundaryHolds ==
    ASSUME NEW task, task.size \in Nat, task.offs \in Seq(Int)
    PROVE  Holds(task, Len(task.offs), BoundaryProbes(task))
  <1> DEFINE L == Len(task.offs)
  <1>1. L \in Nat
    OBVIOUS
  <1>2. PICK f : /\ BoundaryProbes(task) = f[L]
                 /\ \A n \in 0 .. L : f[n] = PlanStep(task, f, n)
    BY <1>1, BoundaryUnfolds
  <1> DEFINE Bad == {n \in 0 .. L : ~Holds(task, n, f[n])}
  <1> HIDE DEF L
  <1>3. ASSUME Bad # {} PROVE FALSE
    <2>1. Bad \subseteq Nat
      BY <1>1
    <2>2. PICK n \in Bad : \A m \in Bad : n <= m
      <3> HIDE DEF Bad
      <3> QED BY <1>3, <2>1, LeastElementExists
    <2>3. n \in 0 .. L /\ ~Holds(task, n, f[n]) /\ f[n] = PlanStep(task, f, n)
      BY <1>2, <2>2
    <2>4. CASE n <= 1
      <3>1. f[n] = <<>> /\ 2 .. n = {}
        BY <1>1, <2>3, <2>4 DEF PlanStep
      <3> QED BY <2>3, <3>1 DEF Holds, AroundBoundary
    <2>5. CASE n > 1
      <3>1. n - 1 \in 0 .. L /\ n - 1 \notin Bad /\ n \in Nat
        BY <1>1, <2>2, <2>3, <2>5
      <3>2. Holds(task, n - 1, f[n - 1])
        BY <3>1
      <3>3. task.offs[n] \in Int
        BY <2>3, <2>5, <1>1 DEF L
      <3>4. PICK p : p = Around(task, task.offs[n])
        OBVIOUS
      <3>5. f[n] = IF p.length > 0 THEN Append(f[n - 1], p) ELSE f[n - 1]
        BY <2>3, <2>5, <3>1, <3>4 DEF PlanStep
      <3>6. Holds(task, n, f[n])
        BY <2>5, <3>1, <3>2, <3>3, <3>4, <3>5, AppendHolds
      <3> QED BY <2>3, <3>6
    <2> QED BY <1>1, <2>3, <2>4, <2>5
  <1>4. L \in 0 .. L
    BY <1>1
  <1> QED BY <1>2, <1>3, <1>4 DEF L

LEMMA ConcatElements ==
    ASSUME NEW S, NEW q \in Seq(S), NEW r \in Seq(S)
    PROVE  q \o r \in Seq(S) /\ Elements(q \o r) = Elements(q) \union Elements(r)
           /\ (q # <<>> => q \o r # <<>>)
  <1>1. /\ q \o r \in Seq(S) /\ Len(q) \in Nat /\ Len(r) \in Nat
        /\ DOMAIN (q \o r) = 1 .. Len(q) + Len(r)
        /\ DOMAIN q = 1 .. Len(q) /\ DOMAIN r = 1 .. Len(r)
        /\ Len(q \o r) = Len(q) + Len(r)
    OBVIOUS
  <1>2. ASSUME NEW i \in DOMAIN q PROVE q[i] \in Elements(q \o r)
    <2>1. i \in DOMAIN (q \o r) /\ (q \o r)[i] = q[i]
      BY <1>1
    <2> QED BY <2>1 DEF Elements
  <1>3. ASSUME NEW i \in DOMAIN r PROVE r[i] \in Elements(q \o r)
    <2>1. Len(q) + i \in DOMAIN (q \o r) /\ (q \o r)[Len(q) + i] = r[i]
      BY <1>1
    <2> QED BY <2>1 DEF Elements
  <1>4. ASSUME NEW i \in DOMAIN (q \o r) PROVE (q \o r)[i] \in Elements(q) \union Elements(r)
    <2>1. CASE i <= Len(q)
      <3>1. i \in DOMAIN q /\ (q \o r)[i] = q[i]
        BY <1>1, <2>1
      <3> QED BY <3>1 DEF Elements
    <2>2. CASE ~(i <= Len(q))
      <3>1. i - Len(q) \in DOMAIN r /\ (q \o r)[i] = r[i - Len(q)]
        BY <1>1, <2>2
      <3> QED BY <3>1 DEF Elements
    <2> QED BY <2>1, <2>2
  <1>5. q # <<>> => q \o r # <<>>
    BY <1>1
  <1> QED BY <1>1, <1>2, <1>3, <1>4, <1>5 DEF Elements

WholeProbe == [start |-> 0, length |-> conf.threshold]
HeadProbe == [start |-> 0, length |-> Window]
Small(task) == 0 < task.size /\ task.size <= conf.threshold

\* A probe of the plan of a task.
Planned(task, p) ==
    IF Small(task) THEN p = WholeProbe
    ELSE \/ p = HeadProbe
         \/ AroundBoundary(task, Len(task.offs), p)
         \/ (task.size > 0 \/ ~task.multi) /\ p = TailProbe(task.size)

LEMMA ConfTypes == ASSUME sc \in Scenario PROVE conf \in Config
  BY CheckAssumption DEF conf

LEMMA TailTyped ==
    ASSUME NEW size \in Nat, size > 0
    PROVE  /\ TailProbe(size) \in ProbeRec /\ TailProbe(size).start < size
           /\ TailProbe(size).start = AtLeast0(size - Window)
           /\ TailProbe(size).start + TailProbe(size).length = size
  <1>1. Window \in Nat \ {0}
    BY CheckAssumption
  <1> QED BY <1>1 DEF TailProbe, AtLeast0, AtMost, ProbeRec

LEMMA ProbesPlanned ==
    ASSUME sc \in Scenario, NEW task \in TaskRec, task.multi \/ task.size > 0
    PROVE  /\ Probes(task) \in Seq(ProbeRec) /\ Probes(task) # <<>>
           /\ \A p : p \in Elements(Probes(task)) <=> Planned(task, p)
  <1>0. /\ Window \in Nat \ {0} /\ conf.threshold \in Nat /\ task.size \in Nat
        /\ task.offs \in Seq(Int) /\ task.multi \in BOOLEAN
    BY CheckAssumption, ConfTypes DEF Config, TaskRec
  <1>1. CASE Small(task)
    <2>1. Probes(task) = <<WholeProbe>>
      BY <1>1 DEF Probes, Small, WholeProbe
    <2>2. WholeProbe \in ProbeRec
      BY <1>0, <1>1 DEF Small, WholeProbe, ProbeRec
    <2>3. <<WholeProbe>> \in Seq(ProbeRec) /\ Elements(<<WholeProbe>>) = {WholeProbe}
      BY <2>2 DEF Elements
    <2> QED BY <1>1, <2>1, <2>3 DEF Planned
  <1>2. CASE ~Small(task)
    <2> DEFINE tail == IF task.size > 0 \/ ~task.multi THEN <<TailProbe(task.size)>> ELSE <<>>
               B == BoundaryProbes(task)
    <2>1. Probes(task) = (<<HeadProbe>> \o B) \o tail
      BY <1>2 DEF Probes, Small, HeadProbe
    <2>2. HeadProbe \in ProbeRec
      BY <1>0 DEF HeadProbe, ProbeRec
    <2>3. <<HeadProbe>> \in Seq(ProbeRec) /\ Elements(<<HeadProbe>>) = {HeadProbe} /\ <<HeadProbe>> # <<>>
      BY <2>2 DEF Elements
    <2>4. Holds(task, Len(task.offs), B)
      BY <1>0, BoundaryHolds
    <2>5. B \in Seq(ProbeRec) /\ \A p : p \in Elements(B) <=> AroundBoundary(task, Len(task.offs), p)
      BY <2>4 DEF Holds, Elements
    <2>6. /\ tail \in Seq(ProbeRec)
          /\ \A p : p \in Elements(tail) <=> (task.size > 0 \/ ~task.multi) /\ p = TailProbe(task.size)
      <3>1. CASE task.size > 0 \/ ~task.multi
        <4>1. TailProbe(task.size) \in ProbeRec
          BY <1>0, <3>1, TailTyped
        <4>2. tail = <<TailProbe(task.size)>>
          BY <3>1
        <4>3. tail \in Seq(ProbeRec) /\ Elements(tail) = {TailProbe(task.size)}
          BY <4>1, <4>2 DEF Elements
        <4> QED BY <3>1, <4>3
      <3>2. CASE ~(task.size > 0 \/ ~task.multi)
        <4>1. tail = <<>> /\ Elements(<<>>) = {}
          BY <3>2 DEF Elements
        <4> QED BY <3>2, <4>1
      <3> QED BY <3>1, <3>2
    <2> HIDE DEF tail, B
    <2>9. PICK h : h = <<HeadProbe>>
      OBVIOUS
    <2>10. PICK g : g = h \o B
      OBVIOUS
    <2>7. g \in Seq(ProbeRec) /\ g # <<>> /\ Elements(g) = {HeadProbe} \union Elements(B)
      <3>1. h \in Seq(ProbeRec) /\ B \in Seq(ProbeRec) /\ h # <<>> /\ Elements(h) = {HeadProbe}
        BY <2>3, <2>5, <2>9
      <3>2. h \o B \in Seq(ProbeRec) /\ Elements(h \o B) = Elements(h) \union Elements(B)
            /\ h \o B # <<>>
        BY <3>1, ConcatElements
      <3> QED BY <2>10, <3>1, <3>2
    <2>8. /\ Probes(task) \in Seq(ProbeRec) /\ Probes(task) # <<>>
          /\ Elements(Probes(task)) = {HeadProbe} \union Elements(B) \union Elements(tail)
      <3>1. g \o tail \in Seq(ProbeRec) /\ Elements(g \o tail) = Elements(g) \union Elements(tail)
            /\ g \o tail # <<>>
        <4>1. g \in Seq(ProbeRec) /\ tail \in Seq(ProbeRec) /\ g # <<>>
          BY <2>6, <2>7
        <4> QED BY <4>1, ConcatElements
      <3>2. Probes(task) = g \o tail
        BY <2>1, <2>9, <2>10
      <3> QED BY <2>7, <3>1, <3>2
    <2> QED BY <1>2, <2>5, <2>6, <2>8 DEF Planned
  <1> QED BY <1>1, <1>2

\* No probe starts behind the end of an object of known size.
LEMMA ProbesInside ==
    ASSUME sc \in Scenario, NEW task \in TaskRec, task.size > 0, NEW p, Planned(task, p)
    PROVE  p.start < task.size
  <1>0. Window \in Nat \ {0} /\ task.size \in Nat /\ task.offs \in Seq(Int)
    BY CheckAssumption DEF TaskRec
  <1>1. CASE p = WholeProbe \/ p = HeadProbe
    BY <1>0, <1>1 DEF WholeProbe, HeadProbe
  <1>2. CASE p = TailProbe(task.size)
    BY <1>0, <1>2, TailTyped
  <1>3. ASSUME AroundBoundary(task, Len(task.offs), p) PROVE p.start < task.size
    <2>1. PICK i \in 2 .. Len(task.offs) : p = Around(task, task.offs[i]) /\ p.length > 0
      BY <1>3 DEF AroundBoundary
    <2>2. task.offs[i] \in Int
      BY <1>0, <2>1
    <2> QED BY <1>0, <2>1, <2>2 DEF Around, AtLeast0, AtMost
  <1> QED BY <1>1, <1>2, <1>3 DEF Planned

\* A header or trailer of the object lies wholly in what some probe reads.
Sees(o, p, m) == p.start <= m /\ m + MarkLength <= AtMost(p.start + p.length, o.size)

MarkAt(o, m) ==
    /\ m + MarkLength <= o.size
    /\ \E i \in DOMAIN o.cuts : m \in {o.cuts[i], PartEnd(o, i) - MarkLength}

LEMMA SeqElement == ASSUME NEW S, NEW q \in Seq(S), NEW i \in DOMAIN q PROVE q[i] \in S
  OBVIOUS

LEMMA AroundSees ==
    ASSUME NEW task, NEW o, task.size = o.size, o.size \in Nat, NEW off \in Nat, NEW m \in Nat,
           m = off \/ m = off - MarkLength, m + MarkLength <= o.size
    PROVE  Sees(o, Around(task, off), m) /\ Around(task, off).length > 0
  <1>1. Window \in Nat \ {0} /\ MarkLength \in Nat \ {0} /\ MarkLength <= Window
    BY CheckAssumption
  <1>2. PICK s : s = AtLeast0(off - Window)
    OBVIOUS
  <1>3. PICK e : e = AtMost(off + Window, task.size)
    OBVIOUS
  <1>4. task.size > 0
    BY <1>1
  <1>5. Around(task, off) = [start |-> s, length |-> e - s]
    BY <1>2, <1>3, <1>4 DEF Around
  <1>6. s \in Nat /\ s <= m
    BY <1>1, <1>2 DEF AtLeast0
  <1>7. e \in Nat /\ m + MarkLength <= e /\ e <= o.size
    BY <1>1, <1>3 DEF AtMost
  <1>8. s + (e - s) = e /\ e - s > 0
    BY <1>1, <1>6, <1>7
  <1>9. AtMost(e, o.size) = e
    BY <1>7 DEF AtMost
  <1>10. Around(task, off).start = s /\ Around(task, off).length = e - s
    BY <1>5
  <1> QED BY <1>6, <1>7, <1>8, <1>9, <1>10 DEF Sees

LEMMA ProbesCover ==
    ASSUME sc \in Scenario, NEW task \in TaskRec, NEW o \in Object, NEW m \in o.marks, MarkAt(o, m),
           o.cuts[1] = 0, task.size = o.size,
           IF task.multi THEN task.offs = o.cuts ELSE Len(o.cuts) = 1
    PROVE  \E p : Planned(task, p) /\ Sees(o, p, m)
  <1>0. /\ Window \in Nat \ {0} /\ MarkLength \in Nat \ {0} /\ MarkLength <= Window
        /\ task.size \in Nat /\ task.offs \in Seq(Int) /\ task.multi \in BOOLEAN
        /\ o.cuts \in Seq(Nat) /\ o.marks \in SUBSET Nat /\ conf.threshold \in Nat
    BY CheckAssumption, ConfTypes DEF TaskRec, Object, Config
  <1>1. m \in Nat /\ m + MarkLength <= o.size /\ o.size \in Nat /\ task.size > 0
    BY <1>0 DEF MarkAt
  <1>2. CASE Small(task)
    <2>1. Sees(o, WholeProbe, m)
      BY <1>0, <1>1, <1>2 DEF Small, WholeProbe, Sees, AtMost
    <2> QED BY <1>2, <2>1 DEF Planned
  <1>3. CASE ~Small(task)
    <2>1. PICK i \in DOMAIN o.cuts : m \in {o.cuts[i], PartEnd(o, i) - MarkLength}
      BY DEF MarkAt
    <2>2. i \in Nat \ {0} /\ Len(o.cuts) \in Nat /\ i <= Len(o.cuts) /\ DOMAIN o.cuts = 1 .. Len(o.cuts)
      BY <1>0, <2>1
    <2>3. ASSUME NEW k \in 2 .. Len(o.cuts), o.cuts[k] \in Nat,
                 m = o.cuts[k] \/ m = o.cuts[k] - MarkLength
          PROVE  \E p : Planned(task, p) /\ Sees(o, p, m)
      <3>1. task.multi /\ task.offs = o.cuts
        BY <1>0, <2>2, <2>3
      <3>2. PICK p : p = Around(task, o.cuts[k])
        OBVIOUS
      <3>3. Sees(o, p, m) /\ p.length > 0
        BY <1>0, <1>1, <2>3, <3>2, AroundSees
      <3>4. Planned(task, p)
        BY <1>3, <2>3, <3>1, <3>2, <3>3 DEF Planned, AroundBoundary
      <3> QED BY <3>3, <3>4
    <2>4. CASE m = o.cuts[i] /\ i = 1
      <3>1. Sees(o, HeadProbe, m)
        BY <1>0, <1>1, <2>4 DEF HeadProbe, Sees, AtMost
      <3> QED BY <1>3, <3>1 DEF Planned
    <2>5. CASE m = o.cuts[i] /\ i # 1
      <3>1. i \in 2 .. Len(o.cuts) /\ o.cuts[i] \in Nat
        BY <1>0, <2>2, <2>5
      <3> QED BY <2>3, <2>5, <3>1
    <2>6. CASE m = PartEnd(o, i) - MarkLength /\ i < Len(o.cuts)
      <3>1. PICK k : k = i + 1
        OBVIOUS
      <3>2. k \in 2 .. Len(o.cuts)
        BY <2>2, <2>6, <3>1
      <3>4. o.cuts[k] \in Nat
        <4>1. k \in DOMAIN o.cuts
          BY <2>2, <3>2
        <4> QED BY <1>0, <4>1, SeqElement
      <3>3. o.cuts[k] \in Nat /\ m = o.cuts[k] - MarkLength
        BY <2>6, <3>1, <3>4 DEF PartEnd
      <3> QED BY <2>3, <3>2, <3>3
    <2>7. CASE m = PartEnd(o, i) - MarkLength /\ ~(i < Len(o.cuts))
      <3>1. m = o.size - MarkLength
        BY <2>7 DEF PartEnd
      <3>2. Sees(o, TailProbe(task.size), m)
        BY <1>0, <1>1, <3>1 DEF TailProbe, AtLeast0, AtMost, Sees
      <3> QED BY <1>1, <1>3, <3>2 DEF Planned
    <2> QED BY <2>1, <2>4, <2>5, <2>6, <2>7
  <1> QED BY <1>2, <1>3

-----------------------------------------------------------------------------
(* Types *)

Verdict ==
    [is : {"failed", "corrupted", "clean", "unverified"}, multi : BOOLEAN, offs : Seq(Int)]

\* Who has a task in hand.
Held(c) == pc[c] \in {"head", "probe", "write"}

WorkerTypes(c) ==
    /\ pc[c] \in {"idle", "head", "probe", "write", "exit"}
    /\ Held(c) => job[c] \in TaskRec
    /\ plan[c] \in Seq(ProbeRec)
    /\ pc[c] = "probe" => plan[c] # <<>>
    /\ pc[c] = "write" => dest[c] \in Started

Domains == DOMAIN pc = Checker /\ DOMAIN job = Checker /\ DOMAIN plan = Checker /\ DOMAIN dest = Checker

WorldTypes ==
    /\ sc \in Scenario
    /\ object \in [Task -> Object]
    /\ left \in Bounds /\ signals \in 0 .. 2 /\ signals + left.signals <= 2
    /\ verdict \in [Task -> Seq(Verdict)]
    /\ main \in {"running", "flushing", "closing", "done"}

SourceTypes ==
    /\ toRead \in Seq(InputLine)
    /\ reader \in {"reading", "sending", "reporting", "done"}
    /\ reader \in {"sending", "reporting"} => offer \in TaskRec
    /\ sent \subseteq Task
    /\ objCh \in Seq(TaskRec) /\ Len(objCh) <= ObjCap

CheckTypes ==
    /\ WorldTypes /\ SourceTypes /\ Domains
    /\ \A c \in Checker : WorkerTypes(c)

LEMMA HeadTail ==
    ASSUME NEW S, NEW q \in Seq(S), q # <<>>
    PROVE  /\ Head(q) \in S /\ Tail(q) \in Seq(S) /\ Len(Tail(q)) < Len(q)
           /\ Head(q) \in Elements(q)
           /\ Elements(q) = {Head(q)} \union Elements(Tail(q))
  <1>1. Head(q) \in S /\ Tail(q) \in Seq(S) /\ Len(Tail(q)) = Len(q) - 1 /\ Head(q) = q[1]
        /\ 1 \in DOMAIN q /\ Len(q) \in Nat
    OBVIOUS
  <1>2. ASSUME NEW i \in DOMAIN q, i # 1 PROVE q[i] \in Elements(Tail(q))
    <2>1. i - 1 \in DOMAIN Tail(q) /\ Tail(q)[i - 1] = q[i]
      BY <1>2
    <2> QED BY <2>1 DEF Elements
  <1>3. ASSUME NEW i \in DOMAIN Tail(q) PROVE Tail(q)[i] \in Elements(q)
    <2>1. i + 1 \in DOMAIN q /\ Tail(q)[i] = q[i + 1]
      OBVIOUS
    <2> QED BY <2>1 DEF Elements
  <1> QED BY <1>1, <1>2, <1>3 DEF Elements

Result(v, task) == [is |-> v, multi |-> task.multi, offs |-> task.offs]

\* A worker that reaches a verdict.
LEMMA SettleDoes ==
    ASSUME CheckTypes, NEW c \in Checker, NEW v \in {"failed", "corrupted", "clean", "unverified"},
           NEW task \in TaskRec, Settle(c, v, task)
    PROVE  /\ Result(v, task) \in Verdict
           /\ verdict' \in [Task -> Seq(Verdict)]
           /\ verdict'[task.id] = Append(verdict[task.id], Result(v, task))
           /\ \A t \in Task : t # task.id => verdict'[t] = verdict[t]
           /\ DOMAIN pc' = Checker /\ DOMAIN dest' = Checker
           /\ dest'[c] = Route(v, task.multi)
           /\ pc'[c] = IF Route(v, task.multi) \in Started THEN "write" ELSE "idle"
           /\ \A d \in Checker \ {c} : pc'[d] = pc[d] /\ dest'[d] = dest[d]
  <1> DEFINE r == Result(v, task)
  <1>1. r \in Verdict /\ task.id \in Task
    BY DEF Verdict, TaskRec, Result
  <1>2. verdict \in [Task -> Seq(Verdict)] /\ DOMAIN pc = Checker /\ DOMAIN dest = Checker
    BY DEF CheckTypes, WorldTypes, Domains
  <1>3. verdict' = [verdict EXCEPT ![task.id] = Append(@, r)]
    BY DEF Settle, Reached, Result
  <1> HIDE DEF r
  <1>4. Append(verdict[task.id], r) \in Seq(Verdict)
    BY <1>1, <1>2
  <1>5. /\ verdict' \in [Task -> Seq(Verdict)]
        /\ verdict'[task.id] = Append(verdict[task.id], r)
        /\ \A t \in Task : t # task.id => verdict'[t] = verdict[t]
    BY <1>1, <1>2, <1>3, <1>4
  <1>6. /\ DOMAIN pc' = Checker /\ DOMAIN dest' = Checker
        /\ dest'[c] = Route(v, task.multi)
        /\ pc'[c] = IF Route(v, task.multi) \in Started THEN "write" ELSE "idle"
        /\ \A d \in Checker \ {c} : pc'[d] = pc[d] /\ dest'[d] = dest[d]
    BY <1>2 DEF Settle
  <1> QED BY <1>1, <1>5, <1>6 DEF r

\* A task of known size and type: settled at once, or probed.
LEMMA DispatchDoes ==
    ASSUME CheckTypes, NEW c \in Checker, NEW task \in TaskRec, Dispatch(c, task)
    PROVE  /\ DOMAIN job' = Checker /\ job'[c] = task
           /\ \A d \in Checker \ {c} : job'[d] = job[d]
           /\ \/ ~task.multi /\ task.size = 0 /\ Settle(c, "clean", task) /\ plan' = plan
              \/ task.multi /\ task.offs = <<>> /\ Settle(c, "unverified", task) /\ plan' = plan
              \/ /\ IF task.multi THEN task.offs # <<>> ELSE task.size > 0
                 /\ DOMAIN pc' = Checker /\ pc'[c] = "probe"
                 /\ DOMAIN plan' = Checker /\ plan'[c] = Probes(task)
                 /\ \A d \in Checker \ {c} : pc'[d] = pc[d] /\ plan'[d] = plan[d]
                 /\ UNCHANGED <<dest, verdict>>
  <1>1. DOMAIN pc = Checker /\ DOMAIN job = Checker /\ DOMAIN plan = Checker
    BY DEF CheckTypes, Domains
  <1> QED BY <1>1 DEF Dispatch

LEMMA HeadTask ==
    ASSUME CheckTypes, NEW c \in Checker, pc[c] = "head", NEW task,
           LET o == object[job[c].id]
           IN task = [id |-> job[c].id, multi |-> o.multi, size |-> o.size, head |-> TRUE,
                      offs |-> IF o.multi THEN job[c].offs ELSE <<>>]
    PROVE  task \in TaskRec
  <1>1. job[c] \in TaskRec
    BY DEF CheckTypes, WorkerTypes, Held
  <1>2. job[c].id \in Task /\ job[c].offs \in Seq(Int)
    BY <1>1 DEF TaskRec
  <1>3. object[job[c].id] \in Object
    BY <1>2 DEF CheckTypes, WorldTypes
  <1>4. object[job[c].id].multi \in BOOLEAN /\ object[job[c].id].size \in Nat
    BY <1>3 DEF Object
  <1>5. <<>> \in Seq(Int)
    OBVIOUS
  <1> QED BY <1>2, <1>4, <1>5 DEF TaskRec

Steady == UNCHANGED <<sc, worldVars, readVars, main, flush, closing, signals>>

LEMMA WorkSteady == ASSUME NEW c, Work(c) PROVE Steady
  BY DEF Work, Receive, HeadAnswers, HeadFails, CallFails, Probe, ProbeFails, Write, Push, CheckerExits,
         Steady, outVars, flushVars, writerVars, readVars, worldVars

Others(c) ==
    \A d \in Checker \ {c} : pc'[d] = pc[d] /\ job'[d] = job[d] /\ plan'[d] = plan[d] /\ dest'[d] = dest[d]

LEMMA SettleTypes ==
    ASSUME CheckTypes, NEW c \in Checker, NEW v \in {"failed", "corrupted", "clean", "unverified"},
           NEW task \in TaskRec, Settle(c, v, task), Started' = Started,
           DOMAIN job' = Checker, job'[c] = task, \A d \in Checker \ {c} : job'[d] = job[d],
           UNCHANGED plan
    PROVE  Domains' /\ Others(c) /\ WorkerTypes(c)' /\ verdict' \in [Task -> Seq(Verdict)]
  <1>1. /\ verdict' \in [Task -> Seq(Verdict)]
        /\ DOMAIN pc' = Checker /\ DOMAIN dest' = Checker
        /\ dest'[c] = Route(v, task.multi)
        /\ pc'[c] = IF Route(v, task.multi) \in Started THEN "write" ELSE "idle"
        /\ \A d \in Checker \ {c} : pc'[d] = pc[d] /\ dest'[d] = dest[d]
    BY SettleDoes
  <1>2. plan[c] \in Seq(ProbeRec) /\ DOMAIN plan = Checker
    BY DEF CheckTypes, WorkerTypes, Domains
  <1>3. WorkerTypes(c)'
    BY <1>1, <1>2 DEF WorkerTypes, Held
  <1> QED BY <1>1, <1>2, <1>3 DEF Domains, Others

LEMMA DispatchTypes ==
    ASSUME CheckTypes, NEW c \in Checker, NEW task \in TaskRec, Dispatch(c, task), Started' = Started
    PROVE  Domains' /\ Others(c) /\ WorkerTypes(c)' /\ verdict' \in [Task -> Seq(Verdict)]
  <1>1. /\ DOMAIN job' = Checker /\ job'[c] = task
        /\ \A d \in Checker \ {c} : job'[d] = job[d]
    BY DispatchDoes
  <1>2. ASSUME NEW v \in {"clean", "unverified"}, Settle(c, v, task), plan' = plan
        PROVE  Domains' /\ Others(c) /\ WorkerTypes(c)' /\ verdict' \in [Task -> Seq(Verdict)]
    BY <1>1, <1>2, SettleTypes
  <1>3. ASSUME IF task.multi THEN task.offs # <<>> ELSE task.size > 0,
               DOMAIN pc' = Checker, pc'[c] = "probe", DOMAIN plan' = Checker, plan'[c] = Probes(task),
               \A d \in Checker \ {c} : pc'[d] = pc[d] /\ plan'[d] = plan[d],
               UNCHANGED <<dest, verdict>>
        PROVE  Domains' /\ Others(c) /\ WorkerTypes(c)' /\ verdict' \in [Task -> Seq(Verdict)]
    <2>1. Probes(task) \in Seq(ProbeRec) /\ Probes(task) # <<>>
      <3>1. sc \in Scenario
        BY DEF CheckTypes, WorldTypes
      <3>2. task.multi \/ task.size > 0
        BY <1>3
      <3> QED BY <3>1, <3>2, ProbesPlanned
    <2>2. WorkerTypes(c)'
      BY <1>1, <1>3, <2>1 DEF WorkerTypes, Held
    <2> QED BY <1>1, <1>3, <2>2 DEF Domains, Others, CheckTypes, WorldTypes
  <1> QED BY <1>2, <1>3, DispatchDoes

LEMMA WorkTypes ==
    ASSUME CheckTypes, NEW c \in Checker, Work(c), Started' = Started
    PROVE  Domains' /\ Others(c) /\ WorkerTypes(c)' /\ verdict' \in [Task -> Seq(Verdict)]
  <1>0. Domains /\ WorkerTypes(c) /\ verdict \in [Task -> Seq(Verdict)]
    BY DEF CheckTypes, WorldTypes
  <1>1. CASE Receive(c)
    <2>1. Head(objCh) \in TaskRec
      BY <1>1, HeadTail DEF Receive, CheckTypes, SourceTypes
    <2>2. CASE Dispatch(c, Head(objCh))
      BY <2>1, <2>2, DispatchTypes
    <2>3. CASE /\ job' = [job EXCEPT ![c] = Head(objCh)] /\ pc' = [pc EXCEPT ![c] = "head"]
               /\ UNCHANGED <<plan, dest, verdict>>
      <3>1. WorkerTypes(c)'
        BY <1>0, <2>1, <2>3 DEF WorkerTypes, Held, Domains
      <3> QED BY <1>0, <2>3, <3>1 DEF Domains, Others
    <2> QED BY <1>1, <2>2, <2>3 DEF Receive
  <1>2. CASE HeadAnswers(c)
    <2>1. PICK task \in TaskRec : Dispatch(c, task)
      BY <1>2, HeadTask DEF HeadAnswers
    <2> QED BY <2>1, DispatchTypes
  <1>3. ASSUME NEW v \in {"failed", "corrupted", "clean", "unverified"}, Settle(c, v, job[c]),
               pc[c] \in {"head", "probe"}, UNCHANGED <<job, plan>>
        PROVE  Domains' /\ Others(c) /\ WorkerTypes(c)' /\ verdict' \in [Task -> Seq(Verdict)]
    <2>1. job[c] \in TaskRec
      BY <1>0, <1>3 DEF WorkerTypes, Held
    <2> QED BY <1>0, <1>3, <2>1, SettleTypes DEF Domains
  <1>4. CASE HeadFails(c) \/ ProbeFails(c)
    BY <1>3, <1>4 DEF HeadFails, ProbeFails
  <1>5. CASE Probe(c)
    <2>1. \/ \E v \in {"failed", "corrupted"} : Settle(c, v, job[c]) /\ UNCHANGED plan
          \/ plan' = [plan EXCEPT ![c] = Tail(@)] /\ Tail(plan[c]) = <<>> /\ Settle(c, "clean", job[c])
          \/ plan' = [plan EXCEPT ![c] = Tail(@)] /\ Tail(plan[c]) # <<>> /\ UNCHANGED <<pc, dest, verdict>>
      BY <1>5 DEF Probe
    <2>2. pc[c] = "probe" /\ job' = job
      BY <1>5 DEF Probe
    <2>3. Tail(plan[c]) \in Seq(ProbeRec) /\ job[c] \in TaskRec /\ plan[c] # <<>>
      BY <1>0, <2>2, HeadTail DEF WorkerTypes, Held
    <2>4. CASE plan' = [plan EXCEPT ![c] = Tail(@)] /\ Settle(c, "clean", job[c])
      <3>1. /\ verdict' \in [Task -> Seq(Verdict)]
            /\ DOMAIN pc' = Checker /\ DOMAIN dest' = Checker
            /\ dest'[c] = Route("clean", job[c].multi)
            /\ pc'[c] = IF Route("clean", job[c].multi) \in Started THEN "write" ELSE "idle"
            /\ \A d \in Checker \ {c} : pc'[d] = pc[d] /\ dest'[d] = dest[d]
        BY <2>3, <2>4, SettleDoes
      <3>2. plan'[c] \in Seq(ProbeRec) /\ DOMAIN plan' = Checker
            /\ \A d \in Checker \ {c} : plan'[d] = plan[d]
        BY <1>0, <2>3, <2>4 DEF Domains
      <3>3. WorkerTypes(c)'
        BY <2>2, <2>3, <3>1, <3>2 DEF WorkerTypes, Held
      <3> QED BY <1>0, <2>2, <3>1, <3>2, <3>3 DEF Domains, Others
    <2>5. CASE plan' = [plan EXCEPT ![c] = Tail(@)] /\ Tail(plan[c]) # <<>> /\ UNCHANGED <<pc, dest, verdict>>
      <3>1. WorkerTypes(c)'
        BY <1>0, <2>2, <2>3, <2>5 DEF WorkerTypes, Held, Domains
      <3> QED BY <1>0, <2>2, <2>5, <3>1 DEF Domains, Others
    <2> QED BY <1>3, <2>1, <2>2, <2>4, <2>5
  <1>6. CASE Write(c) \/ CheckerExits(c)
    <2>1. /\ pc' = [pc EXCEPT ![c] = "idle"] \/ pc' = [pc EXCEPT ![c] = "exit"]
          /\ UNCHANGED <<job, plan, dest, verdict>>
      BY <1>6 DEF Write, CheckerExits
    <2>2. WorkerTypes(c)'
      BY <1>0, <2>1 DEF WorkerTypes, Held, Domains
    <2> QED BY <1>0, <2>1, <2>2 DEF Domains, Others
  <1> QED BY <1>1, <1>2, <1>4, <1>5, <1>6 DEF Work

LEMMA WorkQueue ==
    ASSUME NEW c, Work(c)
    PROVE  \/ objCh' = objCh
           \/ pc[c] = "idle" /\ objCh # <<>> /\ objCh' = Tail(objCh)
  BY DEF Work, Receive, HeadAnswers, HeadFails, Probe, ProbeFails, Write, CheckerExits

LEMMA WorkBounds ==
    ASSUME CheckTypes, NEW c, Work(c)
    PROVE  left' \in Bounds /\ left'.signals = left.signals
  <1>1. left' = left \/ (left.faults > 0 /\ left' = [left EXCEPT !.faults = @ - 1])
    BY DEF Work, Receive, HeadAnswers, HeadFails, CallFails, Probe, ProbeFails, Write, CheckerExits
  <1>2. left \in Bounds
    BY DEF CheckTypes, WorldTypes
  <1> QED BY <1>1, <1>2 DEF Bounds

\* What the source makes of a line or of an entry.
LEMMA ReadTask ==
    ASSUME CheckTypes, Read
    PROVE  offer' \in TaskRec /\ offer'.id = Head(toRead).id
  <1>1. Head(toRead) \in InputLine
    BY HeadTail DEF Read, CheckTypes, SourceTypes
  <1> PICK l : l = Head(toRead)
    OBVIOUS
  <1>2. l.id \in Task /\ l.multi \in BOOLEAN /\ l.offs \in Seq(Int)
    BY <1>1 DEF InputLine
  <1>3. LineTask(l) \in TaskRec /\ LineTask(l).id = l.id
    BY <1>2 DEF LineTask, TaskRec
  <1>4. object[l.id] \in Object /\ conf \in Config
    BY <1>2, ConfTypes DEF CheckTypes, WorldTypes
  <1>5. object[l.id].multi \in BOOLEAN /\ object[l.id].size \in Nat
        /\ object[l.id].etag.offs \in Seq(Int)
    BY <1>4 DEF Object
  <1>6. <<>> \in Seq(Int)
    OBVIOUS
  <1>7. ETagOffsets(object[l.id]) \in Seq(Int)
    BY <1>5, <1>6 DEF ETagOffsets
  <1>8. conf.mode = "segment" => Segments(object[l.id].size) \in Seq(Int)
    <2> SUFFICES ASSUME conf.mode = "segment" PROVE Segments(object[l.id].size) \in Seq(Int)
      OBVIOUS
    <2>1. conf.segment \in Nat \ {0}
      BY <1>4 DEF Config
    <2>2. PICK size : size = object[l.id].size
      OBVIOUS
    <2>3. PICK seg : seg = conf.segment
      OBVIOUS
    <2>4. PICK n : n = (size + seg - 1) \div seg
      OBVIOUS
    <2>5. size \in Nat /\ seg \in Nat \ {0}
      BY <1>5, <2>1, <2>2, <2>3
    <2>6. n \in Int
      BY <2>4, <2>5
    <2>7. n >= 0
      BY <2>4, <2>5
    <2>8. \A i \in 1 .. n : (i - 1) * seg \in Int
      BY <2>5, <2>6
    <2>9. [i \in 1 .. n |-> (i - 1) * seg] \in Seq(Int)
      BY <2>6, <2>7, <2>8
    <2> QED BY <2>2, <2>3, <2>4, <2>9 DEF Segments
  <1>9. conf.mode \in {"off", "offset", "segment"}
    BY <1>4 DEF Config
  <1>10. ResolveOffsets(l.id) \in TaskRec /\ ResolveOffsets(l.id).id = l.id
    BY <1>2, <1>5, <1>6, <1>7, <1>8, <1>9 DEF ResolveOffsets, TaskRec
  <1> QED BY <1>3, <1>10 DEF Read

LEMMA SourceSteady ==
    ASSUME Source
    PROVE  UNCHANGED <<sc, worldVars, left, signals, workVars, main, refused, flush, closing>>
  BY DEF Source, Read, ReportMalformed, Send, SourceEnds, Push, outVars, writerVars, flushVars

LEMMA SourceTypesStep == ASSUME CheckTypes, Source PROVE SourceTypes'
  <1>0. SourceTypes
    BY DEF CheckTypes
  <1>1. CASE Read
    <2>1. Tail(toRead) \in Seq(InputLine)
      BY <1>0, <1>1, HeadTail DEF Read, SourceTypes
    <2>2. offer' \in TaskRec /\ toRead' = Tail(toRead) /\ reader' \in {"reporting", "sending"}
          /\ UNCHANGED <<sent, objCh>>
      BY <1>1, ReadTask DEF Read
    <2> QED BY <1>0, <2>1, <2>2 DEF SourceTypes
  <1>2. CASE ReportMalformed \/ SourceEnds
    BY <1>0, <1>2 DEF ReportMalformed, SourceEnds, SourceTypes
  <1>3. CASE Send
    <2>1. offer \in TaskRec /\ offer.id \in Task
      BY <1>0, <1>3 DEF Send, SourceTypes, TaskRec
    <2>2. objCh \in Seq(TaskRec) /\ Len(objCh) < ObjCap /\ ObjCap \in Nat
      BY <1>0, <1>3, CheckAssumption DEF Send, SourceTypes
    <2>3. objCh' \in Seq(TaskRec) /\ Len(objCh') <= ObjCap
      BY <1>3, <2>1, <2>2 DEF Send
    <2>4. sent' \subseteq Task /\ reader' = "reading" /\ toRead' = toRead
      BY <1>0, <1>3, <2>1 DEF Send, SourceTypes
    <2> QED BY <1>0, <2>3, <2>4 DEF SourceTypes
  <1> QED BY <1>1, <1>2, <1>3 DEF Source

LEMMA WorkerUnchanged ==
    ASSUME CheckTypes, Started' = Started, UNCHANGED workVars
    PROVE  Domains' /\ \A c \in Checker : WorkerTypes(c)'
  BY DEF CheckTypes, Domains, WorkerTypes, Held, workVars

LEMMA CheckTypesStep == ASSUME CheckTypes, Started' = Started, [Next]_vars PROVE CheckTypes'
  <1>0. WorldTypes /\ SourceTypes
    BY DEF CheckTypes
  <1>1. ASSUME NEW c \in Checker, Work(c) PROVE CheckTypes'
    <2>1. Domains' /\ Others(c) /\ WorkerTypes(c)' /\ verdict' \in [Task -> Seq(Verdict)]
      BY <1>1, WorkTypes
    <2>2. \A d \in Checker : WorkerTypes(d)'
      BY <2>1 DEF CheckTypes, WorkerTypes, Held, Others
    <2>3. Steady /\ left' \in Bounds /\ left'.signals = left.signals
      BY <1>1, WorkSteady, WorkBounds
    <2>4. WorldTypes'
      BY <1>0, <2>1, <2>3 DEF WorldTypes, Steady, worldVars
    <2>5. objCh' \in Seq(TaskRec) /\ Len(objCh') <= ObjCap
      <3>1. objCh \in Seq(TaskRec) /\ Len(objCh) <= ObjCap /\ ObjCap \in Nat
        BY <1>0, CheckAssumption DEF SourceTypes
      <3>2. objCh # <<>> => Tail(objCh) \in Seq(TaskRec) /\ Len(Tail(objCh)) <= ObjCap
        BY <3>1
      <3> QED BY <1>1, <3>1, <3>2, WorkQueue
    <2>6. SourceTypes'
      BY <1>0, <2>3, <2>5 DEF SourceTypes, Steady, readVars
    <2> QED BY <2>1, <2>2, <2>4, <2>6 DEF CheckTypes
  <1>2. CASE Source
    <2>1. WorldTypes'
      BY <1>0, <1>2, SourceSteady DEF WorldTypes, worldVars, workVars
    <2>2. Domains' /\ \A c \in Checker : WorkerTypes(c)'
      BY <1>2, SourceSteady, WorkerUnchanged
    <2> QED BY <1>2, <2>1, <2>2, SourceTypesStep DEF CheckTypes
  <1>3. CASE UNCHANGED <<readVars, objCh, workVars, sc>> /\ WorldTypes'
    <2>1. Domains' /\ \A c \in Checker : WorkerTypes(c)'
      BY <1>3, WorkerUnchanged
    <2>2. SourceTypes'
      BY <1>0, <1>3 DEF SourceTypes, readVars
    <2> QED BY <1>3, <2>1, <2>2 DEF CheckTypes
  <1>4. left \in [faults : Nat, changes : Nat, flushes : Nat, opens : Nat, signals : 0 .. 2]
        /\ signals \in 0 .. 2 /\ signals + left.signals <= 2
    BY <1>0 DEF WorldTypes, Bounds
  <1>5. CASE Main \/ CheckpointFlush \/ OutputStep \/ OpenFails
    <2>1. UNCHANGED <<sc, worldVars, signals, readVars, objCh, workVars>>
      BY <1>5 DEF Main, StopJournal, Close, RunReturns, CheckpointFlush, OutputStep, OpenFails, runVars
    <2>2. main' \in {"running", "flushing", "closing", "done"}
      BY <1>0, <1>5 DEF Main, StopJournal, Close, RunReturns, CheckpointFlush, OutputStep, OpenFails,
                        WorldTypes
    <2>3. left' \in Bounds /\ left'.signals = left.signals
      <3>1. \/ left' = left
            \/ left.flushes > 0 /\ left' = [left EXCEPT !.flushes = @ - 1]
            \/ left.opens > 0 /\ left' = [left EXCEPT !.opens = @ - 1]
        BY <1>5 DEF Main, StopJournal, Close, RunReturns, CheckpointFlush, OutputStep, OpenFails
      <3> QED BY <1>4, <3>1 DEF Bounds
    <2>4. WorldTypes'
      BY <1>0, <2>1, <2>2, <2>3 DEF WorldTypes, worldVars, workVars
    <2> QED BY <1>3, <2>1, <2>4
  <1>6. CASE Signal
    <2>1. left' \in Bounds /\ signals' \in 0 .. 2 /\ signals' + left'.signals <= 2
      BY <1>4, <1>6 DEF Signal, Bounds
    <2>2. UNCHANGED <<sc, worldVars, readVars, objCh, workVars, main>>
      BY <1>6 DEF Signal
    <2>3. WorldTypes'
      BY <1>0, <2>1, <2>2 DEF WorldTypes, worldVars, workVars
    <2> QED BY <1>3, <2>2, <2>3
  <1>7. CASE ObjectChanges
    <2>1. left' \in Bounds /\ left'.signals = left.signals
      BY <1>4, <1>7 DEF ObjectChanges, Bounds
    <2>2. UNCHANGED <<sc, signals, readVars, objCh, workVars, main>>
      BY <1>7 DEF ObjectChanges
    <2>3. object' \in [Task -> Object]
      <3>1. PICK t \in Task : object' = [object EXCEPT ![t] = sc.later[t]]
        BY <1>7 DEF ObjectChanges
      <3>2. sc.later \in [Task -> Object]
        BY <1>0, CheckAssumption DEF WorldTypes
      <3>3. sc.later[t] \in Object /\ object \in [Task -> Object]
        BY <1>0, <3>2 DEF WorldTypes
      <3> QED BY <3>1, <3>3
    <2>4. WorldTypes'
      BY <1>0, <2>1, <2>2, <2>3 DEF WorldTypes, workVars
    <2> QED BY <1>3, <2>2, <2>4
  <1>8. CASE Terminated \/ UNCHANGED vars
    <2>1. UNCHANGED <<sc, worldVars, left, signals, readVars, objCh, workVars, main>>
      BY <1>8 DEF Terminated, vars
    <2>2. WorldTypes'
      BY <1>0, <2>1 DEF WorldTypes, worldVars, workVars
    <2> QED BY <1>3, <2>1, <2>2
  <1> QED BY <1>1, <1>2, <1>5, <1>6, <1>7, <1>8 DEF Next

LEMMA InitTypes == Init => CheckTypes
  <1> SUFFICES ASSUME Init PROVE CheckTypes
    OBVIOUS
  <1>1. /\ sc.bucket \in [Task -> Object] /\ sc.bounds \in Bounds /\ sc.input \in Seq(InputLine)
        /\ sc \in Scenario
    BY CheckAssumption DEF Init
  <1>2. <<>> \in Seq(Verdict) /\ <<>> \in Seq(TaskRec) /\ <<>> \in Seq(ProbeRec) /\ Len(<<>>) = 0
    OBVIOUS
  <1>3. WorldTypes
    BY <1>1, <1>2 DEF Init, WorldTypes, Bounds
  <1>4. SourceTypes
    BY <1>1, <1>2, CheckAssumption DEF Init, SourceTypes
  <1>5. Domains /\ \A c \in Checker : WorkerTypes(c)
    BY <1>2 DEF Init, Domains, WorkerTypes, Held
  <1> QED BY <1>3, <1>4, <1>5 DEF CheckTypes

\* What the further invariants are built on.
Base == OutInv /\ Known /\ Shapes /\ CheckTypes

LEMMA BaseStep == ASSUME Base, [Next]_vars PROVE Base' /\ [OutNext]_outVars /\ Started' = Started
  <1>1. [OutNext]_outVars
    BY UsesOutput DEF Base, OutInv
  <1>2. OutInv' /\ Started' = Started
    BY <1>1, OutInvStep, StartedStep DEF Base, OutInv
  <1> QED BY <1>1, <1>2, IdsStep, CheckTypesStep DEF Base

LEMMA BaseInv == Spec => []Base
  <1>1. Init => Base
    <2>1. Init => \E started \in SUBSET File : OutInit(started)
      BY DEF Init
    <2> QED BY <2>1, OutInitInv, InitIds, InitTypes DEF Base
  <1>2. Base /\ [Next]_vars => Base'
    BY BaseStep
  <1> QED BY <1>1, <1>2, PTL DEF Spec

\* The variables keep their types, a worker that writes has an opened file to write to, and no
\* probe asks for nothing, whatever the offsets of a line and the size of its object are
\* (checker.go:301-338).
THEOREM CheckTypesHold == Spec => []TypeOK
  <1>1. Base => TypeOK
    <2> SUFFICES ASSUME Base PROVE TypeOK
      OBVIOUS
    <2>1. \A c \in Checker : \A i \in DOMAIN plan[c] : plan[c][i].start >= 0 /\ plan[c][i].length > 0
      <3> TAKE c \in Checker
      <3> TAKE i \in DOMAIN plan[c]
      <3>1. plan[c][i] \in ProbeRec
        BY SeqElement DEF Base, CheckTypes, WorkerTypes
      <3> QED BY <3>1 DEF ProbeRec
    <2> QED BY <2>1 DEF Base, OutInv, CheckTypes, WorkerTypes, WorldTypes, SourceTypes, TypeOK
  <1> QED BY <1>1, BaseInv, PTL

-----------------------------------------------------------------------------
(* The end of a run: workers go when the source has gone, main when the      *)
(* workers have, and the result files are closed last.                       *)

Winding ==
    /\ \A c \in Checker : pc[c] = "exit" => c \notin sc.checkers \/ (reader = "done" /\ objCh = <<>>)
    /\ main # "running" => \A c \in Checker : pc[c] = "exit"
    /\ closing <=> main \in {"closing", "done"}
    /\ flush # "idle" => ~FileInput /\ main \in {"running", "flushing"}
    /\ main = "done" => Closed

LEMMA WorksOnlyAwake == ASSUME NEW c, Work(c) PROVE pc[c] # "exit"
  BY DEF Work, Receive, HeadAnswers, HeadFails, Probe, ProbeFails, Write, CheckerExits

LEMMA WorkWinds == ASSUME Base, Winding, NEW c \in Checker, Work(c), Started' = Started PROVE Winding'
  <1>1. Steady /\ pc[c] # "exit" /\ Others(c) /\ Domains'
    BY WorkSteady, WorkTypes, WorksOnlyAwake DEF Base
  <1>2. main = "running" /\ ~closing
    BY <1>1 DEF Winding, Base, CheckTypes, WorldTypes
  <1>3. objCh = <<>> => objCh' = <<>>
    BY WorkQueue
  <1>4. pc'[c] = "exit" => reader = "done" /\ objCh' = <<>>
    <2>1. CASE CheckerExits(c)
      BY <2>1 DEF CheckerExits
    <2>2. CASE ~CheckerExits(c)
      <3>1. DOMAIN pc = Checker
        BY DEF Base, CheckTypes, Domains
      <3>2. pc[c] # "exit" /\ (pc' = pc \/ (\E v, task : Settle(c, v, task)) \/ pc' = [pc EXCEPT ![c] = "idle"]
            \/ pc' = [pc EXCEPT ![c] = "head"] \/ pc' = [pc EXCEPT ![c] = "probe"])
        BY <1>1, <2>2 DEF Work, Receive, HeadAnswers, HeadFails, Probe, ProbeFails, Write, Dispatch
      <3>3. ASSUME NEW v, NEW task, Settle(c, v, task) PROVE pc'[c] # "exit"
        BY <3>1, <3>3 DEF Settle
      <3>4. pc'[c] # "exit"
        BY <3>1, <3>2, <3>3
      <3> QED BY <3>4
    <2> QED BY <2>1, <2>2
  <1>5. \A d \in Checker : pc'[d] = "exit" => d \notin sc'.checkers \/ (reader' = "done" /\ objCh' = <<>>)
    BY <1>1, <1>3, <1>4 DEF Winding, Others, Steady, readVars
  <1>6. main' = main /\ closing' = closing /\ flush' = flush /\ sc' = sc
    BY <1>1 DEF Steady
  <1> QED BY <1>2, <1>5, <1>6 DEF Winding, FileInput, conf

LEMMA WindingStep == ASSUME Base, Winding, [Next]_vars PROVE Winding'
  <1>0. Started' = Started /\ [OutNext]_outVars
    BY BaseStep
  <1>1. ASSUME NEW c \in Checker, Work(c) PROVE Winding'
    BY <1>0, <1>1, WorkWinds
  <1>2. CASE Source
    <2>1. reader # "done"
      BY <1>2 DEF Source, Read, ReportMalformed, Send, SourceEnds
    <2>2. PICK c \in Checker : c \in sc.checkers
      BY CheckAssumption DEF Base, CheckTypes, WorldTypes
    <2>3. main = "running" /\ ~closing
      BY <2>1, <2>2 DEF Winding, Base, CheckTypes, WorldTypes
    <2>4. UNCHANGED <<sc, workVars, main, flush, closing>>
      BY <1>2, SourceSteady
    <2>5. \A d \in Checker : pc[d] = "exit" => d \notin sc.checkers
      BY <2>1 DEF Winding
    <2> QED BY <2>3, <2>4, <2>5 DEF Winding, FileInput, conf, workVars
  <1>3. ASSUME UNCHANGED <<sc, readVars, objCh, workVars>>,
               main' # "running" => \A c \in Checker : pc[c] = "exit",
               closing' <=> main' \in {"closing", "done"},
               flush' # "idle" => ~FileInput /\ main' \in {"running", "flushing"},
               main' = "done" => Closed'
        PROVE  Winding'
    BY <1>3 DEF Winding, FileInput, conf, readVars, workVars
  <1>4. main \in {"running", "flushing", "closing", "done"} /\ closing \in BOOLEAN
    BY DEF Base, CheckTypes, WorldTypes, OutInv, OutTypes
  <1>5. ASSUME Closed, UNCHANGED closing PROVE Closed'
    <2>1. UNCHANGED writer \/ ~\A f \in Started : writer[f] = "gone"
      <3> SUFFICES ASSUME \A f \in Started : writer[f] = "gone" PROVE UNCHANGED writer
        OBVIOUS
      <3>1. \A f \in File : writer[f] \notin {"select", "drain"}
        BY DEF Base, OutInv, OutTypes, Started
      <3> QED BY <1>0, <1>5, <3>1 DEF OutNext, Push, Writer, WriterTakes, Tick, Answer, WriterEnds,
                 WriterLoses, Ask, CallFlush, FlushReturns, CloseOutput, outVars, writerVars, Closed
    <2> QED BY <1>0, <1>5, <2>1 DEF Closed
  <1>6. CASE Main
    <2>1. UNCHANGED runVars
      BY <1>6 DEF Main, StopJournal, Close, RunReturns
    <2>2. CASE StopJournal
      BY <1>3, <2>1, <2>2 DEF StopJournal, WorkersDone, CallFlush, Winding, runVars
    <2>3. CASE Close
      <3>1. main \in {"running", "flushing"} /\ \A c \in Checker : pc[c] = "exit"
        BY <2>3 DEF Close, WorkersDone, Winding
      <3>2. closing' /\ main' = "closing" /\ flush' = flush
        BY <2>3 DEF Close, CloseOutput, flushVars
      <3>3. flush = "idle"
        BY <2>3 DEF Close, Winding
      <3> QED BY <1>3, <2>1, <3>1, <3>2, <3>3 DEF runVars
    <2>4. CASE RunReturns
      <3>1. main = "closing" /\ main' = "done" /\ UNCHANGED <<closing, flush>> /\ Closed
        BY <2>4 DEF RunReturns, outVars, flushVars
      <3>2. Closed'
        BY <1>5, <3>1
      <3> QED BY <1>3, <2>1, <3>1, <3>2 DEF Winding, runVars
    <2> QED BY <1>6, <2>2, <2>3, <2>4 DEF Main
  <1>7. CASE CheckpointFlush
    <2>1. main = "running" /\ main' = main /\ closing' = closing /\ ~FileInput /\ UNCHANGED runVars
      BY <1>7 DEF CheckpointFlush, CallFlush
    <2> QED BY <1>3, <2>1 DEF Winding, runVars
  <1>8. CASE OutputStep \/ OpenFails
    <2>1. UNCHANGED runVars /\ main' = main
      BY <1>8 DEF OutputStep, OpenFails
    <2>2. closing' = closing /\ (flush' = flush \/ flush' = "idle")
      BY <1>8 DEF OutputStep, OpenFails, Writer, WriterTakes, Tick, Answer, WriterEnds, WriterLoses,
                  Ask, FlushReturns, flushVars
    <2> QED BY <1>3, <1>5, <2>1, <2>2 DEF Winding, runVars
  <1>9. CASE Signal \/ ObjectChanges \/ Terminated \/ UNCHANGED vars
    <2>1. UNCHANGED <<sc, readVars, objCh, workVars, main, outVars>>
      BY <1>9 DEF Signal, ObjectChanges, Terminated, vars
    <2> QED BY <1>3, <1>5, <2>1 DEF Winding, outVars, flushVars
  <1> QED BY <1>1, <1>2, <1>6, <1>7, <1>8, <1>9 DEF Next

LEMMA WindingInv == Spec => []Winding
  <1>1. Init => Winding
    <2> SUFFICES ASSUME Init PROVE Winding
      OBVIOUS
    <2>1. flush = "idle" /\ closing = FALSE
      BY DEF Init, OutInit
    <2> QED BY <2>1 DEF Init, Winding
  <1>2. Base /\ Winding /\ [Next]_vars => Winding'
    BY WindingStep
  <1> QED BY <1>1, <1>2, BaseInv, PTL DEF Spec

\* When the result files are closed nobody is left to push a line or to flush: not a worker,
\* not the source, not a checkpoint (main.go, the end of run()).
THEOREM FilesClosedLast == Spec => []ClosedLast
  <1>1. Base /\ Winding => ClosedLast
    <2> SUFFICES ASSUME Base, Winding, closing PROVE ClosedLast
      BY DEF ClosedLast
    <2>1. \A c \in Checker : pc[c] = "exit"
      BY DEF Winding
    <2>2. PICK c \in Checker : c \in sc.checkers
      BY CheckAssumption DEF Base, CheckTypes, WorldTypes
    <2> QED BY <2>1, <2>2 DEF Winding, ClosedLast
  <1> QED BY <1>1, BaseInv, WindingInv, PTL

-----------------------------------------------------------------------------
(* The verdicts are right.  What a worker knows of an object that did not    *)
(* change is what the bucket holds; the probes it has not made yet still see *)
(* every mark, because those it made saw none.                               *)

AsListed == \A t \in Task : t \notin changed => object[t] = sc.bucket[t]

Sized(task) ==
    task.id \notin changed => task.size = object[task.id].size /\ task.multi = object[task.id].multi

InFlight ==
    /\ reader = "sending" /\ ~offer.head => Sized(offer)
    /\ \A task \in Elements(objCh) : ~task.head => Sized(task)

SeesAll(o, q) == \A m \in o.marks : \E p \in Elements(q) : Sees(o, p, m)

\* What is left of the plan of a worker that probes o for a task.
PlanGood(o, task, q) ==
    /\ task.multi \/ task.size > 0
    /\ o.size > 0 => \A p \in Elements(q) : p.start < o.size
    /\ MarksAtPartEnds /\ (task.multi => task.offs = o.cuts) => SeesAll(o, q)

Probing ==
    \A c \in Checker : pc[c] = "probe" =>
        /\ Sized(job[c])
        /\ job[c].id \notin changed => PlanGood(object[job[c].id], job[c], plan[c])

\* A verdict on o, when R are the tasks for which a call failed.
Right(t, o, v, R) ==
    /\ v.is = "corrupted" => o.marks # {}
    /\ v.is = "clean" /\ (o.multi => v.offs = o.cuts) /\ MarksAtPartEnds => o.marks = {}
    /\ v.is = "failed" => t \in R \/ (o.multi /\ o.size = 0)

Verdicts ==
    \A t \in Task : t \notin changed => \A v \in Elements(verdict[t]) : Right(t, object[t], v, refused)

Judging == AsListed /\ InFlight /\ Probing /\ Verdicts

LEMMA AppendExactly ==
    ASSUME NEW S, NEW q \in Seq(S), NEW e \in S
    PROVE  Elements(Append(q, e)) = Elements(q) \union {e}
  <1>1. /\ Append(q, e) \in Seq(S) /\ DOMAIN Append(q, e) = DOMAIN q \union {Len(q) + 1}
        /\ Append(q, e)[Len(q) + 1] = e /\ \A i \in DOMAIN q : Append(q, e)[i] = q[i]
    OBVIOUS
  <1> QED BY <1>1 DEF Elements

LEMMA SettleRight ==
    ASSUME Base, Verdicts, NEW c \in Checker, NEW v \in {"failed", "corrupted", "clean", "unverified"},
           NEW task \in TaskRec, Settle(c, v, task), refused \subseteq refused', UNCHANGED worldVars,
           task.id \notin changed => Right(task.id, object[task.id], Result(v, task), refused')
    PROVE  Verdicts'
  <1>1. /\ Result(v, task) \in Verdict
        /\ verdict'[task.id] = Append(verdict[task.id], Result(v, task))
        /\ \A t \in Task : t # task.id => verdict'[t] = verdict[t]
    BY SettleDoes DEF Base
  <1>2. task.id \in Task /\ verdict[task.id] \in Seq(Verdict)
    BY DEF Base, CheckTypes, WorldTypes, TaskRec
  <1>3. Elements(verdict'[task.id]) = Elements(verdict[task.id]) \union {Result(v, task)}
    BY <1>1, <1>2, AppendExactly
  <1>4. ASSUME NEW t \in Task, t \notin changed, NEW r \in Elements(verdict'[t])
        PROVE  Right(t, object[t], r, refused')
    <2>1. CASE t = task.id /\ r = Result(v, task)
      BY <1>4, <2>1
    <2>2. CASE ~(t = task.id /\ r = Result(v, task))
      <3>1. r \in Elements(verdict[t])
        BY <1>1, <1>3, <1>4, <2>2
      <3>2. Right(t, object[t], r, refused)
        BY <1>4, <3>1 DEF Verdicts
      <3> QED BY <3>2 DEF Right
    <2> QED BY <2>1, <2>2
  <1>5. object' = object /\ changed' = changed
    BY DEF worldVars
  <1>6. \A t \in Task : Elements(verdict'[t]) = Elements(verdict[t])'
    BY DEF Elements
  <1> QED BY <1>4, <1>5, <1>6 DEF Verdicts

LEMMA NoRoomNoMark ==
    ASSUME Base, AsListed, MarksAtPartEnds, NEW t \in Task, t \notin changed
    PROVE  /\ object[t].cuts[1] = 0 /\ (~object[t].multi => Len(object[t].cuts) = 1)
           /\ \A m \in object[t].marks : MarkAt(object[t], m)
           /\ object[t].size = 0 => object[t].marks = {}
  <1> PICK o : o = object[t]
    OBVIOUS
  <1>1. o = sc.bucket[t] /\ sc \in Scenario /\ o \in Object
    BY DEF AsListed, Base, CheckTypes, WorldTypes
  <1>2. /\ o.cuts[1] = 0 /\ (~o.multi => Len(o.cuts) = 1)
        /\ \A m \in o.marks : MarkAt(o, m)
    BY <1>1 DEF MarksAtPartEnds, MarkAt
  <1>3. ASSUME o.size = 0, NEW m \in o.marks PROVE FALSE
    <2>1. m \in Nat /\ MarkLength \in Nat \ {0} /\ m + MarkLength <= 0
      BY <1>1, <1>2, <1>3, CheckAssumption DEF Object, MarkAt
    <2> QED BY <2>1
  <1> QED BY <1>2, <1>3

LEMMA PlanIsGood ==
    ASSUME Base, AsListed, NEW task \in TaskRec, Sized(task), task.id \notin changed,
           task.multi \/ task.size > 0
    PROVE  PlanGood(object[task.id], task, Probes(task))
  <1> PICK o : o = object[task.id]
    OBVIOUS
  <1>1. task.id \in Task /\ sc \in Scenario /\ o \in Object
    BY DEF TaskRec, Base, CheckTypes, WorldTypes
  <1>2. task.size = o.size /\ task.multi = o.multi
    BY DEF Sized
  <1>3. \A p : p \in Elements(Probes(task)) <=> Planned(task, p)
    BY <1>1, ProbesPlanned
  <1>4. o.size > 0 => \A p \in Elements(Probes(task)) : p.start < o.size
    BY <1>1, <1>2, <1>3, ProbesInside
  <1>5. ASSUME MarksAtPartEnds, task.multi => task.offs = o.cuts, NEW m \in o.marks
        PROVE  \E p \in Elements(Probes(task)) : Sees(o, p, m)
    <2>1. o.cuts[1] = 0 /\ (~o.multi => Len(o.cuts) = 1) /\ MarkAt(o, m)
      BY <1>1, <1>5, NoRoomNoMark
    <2>2. IF task.multi THEN task.offs = o.cuts ELSE Len(o.cuts) = 1
      BY <1>2, <1>5, <2>1
    <2>3. \E p : Planned(task, p) /\ Sees(o, p, m)
      BY <1>1, <1>2, <2>1, <2>2, ProbesCover
    <2> QED BY <1>3, <2>3
  <1> QED BY <1>4, <1>5 DEF PlanGood, SeesAll

LEMMA DispatchRight ==
    ASSUME Base, Judging, NEW c \in Checker, NEW task \in TaskRec, Sized(task), Dispatch(c, task),
           UNCHANGED <<sc, worldVars, refused>>
    PROVE  /\ Verdicts'
           /\ pc'[c] = "probe" => /\ job'[c] = task
                                  /\ task.id \notin changed => PlanGood(object[task.id], task, plan'[c])
  <1>0. job'[c] = task /\ task.id \in Task
    BY DispatchDoes DEF Base, TaskRec
  <1>1. ASSUME ~task.multi, task.size = 0, Settle(c, "clean", task)
        PROVE  Verdicts' /\ pc'[c] # "probe"
    <2>1. task.id \notin changed => Right(task.id, object[task.id], Result("clean", task), refused')
      BY <1>0, <1>1, NoRoomNoMark DEF Right, Result, Sized, Judging
    <2> QED BY <1>1, <2>1, SettleRight, SettleDoes DEF Judging, Base
  <1>2. ASSUME Settle(c, "unverified", task)
        PROVE  Verdicts' /\ pc'[c] # "probe"
    <2>1. Right(task.id, object[task.id], Result("unverified", task), refused')
      BY DEF Right, Result
    <2> QED BY <1>2, <2>1, SettleRight, SettleDoes DEF Judging, Base
  <1>3. ASSUME IF task.multi THEN task.offs # <<>> ELSE task.size > 0, plan'[c] = Probes(task),
               UNCHANGED verdict
        PROVE  Verdicts' /\ (task.id \notin changed => PlanGood(object[task.id], task, plan'[c]))
    <2>1. Verdicts'
      BY <1>3 DEF Judging, Verdicts, worldVars, Elements
    <2> QED BY <1>3, <2>1, PlanIsGood DEF Judging
  <1> QED BY <1>0, <1>1, <1>2, <1>3, DispatchDoes DEF Base

LEMMA WorkProbes ==
    ASSUME Base, Judging, NEW c \in Checker, Work(c), Started' = Started
    PROVE  /\ Verdicts' /\ refused \subseteq refused'
           /\ pc'[c] = "probe" =>
                /\ Sized(job'[c])
                /\ job'[c].id \notin changed => PlanGood(object[job'[c].id], job'[c], plan'[c])
  <1>0. /\ Steady /\ Domains /\ WorkerTypes(c) /\ object' = object /\ changed' = changed
        /\ objCh \in Seq(TaskRec)
    BY WorkSteady DEF Steady, worldVars, Base, CheckTypes, SourceTypes
  <1>1. refused \subseteq refused'
    BY DEF Work, Receive, HeadAnswers, HeadFails, CallFails, Probe, ProbeFails, Write, CheckerExits
  <1>2. UNCHANGED verdict => Verdicts'
    BY <1>0, <1>1 DEF Judging, Verdicts, Right, Elements
  <1>3. ASSUME NEW task \in TaskRec, Sized(task), Dispatch(c, task), UNCHANGED refused
        PROVE  /\ Verdicts'
               /\ pc'[c] = "probe" =>
                     /\ Sized(job'[c])
                     /\ job'[c].id \notin changed => PlanGood(object[job'[c].id], job'[c], plan'[c])
    <2>1. UNCHANGED <<sc, worldVars, refused>>
      BY <1>0, <1>3 DEF Steady
    <2> QED BY <1>3, <2>1, DispatchRight
  <1>4. CASE Receive(c)
    <2> PICK task : task = Head(objCh)
      OBVIOUS
    <2>1. task \in TaskRec /\ task \in Elements(objCh)
      BY <1>0, <1>4, HeadTail DEF Receive
    <2>2. CASE ~task.head /\ Dispatch(c, task)
      <3>1. Sized(task)
        BY <2>1, <2>2 DEF Judging, InFlight
      <3>2. UNCHANGED refused
        BY <1>4 DEF Receive
      <3> QED BY <1>1, <1>3, <2>1, <2>2, <3>1, <3>2
    <2>3. CASE pc' = [pc EXCEPT ![c] = "head"] /\ UNCHANGED verdict
      <3>1. pc'[c] # "probe"
        BY <1>0, <2>3 DEF Domains
      <3> QED BY <1>1, <1>2, <2>3, <3>1
    <2> QED BY <1>4, <2>2, <2>3 DEF Receive
  <1>5. CASE HeadAnswers(c)
    <2>1. PICK task : /\ task = [id |-> job[c].id, multi |-> object[job[c].id].multi,
                                 size |-> object[job[c].id].size, head |-> TRUE,
                                 offs |-> IF object[job[c].id].multi THEN job[c].offs ELSE <<>>]
                      /\ Dispatch(c, task) /\ pc[c] = "head" /\ UNCHANGED refused
      BY <1>5 DEF HeadAnswers
    <2>2. task \in TaskRec
      BY <2>1, HeadTask DEF Base
    <2>3. Sized(task)
      BY <2>1 DEF Sized
    <2> QED BY <1>1, <1>3, <2>1, <2>2, <2>3
  <1>6. ASSUME pc[c] \in {"head", "probe"}, NEW v \in {"failed", "corrupted", "clean", "unverified"},
               Settle(c, v, job[c]),
               job[c].id \notin changed => Right(job[c].id, object[job[c].id], Result(v, job[c]), refused')
        PROVE  Verdicts' /\ pc'[c] # "probe"
    <2>1. job[c] \in TaskRec /\ UNCHANGED worldVars
      BY <1>0, <1>6 DEF WorkerTypes, Held, Steady
    <2> QED BY <1>1, <1>6, <2>1, SettleRight, SettleDoes DEF Judging, Base
  <1>7. CASE HeadFails(c) \/ ProbeFails(c)
    <2>1. pc[c] \in {"head", "probe"} /\ Settle(c, "failed", job[c]) /\ job[c].id \in refused'
      BY <1>7 DEF HeadFails, ProbeFails, CallFails
    <2>2. Right(job[c].id, object[job[c].id], Result("failed", job[c]), refused')
      BY <2>1 DEF Right, Result
    <2> QED BY <1>1, <1>6, <2>1, <2>2
  <1>8. CASE Probe(c)
    <2> PICK t : t = job[c].id
      OBVIOUS
    <2> PICK o : o = object[t]
      OBVIOUS
    <2> PICK p : p = Head(plan[c])
      OBVIOUS
    <2> PICK rest : rest = Tail(plan[c])
      OBVIOUS
    <2>1. pc[c] = "probe" /\ job' = job /\ refused' = refused
      BY <1>8 DEF Probe
    <2>2. /\ p \in Elements(plan[c]) /\ Elements(plan[c]) = {p} \union Elements(rest)
      BY <1>0, <2>1, HeadTail DEF WorkerTypes
    <2>3. Sized(job[c]) /\ (t \notin changed => PlanGood(o, job[c], plan[c])) /\ t \in Task
      BY <1>0, <2>1 DEF Judging, Probing, WorkerTypes, Held, TaskRec
    <2>4. ASSUME ~Readable(t, p), Settle(c, "failed", job[c]) PROVE Verdicts' /\ pc'[c] # "probe"
      <3>1. t \notin changed => o.multi /\ o.size = 0
        <4> SUFFICES ASSUME t \notin changed PROVE o.multi /\ o.size = 0
          OBVIOUS
        <4>1. PlanGood(o, job[c], plan[c]) /\ job[c].size = o.size /\ job[c].multi = o.multi
          BY <2>3 DEF Sized
        <4>2. o.size \in Nat
          BY <2>3 DEF Base, CheckTypes, WorldTypes, Object
        <4>3. ~(o.size > 0)
          BY <2>2, <2>4, <4>1 DEF PlanGood, Readable
        <4> QED BY <4>1, <4>2, <4>3 DEF PlanGood
      <3>2. t \notin changed => Right(t, o, Result("failed", job[c]), refused')
        BY <3>1 DEF Right, Result
      <3> QED BY <1>6, <2>1, <2>4, <3>2
    <2>5. ASSUME Match(t, p), Settle(c, "corrupted", job[c]) PROVE Verdicts' /\ pc'[c] # "probe"
      <3>1. Right(t, o, Result("corrupted", job[c]), refused')
        BY <2>5 DEF Match, Right, Result
      <3> QED BY <1>6, <2>1, <2>5, <3>1
    <2>6. ASSUME ~Match(t, p) PROVE t \notin changed => PlanGood(o, job[c], rest)
      <3>1. \A m \in o.marks : ~Sees(o, p, m)
        BY <2>6 DEF Match, Sees
      <3> QED BY <2>2, <2>3, <3>1 DEF PlanGood, SeesAll
    <2>7. ASSUME ~Match(t, p), rest = <<>>, Settle(c, "clean", job[c]) PROVE Verdicts' /\ pc'[c] # "probe"
      <3>1. Elements(<<>>) = {}
        BY DEF Elements
      <3>2. t \notin changed => Right(t, o, Result("clean", job[c]), refused')
        BY <2>3, <2>6, <2>7, <3>1 DEF PlanGood, SeesAll, Right, Result, Sized
      <3> QED BY <1>6, <2>1, <2>7, <3>2
    <2>8. ASSUME ~Match(t, p), plan' = [plan EXCEPT ![c] = Tail(@)], UNCHANGED <<pc, verdict>>
          PROVE  /\ Verdicts'
                 /\ Sized(job'[c])
                 /\ job'[c].id \notin changed => PlanGood(object[job'[c].id], job'[c], plan'[c])
      <3>1. plan'[c] = rest
        BY <1>0, <2>8 DEF Domains
      <3> QED BY <1>2, <2>1, <2>3, <2>6, <2>8, <3>1
    <2>9. \/ ~Readable(t, p) /\ Settle(c, "failed", job[c])
          \/ Match(t, p) /\ Settle(c, "corrupted", job[c])
          \/ ~Match(t, p) /\ rest = <<>> /\ Settle(c, "clean", job[c])
          \/ ~Match(t, p) /\ plan' = [plan EXCEPT ![c] = Tail(@)] /\ UNCHANGED <<pc, verdict>>
      BY <1>8 DEF Probe
    <2> QED BY <1>1, <2>4, <2>5, <2>7, <2>8, <2>9
  <1>9. CASE Write(c) \/ CheckerExits(c)
    <2>1. pc'[c] # "probe" /\ UNCHANGED verdict
      BY <1>0, <1>9 DEF Write, CheckerExits, Domains
    <2> QED BY <1>1, <1>2, <2>1
  <1> QED BY <1>4, <1>5, <1>7, <1>8, <1>9 DEF Work

LEMMA WorkJudges ==
    ASSUME Base, Judging, NEW c \in Checker, Work(c), Started' = Started
    PROVE  Judging'
  <1>1. Others(c) /\ object' = object /\ changed' = changed /\ sc' = sc
        /\ reader' = reader /\ offer' = offer
    BY WorkTypes, WorkSteady DEF Base, Steady, worldVars, readVars
  <1>2. AsListed'
    BY <1>1 DEF Judging, AsListed
  <1>4. Elements(objCh)' \subseteq Elements(objCh)
    <2>1. objCh \in Seq(TaskRec)
      BY DEF Base, CheckTypes, SourceTypes
    <2>2. objCh # <<>> => Elements(Tail(objCh)) \subseteq Elements(objCh)
      BY <2>1, HeadTail
    <2>3. Elements(objCh)' = Elements(objCh')
      BY DEF Elements
    <2> QED BY <2>2, <2>3, WorkQueue
  <1>5. InFlight'
    BY <1>1, <1>4 DEF Judging, InFlight, Sized
  <1>6. ASSUME NEW d \in Checker, pc'[d] = "probe"
        PROVE  Sized(job'[d]) /\ (job'[d].id \notin changed => PlanGood(object[job'[d].id], job'[d], plan'[d]))
    <2>1. CASE d = c
      BY <1>6, <2>1, WorkProbes
    <2>2. CASE d # c
      BY <1>1, <1>6, <2>2 DEF Others, Judging, Probing
    <2> QED BY <2>1, <2>2
  <1>7. \A d \in Checker : /\ PlanGood(object[job'[d].id], job'[d], plan'[d])
                              <=> PlanGood(object[job[d].id], job[d], plan[d])'
                           /\ Sized(job'[d]) <=> Sized(job[d])'
    BY <1>1 DEF PlanGood, SeesAll, Elements, Sized
  <1>8. Probing'
    BY <1>1, <1>6, <1>7 DEF Probing
  <1> QED BY <1>2, <1>5, <1>8, WorkProbes DEF Judging

LEMMA SourceJudges == ASSUME Base, Judging, Source PROVE Judging'
  <1>1. UNCHANGED <<sc, worldVars, workVars, refused>>
    BY SourceSteady
  <1>2. AsListed' /\ Probing' /\ Verdicts'
    BY <1>1 DEF Judging, AsListed, Probing, Verdicts, Sized, PlanGood, SeesAll, Elements, Right,
                worldVars, workVars
  <1>3. CASE Read
    <2>1. reader' = "sending" /\ ~offer'.head => offer' = ResolveOffsets(Head(toRead).id)
      BY <1>3 DEF Read, LineTask
    <2>2. \A t : Sized(ResolveOffsets(t))
      BY DEF Sized, ResolveOffsets
    <2>3. objCh' = objCh
      BY <1>3 DEF Read
    <2>4. reader' = "sending" /\ ~offer'.head => Sized(offer')
      BY <2>1, <2>2
    <2> QED BY <1>1, <1>2, <2>3, <2>4 DEF Judging, InFlight, Sized, Elements, worldVars
  <1>4. CASE Send
    <2>1. reader = "sending" /\ reader' = "reading" /\ objCh' = Append(objCh, offer)
          /\ offer \in TaskRec /\ objCh \in Seq(TaskRec)
      BY <1>4 DEF Send, Base, CheckTypes, SourceTypes
    <2>2. Elements(objCh') = Elements(objCh) \union {offer}
      BY <2>1, AppendExactly
    <2>3. Elements(objCh)' = Elements(objCh')
      BY DEF Elements
    <2> QED BY <1>1, <1>2, <2>1, <2>2, <2>3 DEF Judging, InFlight, Sized, worldVars
  <1>5. CASE ReportMalformed \/ SourceEnds
    <2>1. reader' # "sending" /\ objCh' = objCh
      BY <1>5 DEF ReportMalformed, SourceEnds
    <2> QED BY <1>1, <1>2, <2>1 DEF Judging, InFlight, Sized, Elements, worldVars
  <1> QED BY <1>3, <1>4, <1>5 DEF Source

LEMMA ChangeJudges == ASSUME Base, Judging, ObjectChanges PROVE Judging'
  <1>1. PICK t \in Task : object' = [object EXCEPT ![t] = sc.later[t]] /\ changed' = changed \union {t}
    BY DEF ObjectChanges
  <1>2. UNCHANGED <<sc, readVars, objCh, workVars, refused>>
    BY DEF ObjectChanges
  <1>3. object \in [Task -> Object]
    BY DEF Base, CheckTypes, WorldTypes
  <1>4. \A u : u \notin changed' => u \notin changed /\ object'[u] = object[u]
    BY <1>1, <1>3
  <1>5. AsListed'
    BY <1>2, <1>4 DEF Judging, AsListed
  <1>6. \A task : Sized(task) => (task.id \notin changed' => task.size = object'[task.id].size
                                                             /\ task.multi = object'[task.id].multi)
    BY <1>4 DEF Sized
  <1>7. InFlight'
    BY <1>2, <1>6 DEF Judging, InFlight, Sized, Elements, readVars
  <1>8. Probing'
    BY <1>2, <1>4, <1>6 DEF Judging, Probing, Sized, PlanGood, SeesAll, Elements, workVars
  <1>9. Verdicts'
    BY <1>2, <1>4 DEF Judging, Verdicts, Right, Elements, workVars
  <1> QED BY <1>5, <1>7, <1>8, <1>9 DEF Judging

LEMMA JudgingStep == ASSUME Base, Judging, [Next]_vars PROVE Judging'
  <1>0. Started' = Started
    BY BaseStep
  <1>1. ASSUME UNCHANGED <<sc, worldVars, readVars, objCh, workVars, refused>> PROVE Judging'
    BY <1>1 DEF Judging, AsListed, InFlight, Probing, Verdicts, Sized, PlanGood, SeesAll, Elements, Right,
                worldVars, readVars, workVars
  <1>2. CASE Main \/ CheckpointFlush \/ OutputStep \/ OpenFails \/ Signal \/ Terminated \/ UNCHANGED vars
    <2>1. UNCHANGED <<sc, worldVars, readVars, objCh, workVars, refused>>
      BY <1>2 DEF Main, StopJournal, Close, RunReturns, CheckpointFlush, OutputStep, OpenFails, Signal,
                  Terminated, runVars, vars
    <2> QED BY <1>1, <2>1
  <1> QED BY <1>0, <1>2, WorkJudges, SourceJudges, ChangeJudges DEF Next

LEMMA JudgingInv == Spec => []Judging
  <1>1. Init => Judging
    <2> SUFFICES ASSUME Init PROVE Judging
      OBVIOUS
    <2>1. Elements(<<>>) = {}
      BY DEF Elements
    <2> QED BY <2>1 DEF Init, Judging, AsListed, InFlight, Probing, Verdicts
  <1>2. Base /\ Judging /\ [Next]_vars => Judging'
    BY JudgingStep
  <1> QED BY <1>1, <1>2, BaseInv, PTL DEF Spec

\* Whatever fails, changes or interrupts the run: an object that did not change is not reported
\* as failed unless one of its calls failed. No probe asks for a range it does not have,
\* empty multipart objects excepted (checker.go:301-362).
THEOREM FailedForAReason == Spec => []FailedMeansFailed
  <1>1. Base /\ Judging => FailedMeansFailed
    BY DEF Judging, Verdicts, Right, Elements, FailedMeansFailed
  <1> QED BY <1>1, BaseInv, JudgingInv, PTL

\* When chunk headers and trailers lie at the ends of parts: no object of any size, with any
\* part boundaries, any threshold and a window no shorter than a header, is called clean while
\* it holds one and was probed at its real boundaries, or corrupted while it holds none
\* (checker.go:286-338).
THEOREM VerdictsAreRight == ASSUME MarksAtPartEnds PROVE Spec => []VerdictRight
  <1>1. Base /\ Judging => VerdictRight
    BY MarksAtPartEnds DEF Judging, Verdicts, Right, Elements, VerdictRight
  <1> QED BY <1>1, BaseInv, JudgingInv, PTL

-----------------------------------------------------------------------------
(* Nothing is written that was not pushed. *)

Channelled(f) == Elements(chan[f]) \union buf[f]

FromPushed == written \union lost \subseteq pushed /\ \A f \in File : Channelled(f) \subseteq pushed

LEMMA FromPushedStep == ASSUME OutInv, FromPushed, [OutNext]_outVars PROVE FromPushed'
  <1>0. /\ chan \in [File -> Seq(Line)] /\ buf \in [File -> SUBSET Line]
    BY DEF OutInv, OutTypes
  <1>1. ASSUME pushed \subseteq pushed', written' \union lost' \subseteq pushed',
               \A f \in File : Elements(chan'[f]) \subseteq pushed' /\ buf'[f] \subseteq pushed'
        PROVE  FromPushed'
    BY <1>1 DEF FromPushed, Channelled, Elements
  <1>2. \A f \in File : Elements(chan[f]) \subseteq pushed /\ buf[f] \subseteq pushed
    BY DEF FromPushed, Channelled
  <1>3. written \union lost \subseteq pushed
    BY DEF FromPushed
  <1>4. ASSUME NEW l \in Line, Push(l) PROVE FromPushed'
    <2>1. /\ chan' = [chan EXCEPT ![l.file] = Append(@, l)] /\ pushed' = pushed \union {l}
          /\ UNCHANGED <<buf, written, lost>> /\ l.file \in File
      BY <1>4 DEF Push, Started
    <2>2. Elements(Append(chan[l.file], l)) = Elements(chan[l.file]) \union {l}
      BY <1>0, <2>1, AppendExactly
    <2>3. \A f \in File : Elements(chan'[f]) \subseteq pushed'
      BY <1>0, <1>2, <2>1, <2>2
    <2> QED BY <1>1, <1>2, <1>3, <2>1, <2>3
  <1>5. ASSUME NEW f \in File, WriterTakes(f) \/ WriterLoses(f) PROVE FromPushed'
    <2>1. chan[f] # <<>> /\ chan' = [chan EXCEPT ![f] = Tail(@)] /\ pushed' = pushed
      BY <1>5 DEF WriterTakes, WriterLoses
    <2>2. Head(chan[f]) \in pushed /\ Elements(Tail(chan[f])) \subseteq pushed
      BY <1>0, <1>2, <2>1, HeadTail
    <2>3. \A g \in File : Elements(chan'[g]) \subseteq pushed'
      BY <1>0, <1>2, <2>1, <2>2
    <2>4. \A g \in File : buf'[g] \subseteq pushed
      BY <1>0, <1>2, <1>5, <2>2 DEF WriterTakes, WriterLoses
    <2>5. written' \union lost' \subseteq pushed
      BY <1>3, <1>5, <2>2 DEF WriterTakes, WriterLoses
    <2> QED BY <1>1, <2>1, <2>3, <2>4, <2>5
  <1>6. ASSUME NEW f \in File, Tick(f) \/ Answer(f) \/ WriterEnds(f) \/ Ask(f) PROVE FromPushed'
    <2>1. chan' = chan /\ pushed' = pushed /\ lost' = lost
          /\ (Flushed(f) \/ UNCHANGED <<buf, written>>)
      BY <1>6 DEF Tick, Answer, WriterEnds, Ask
    <2>2. \A g \in File : buf'[g] \subseteq pushed
      BY <1>0, <1>2, <2>1 DEF Flushed
    <2>3. written' \union lost' \subseteq pushed
      BY <1>2, <1>3, <2>1 DEF Flushed
    <2> QED BY <1>1, <1>2, <2>1, <2>2, <2>3
  <1>7. CASE CallFlush \/ FlushReturns \/ CloseOutput \/ UNCHANGED outVars
    <2>1. UNCHANGED <<chan, buf, written, lost, pushed>>
      BY <1>7 DEF CallFlush, FlushReturns, CloseOutput, outVars, writerVars
    <2> QED BY <1>1, <1>2, <1>3, <2>1
  <1> QED BY <1>4, <1>5, <1>6, <1>7 DEF OutNext, Writer

-----------------------------------------------------------------------------
(* Every verdict has its file. *)

OpenedFiles == Started = {f \in File : Opens(conf, f)}

\* A task as its source makes it.
Sourced(task) ==
    /\ task.head <=> FileInput
    /\ conf.input = "list" => task.multi /\ task.offs # <<>>
    /\ ~FileInput /\ conf.mode = "off" => task.offs = <<>>

OffsetsMeant == FileInput \/ conf.mode # "off"

\* A verdict of this configuration.
Proper(v) ==
    /\ v.is # "unverified" /\ v.multi => OffsetsMeant
    /\ v.is = "unverified" => conf.input # "list"

Routing ==
    /\ OpenedFiles
    /\ reader = "sending" => Sourced(offer)
    /\ \A task \in Elements(objCh) : Sourced(task)
    /\ \A c \in Checker : /\ pc[c] = "head" => Sourced(job[c]) /\ FileInput
                          /\ pc[c] = "probe" /\ job[c].multi => OffsetsMeant
    /\ \A t \in Task : \A v \in Elements(verdict[t]) : Proper(v)

LEMMA SilentHasNoFile ==
    ASSUME Base, OpenedFiles, NoOffsetCheckFile, NEW v \in Verdict, Proper(v)
    PROVE  Silent(v) <=> Route(v.is, v.multi) \notin Started
  <1>1. sc \in Scenario /\ conf \in Config
    BY ConfTypes DEF Base, CheckTypes, WorldTypes
  <1>2. /\ conf.mode \in {"off", "offset", "segment"} /\ conf.input \in {"none", "check", "list"}
        /\ conf.okLog \in BOOLEAN /\ conf.mpOkLog \in BOOLEAN
    BY <1>1 DEF Config
  <1>3. conf.input = "check" => conf.mode # "offset"
    BY <1>1 DEF NoOffsetCheckFile, conf
  <1>4. \A f \in {"corrupted", "mp", "list_parse_failed", "corrupted_mp", "ok_mp", "ok_objects",
                  "check_failed", "mp_check_failed"} : f \in Started <=> Opens(conf, f)
    BY CheckAssumption DEF OpenedFiles
  <1>5. v.is \in {"failed", "corrupted", "clean", "unverified"} /\ v.multi \in BOOLEAN
    BY DEF Verdict
  <1>6. CASE v.is = "failed"
    BY <1>2, <1>4, <1>5, <1>6 DEF Silent, Route, Opens, Proper, OffsetsMeant, FileInput
  <1>7. CASE v.is = "corrupted"
    BY <1>2, <1>4, <1>5, <1>7 DEF Silent, Route, Opens, Proper, OffsetsMeant, FileInput
  <1>8. CASE v.is = "clean"
    BY <1>2, <1>4, <1>5, <1>8 DEF Silent, Route, Opens, Proper, OffsetsMeant, FileInput
  <1>9. CASE v.is = "unverified"
    BY <1>2, <1>3, <1>4, <1>5, <1>9 DEF Silent, Route, Opens, Proper, OffsetsMeant, FileInput
  <1> QED BY <1>5, <1>6, <1>7, <1>8, <1>9

LEMMA SettleProper ==
    ASSUME Base, Routing, NEW c \in Checker, NEW v \in {"failed", "corrupted", "clean", "unverified"},
           NEW task \in TaskRec, Settle(c, v, task), Proper(Result(v, task))
    PROVE  (\A t \in Task : \A r \in Elements(verdict'[t]) : Proper(r)) /\ pc'[c] \in {"write", "idle"}
  <1>1. /\ Result(v, task) \in Verdict /\ pc'[c] \in {"write", "idle"}
        /\ verdict'[task.id] = Append(verdict[task.id], Result(v, task))
        /\ \A t \in Task : t # task.id => verdict'[t] = verdict[t]
    BY SettleDoes DEF Base
  <1>2. task.id \in Task /\ verdict[task.id] \in Seq(Verdict)
    BY DEF Base, CheckTypes, WorldTypes, TaskRec
  <1>3. Elements(verdict'[task.id]) = Elements(verdict[task.id]) \union {Result(v, task)}
    BY <1>1, <1>2, AppendExactly
  <1> QED BY <1>1, <1>3 DEF Routing

LEMMA WorkProper ==
    ASSUME Base, Routing, NEW c \in Checker, Work(c)
    PROVE  /\ \A t \in Task : \A r \in Elements(verdict'[t]) : Proper(r)
           /\ pc'[c] = "head" => Sourced(job'[c]) /\ FileInput
           /\ pc'[c] = "probe" /\ job'[c].multi => OffsetsMeant
  <1>0. /\ Domains /\ WorkerTypes(c) /\ objCh \in Seq(TaskRec) /\ conf \in Config
        /\ \A t \in Task : \A r \in Elements(verdict[t]) : Proper(r)
    BY ConfTypes DEF Base, CheckTypes, WorldTypes, SourceTypes, Routing
  <1>1. conf.input \in {"none", "check", "list"} /\ conf.mode \in {"off", "offset", "segment"}
    BY <1>0 DEF Config
  <1>2. ASSUME NEW task \in TaskRec, Dispatch(c, task),
               task.multi /\ task.offs = <<>> => conf.input # "list",
               task.multi /\ task.offs # <<>> => OffsetsMeant
        PROVE  /\ \A t \in Task : \A r \in Elements(verdict'[t]) : Proper(r)
               /\ pc'[c] # "head"
               /\ pc'[c] = "probe" /\ job'[c].multi => OffsetsMeant
    <2>1. CASE ~task.multi /\ Settle(c, "clean", task)
      BY <2>1, SettleProper DEF Proper, Result
    <2>2. CASE task.multi /\ task.offs = <<>> /\ Settle(c, "unverified", task)
      BY <1>2, <2>2, SettleProper DEF Proper, Result
    <2>3. CASE /\ IF task.multi THEN task.offs # <<>> ELSE task.size > 0
               /\ pc'[c] = "probe" /\ UNCHANGED verdict /\ job'[c] = task
      BY <1>0, <1>2, <2>3
    <2> QED BY <1>2, <2>1, <2>2, <2>3, DispatchDoes DEF Base
  <1>3. CASE Receive(c)
    <2> PICK task : task = Head(objCh)
      OBVIOUS
    <2>1. task \in TaskRec /\ Sourced(task)
      BY <1>0, <1>3, HeadTail DEF Receive, Routing
    <2>2. CASE ~task.head /\ Dispatch(c, task)
      <3>1. ~FileInput /\ conf.input = "none"
        BY <1>1, <2>1, <2>2 DEF Sourced, FileInput
      <3> QED BY <1>2, <2>1, <2>2, <3>1 DEF Sourced, OffsetsMeant
    <2>3. CASE /\ task.head /\ job' = [job EXCEPT ![c] = task] /\ pc' = [pc EXCEPT ![c] = "head"]
               /\ UNCHANGED verdict
      <3>1. job'[c] = task /\ pc'[c] = "head"
        BY <1>0, <2>3 DEF Domains
      <3>2. FileInput
        BY <2>1, <2>3 DEF Sourced
      <3> QED BY <1>0, <2>1, <2>3, <3>1, <3>2
    <2> QED BY <1>3, <2>2, <2>3 DEF Receive
  <1>4. CASE HeadAnswers(c)
    <2>1. PICK task : /\ task = [id |-> job[c].id, multi |-> object[job[c].id].multi,
                                 size |-> object[job[c].id].size, head |-> TRUE,
                                 offs |-> IF object[job[c].id].multi THEN job[c].offs ELSE <<>>]
                      /\ Dispatch(c, task) /\ pc[c] = "head"
      BY <1>4 DEF HeadAnswers
    <2>2. task \in TaskRec
      BY <2>1, HeadTask DEF Base
    <2>3. Sourced(job[c]) /\ FileInput
      BY <2>1 DEF Routing
    <2>4. task.multi /\ task.offs = <<>> => conf.input # "list"
      BY <2>1, <2>3 DEF Sourced
    <2> QED BY <1>2, <2>1, <2>2, <2>3, <2>4 DEF OffsetsMeant
  <1>5. ASSUME pc[c] \in {"head", "probe"}, NEW v \in {"failed", "corrupted", "clean"}, Settle(c, v, job[c])
        PROVE  (\A t \in Task : \A r \in Elements(verdict'[t]) : Proper(r)) /\ pc'[c] \in {"write", "idle"}
    <2>1. job[c] \in TaskRec
      BY <1>0, <1>5 DEF WorkerTypes, Held
    <2>2. job[c].multi => OffsetsMeant
      BY <1>5 DEF Routing, OffsetsMeant
    <2>3. Proper(Result(v, job[c]))
      BY <2>2 DEF Proper, Result
    <2> QED BY <1>5, <2>1, <2>3, SettleProper
  <1>6. CASE HeadFails(c) \/ ProbeFails(c)
    <2>1. pc[c] \in {"head", "probe"} /\ Settle(c, "failed", job[c])
      BY <1>6 DEF HeadFails, ProbeFails
    <2> QED BY <1>5, <2>1
  <1>7. CASE Probe(c)
    <2>1. pc[c] = "probe" /\ job' = job
          /\ ((\E v \in {"failed", "corrupted", "clean"} : Settle(c, v, job[c])) \/ UNCHANGED <<pc, verdict>>)
      BY <1>7 DEF Probe
    <2>2. CASE UNCHANGED <<pc, verdict>>
      BY <1>0, <2>1, <2>2 DEF Routing
    <2> QED BY <1>5, <2>1, <2>2
  <1>8. CASE Write(c) \/ CheckerExits(c)
    <2>1. pc'[c] \in {"idle", "exit"} /\ UNCHANGED verdict
      BY <1>0, <1>8 DEF Write, CheckerExits, Domains
    <2> QED BY <1>0, <2>1
  <1> QED BY <1>3, <1>4, <1>6, <1>7, <1>8 DEF Work

LEMMA RoutingStep == ASSUME Base, Routing, [Next]_vars PROVE Routing'
  <1>0. Started' = Started
    BY BaseStep
  <1>1. ASSUME NEW c \in Checker, Work(c) PROVE Routing'
    <2>1. Others(c) /\ sc' = sc /\ reader' = reader /\ offer' = offer
      BY <1>0, <1>1, WorkTypes, WorkSteady DEF Base, Steady, readVars
    <2>2. Elements(objCh') \subseteq Elements(objCh)
      <3>1. objCh \in Seq(TaskRec)
        BY DEF Base, CheckTypes, SourceTypes
      <3>2. objCh # <<>> => Elements(Tail(objCh)) \subseteq Elements(objCh)
        BY <3>1, HeadTail
      <3> QED BY <1>1, <3>2, WorkQueue
    <2>3. ASSUME NEW d \in Checker
          PROVE  /\ pc'[d] = "head" => Sourced(job'[d]) /\ FileInput
                 /\ pc'[d] = "probe" /\ job'[d].multi => OffsetsMeant
      <3>1. CASE d = c
        BY <1>1, <3>1, WorkProper
      <3>2. CASE d # c
        BY <2>1, <3>2 DEF Others, Routing
      <3> QED BY <3>1, <3>2
    <2>4. /\ OpenedFiles' /\ (reader' = "sending" => Sourced(offer'))
          /\ \A task \in Elements(objCh') : Sourced(task)
      BY <1>0, <2>1, <2>2 DEF Routing, OpenedFiles, conf
    <2>5. \A t \in Task : \A v \in Elements(verdict'[t]) : Proper(v)
      BY <1>1, WorkProper
    <2> QED BY <2>1, <2>3, <2>4, <2>5 DEF Routing, Elements, Sourced, Proper, OffsetsMeant, FileInput, conf
  <1>2. ASSUME UNCHANGED <<sc, workVars>>, reader' = "sending" => Sourced(offer'),
               \A task \in Elements(objCh') : Sourced(task)
        PROVE  Routing'
    BY <1>0, <1>2 DEF Routing, OpenedFiles, Elements, Sourced, Proper, OffsetsMeant, FileInput, conf,
                      workVars
  <1>3. CASE Source
    <2>1. UNCHANGED <<sc, workVars>>
      BY <1>3, SourceSteady
    <2>2. CASE Read
      <3> PICK l : l = Head(toRead)
        OBVIOUS
      <3>1. l \in InputLine
        BY <2>2, HeadTail DEF Read, Base, CheckTypes, SourceTypes
      <3>2. ASSUME reader' = "sending", FileInput PROVE Sourced(offer')
        <4>1. offer' = LineTask(l) /\ Parses(l)
          BY <2>2, <3>2 DEF Read
        <4>2. conf.input = "list" => l.multi /\ l.offs # <<>>
          <5>1. ValidOffsets(l) => l.offs # <<>>
            BY <3>1 DEF ValidOffsets, InputLine
          <5> QED BY <4>1, <5>1 DEF Parses
        <4> QED BY <3>2, <4>1, <4>2 DEF Sourced, LineTask
      <3>3. ASSUME ~FileInput PROVE Sourced(offer')
        <4>1. offer' = ResolveOffsets(l.id)
          BY <2>2, <3>3 DEF Read
        <4>2. conf.mode = "off" => ResolveOffsets(l.id).offs = <<>>
          BY DEF ResolveOffsets
        <4>3. ~ResolveOffsets(l.id).head
          BY DEF ResolveOffsets
        <4> QED BY <3>3, <4>1, <4>2, <4>3 DEF Sourced, FileInput
      <3>4. objCh' = objCh
        BY <2>2 DEF Read
      <3> QED BY <1>2, <2>1, <3>2, <3>3, <3>4 DEF Routing
    <2>3. CASE Send
      <3>1. reader = "sending" /\ reader' = "reading" /\ objCh' = Append(objCh, offer)
            /\ offer \in TaskRec /\ objCh \in Seq(TaskRec)
        BY <2>3 DEF Send, Base, CheckTypes, SourceTypes
      <3>2. Elements(objCh') = Elements(objCh) \union {offer}
        BY <3>1, AppendExactly
      <3> QED BY <1>2, <2>1, <3>1, <3>2 DEF Routing
    <2>4. CASE ReportMalformed \/ SourceEnds
      <3>1. reader' # "sending" /\ objCh' = objCh
        BY <2>4 DEF ReportMalformed, SourceEnds
      <3> QED BY <1>2, <2>1, <3>1 DEF Routing
    <2> QED BY <1>3, <2>2, <2>3, <2>4 DEF Source
  <1>4. CASE Main \/ CheckpointFlush \/ OutputStep \/ OpenFails \/ Signal \/ ObjectChanges \/ Terminated
             \/ UNCHANGED vars
    <2>1. UNCHANGED <<sc, readVars, objCh, workVars>>
      BY <1>4 DEF Main, StopJournal, Close, RunReturns, CheckpointFlush, OutputStep, OpenFails, Signal,
                  ObjectChanges, Terminated, runVars, vars
    <2> QED BY <1>2, <2>1 DEF Routing, readVars
  <1> QED BY <1>1, <1>3, <1>4 DEF Next

LEMMA InitRouting == Init => Routing /\ FromPushed
  <1> SUFFICES ASSUME Init PROVE Routing /\ FromPushed
    OBVIOUS
  <1>1. Elements(<<>>) = {}
    BY DEF Elements
  <1>2. OutInit({f \in File : Opens(sc.conf, f)})
    BY DEF Init
  <1>3. OpenedFiles
    BY <1>2 DEF OutInit, OpenedFiles, Started, conf
  <1>4. Routing
    BY <1>1, <1>3 DEF Init, Routing
  <1>5. FromPushed
    BY <1>1, <1>2 DEF OutInit, FromPushed, Channelled
  <1> QED BY <1>4, <1>5

-----------------------------------------------------------------------------
(* One verdict and one line for each task that was sent. A task is in one    *)
(* place: in the input, offered, in objCh, in the hands of one worker, or    *)
(* finished, with the line its verdict asks for.                             *)

Ids(q) == {q[i].id : i \in DOMAIN q}
Distinct(q) == \A i, j \in DOMAIN q : q[i].id = q[j].id => i = j

LineAt(f, t) == [file |-> f, task |-> t]
NoLine(t) == \A f \in File : LineAt(f, t) \notin pushed
Pending(t) == verdict[t] = <<>> /\ NoLine(t)

Offered == reader \in {"sending", "reporting"}

Has(c, t) == Held(c) /\ job[c].id = t
InHand(t) == \E c \in Checker : Has(c, t)

\* The worker that writes has reached its verdict, the others have not.
Deciding(c, t) ==
    IF pc[c] = "write" THEN \E v \in Verdict : verdict[t] = <<v>> /\ dest[c] = Route(v.is, v.multi)
    ELSE verdict[t] = <<>>

Finished(t) ==
    \E v \in Verdict :
        /\ verdict[t] = <<v>>
        /\ \A f \in File : LineAt(f, t) \in pushed <=> f = Route(v.is, v.multi) /\ f \in Started

Unread == Distinct(toRead) /\ \A t \in Ids(toRead) : t \notin sent /\ Pending(t)

InOffer == Offered => offer.id \notin Ids(toRead) \union sent /\ Pending(offer.id)

InChannel == Distinct(objCh) /\ \A t \in Ids(objCh) : t \in sent /\ Pending(t) /\ ~InHand(t)

InHands ==
    /\ \A c \in Checker, t \in Task : Has(c, t) => t \in sent /\ NoLine(t) /\ Deciding(c, t)
    /\ \A c, d \in Checker, t \in Task : Has(c, t) /\ Has(d, t) => c = d

Accounted == \A t \in sent : t \in Ids(objCh) \/ InHand(t) \/ Finished(t)

Single == Unread /\ InOffer /\ InChannel /\ InHands /\ Accounted

LEMMA HeadIds ==
    ASSUME NEW S, NEW q \in Seq(S), q # <<>>, Distinct(q)
    PROVE  /\ Ids(q) = {Head(q).id} \union Ids(Tail(q)) /\ Head(q).id \notin Ids(Tail(q))
           /\ Distinct(Tail(q))
  <1>1. Head(q) = q[1] /\ 1 \in DOMAIN q /\ Len(q) \in Nat
    OBVIOUS
  <1>2. \A i \in DOMAIN Tail(q) : i + 1 \in DOMAIN q /\ Tail(q)[i] = q[i + 1] /\ i \in Nat /\ i > 0
    OBVIOUS
  <1>3. \A i \in DOMAIN q : i # 1 => i - 1 \in DOMAIN Tail(q) /\ Tail(q)[i - 1] = q[i]
    OBVIOUS
  <1>4. Ids(q) = {Head(q).id} \union Ids(Tail(q))
    <2>1. ASSUME NEW i \in DOMAIN q, i # 1 PROVE q[i].id \in Ids(Tail(q))
      <3>1. i - 1 \in DOMAIN Tail(q) /\ Tail(q)[i - 1].id = q[i].id
        BY <1>3, <2>1
      <3> QED BY <3>1 DEF Ids
    <2>2. ASSUME NEW i \in DOMAIN Tail(q) PROVE Tail(q)[i].id \in Ids(q)
      <3>1. i + 1 \in DOMAIN q /\ Tail(q)[i].id = q[i + 1].id
        BY <1>2
      <3> QED BY <3>1 DEF Ids
    <2> QED BY <1>1, <2>1, <2>2 DEF Ids
  <1>5. Head(q).id \notin Ids(Tail(q))
    <2> SUFFICES ASSUME NEW i \in DOMAIN Tail(q), Tail(q)[i].id = Head(q).id PROVE FALSE
      BY DEF Ids
    <2>1. i + 1 \in DOMAIN q /\ q[i + 1].id = q[1].id /\ i + 1 # 1
      BY <1>1, <1>2
    <2> QED BY <1>1, <2>1 DEF Distinct
  <1>6. Distinct(Tail(q))
    <2> SUFFICES ASSUME NEW i \in DOMAIN Tail(q), NEW j \in DOMAIN Tail(q), Tail(q)[i].id = Tail(q)[j].id
                 PROVE  i = j
      BY DEF Distinct
    <2>1. i + 1 = j + 1
      BY <1>2 DEF Distinct
    <2> QED BY <1>2, <2>1
  <1> QED BY <1>4, <1>5, <1>6

LEMMA AppendIds ==
    ASSUME NEW S, NEW q \in Seq(S), NEW e \in S, Distinct(q), e.id \notin Ids(q)
    PROVE  Ids(Append(q, e)) = Ids(q) \union {e.id} /\ Distinct(Append(q, e))
  <1>1. /\ Append(q, e) \in Seq(S) /\ DOMAIN Append(q, e) = DOMAIN q \union {Len(q) + 1}
        /\ Append(q, e)[Len(q) + 1] = e /\ \A i \in DOMAIN q : Append(q, e)[i] = q[i]
    OBVIOUS
  <1>2. Ids(Append(q, e)) = Ids(q) \union {e.id}
    BY <1>1 DEF Ids
  <1>3. \A i \in DOMAIN q : q[i].id # e.id
    BY DEF Ids
  <1>4. Distinct(Append(q, e))
    BY <1>1, <1>3 DEF Distinct
  <1> QED BY <1>2, <1>4

\* The task a worker's step is about: the one it takes, or the one in its hands.
Takes(c, t) ==
    \/ Has(c, t) /\ objCh' = objCh
    \/ pc[c] = "idle" /\ objCh # <<>> /\ t = Head(objCh).id /\ objCh' = Tail(objCh)

\* It goes on with it, settles it, or writes its line.
Continues(c, t) == pc'[c] \in {"head", "probe"} /\ UNCHANGED <<verdict, pushed>>

Settles(c, t) ==
    /\ pushed' = pushed
    /\ \E v \in Verdict :
        /\ verdict'[t] = Append(verdict[t], v)
        /\ dest'[c] = Route(v.is, v.multi)
        /\ pc'[c] = IF Route(v.is, v.multi) \in Started THEN "write" ELSE "idle"
    /\ \A u \in Task : u # t => verdict'[u] = verdict[u]

Writes(c, t) ==
    /\ pc[c] = "write" /\ pc'[c] = "idle" /\ verdict' = verdict
    /\ dest[c] \in Started /\ pushed' = pushed \union {LineAt(dest[c], t)}

Advances(c, t) ==
    /\ Takes(c, t) /\ pc[c] # "write"
    /\ job'[c].id = t
    /\ Continues(c, t) \/ Settles(c, t)

LEMMA SettleAdvances ==
    ASSUME Base, NEW c \in Checker, NEW v \in {"failed", "corrupted", "clean", "unverified"},
           NEW task \in TaskRec, Settle(c, v, task), pushed' = pushed
    PROVE  Settles(c, task.id)
  <1>1. /\ Result(v, task) \in Verdict
        /\ verdict'[task.id] = Append(verdict[task.id], Result(v, task))
        /\ \A t \in Task : t # task.id => verdict'[t] = verdict[t]
        /\ dest'[c] = Route(v, task.multi)
        /\ pc'[c] = IF Route(v, task.multi) \in Started THEN "write" ELSE "idle"
    BY SettleDoes DEF Base
  <1>2. Result(v, task).is = v /\ Result(v, task).multi = task.multi
    BY DEF Result
  <1> QED BY <1>1, <1>2 DEF Settles

LEMMA DispatchAdvances ==
    ASSUME Base, NEW c \in Checker, NEW task \in TaskRec, Dispatch(c, task), pushed' = pushed
    PROVE  job'[c].id = task.id /\ (Continues(c, task.id) \/ Settles(c, task.id))
  <1>1. job'[c] = task
    BY DispatchDoes DEF Base
  <1>2. \/ \E v \in {"clean", "unverified"} : Settle(c, v, task)
        \/ pc'[c] = "probe" /\ UNCHANGED verdict
    BY DispatchDoes DEF Base
  <1> QED BY <1>1, <1>2, SettleAdvances DEF Continues

LEMMA WorkOne ==
    ASSUME Base, NEW c \in Checker, Work(c), ~CheckerExits(c)
    PROVE  \E t \in Task : Advances(c, t) \/ (Has(c, t) /\ objCh' = objCh /\ Writes(c, t))
  <1>0. Domains /\ WorkerTypes(c) /\ objCh \in Seq(TaskRec)
    BY DEF Base, CheckTypes, SourceTypes
  <1>1. CASE Receive(c)
    <2>1. PICK task : task = Head(objCh)
      OBVIOUS
    <2>2. task \in TaskRec /\ task.id \in Task
      <3>1. task \in TaskRec
        BY <1>0, <1>1, <2>1, HeadTail DEF Receive
      <3> QED BY <3>1 DEF TaskRec
    <2>3. Takes(c, task.id) /\ pc[c] # "write" /\ pushed' = pushed
      BY <1>1, <2>1 DEF Receive, Takes, outVars
    <2>4. CASE Dispatch(c, task)
      BY <2>2, <2>3, <2>4, DispatchAdvances DEF Advances
    <2>5. CASE /\ job' = [job EXCEPT ![c] = task] /\ pc' = [pc EXCEPT ![c] = "head"]
               /\ UNCHANGED verdict
      <3>1. job'[c].id = task.id /\ Continues(c, task.id)
        BY <1>0, <2>3, <2>5 DEF Domains, Continues
      <3> QED BY <2>2, <2>3, <3>1 DEF Advances
    <2> QED BY <1>1, <2>1, <2>4, <2>5 DEF Receive
  <1>2. CASE HeadAnswers(c)
    <2>1. PICK task : /\ task = [id |-> job[c].id, multi |-> object[job[c].id].multi,
                                 size |-> object[job[c].id].size, head |-> TRUE,
                                 offs |-> IF object[job[c].id].multi THEN job[c].offs ELSE <<>>]
                      /\ Dispatch(c, task)
      BY <1>2 DEF HeadAnswers
    <2>2. task \in TaskRec /\ task.id \in Task /\ task.id = job[c].id
      <3>1. task \in TaskRec
        BY <1>2, <2>1, HeadTask DEF Base, HeadAnswers
      <3> QED BY <2>1, <3>1 DEF TaskRec
    <2>3. pc[c] = "head" /\ pushed' = pushed /\ objCh' = objCh
      BY <1>2 DEF HeadAnswers, outVars
    <2>4. Takes(c, task.id)
      BY <2>2, <2>3 DEF Takes, Has, Held
    <2> QED BY <2>1, <2>2, <2>3, <2>4, DispatchAdvances DEF Advances
  <1>3. ASSUME NEW v \in {"failed", "corrupted", "clean"}, Settle(c, v, job[c]),
               pc[c] \in {"head", "probe"}, UNCHANGED <<job, pushed, objCh>>
        PROVE  Advances(c, job[c].id) /\ job[c].id \in Task
    <2>1. job[c] \in TaskRec /\ job[c].id \in Task
      BY <1>0, <1>3 DEF WorkerTypes, Held, TaskRec
    <2>2. Settles(c, job[c].id)
      BY <1>3, <2>1, SettleAdvances
    <2> QED BY <1>3, <2>1, <2>2 DEF Advances, Takes, Has, Held
  <1>4. CASE HeadFails(c) \/ ProbeFails(c)
    <2>1. pc[c] \in {"head", "probe"} /\ Settle(c, "failed", job[c]) /\ UNCHANGED <<job, pushed, objCh>>
      BY <1>4 DEF HeadFails, ProbeFails, outVars
    <2> QED BY <1>3, <2>1
  <1>5. CASE Probe(c)
    <2>1. /\ pc[c] = "probe" /\ UNCHANGED <<job, pushed, objCh>>
          /\ ((\E v \in {"failed", "corrupted", "clean"} : Settle(c, v, job[c])) \/ UNCHANGED <<pc, verdict>>)
      BY <1>5 DEF Probe, outVars
    <2>2. CASE UNCHANGED <<pc, verdict>>
      <3>1. job[c].id \in Task
        BY <1>0, <2>1 DEF WorkerTypes, Held, TaskRec
      <3>2. Advances(c, job[c].id)
        BY <2>1, <2>2 DEF Advances, Takes, Has, Held, Continues
      <3> QED BY <3>1, <3>2
    <2> QED BY <1>3, <2>1, <2>2
  <1>6. CASE Write(c)
    <2>1. /\ pc[c] = "write" /\ pc' = [pc EXCEPT ![c] = "idle"] /\ UNCHANGED <<verdict, objCh>>
          /\ pushed' = pushed \union {LineAt(dest[c], job[c].id)}
      BY <1>6 DEF Write, Push, LineAt
    <2>2. job[c].id \in Task /\ dest[c] \in Started
      BY <1>0, <2>1 DEF WorkerTypes, Held, TaskRec
    <2>3. Has(c, job[c].id) /\ Writes(c, job[c].id)
      BY <1>0, <2>1, <2>2 DEF Has, Held, Writes, Domains
    <2> QED BY <2>1, <2>2, <2>3
  <1> QED BY <1>1, <1>2, <1>4, <1>5, <1>6 DEF Work

LEMMA TakenTask ==
    ASSUME Base, Single, NEW c \in Checker, NEW t \in Task, Takes(c, t)
    PROVE  /\ t \in sent /\ NoLine(t) /\ Deciding(c, t)
           /\ Distinct(objCh') /\ t \notin Ids(objCh')
           /\ Ids(objCh') \subseteq Ids(objCh) /\ Ids(objCh) \subseteq Ids(objCh') \union {t}
           /\ \A d \in Checker \ {c} : ~Has(d, t)
           /\ \A u \in Task \ {t} : ~Has(c, u)
  <1>1. CASE Has(c, t) /\ objCh' = objCh
    <2>1. InHand(t)
      BY <1>1 DEF InHand
    <2>2. Distinct(objCh) /\ t \notin Ids(objCh)
      BY <2>1 DEF Single, InChannel
    <2>3. t \in sent /\ NoLine(t) /\ Deciding(c, t) /\ \A d \in Checker \ {c} : ~Has(d, t)
      BY <1>1 DEF Single, InHands
    <2> QED BY <1>1, <2>2, <2>3 DEF Has
  <1>2. CASE pc[c] = "idle" /\ objCh # <<>> /\ t = Head(objCh).id /\ objCh' = Tail(objCh)
    <2>1. objCh \in Seq(TaskRec) /\ Distinct(objCh)
      BY DEF Base, CheckTypes, SourceTypes, Single, InChannel
    <2>2. /\ Ids(objCh) = {t} \union Ids(objCh') /\ t \notin Ids(objCh') /\ Distinct(objCh')
      BY <1>2, <2>1, HeadIds
    <2>3. t \in sent /\ Pending(t) /\ ~InHand(t)
      BY <2>2 DEF Single, InChannel
    <2> QED BY <1>2, <2>2, <2>3 DEF Pending, Deciding, InHand, Has, Held
  <1> QED BY <1>1, <1>2 DEF Takes

\* A step that leaves the verdicts and the lines of a task alone.
Untouched(t) ==
    verdict'[t] = verdict[t] /\ \A f \in File : LineAt(f, t) \in pushed' <=> LineAt(f, t) \in pushed

LEMMA UntouchedStays ==
    ASSUME NEW t, Untouched(t), UNCHANGED sc, Started' = Started
    PROVE  /\ NoLine(t)' <=> NoLine(t)
           /\ Pending(t)' <=> Pending(t)
           /\ Finished(t) => Finished(t)'
  BY DEF Untouched, NoLine, Pending, Finished, LineAt, Route, conf

LEMMA LinesDiffer ==
    ASSUME NEW f, NEW g, NEW t, NEW u, LineAt(f, t) = LineAt(g, u)
    PROVE  f = g /\ t = u
  <1>1. LineAt(f, t).file = f /\ LineAt(f, t).task = t /\ LineAt(g, u).file = g /\ LineAt(g, u).task = u
    BY DEF LineAt
  <1> QED BY <1>1

LEMMA WorkAfter ==
    ASSUME Base, Single, NEW c \in Checker, NEW t \in Task, Work(c), Started' = Started,
           Advances(c, t) \/ (Has(c, t) /\ Writes(c, t)), Deciding(c, t), NoLine(t)
    PROVE  /\ \A u \in Task \ {t} : Untouched(u) /\ ~Has(c, u)'
           /\ \/ Has(c, t)' /\ NoLine(t)' /\ Deciding(c, t)'
              \/ ~Held(c)' /\ Finished(t)'
  <1>0. sc' = sc /\ verdict \in [Task -> Seq(Verdict)]
    BY WorkSteady DEF Steady, Base, CheckTypes, WorldTypes
  <1>1. CASE Advances(c, t) /\ Continues(c, t)
    <2>1. pc'[c] \in {"head", "probe"} /\ verdict' = verdict /\ pushed' = pushed /\ job'[c].id = t
          /\ verdict[t] = <<>>
      BY <1>1 DEF Advances, Continues, Deciding
    <2> QED BY <2>1 DEF Untouched, NoLine, Deciding, Has, Held
  <1>2. CASE Advances(c, t) /\ Settles(c, t)
    <2>1. PICK v \in Verdict : /\ verdict'[t] = Append(verdict[t], v)
                               /\ dest'[c] = Route(v.is, v.multi)
                               /\ pc'[c] = IF Route(v.is, v.multi) \in Started THEN "write" ELSE "idle"
      BY <1>2 DEF Settles
    <2>2. /\ verdict[t] = <<>> /\ pushed' = pushed /\ job'[c].id = t
          /\ \A u \in Task : u # t => verdict'[u] = verdict[u]
      BY <1>2 DEF Advances, Settles, Deciding
    <2>3. verdict'[t] = <<v>>
      BY <2>1, <2>2
    <2>4. Route(v.is, v.multi)' = Route(v.is, v.multi)
      BY <1>0 DEF Route, conf
    <2>5. CASE Route(v.is, v.multi) \in Started
      <3>1. pc'[c] = "write"
        BY <2>1, <2>5
      <3> QED BY <2>1, <2>2, <2>3, <2>4, <3>1 DEF Untouched, NoLine, Deciding, Has, Held
    <2>6. CASE Route(v.is, v.multi) \notin Started
      <3>1. pc'[c] = "idle"
        BY <2>1, <2>6
      <3>2. Finished(t)'
        BY <2>2, <2>3, <2>4, <2>6 DEF Finished, NoLine
      <3> QED BY <2>2, <3>1, <3>2 DEF Untouched, Has, Held
    <2> QED BY <2>5, <2>6
  <1>3. CASE Has(c, t) /\ Writes(c, t)
    <2>1. /\ pc[c] = "write" /\ pc'[c] = "idle" /\ verdict' = verdict /\ dest[c] \in Started
          /\ pushed' = pushed \union {LineAt(dest[c], t)}
      BY <1>3 DEF Writes
    <2>2. PICK v \in Verdict : verdict[t] = <<v>> /\ dest[c] = Route(v.is, v.multi)
      BY <2>1 DEF Deciding
    <2>3. Route(v.is, v.multi)' = Route(v.is, v.multi)
      BY <1>0 DEF Route, conf
    <2>4. \A f \in File : LineAt(f, t) \in pushed' <=> f = dest[c]
      BY <2>1, LinesDiffer DEF NoLine
    <2>5. Finished(t)'
      BY <2>1, <2>2, <2>3, <2>4 DEF Finished
    <2>6. \A u \in Task \ {t} : Untouched(u)
      BY <2>1, LinesDiffer DEF Untouched
    <2> QED BY <2>1, <2>5, <2>6 DEF Has, Held
  <1> QED BY <1>1, <1>2, <1>3 DEF Advances

\* What a worker does with its task disturbs no other.
LEMMA WorkSingle ==
    ASSUME Base, Single, NEW c \in Checker, Work(c), ~CheckerExits(c), Started' = Started
    PROVE  Single'
  <1>0. UNCHANGED <<sc, toRead, reader, offer, sent>> /\ Others(c)
    BY WorkSteady, WorkTypes DEF Steady, readVars, Base
  <1>1. PICK t \in Task : Takes(c, t) /\ (Advances(c, t) \/ (Has(c, t) /\ Writes(c, t)))
    BY WorkOne DEF Advances, Takes
  <1>2. /\ t \in sent /\ NoLine(t) /\ Deciding(c, t)
        /\ Distinct(objCh') /\ t \notin Ids(objCh')
        /\ Ids(objCh') \subseteq Ids(objCh) /\ Ids(objCh) \subseteq Ids(objCh') \union {t}
        /\ \A d \in Checker \ {c} : ~Has(d, t)
        /\ \A u \in Task \ {t} : ~Has(c, u)
    BY <1>1, TakenTask
  <1>3. /\ \A u \in Task \ {t} : Untouched(u) /\ ~Has(c, u)'
        /\ \/ Has(c, t)' /\ NoLine(t)' /\ Deciding(c, t)'
           \/ ~Held(c)' /\ Finished(t)'
    BY <1>1, <1>2, WorkAfter
  <1>4. \A u \in Task \ {t} : /\ NoLine(u)' <=> NoLine(u)
                              /\ Pending(u)' <=> Pending(u)
                              /\ Finished(u) => Finished(u)'
    BY <1>0, <1>3, UntouchedStays
  <1>5. \A d \in Checker \ {c} : \A u \in Task : /\ Has(d, u)' <=> Has(d, u)
                                                 /\ Deciding(d, u) /\ u # t => Deciding(d, u)'
    <2> TAKE d \in Checker \ {c}
    <2> TAKE u \in Task
    <2>1. pc'[d] = pc[d] /\ job'[d] = job[d] /\ dest'[d] = dest[d]
      BY <1>0 DEF Others
    <2>2. u # t => verdict'[u] = verdict[u]
      BY <1>3 DEF Untouched
    <2> QED BY <1>0, <2>1, <2>2 DEF Has, Held, Deciding, Route, conf
  <1>6. \A u \in Task \ {t} : InHand(u)' <=> InHand(u)
    BY <1>2, <1>3, <1>5 DEF InHand
  <1>7. Ids(objCh)' = Ids(objCh') /\ Ids(toRead)' = Ids(toRead) /\ Distinct(objCh)' = Distinct(objCh')
        /\ Distinct(toRead)' = Distinct(toRead)
    BY <1>0 DEF Ids, Distinct
  <1>8. Ids(toRead) \subseteq Task /\ sent \subseteq Task /\ (Offered => offer.id \in Task)
    <2>1. toRead \in Seq(InputLine) /\ sent \subseteq Task /\ (Offered => offer.id \in Task)
      BY DEF Base, Known, CheckTypes, SourceTypes, Offered
    <2>2. ASSUME NEW i \in DOMAIN toRead PROVE toRead[i].id \in Task
      <3>1. toRead[i] \in InputLine
        BY <2>1, SeqElement
      <3> QED BY <3>1 DEF InputLine
    <2> QED BY <2>1, <2>2 DEF Ids
  <1>9. Unread'
    BY <1>0, <1>2, <1>4, <1>7, <1>8 DEF Single, Unread
  <1>10. InOffer'
    BY <1>0, <1>2, <1>4, <1>7, <1>8 DEF Single, InOffer, Offered
  <1>11. InChannel'
    <2>1. \A u \in Ids(objCh') : u \in sent /\ Pending(u) /\ ~InHand(u) /\ u \in Task /\ u # t
      BY <1>2, <1>8 DEF Single, InChannel
    <2> QED BY <1>0, <1>2, <1>4, <1>6, <1>7, <2>1 DEF InChannel
  <1>12. InHands'
    <2>1. ASSUME NEW d \in Checker, NEW u \in Task, Has(d, u)'
          PROVE  u \in sent /\ NoLine(u)' /\ Deciding(d, u)'
      <3>1. CASE d = c
        <4>1. u = t /\ Held(c)'
          BY <1>3, <2>1, <3>1 DEF Has
        <4> QED BY <1>2, <1>3, <3>1, <4>1
      <3>2. CASE d # c
        <4>1. Has(d, u) /\ u # t
          BY <1>2, <1>5, <2>1, <3>2
        <4>2. u \in sent /\ NoLine(u) /\ Deciding(d, u)
          BY <4>1 DEF Single, InHands
        <4> QED BY <1>4, <1>5, <3>2, <4>1, <4>2
      <3> QED BY <3>1, <3>2
    <2>2. ASSUME NEW d \in Checker, NEW e \in Checker, NEW u \in Task, Has(d, u)', Has(e, u)'
          PROVE  d = e
      <3>1. CASE d = c \/ e = c
        <4>1. u = t
          BY <1>3, <2>2, <3>1
        <4> QED BY <1>2, <1>5, <2>2, <4>1
      <3>2. CASE d # c /\ e # c
        BY <1>5, <2>2, <3>2 DEF Single, InHands
      <3> QED BY <3>1, <3>2
    <2> QED BY <1>0, <2>1, <2>2 DEF InHands
  <1>13. Accounted'
    <2>1. ASSUME NEW u \in sent PROVE u \in Ids(objCh') \/ InHand(u)' \/ Finished(u)'
      <3>1. CASE u = t
        BY <1>3, <3>1 DEF InHand
      <3>2. CASE u # t
        BY <1>2, <1>4, <1>6, <1>8, <3>2 DEF Single, Accounted
      <3> QED BY <3>1, <3>2
    <2> QED BY <1>0, <1>7, <2>1 DEF Accounted
  <1> QED BY <1>9, <1>10, <1>11, <1>12, <1>13 DEF Single

\* A step of nobody who has a task.
LEMMA NoTaskSingle ==
    ASSUME Single, UNCHANGED <<sc, toRead, reader, offer, sent, objCh, pc, job, dest, verdict, pushed>>,
           Started' = Started
    PROVE  Single'
  <1>1. Unread' /\ InOffer'
    BY DEF Single, Unread, InOffer, Offered, Pending, NoLine, Ids, Distinct
  <1>2. InChannel'
    BY DEF Single, InChannel, Pending, NoLine, Ids, Distinct, InHand, Has, Held
  <1>3. InHands'
    <2>1. \A c \in Checker, t \in Task : Has(c, t)' = Has(c, t) /\ Deciding(c, t)' = Deciding(c, t)
      BY DEF Has, Held, Deciding, Route, conf
    <2>2. \A t \in Task : NoLine(t)' = NoLine(t)
      BY DEF NoLine
    <2> QED BY <2>1, <2>2 DEF Single, InHands
  <1>4. Accounted'
    BY DEF Single, Accounted, Ids, InHand, Has, Held, Finished, Route, conf
  <1> QED BY <1>1, <1>2, <1>3, <1>4 DEF Single

LEMMA ReadSingle == ASSUME Base, Single, Read, Started' = Started PROVE Single'
  <1>1. /\ UNCHANGED <<sc, sent, objCh, pc, job, dest, verdict, pushed>> /\ toRead' = Tail(toRead)
        /\ toRead \in Seq(InputLine) /\ toRead # <<>> /\ Distinct(toRead)
    BY DEF Read, workVars, outVars, Base, Known, Single, Unread
  <1>2. offer'.id = Head(toRead).id
    BY ReadTask DEF Base
  <1>3. /\ Ids(toRead) = {Head(toRead).id} \union Ids(Tail(toRead))
        /\ Head(toRead).id \notin Ids(Tail(toRead)) /\ Distinct(Tail(toRead))
    BY <1>1, HeadIds
  <1>4. Ids(toRead)' = Ids(Tail(toRead)) /\ Distinct(toRead)' = Distinct(Tail(toRead))
    BY <1>1 DEF Ids, Distinct
  <1>5. \A t : Pending(t)' = Pending(t) /\ NoLine(t)' = NoLine(t)
    BY <1>1 DEF Pending, NoLine
  <1>6. \A t : InHand(t)' = InHand(t) /\ \A c \in Checker : Has(c, t)' = Has(c, t)
    BY <1>1 DEF InHand, Has, Held
  <1>7. Ids(objCh)' = Ids(objCh) /\ Distinct(objCh)' = Distinct(objCh)
    BY <1>1 DEF Ids, Distinct
  <1>8. \A t : /\ Finished(t)' = Finished(t)
               /\ \A c \in Checker : Deciding(c, t)' = Deciding(c, t)
    BY <1>1 DEF Finished, Deciding, Route, conf
  <1>9. Unread' /\ InOffer'
    BY <1>1, <1>2, <1>3, <1>4, <1>5 DEF Single, Unread, InOffer
  <1>10. InChannel' /\ InHands'
    BY <1>1, <1>5, <1>6, <1>7, <1>8 DEF Single, InChannel, InHands
  <1>11. Accounted'
    BY <1>1, <1>6, <1>7, <1>8 DEF Single, Accounted
  <1> QED BY <1>9, <1>10, <1>11 DEF Single

LEMMA SendSingle == ASSUME Base, Single, Send, Started' = Started PROVE Single'
  <1>1. /\ UNCHANGED <<sc, toRead, offer, pc, job, dest, verdict, pushed>>
        /\ objCh' = Append(objCh, offer) /\ sent' = sent \union {offer.id}
        /\ reader = "sending" /\ reader' = "reading"
    BY DEF Send, workVars, outVars
  <1>2. /\ objCh \in Seq(TaskRec) /\ offer \in TaskRec /\ offer.id \in Task /\ Distinct(objCh)
    BY <1>1 DEF Base, Known, CheckTypes, SourceTypes, Single, InChannel
  <1>3. offer.id \notin Ids(toRead) \union sent /\ Pending(offer.id)
    BY <1>1 DEF Single, InOffer, Offered
  <1>4. offer.id \notin Ids(objCh) /\ ~InHand(offer.id)
    BY <1>2, <1>3 DEF Single, InChannel, InHands, InHand
  <1>5. Ids(objCh') = Ids(objCh) \union {offer.id} /\ Distinct(objCh')
    BY <1>1, <1>2, <1>4, AppendIds
  <1>6. Ids(objCh)' = Ids(objCh') /\ Distinct(objCh)' = Distinct(objCh')
    BY DEF Ids, Distinct
  <1>7. \A t : Pending(t)' = Pending(t) /\ NoLine(t)' = NoLine(t)
    BY <1>1 DEF Pending, NoLine
  <1>8. \A t : InHand(t)' = InHand(t) /\ \A c \in Checker : Has(c, t)' = Has(c, t)
    BY <1>1 DEF InHand, Has, Held
  <1>9. Ids(toRead)' = Ids(toRead) /\ Distinct(toRead)' = Distinct(toRead)
    BY <1>1 DEF Ids, Distinct
  <1>10. \A t : /\ Finished(t)' = Finished(t)
                /\ \A c \in Checker : Deciding(c, t)' = Deciding(c, t)
    BY <1>1 DEF Finished, Deciding, Route, conf
  <1>11. Unread'
    BY <1>1, <1>3, <1>7, <1>9 DEF Single, Unread
  <1>12. InOffer'
    BY <1>1 DEF InOffer, Offered
  <1>13. InChannel'
    BY <1>1, <1>3, <1>4, <1>5, <1>6, <1>7, <1>8 DEF Single, InChannel
  <1>14. InHands'
    BY <1>1, <1>7, <1>8, <1>10 DEF Single, InHands
  <1>15. Accounted'
    BY <1>1, <1>5, <1>6, <1>8, <1>10 DEF Single, Accounted
  <1> QED BY <1>11, <1>12, <1>13, <1>14, <1>15 DEF Single

\* The line of a malformed entry belongs to a task that is never sent.
LEMMA ReportSingle == ASSUME Base, Single, ReportMalformed, Started' = Started PROVE Single'
  <1>1. /\ UNCHANGED <<sc, toRead, offer, sent, objCh, pc, job, dest, verdict>>
        /\ pushed' = pushed \union {LineAt("parse_failed", offer.id)}
        /\ reader = "reporting" /\ reader' = "reading"
    BY DEF ReportMalformed, Push, workVars, LineAt
  <1>2. offer.id \notin Ids(toRead) \union sent
    BY <1>1 DEF Single, InOffer, Offered
  <1>3. \A t : t # offer.id => Untouched(t)
    BY <1>1, LinesDiffer DEF Untouched
  <1>4. \A t : t # offer.id => /\ NoLine(t)' <=> NoLine(t)
                               /\ Pending(t)' <=> Pending(t)
                               /\ Finished(t) => Finished(t)'
    BY <1>1, <1>3, UntouchedStays
  <1>5. \A t : InHand(t)' = InHand(t) /\ \A c \in Checker : Has(c, t)' = Has(c, t)
    BY <1>1 DEF InHand, Has, Held
  <1>6. /\ Ids(objCh)' = Ids(objCh) /\ Distinct(objCh)' = Distinct(objCh)
        /\ Ids(toRead)' = Ids(toRead) /\ Distinct(toRead)' = Distinct(toRead)
    BY <1>1 DEF Ids, Distinct
  <1>7. \A t : \A c \in Checker : Deciding(c, t)' = Deciding(c, t)
    BY <1>1 DEF Deciding, Route, conf
  <1>8. Unread'
    BY <1>1, <1>2, <1>4, <1>6 DEF Single, Unread
  <1>9. InOffer'
    BY <1>1 DEF InOffer, Offered
  <1>10. InChannel'
    BY <1>1, <1>2, <1>4, <1>5, <1>6 DEF Single, InChannel
  <1>11. InHands'
    BY <1>1, <1>2, <1>4, <1>5, <1>7 DEF Single, InHands
  <1>12. Accounted'
    BY <1>1, <1>2, <1>4, <1>5, <1>6 DEF Single, Accounted
  <1> QED BY <1>8, <1>9, <1>10, <1>11, <1>12 DEF Single

LEMMA SingleStep == ASSUME Base, Single, [Next]_vars PROVE Single'
  <1>0. Started' = Started
    BY BaseStep
  <1>1. ASSUME NEW c \in Checker, CheckerExits(c) PROVE Single'
    <2>1. UNCHANGED <<sc, toRead, reader, offer, sent, objCh, job, dest, verdict, pushed>>
      BY <1>1 DEF CheckerExits, readVars, outVars
    <2>2. pc[c] = "idle" /\ pc' = [pc EXCEPT ![c] = "exit"] /\ DOMAIN pc = Checker
      BY <1>1 DEF CheckerExits, Base, CheckTypes, Domains
    <2>3. \A d \in Checker : Held(d)' = Held(d) /\ (Held(d) => pc'[d] = pc[d])
      BY <2>2 DEF Held
    <2>4. \A t : InHand(t)' = InHand(t) /\ \A d \in Checker : Has(d, t)' = Has(d, t)
      BY <2>1, <2>3 DEF InHand, Has
    <2>5. \A t : \A d \in Checker : Has(d, t) => Deciding(d, t)' = Deciding(d, t)
      BY <2>1, <2>3 DEF Has, Deciding, Route, conf
    <2>6. \A t : Pending(t)' = Pending(t) /\ NoLine(t)' = NoLine(t) /\ Finished(t)' = Finished(t)
      BY <1>0, <2>1 DEF Pending, NoLine, Finished, Route, conf
    <2>7. /\ Ids(objCh)' = Ids(objCh) /\ Distinct(objCh)' = Distinct(objCh)
          /\ Ids(toRead)' = Ids(toRead) /\ Distinct(toRead)' = Distinct(toRead)
      BY <2>1 DEF Ids, Distinct
    <2>8. Unread' /\ InOffer'
      BY <2>1, <2>6, <2>7 DEF Single, Unread, InOffer, Offered
    <2>9. InChannel' /\ Accounted'
      BY <2>1, <2>4, <2>6, <2>7 DEF Single, InChannel, Accounted
    <2>10. InHands'
      BY <2>1, <2>4, <2>5, <2>6 DEF Single, InHands
    <2> QED BY <2>8, <2>9, <2>10 DEF Single
  <1>2. ASSUME NEW c \in Checker, Work(c) PROVE Single'
    BY <1>0, <1>1, <1>2, WorkSingle
  <1>3. CASE SourceEnds
    <2>1. UNCHANGED <<sc, toRead, offer, sent, objCh, pc, job, dest, verdict, pushed>> /\ reader' = "done"
      BY <1>3 DEF SourceEnds, workVars, outVars
    <2>2. Unread' /\ InOffer'
      BY <2>1 DEF Single, Unread, InOffer, Offered, Pending, NoLine, Ids, Distinct
    <2>3. InChannel'
      BY <2>1 DEF Single, InChannel, Pending, NoLine, Ids, Distinct, InHand, Has, Held
    <2>4. \A c \in Checker, t \in Task : Has(c, t)' = Has(c, t) /\ Deciding(c, t)' = Deciding(c, t)
      BY <2>1 DEF Has, Held, Deciding, Route, conf
    <2>5. \A t \in Task : NoLine(t)' = NoLine(t)
      BY <2>1 DEF NoLine
    <2>6. InHands'
      BY <2>1, <2>4, <2>5 DEF Single, InHands
    <2>7. Accounted'
      BY <1>0, <2>1 DEF Single, Accounted, Ids, InHand, Has, Held, Finished, Route, conf
    <2> QED BY <2>2, <2>3, <2>6, <2>7 DEF Single
  <1>4. CASE Source
    BY <1>0, <1>3, <1>4, ReadSingle, SendSingle, ReportSingle DEF Source
  <1>5. CASE Main \/ CheckpointFlush \/ OutputStep \/ OpenFails \/ Signal \/ ObjectChanges \/ Terminated
             \/ UNCHANGED vars
    <2>1. UNCHANGED <<sc, readVars, objCh, workVars>>
      BY <1>5 DEF Main, StopJournal, Close, RunReturns, CheckpointFlush, OutputStep, OpenFails, Signal,
                  ObjectChanges, Terminated, runVars, vars
    <2>2. pushed' = pushed
      BY <1>5 DEF Main, StopJournal, Close, RunReturns, CheckpointFlush, OutputStep, OpenFails, Signal,
                  ObjectChanges, Terminated, vars, outVars, CallFlush, CloseOutput, FlushReturns, Writer,
                  WriterTakes, WriterLoses, WriterEnds, Tick, Answer, Ask
    <2> QED BY <1>0, <2>1, <2>2, NoTaskSingle DEF readVars, workVars
  <1> QED BY <1>2, <1>4, <1>5 DEF Next

LEMMA TrackedInv == ASSUME InputDistinct PROVE Spec => [](Routing /\ FromPushed /\ Single)
  <1>1. Init => Single
    <2> SUFFICES ASSUME Init PROVE Single
      OBVIOUS
    <2>1. Distinct(toRead)
      BY InputDistinct DEF Init, InputDistinct, Distinct
    <2>2. pushed = {}
      BY DEF Init, OutInit
    <2>3. \A t \in Task : Pending(t)
      BY <2>2 DEF Init, Pending, NoLine
    <2>4. Ids(toRead) \subseteq Task
      <3>1. ASSUME NEW i \in DOMAIN toRead PROVE toRead[i].id \in Task
        <4>1. toRead \in Seq(InputLine)
          BY CheckAssumption DEF Init
        <4>2. toRead[i] \in InputLine
          BY <4>1, SeqElement
        <4> QED BY <4>2 DEF InputLine
      <3> QED BY <3>1 DEF Ids
    <2>5. Unread
      BY <2>1, <2>3, <2>4 DEF Init, Unread
    <2>6. InOffer /\ InChannel /\ Accounted
      BY DEF Init, InOffer, Offered, InChannel, Distinct, Ids, Accounted
    <2>7. InHands
      BY DEF Init, InHands, Has, Held
    <2> QED BY <2>5, <2>6, <2>7 DEF Single
  <1>2. Base /\ Routing /\ FromPushed /\ Single /\ [Next]_vars => (Routing /\ FromPushed /\ Single)'
    BY BaseStep, RoutingStep, FromPushedStep, SingleStep DEF Base
  <1> QED BY <1>1, <1>2, InitRouting, BaseInv, PTL DEF Spec

\* Whatever fails, drifts or interrupts the run: when it has ended, every task its source handed
\* over has one verdict, and one line in the one file that verdict goes to, unless the
\* configuration asks for no line (checker.go:141-262, output.go:645-830).
THEOREM NothingDisappears ==
    ASSUME InputDistinct, NoOffsetCheckFile
    PROVE  Spec => []EveryTaskReported
  <1>1. ASSUME Base, Winding, Routing, FromPushed, Single, main = "done", NEW t \in sent
        PROVE  Len(verdict[t]) = 1 /\ Cardinality(LinesOf(t)) = (IF Silent(verdict[t][1]) THEN 0 ELSE 1)
    <2>1. \A c \in Checker : pc[c] = "exit"
      BY <1>1 DEF Winding
    <2>2. objCh = <<>>
      <3>1. PICK c \in Checker : c \in sc.checkers
        BY <1>1, CheckAssumption DEF Base, CheckTypes, WorldTypes
      <3> QED BY <1>1, <2>1, <3>1 DEF Winding
    <2>3. Finished(t)
      BY <1>1, <2>1, <2>2 DEF Single, Accounted, Ids, InHand, Has, Held
    <2>4. PICK v \in Verdict :
             /\ verdict[t] = <<v>>
             /\ \A f \in File : LineAt(f, t) \in pushed <=> f = Route(v.is, v.multi) /\ f \in Started
      BY <2>3 DEF Finished
    <2>5. written \union lost = pushed
      <3>1. Closed /\ CloseCovers
        BY <1>1, OutInvImplies DEF Winding, Base
      <3> QED BY <1>1, <3>1 DEF CloseCovers, FromPushed
    <2>6. pushed \subseteq Line /\ Line = [file : File, task : Task] /\ t \in Task
      BY <1>1, CheckAssumption DEF Base, OutInv, OutTypes, CheckTypes, SourceTypes
    <2>7. Silent(v) <=> Route(v.is, v.multi) \notin Started
      <3>1. t \in Task /\ v \in Elements(verdict[t])
        BY <2>4, <2>6 DEF Elements
      <3>2. Proper(v) /\ OpenedFiles
        BY <1>1, <3>1 DEF Routing
      <3> QED BY <1>1, <3>2, SilentHasNoFile, NoOffsetCheckFile
    <2>8. \A l \in LinesOf(t) : l = LineAt(Route(v.is, v.multi), t) /\ Route(v.is, v.multi) \in Started
      <3> TAKE l \in LinesOf(t)
      <3>1. l \in pushed /\ l.task = t /\ l.file \in File /\ l = LineAt(l.file, t)
        BY <2>5, <2>6 DEF LinesOf, LineAt
      <3> QED BY <2>4, <3>1
    <2>9. CASE Route(v.is, v.multi) \in Started
      <3>1. LineAt(Route(v.is, v.multi), t) \in LinesOf(t)
        BY <2>4, <2>5, <2>9 DEF LinesOf, LineAt, Started
      <3>2. LinesOf(t) = {LineAt(Route(v.is, v.multi), t)}
        BY <2>8, <3>1
      <3>3. Cardinality(LinesOf(t)) = 1
        BY <3>2, FS_Singleton
      <3> QED BY <2>4, <2>7, <2>9, <3>3
    <2>10. CASE Route(v.is, v.multi) \notin Started
      <3>1. LinesOf(t) = {}
        BY <2>8, <2>10
      <3>2. Cardinality(LinesOf(t)) = 0
        BY <3>1, FS_EmptySet
      <3> QED BY <2>4, <2>7, <2>10, <3>2
    <2> QED BY <2>9, <2>10
  <1>2. Base /\ Winding /\ Routing /\ FromPushed /\ Single => EveryTaskReported
    BY <1>1 DEF EveryTaskReported
  <1> QED BY <1>2, BaseInv, WindingInv, TrackedInv, InputDistinct, PTL
=============================================================================
