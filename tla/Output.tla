------------------------------- MODULE Output -------------------------------
(***************************************************************************)
(* The result files: one bounded channel and one writer goroutine per      *)
(* file, lines that wait in the channel, then in a bufio buffer, then are  *)
(* in the file; FlushAndWait, which the journal's checkpoints rely on, and *)
(* Close.                                                                  *)
(*                                                                         *)
(* Go source: chunked_check_tool/output.go.                                *)
(*                                                                         *)
(* A select of a writer that handles one line, one tick or one request is  *)
(* one step.  A line is in one place at a time; written is what the files  *)
(* hold.                                                                   *)
(***************************************************************************)
EXTENDS Integers, Sequences, FiniteSets

CONSTANTS
    File,        \* result files
    RootFile,    \* those opened by NewOutput; the others are per owner
    Order,       \* the files in the order NewOutput starts their writers
    Line,        \* result lines, with a field file
    OwnerDir,    \* OwnerDir[l]: the directory of a line's owner
    Capacity     \* output_ch_capacity

ASSUME OutputAssumption ==
    /\ IsFiniteSet(File) /\ RootFile \subseteq File
    /\ Order \in Seq(File) /\ \A f \in File : \E i \in DOMAIN Order : Order[i] = f
    /\ \A l \in Line : l.file \in File /\ l \in DOMAIN OwnerDir
    /\ Capacity \in Nat \ {0}

VARIABLES
    chan,        \* chan[f]: lines in the channel
    buf,         \* buf[f]: lines in the writer's bufio buffers
    opened,      \* opened[f]: the owner directories the writer has opened f in
    writer,      \* writer[f]: off (not started), select, drain, gone
    written,     \* lines in their files
    lost,        \* lines dropped because a file could not be opened
    flush,       \* FlushAndWait: idle, asking
    asked,       \* writers that got the request of this call
    closing,     \* Close has closed the channels
    pushed,      \* history: lines pushed
    owed         \* history: lines pushed before the last call of FlushAndWait

writerVars == <<chan, buf, opened, writer, written, lost>>
flushVars  == <<flush, asked, owed>>
outVars    == <<writerVars, flushVars, closing, pushed>>

OutTypes ==
    /\ chan \in [File -> Seq(Line)]
    /\ \A f \in File : Len(chan[f]) <= Capacity
    /\ buf \in [File -> SUBSET Line]
    /\ DOMAIN opened = File
    /\ writer \in [File -> {"off", "select", "drain", "gone"}]
    /\ written \subseteq Line /\ lost \subseteq Line
    /\ flush \in {"idle", "asking"} /\ asked \subseteq File
    /\ closing \in BOOLEAN
    /\ pushed \subseteq Line /\ owed \subseteq pushed

Started == {f \in File : writer[f] # "off"}
Queued(f) == {chan[f][i] : i \in DOMAIN chan[f]}
Closed == closing /\ \A f \in Started : writer[f] = "gone"

-----------------------------------------------------------------------------

OutInit(started) ==
    /\ chan = [f \in File |-> <<>>]
    /\ buf = [f \in File |-> {}]
    /\ opened = [f \in File |-> {}]
    /\ writer = [f \in File |-> IF f \in started THEN "select" ELSE "off"]
    /\ written = {} /\ lost = {}
    /\ flush = "idle" /\ asked = {} /\ owed = {}
    /\ closing = FALSE
    /\ pushed = {}

\* A Write method sends its line; it blocks while the channel is full.
Push(l) ==
    /\ l.file \in Started /\ ~closing
    /\ l \notin pushed
    /\ Len(chan[l.file]) < Capacity
    /\ chan' = [chan EXCEPT ![l.file] = Append(@, l)]
    /\ pushed' = pushed \union {l}
    /\ UNCHANGED <<buf, opened, writer, written, lost, flushVars, closing>>

\* writeLine: the file of the line's owner is opened when the first line comes.
WriterTakes(f) ==
    /\ writer[f] \in {"select", "drain"}
    /\ chan[f] # <<>>
    /\ chan' = [chan EXCEPT ![f] = Tail(@)]
    /\ buf' = [buf EXCEPT ![f] = @ \union {Head(chan[f])}]
    /\ opened' = IF f \in RootFile THEN opened
                 ELSE [opened EXCEPT ![f] = @ \union {OwnerDir[Head(chan[f])]}]
    /\ UNCHANGED <<writer, written, lost, flushVars, closing, pushed>>

\* The directory or the file cannot be opened: the line is gone, the next one tries again.
WriterLoses(f) ==
    /\ writer[f] \in {"select", "drain"}
    /\ chan[f] # <<>>
    /\ f \notin RootFile /\ OwnerDir[Head(chan[f])] \notin opened[f]
    /\ chan' = [chan EXCEPT ![f] = Tail(@)]
    /\ lost' = lost \union {Head(chan[f])}
    /\ UNCHANGED <<buf, opened, writer, written, flushVars, closing, pushed>>

Flushed(f) ==
    /\ written' = written \union buf[f]
    /\ buf' = [buf EXCEPT ![f] = {}]

\* The ticker, or a buffer that is full.
Tick(f) ==
    /\ writer[f] = "select"
    /\ buf[f] # {}
    /\ Flushed(f)
    /\ UNCHANGED <<chan, opened, writer, lost, flushVars, closing, pushed>>

CallFlush ==
    /\ flush = "idle"
    /\ flush' = "asking" /\ asked' = {} /\ owed' = pushed
    /\ UNCHANGED <<writerVars, closing, pushed>>

\* Mutant: the writer flushes what it has before it drains the channel.
AskFlushes(f) ==
    /\ flush = "asking"
    /\ writer[f] = "select" /\ f \notin asked
    /\ \A i \in DOMAIN Order : Order[i] = f =>
          \A j \in 1 .. i - 1 : Order[j] \in Started => Order[j] \in asked
    /\ asked' = asked \union {f}
    /\ Flushed(f)
    /\ UNCHANGED <<chan, opened, writer, lost, flush, owed, closing, pushed>>

\* The request is handed over when the writer is back in its select.  One that finds its
\* channel empty flushes and answers at once.
Ask(f) ==
    /\ flush = "asking"
    /\ writer[f] = "select" /\ f \notin asked
    /\ \A i \in DOMAIN Order : Order[i] = f =>
          \A j \in 1 .. i - 1 : Order[j] \in Started => Order[j] \in asked
    /\ asked' = asked \union {f}
    /\ \/ /\ chan[f] # <<>>
          /\ writer' = [writer EXCEPT ![f] = "drain"]
          /\ UNCHANGED <<buf, written>>
       \/ chan[f] = <<>> /\ Flushed(f) /\ UNCHANGED writer
    /\ UNCHANGED <<chan, opened, lost, flush, owed, closing, pushed>>

\* The drain has found the channel empty.
Answer(f) ==
    /\ writer[f] = "drain" /\ chan[f] = <<>>
    /\ writer' = [writer EXCEPT ![f] = "select"]
    /\ Flushed(f)
    /\ UNCHANGED <<chan, opened, lost, flushVars, closing, pushed>>

FlushReturns ==
    /\ flush = "asking"
    /\ Started \subseteq asked
    /\ \A f \in Started : writer[f] # "drain"
    /\ flush' = "idle"
    /\ UNCHANGED <<writerVars, asked, owed, closing, pushed>>

\* Close closes the channels, then waits for the writers.  One that has nothing to write ends
\* at once; only the wait can tell.
CloseOutput ==
    /\ ~closing
    /\ closing' = TRUE
    /\ writer' = [f \in File |-> IF writer[f] = "select" /\ chan[f] = <<>> /\ buf[f] = {}
                                THEN "gone" ELSE writer[f]]
    /\ UNCHANGED <<chan, buf, opened, written, lost, flushVars, pushed>>

\* Mutant: the last lines of the buffer are not flushed.
WriterQuits(f) ==
    /\ writer[f] = "select"
    /\ closing /\ chan[f] = <<>>
    /\ writer' = [writer EXCEPT ![f] = "gone"]
    /\ UNCHANGED <<chan, buf, opened, written, lost, flushVars, closing, pushed>>

WriterEnds(f) ==
    /\ writer[f] = "select"
    /\ closing /\ chan[f] = <<>>
    /\ writer' = [writer EXCEPT ![f] = "gone"]
    /\ Flushed(f)
    /\ UNCHANGED <<chan, opened, lost, flushVars, closing, pushed>>

Writer(f) == WriterTakes(f) \/ Tick(f) \/ Answer(f) \/ WriterEnds(f)

OutNext ==
    \/ \E l \in Line : Push(l)
    \/ \E f \in File : Writer(f) \/ WriterLoses(f) \/ Ask(f)
    \/ CallFlush
    \/ FlushReturns
    \/ CloseOutput

OutSpec == (\E started \in SUBSET File : OutInit(started)) /\ [][OutNext]_outVars

-----------------------------------------------------------------------------
(* What the callers rely on *)

\* FlushAndWait has returned: every line that was pushed before the call is in its file,
\* whatever was pushed meanwhile, except lines whose file could not be opened.  The
\* journal's checkpoint claims pages on the strength of this.
FlushCovers == flush = "idle" => owed \subseteq written \union lost

\* Once Close has returned nothing is left in a channel or a buffer.
CloseCovers == Closed => pushed \subseteq written \union lost

\* Until then a line that was pushed is in exactly one place on its way.
LinesKept ==
    \A l \in pushed :
        \/ l \in Queued(l.file)
        \/ l \in buf[l.file]
        \/ l \in written \union lost
=============================================================================
