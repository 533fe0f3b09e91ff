---------------------------- MODULE CommandOutput ----------------------------
(***************************************************************************)
(* How the output of the scripts of a task reaches the log and the buffer  *)
(* that the placeholder ${task:...} reads: RunInContainer and RunOnHost.   *)
(*                                                                         *)
(* Three goroutines read three pipes: one per stream of the command, for   *)
(* the log, and one for the captured output.  Whatever a command writes is *)
(* written to the pipe of its stream and then to the capture pipe, by one  *)
(* goroutine in a container (it demultiplexes one connection) and by one   *)
(* per stream on the host.  io.Pipe has no buffer: a Write returns when    *)
(* the reader has taken all of it, and fails when the pipe is closed.      *)
(* Modes: "exec" runs commands in a container, "default" runs the command  *)
(* of the image and streams the container's log, "host" runs scripts on    *)
(* the host, each with pipes of its own.                                   *)
(*                                                                         *)
(* In a container a textio.PrefixWriter per command and stream stands      *)
(* before the pipes.  It passes on whole lines and is never flushed: what  *)
(* follows the last newline of a command is lost.                          *)
(*                                                                         *)
(* The readers cut the output into lines and skip the empty ones.  The log *)
(* prints a line for each, and the buffer gets them without their newlines *)
(* one right after the other.                                              *)
(***************************************************************************)
EXTENDS Naturals, Sequences, SequencesExt, FiniteSets, Functions

CONSTANTS NumCommands,  \* scripts of the task
          MaxChunks     \* bound: chunks all commands write together

ASSUME BoundsAssumption == NumCommands \in Nat \ {0} /\ MaxChunks \in Nat

Modes == {"exec", "default", "host"}
Streams == {"stdout", "stderr"}
Pipes == Streams \cup {"capture"}
Writers == Streams \cup {"stdcopy"}

\* A chunk is what passes a pipe at once, for a write may end anywhere: "text" has no
\* newline, "newline" is one and nothing else, "long" is a line that exceeds the megabyte
\* of the scanner.
Ends == {"text", "newline", "long"}

VARIABLES
  mode,
  main,      \* where RunInContainer or RunOnHost is
  outcome,   \* "ok" or "error": what it is about to return
  command,   \* commands started
  process,   \* the current command: "none", "running", "exited", "failed"
  produced,  \* chunks the commands have written, in order
  before,    \* on the host: chunks in the captured output when the script began
  unread,    \* per writer: the set of chunks it has not written yet
  writer,    \* per writer: "none", "log" (reads, and writes to the log), "capture",
             \*             "gone", "broken"
  pipe,      \* per pipe: "open" or "closed"
  reader,    \* per pipe: "reading", "ended", "failed"
  held,      \* per pipe: chunks in the scanner that are no line yet
  sink,      \* per pipe: chunks logged, or appended to the captured output
  lost,      \* a connection has ended before its command
  output,    \* LastExecOutput
  returned   \* "none", "ok", "error"

io == <<unread, writer, pipe, reader, held, sink>>
flow == <<main, outcome, command>>
done == <<output, returned>>
outputVars == <<mode, flow, process, produced, before, io, lost, done>>

WritersOf(m) == IF m = "host" THEN Streams ELSE {"stdcopy"}
WriterOf(stream) == IF mode = "host" THEN stream ELSE "stdcopy"
Of(stream, chunks) == {c \in chunks : c.stream = stream}

\* The command of the image runs by itself.
Scripts == IF mode = "default" THEN 0 ELSE NumCommands

\* A Write hands over a chunk, or the chunks of a line that the PrefixWriter has kept
\* together; the last chunk of what may be written next is the first of these.
EndsOfWrites(w) == {c \in unread[w] : mode = "exec" => c.end # "text"}
EndOfWrite(w) == CHOOSE c \in EndsOfWrites(w) : \A d \in EndsOfWrites(w) : c.n <= d.n
Written(w) == {c \in Of(EndOfWrite(w).stream, unread[w]) : c.n <= EndOfWrite(w).n}

\* The chunks of a set as they were written, one after the other.
InOrder(chunks) ==
  CHOOSE q \in [1..Cardinality(chunks) -> chunks] : \A i, j \in DOMAIN q : i < j => q[i].n < q[j].n

\* The pipe at which a writer is: MultiWriteCloser writes to the log first.
PipeOf(w) == IF writer[w] = "log" THEN EndOfWrite(w).stream ELSE "capture"
Writing(w) == writer[w] \in {"log", "capture"} /\ EndsOfWrites(w) # {}

EndsWithNewline(q) == Last(q).end = "newline"

\* Scan returns a line when it has a newline, or at the end of the input.
HasToken(p) == held[p] # <<>> /\ (EndsWithNewline(held[p]) \/ pipe[p] = "closed")

\* What the goroutines do after the return is not followed: it reaches nobody.
Followed == main # "returned"

Fresh == /\ pipe' = [p \in Pipes |-> "open"]
         /\ reader' = [p \in Pipes |-> "reading"]
         /\ held' = [p \in Pipes |-> <<>>]

OutputInit ==
  /\ mode \in Modes
  /\ main = IF mode = "host" THEN "idle" ELSE "prepare"
  /\ outcome = "ok" /\ command = 0 /\ process = "none"
  /\ produced = <<>> /\ before = 0
  /\ unread = [w \in Writers |-> {}]
  /\ writer = [w \in Writers |-> "none"]
  /\ pipe = [p \in Pipes |-> "open"]
  /\ reader = [p \in Pipes |-> "reading"]
  /\ held = [p \in Pipes |-> <<>>]
  /\ sink = [p \in Pipes |-> <<>>]
  /\ lost = FALSE /\ output = <<>> /\ returned = "none"
-----------------------------------------------------------------------------
(* The calls of the function itself. *)

StartProcess(m) ==
  /\ process' = "running"
  /\ writer' = [w \in Writers |-> IF w \in WritersOf(m) THEN "log" ELSE "none"]

\* PrepareContainer: with the command of the image, the container's log streams
\* from the moment the container has started.
PrepareContainer ==
  /\ main = "prepare"
  /\ main' = "prepared"
  /\ IF mode = "default" THEN StartProcess(mode) ELSE UNCHANGED <<process, writer>>
  /\ UNCHANGED <<mode, outcome, command, produced, before, unread, pipe, reader, held,
                 sink, lost, done>>

\* Before Run defers it, nobody closes the pipes.
PrepareFails ==
  /\ main \in {"prepare", "prepared"}
  /\ main' = "return" /\ outcome' = "error"
  /\ UNCHANGED <<mode, command, process, produced, before, io, lost, done>>

BeforeHook ==
  /\ main = "prepared"
  /\ \/ main' = (IF mode = "default" THEN "running" ELSE "idle") /\ UNCHANGED outcome
     \/ main' = "closing" /\ outcome' = "error"
  /\ UNCHANGED <<mode, command, process, produced, before, io, lost, done>>

\* The next command: an exec in the container, or a shell with new pipes on the host.
StartCommand ==
  /\ main = "idle" /\ command < Scripts
  /\ main' = "running" /\ command' = command + 1
  /\ StartProcess(mode)
  /\ IF mode = "host" THEN Fresh /\ before' = Len(sink["capture"])
                      ELSE UNCHANGED <<pipe, reader, held, before>>
  /\ UNCHANGED <<mode, outcome, produced, unread, sink, lost, done>>

\* No exec, or no attachment to it; a shell that cannot be started.
StartFails ==
  /\ main = "idle" /\ command < Scripts
  /\ outcome' = "error"
  /\ main' = IF mode = "host" THEN "return" ELSE "closing"
  /\ UNCHANGED <<mode, command, process, produced, before, io, lost, done>>

\* InteractiveExec has ended with the output; the exit code is that of the exec, or
\* zero if the exec is in fact still running.
CommandReturns ==
  /\ main = "running" /\ mode = "exec" /\ writer["stdcopy"] \in {"gone", "broken"}
  /\ IF process = "failed" \/ writer["stdcopy"] = "broken"
       THEN main' = "closing" /\ outcome' = "error"
       ELSE main' = "idle" /\ UNCHANGED outcome
  /\ UNCHANGED <<mode, command, process, produced, before, io, lost, done>>

\* The Go context may be done at any time: InteractiveExec and WaitUntilContainerExits
\* return at once, whatever the goroutines are doing.
CommandAbandoned ==
  /\ main = "running" /\ mode \in {"exec", "default"}
  /\ main' = "closing" /\ outcome' = "error"
  /\ UNCHANGED <<mode, command, process, produced, before, io, lost, done>>

\* WaitUntilContainerExits waits for the container, not for its log.
ContainerExits ==
  /\ main = "running" /\ mode = "default" /\ process \in {"exited", "failed"}
  /\ main' = IF process = "failed" THEN "closing" ELSE "idle"
  /\ outcome' = IF process = "failed" THEN "error" ELSE outcome
  /\ UNCHANGED <<mode, command, process, produced, before, io, lost, done>>

\* exec.Cmd.Run returns after the process and after the goroutines that copy.
ShellReturns ==
  /\ main = "running" /\ mode = "host" /\ process \in {"exited", "failed"}
  /\ \A w \in Streams : writer[w] = "gone"
  /\ main' = IF process = "failed" THEN "return" ELSE "closing"
  /\ outcome' = IF process = "failed" THEN "error" ELSE outcome
  /\ UNCHANGED <<mode, command, process, produced, before, io, lost, done>>

\* All commands are done; RunAfterExec may fail.
AfterHook ==
  /\ main = "idle" /\ mode # "host"
  /\ command = Scripts
  /\ main' = "closing" /\ outcome' \in {"ok", "error"}
  /\ UNCHANGED <<mode, command, process, produced, before, io, lost, done>>

\* Mutant: the error stream is not closed.
ClosePipesOfStdout ==
  /\ main = "closing"
  /\ pipe' = [pipe EXCEPT !["stdout"] = "closed", !["capture"] = "closed"]
  /\ main' = (IF outcome = "ok" THEN "wait" ELSE "return")
  /\ UNCHANGED <<mode, outcome, command, process, produced, before, unread, writer,
                 reader, held, sink, lost, done>>

\* The pipes are closed: deferred by Run, or after each script on the host.
ClosePipes ==
  /\ main = "closing"
  /\ pipe' = [p \in Pipes |-> "closed"]
  /\ main' = IF outcome = "ok" THEN "wait" ELSE "return"
  /\ UNCHANGED <<mode, outcome, command, process, produced, before, unread, writer,
                 reader, held, sink, lost, done>>

\* Mutant: only the captured output is waited for.
WaitForCapture ==
  /\ main = "wait" /\ reader["capture"] # "reading"
  /\ main' = (IF mode = "host" /\ command < Scripts THEN "idle" ELSE "return")
  /\ UNCHANGED <<mode, outcome, command, process, produced, before, io, lost, done>>

\* eg.Wait for the three readers.
WaitForReaders ==
  /\ main = "wait" /\ \A p \in Pipes : reader[p] # "reading"
  /\ LET failed == \E p \in Pipes : reader[p] = "failed" IN
     /\ outcome' = IF failed THEN "error" ELSE "ok"
     /\ main' = IF ~failed /\ mode = "host" /\ command < Scripts THEN "idle"
                                                                     ELSE "return"
  /\ UNCHANGED <<mode, command, process, produced, before, io, lost, done>>

\* SetLastExecOutput is deferred.  It reads the buffer without waiting for the
\* goroutine that appends to it, and may then see any earlier content, back to what
\* the last eg.Wait made visible.
Visible == IF mode = "host" THEN before ELSE 0
Return ==
  /\ main = "return"
  /\ main' = "returned" /\ returned' = outcome
  /\ \E k \in 0..Len(sink["capture"]) :
       /\ output' = SubSeq(sink["capture"], 1, k)
       /\ k < Len(sink["capture"]) => reader["capture"] = "reading" /\ k >= Visible
  /\ UNCHANGED <<mode, outcome, command, process, produced, before, io, lost>>

Main == \/ PrepareContainer \/ PrepareFails \/ BeforeHook \/ StartCommand \/ StartFails
        \/ CommandReturns \/ ContainerExits \/ ShellReturns
        \/ AfterHook \/ ClosePipes \/ WaitForReaders \/ Return
-----------------------------------------------------------------------------
(* The command: it writes, and ends one way or the other. *)

Produce ==
  /\ Followed /\ process = "running" /\ Len(produced) < MaxChunks
  /\ \E stream \in Streams, end \in Ends :
       LET c == [n |-> Len(produced) + 1, command |-> command, stream |-> stream,
                 end |-> end] IN
       /\ produced' = Append(produced, c)
       /\ unread' = [unread EXCEPT ![WriterOf(stream)] =
                       IF writer[WriterOf(stream)] \in {"gone", "broken"} THEN @ ELSE @ \cup {c}]
  /\ UNCHANGED <<mode, flow, process, before, writer, pipe, reader, held, sink,
                 lost, done>>

ProcessEnds ==
  /\ Followed /\ process = "running"
  /\ process' \in {"exited", "failed"}
  /\ UNCHANGED <<mode, flow, produced, before, io, lost, done>>
-----------------------------------------------------------------------------
(* The goroutines that copy from the command to the pipes. *)

EndOfOutput(w) ==
  /\ Followed /\ writer[w] = "log" /\ ~Writing(w) /\ process \in {"exited", "failed"}
  /\ writer' = [writer EXCEPT ![w] = "gone"]
  /\ unread' = [unread EXCEPT ![w] = {}]
  /\ UNCHANGED <<mode, flow, process, produced, before, pipe, reader, held, sink, lost,
                 done>>

\* The connection to the daemon ends, by itself or because InteractiveExec has
\* returned.  At the boundary of a frame that looks like the end of the output.
ConnectionEnds(w) ==
  /\ Followed /\ writer[w] = "log" /\ mode # "host"
  /\ writer' = [writer EXCEPT ![w] = "gone"]
  /\ unread' = [unread EXCEPT ![w] = {}]
  /\ lost' = TRUE
  /\ UNCHANGED <<mode, flow, process, produced, before, pipe, reader, held, sink,
                 done>>

ConnectionBreaks(w) ==
  /\ Followed /\ writer[w] = "log" /\ mode # "host"
  /\ writer' = [writer EXCEPT ![w] = "broken"]
  /\ unread' = [unread EXCEPT ![w] = {}]
  /\ UNCHANGED <<mode, flow, process, produced, before, pipe, reader, held, sink,
                 lost, done>>

\* The pipe is closed, before the write or while it waits.
WriteFails(w) ==
  /\ Followed /\ Writing(w) /\ pipe[PipeOf(w)] = "closed"
  /\ writer' = [writer EXCEPT ![w] = "broken"]
  /\ unread' = [unread EXCEPT ![w] = {}]
  /\ UNCHANGED <<mode, flow, process, produced, before, pipe, reader, held, sink, lost,
                 done>>

\* The scanner skips a newline that no text precedes.
Skipped(p, w) == held[p] = <<>> /\ Written(w) = {EndOfWrite(w)} /\ EndOfWrite(w).end = "newline"

\* A reader that has no line takes what is written; Write goes on to the capture
\* pipe, and then it is done.
HandOver(w) ==
  LET p == PipeOf(w) IN
  /\ Followed /\ Writing(w) /\ pipe[p] = "open" /\ reader[p] = "reading" /\ ~HasToken(p)
  /\ EndOfWrite(w).end # "long"
  /\ held' = IF Skipped(p, w) THEN held ELSE [held EXCEPT ![p] = @ \o InOrder(Written(w))]
  /\ IF writer[w] = "log"
       THEN writer' = [writer EXCEPT ![w] = "capture"] /\ UNCHANGED unread
       ELSE /\ writer' = [writer EXCEPT ![w] = "log"]
            /\ unread' = [unread EXCEPT ![w] = @ \ Written(w)]
  /\ UNCHANGED <<mode, flow, process, produced, before, pipe, reader, sink, lost,
                 done>>

\* The scanner gives up at a token that is too long, and with it the goroutine: it
\* takes no more, and the write never ends.
TooLong(w) ==
  LET p == PipeOf(w) IN
  /\ Followed /\ Writing(w) /\ pipe[p] = "open" /\ reader[p] = "reading" /\ ~HasToken(p)
  /\ EndOfWrite(w).end = "long"
  /\ reader' = [reader EXCEPT ![p] = "failed"]
  /\ UNCHANGED <<mode, flow, process, produced, before, unread, writer, pipe,
                 held, sink, lost, done>>

Copy(w) == \/ EndOfOutput(w) \/ WriteFails(w) \/ HandOver(w) \/ TooLong(w)
Drop(w) == ConnectionEnds(w) \/ ConnectionBreaks(w)
-----------------------------------------------------------------------------
(* ReaderToLogFunc and ReaderToBufFunc. *)

\* Mutant: a line loses what came before its last chunk.
TakeLastChunk(p) == <<Last(held[p])>>

\* The log prints the line, newline included; the buffer gets what the scanner returns.
Taken(p) ==
  IF p = "capture" /\ EndsWithNewline(held[p]) THEN Front(held[p]) ELSE held[p]

Deliver(p) ==
  /\ Followed /\ reader[p] = "reading" /\ HasToken(p)
  /\ sink' = [sink EXCEPT ![p] = @ \o Taken(p)]
  /\ held' = [held EXCEPT ![p] = <<>>]
  /\ UNCHANGED <<mode, flow, process, produced, before, unread, writer, pipe,
                 reader, lost, done>>

EndOfInput(p) ==
  /\ Followed /\ reader[p] = "reading" /\ held[p] = <<>> /\ pipe[p] = "closed"
  /\ reader' = [reader EXCEPT ![p] = "ended"]
  /\ UNCHANGED <<mode, flow, process, produced, before, unread, writer, pipe,
                 held, sink, lost, done>>

Read(p) == Deliver(p) \/ EndOfInput(p)
-----------------------------------------------------------------------------
\* Nothing else has to happen once the function has returned.  The only other state
\* in which everything stops is that of a reader which gave up.
GaveUp == \E p \in Pipes : reader[p] = "failed"
Finished == (main = "returned" \/ GaveUp) /\ UNCHANGED outputVars

OutputNext ==
  \/ Main \/ CommandAbandoned \/ Produce \/ ProcessEnds
  \/ \E w \in Writers : Copy(w) \/ Drop(w)
  \/ \E p \in Pipes : Read(p)
  \/ Finished

\* Every goroutine that can run does, and commands end; connections need not fail
\* and the context need not be cancelled.
Fairness ==
  /\ WF_outputVars(Main) /\ WF_outputVars(ProcessEnds)
  /\ \A w \in Writers : WF_outputVars(Copy(w))
  /\ \A p \in Pipes : WF_outputVars(Read(p))

OutputSpec == OutputInit /\ [][OutputNext]_outputVars /\ Fairness
-----------------------------------------------------------------------------
\* What can reach the pipes: in a container only what a newline follows.
Passed(c) == mode = "exec" => \E i \in c.n..Len(produced) :
               /\ produced[i].command = c.command /\ produced[i].stream = c.stream
               /\ produced[i].end # "text"

\* Everything but newlines: they end lines, and the captured output has none.
Texts(chunks) == {c \in chunks : c.end # "newline"}
Due(s) == {c \in Of(s, Texts(Range(produced))) : Passed(c)}

\* Each stream has the order in which it was written, and nothing twice.
Ordered(q) == \A i, j \in DOMAIN q : i < j /\ q[i].stream = q[j].stream => q[i].n < q[j].n

\* Commands that succeeded leave all the text of their output, up to the last newline in
\* a container, in the log and for the placeholder, unless a connection ended early; the
\* streams in order each.  For the placeholder it is the text and nothing else: its lines
\* are glued together.
WholeOutput ==
  /\ Ordered(output) /\ \A s \in Streams : Of(s, Range(output)) = Due(s)
  /\ \A s \in Streams : Ordered(sink[s]) /\ Texts(Range(sink[s])) = Due(s)
NilMeansWholeOutput == returned = "ok" /\ mode # "default" /\ ~lost => WholeOutput

\* Whatever happens, cancellation and lost connections included, the output repeats
\* nothing and swaps nothing within a stream; and no text before its end is missing in
\* it, unless a connection ended early.
OutputInOrder ==
  /\ Ordered(output)
  /\ ~lost => \A s \in Streams : \A c \in Of(s, Range(output)) :
                c \in Due(s) /\ \A d \in Due(s) : d.n < c.n => d \in Range(output)

\* The text that scripts on the host wrote before the one that failed is in the output:
\* the readers of each have been waited for.
HostKeepsEarlierScripts ==
  returned # "none" /\ mode = "host" =>
    \A c \in Texts(Range(produced)) : c.command < command => c \in Range(output)

\* What the log and a placeholder get is the text that the commands wrote: in order at any
\* time, whole after a success, and up to the failing script after a failure on the host.
\* Empty lines reach neither, and no newline reaches the placeholder.
OutputIsTrue == NilMeansWholeOutput /\ OutputInOrder /\ HostKeepsEarlierScripts

\* A nil result leaves no reader behind and no writer that still copies.
NobodyLeftBehind ==
  returned = "ok" =>
    /\ \A p \in Pipes : reader[p] = "ended"
    /\ mode # "default" => \A w \in Writers : ~Writing(w)

\* The function returns, unless a reader has given up at a line that is too long:
\* then the command blocks in its write, and on the host that is for good.
ReturnsUnlessGivenUp == <>(returned # "none" \/ GaveUp)

=============================================================================
