------------------------------ MODULE BuildLog ------------------------------
(***************************************************************************)
(* The log of a Nixpacks build. The process and the child it starts write  *)
(* to an OS pipe; a goroutine of os/exec copies from there into an         *)
(* io.Pipe, whose writes wait for a reader; a goroutine of the worker      *)
(* scans lines from it. The handler waits for process and copier, closes   *)
(* the io.Pipe, waits for the scanner and returns what it has logged.      *)
(*                                                                         *)
(* Output is a sequence of pieces: "c" is a piece of a line, "n" ends it.  *)
(***************************************************************************)
EXTENDS Integers, Sequences

CONSTANTS
  MaxOutput,      \* bound: pieces written
  PipeCapacity,   \* pieces the OS pipe holds
  MaxToken        \* pieces of the longest line the scanner takes (bufio: 64 KB)

ASSUME BuildLogAssumption == MaxOutput \in Nat /\ PipeCapacity \in Nat \ {0} /\ MaxToken \in Nat

VARIABLES
  handler,    \* "idle", "wait" (cmd.Wait), "close", "flush" (wg.Wait) or "returned"
  process,    \* "none", "running", "exited" or "killed"
  child,      \* docker, which nixpacks starts: "none", "running" or "gone"
  written,    \* what process and child have written
  osPipe,     \* what of it the copier has not read
  held,       \* the piece the copier is handing over, <<>> for none
  copier,     \* "none", "copying" or "over"
  pipeClosed, \* pw.Close has been called
  scanner,    \* "none", "reading" or "over"
  tooLong,    \* the scanner ended with ErrTooLong
  line,       \* pieces of the line the scanner is at
  logged      \* lengths of the lines logged and published

buildVars == <<handler, process, child, written, osPipe, held, copier, pipeClosed, scanner, tooLong, line, logged>>

BuildLogInit ==
  /\ handler = "idle" /\ process = "none" /\ child = "none" /\ copier = "none" /\ scanner = "none"
  /\ written = <<>> /\ osPipe = <<>> /\ held = <<>>
  /\ pipeClosed = FALSE /\ tooLong = FALSE
  /\ line = 0 /\ logged = <<>>

\* cmd.Start, and the goroutines.
StartNixpacks ==
  /\ handler = "idle"
  /\ handler' = "wait"
  /\ process' = "running" /\ copier' = "copying" /\ scanner' = "reading"
  /\ UNCHANGED <<child, written, osPipe, held, pipeClosed, tooLong, line, logged>>

\* nixpacks runs docker with its own output, which is the pipe (bound: once).
StartChild ==
  /\ process = "running"
  /\ child = "none"
  /\ child' = "running"
  /\ UNCHANGED <<handler, process, written, osPipe, held, copier, pipeClosed, scanner, tooLong, line, logged>>

ProcessWrites ==
  /\ process = "running" \/ child = "running"
  /\ Len(written) < MaxOutput
  /\ Len(osPipe) < PipeCapacity
  /\ \E x \in {"c", "n"} : written' = Append(written, x) /\ osPipe' = Append(osPipe, x)
  /\ UNCHANGED <<handler, process, child, held, copier, pipeClosed, scanner, tooLong, line, logged>>

\* The process waits for its child and ends by itself, or the context of the task kills
\* it, and only it: the child is not killed with it.
ProcessEnds ==
  /\ process = "running"
  /\ \/ child # "running" /\ process' = "exited"
     \/ process' = "killed"
  /\ UNCHANGED <<handler, child, written, osPipe, held, copier, pipeClosed, scanner, tooLong, line, logged>>

ChildEnds ==
  /\ child = "running"
  /\ child' = "gone"
  /\ UNCHANGED <<handler, process, written, osPipe, held, copier, pipeClosed, scanner, tooLong, line, logged>>

CopierReads ==
  /\ copier = "copying"
  /\ held = <<>>
  /\ osPipe # <<>>
  /\ held' = <<Head(osPipe)>>
  /\ osPipe' = Tail(osPipe)
  /\ UNCHANGED <<handler, process, child, written, copier, pipeClosed, scanner, tooLong, line, logged>>

\* The end of the OS pipe: all that was written is read, and nobody holds its other end
\* any more, neither the process nor the child.
CopierEnds ==
  /\ copier = "copying"
  /\ held = <<>> /\ osPipe = <<>>
  /\ process \in {"exited", "killed"}
  /\ child # "running"
  /\ copier' = "over"
  /\ UNCHANGED <<handler, process, child, written, osPipe, held, pipeClosed, scanner, tooLong, line, logged>>

\* A write to the io.Pipe is taken by a read of the scanner. A line end logs the line;
\* a line the buffer cannot hold ends the scan, and nobody reads the pipe from then on.
ScannerReads ==
  /\ scanner = "reading"
  /\ held # <<>>
  /\ held' = <<>>
  /\ \/ /\ held = <<"n">>
        /\ logged' = Append(logged, line) /\ line' = 0
        /\ UNCHANGED <<scanner, tooLong>>
     \/ /\ held = <<"c">> /\ line < MaxToken
        /\ line' = line + 1
        /\ UNCHANGED <<logged, scanner, tooLong>>
     \/ /\ held = <<"c">> /\ line = MaxToken
        /\ scanner' = "over" /\ tooLong' = TRUE
        /\ UNCHANGED <<line, logged>>
  /\ UNCHANGED <<handler, process, child, written, osPipe, copier, pipeClosed>>

\* End of file: a last line without line end is logged as well.
ScannerEnds ==
  /\ scanner = "reading"
  /\ pipeClosed /\ held = <<>>
  /\ scanner' = "over"
  /\ logged' = IF line > 0 THEN Append(logged, line) ELSE logged
  /\ line' = 0
  /\ UNCHANGED <<handler, process, child, written, osPipe, held, copier, pipeClosed, tooLong>>

\* cmd.Wait: for the process, and for the copier.
WaitReturns ==
  /\ handler = "wait"
  /\ process \in {"exited", "killed"}
  /\ copier = "over"
  /\ handler' = "close"
  /\ UNCHANGED <<process, child, written, osPipe, held, copier, pipeClosed, scanner, tooLong, line, logged>>

ClosePipeForgotten ==
  /\ handler = "close"
  /\ handler' = "flush"
  /\ UNCHANGED <<process, child, written, osPipe, held, copier, pipeClosed, scanner, tooLong, line, logged>>

ClosePipe ==
  /\ handler = "close"
  /\ pipeClosed' = TRUE
  /\ handler' = "flush"
  /\ UNCHANGED <<process, child, written, osPipe, held, copier, scanner, tooLong, line, logged>>

ReturnUnflushed ==
  /\ handler = "flush"
  /\ handler' = "returned"
  /\ UNCHANGED <<process, child, written, osPipe, held, copier, pipeClosed, scanner, tooLong, line, logged>>

\* wg.Wait, then the log is returned, with an error if the process failed.
ReturnLog ==
  /\ handler = "flush"
  /\ scanner = "over"
  /\ handler' = "returned"
  /\ UNCHANGED <<process, child, written, osPipe, held, copier, pipeClosed, scanner, tooLong, line, logged>>

Build == WaitReturns \/ ClosePipe \/ ReturnLog
Copier == CopierReads \/ CopierEnds
Scanner == ScannerReads \/ ScannerEnds

BuildLogNext ==
  \/ StartNixpacks \/ StartChild \/ ProcessWrites \/ ProcessEnds \/ ChildEnds
  \/ Build \/ Copier \/ Scanner

BuildLogSpec == BuildLogInit /\ [][BuildLogNext]_buildVars

\* The goroutines run, and the process ends, by itself or with the deadline of its task.
\* Nothing ends the child.
BuildLogFairness ==
  /\ WF_buildVars(ProcessEnds)
  /\ WF_buildVars(Build) /\ WF_buildVars(Copier) /\ WF_buildVars(Scanner)

-----------------------------------------------------------------------------
(* Properties.                                                             *)

\* The lines of an output, piece by piece: those it ends, and the length of the one it
\* leaves open, which is a line of its own if it has anything.
NoLines == [ended |-> <<>>, open |-> 0]

WithPiece(lines, x) ==
  IF x = "n" THEN [ended |-> Append(lines.ended, lines.open), open |-> 0]
  ELSE [ended |-> lines.ended, open |-> lines.open + 1]

AllLines(lines) == IF lines.open > 0 THEN Append(lines.ended, lines.open) ELSE lines.ended

LinesUpTo(out) ==
  LET f[k \in 0..Len(out)] == IF k = 0 THEN NoLines ELSE WithPiece(f[k-1], out[k]) IN f

LinesOf(out) == AllLines(LinesUpTo(out)[Len(out)])

\* The log that is returned has every line process and child wrote, the last one
\* included, also when the process was killed: nothing is left in the two pipes.
LogIsComplete == handler = "returned" /\ ~tooLong => logged = LinesOf(written)

\* The process was killed, and its child keeps the pipe open for ever: no WaitDelay and
\* no process group is set, so cmd.Wait waits for the end of the pipe (builder.go:125).
PipeHeld == <>[](process = "killed" /\ child = "running")

\* A build ends, unless a line was longer than the scanner takes, or the child of a killed
\* process never ends.
BuildReturns == PipeHeld \/ (handler = "wait" ~> handler = "returned" \/ tooLong)

\* builder.go:150: the pipe is closed so that the scanner finishes. Refuted, also where no
\* child holds the pipe: a line longer than the scanner takes ends the scan first, the
\* copier waits for a reader for ever, and cmd.Wait for the copier, whether or not the
\* process has been killed.
BuildAlwaysReturns == PipeHeld \/ (handler = "wait" ~> handler = "returned")

=============================================================================
