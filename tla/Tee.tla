-------------------------------- MODULE Tee --------------------------------
(***************************************************************************)
(* The copy of a sweep's output, `tee` and `_pump` of                       *)
(* src/cowork_evals/logs.py: descriptors 1 and 2 of the process are a pipe  *)
(* for as long as the sweep runs, and a thread copies what comes out of it  *)
(* to the terminal and to run.log. A child inherits the descriptors, and    *)
(* may outlive the sweep. The pipe is of a size, and a writer waits.        *)
(*                                                                         *)
(* Output is counted in pieces, and a read takes what is in the pipe.       *)
(***************************************************************************)
EXTENDS Naturals, FiniteSets, Sequences, Functions

CONSTANTS
  PipeSize,   \* the pieces the pipe holds
  MaxPrints,  \* bound: the pieces the sweep prints
  MaxWrites,  \* bound: the pieces its child writes
  MaxBreaks   \* bound: whether the terminal goes away or the disk is full

ASSUME TeeAssumption ==
  /\ PipeSize \in Nat \ {0}
  /\ {MaxPrints, MaxWrites, MaxBreaks} \subseteq Nat

VARIABLES
  stage,        \* the step of the thread that runs the sweep
  buffer,    \* what sys.stdout has not passed on
  writers,   \* the open descriptors that lead into the pipe
  pipe,      \* the pieces in the pipe
  pump,      \* the step of the copying thread
  chunk,     \* what it read last
  terminal,  \* what the terminal has shown
  log,       \* what run.log has
  child,     \* "none", "running" or "exited"
  prints,    \* how many pieces the sweep has printed
  writes,    \* how many its child has written
  broken,    \* which of the two copies fails from now on
  written    \* history: every piece that went into the pipe

sinks == <<terminal, log>>
source == <<child, prints, writes>>
teeVars == <<stage, buffer, writers, pipe, pump, chunk, sinks, source, broken, written>>

Printed(k) == <<"sweep", k>>
Earlier == <<"before", 0>>
Pieces == ({"sweep"} \X (1 .. MaxPrints)) \cup ({"child"} \X (1 .. MaxWrites))

TeeTypeOK ==
  /\ stage \in {"flush", "redirect", "sweep", "flush again", "restore", "join",
             "closed", "killed"}
  /\ buffer \in Seq(Pieces \cup {Earlier})
  /\ writers \subseteq {"write_fd", "1", "2", "child"}
  /\ pipe \in Seq(Pieces) /\ Len(pipe) <= PipeSize
  /\ pump \in {"read", "to terminal", "to log", "ended", "dead"}
  /\ chunk \in Seq(Pieces) /\ written \in Seq(Pieces) /\ log \in Seq(Pieces)
  /\ terminal \in Seq(Pieces \cup {Earlier})
  /\ child \in {"none", "running", "exited"}
  /\ prints \in 0 .. MaxPrints /\ writes \in 0 .. MaxWrites
  /\ broken \subseteq {"terminal", "log"}

\* The thread has been started. What was printed before may still be in the buffer.
TeeInit ==
  /\ stage = "flush"
  /\ buffer \in {<<>>, <<Earlier>>}
  /\ writers = {"write_fd"}
  /\ pipe = <<>> /\ chunk = <<>>
  /\ pump = "read"
  /\ terminal = <<>> /\ log = <<>> /\ written = <<>>
  /\ child = "none" /\ prints = 0 /\ writes = 0
  /\ broken = {}
-----------------------------------------------------------------------------
(* tee, around the sweep.                                                  *)

\* `sys.stdout.flush()`, to the terminal the descriptors still are.
FlushBefore ==
  /\ stage = "flush"
  /\ terminal' = terminal \o buffer
  /\ buffer' = <<>>
  /\ stage' = "redirect"
  /\ UNCHANGED <<writers, pipe, pump, chunk, log, source, broken, written>>

\* Mutant of Redirect: the descriptor the copies were made of stays open.
RedirectOpen ==
  /\ stage = "redirect"
  /\ writers' = writers \cup {"1", "2"}
  /\ stage' = "sweep"
  /\ UNCHANGED <<buffer, pipe, pump, chunk, sinks, source, broken, written>>

Redirect ==
  /\ stage = "redirect"
  /\ writers' = (writers \cup {"1", "2"}) \ {"write_fd"}
  /\ stage' = "sweep"
  /\ UNCHANGED <<buffer, pipe, pump, chunk, sinks, source, broken, written>>

PrintPiece ==
  /\ stage = "sweep" /\ prints < MaxPrints
  /\ prints' = prints + 1
  /\ buffer' = Append(buffer, Printed(prints + 1))
  /\ UNCHANGED <<stage, writers, pipe, pump, chunk, sinks, child, writes, broken, written>>

\* A piece goes into the pipe when there is room.
Send(piece) ==
  /\ Len(pipe) < PipeSize
  /\ pipe' = Append(pipe, piece)
  /\ written' = Append(written, piece)

\* The buffer passes on what it holds when it likes, and all of it at the end.
FlushPiece ==
  /\ stage \in {"sweep", "flush again"} /\ buffer # <<>>
  /\ Send(Head(buffer))
  /\ buffer' = Tail(buffer)
  /\ UNCHANGED <<stage, writers, pump, chunk, sinks, source, broken>>

\* A subprocess inherits descriptors 1 and 2.
Spawn ==
  /\ stage = "sweep" /\ child = "none"
  /\ child' = "running"
  /\ writers' = writers \cup {"child"}
  /\ UNCHANGED <<stage, buffer, pipe, pump, chunk, sinks, prints, writes, broken, written>>

\* The sweep returns or raises, whether its child has exited or not.
SweepEnds ==
  /\ stage = "sweep"
  /\ stage' = "flush again"
  /\ UNCHANGED <<buffer, writers, pipe, pump, chunk, sinks, source, broken, written>>

\* Mutant of FlushedAgain: what is in the buffer is not waited for.
FlushLater ==
  /\ stage = "flush again"
  /\ stage' = "restore"
  /\ UNCHANGED <<buffer, writers, pipe, pump, chunk, sinks, source, broken, written>>

FlushedAgain ==
  /\ stage = "flush again" /\ buffer = <<>>
  /\ stage' = "restore"
  /\ UNCHANGED <<buffer, writers, pipe, pump, chunk, sinks, source, broken, written>>

\* Both descriptors are the terminal again.
Restore ==
  /\ stage = "restore"
  /\ writers' = writers \ {"1", "2"}
  /\ stage' = "join"
  /\ UNCHANGED <<buffer, pipe, pump, chunk, sinks, source, broken, written>>

\* The thread is over, by itself or by an exception, and what is open is closed.
Join ==
  /\ stage = "join" /\ pump \in {"ended", "dead"}
  /\ stage' = "closed"
  /\ terminal' = IF "terminal" \in broken THEN terminal ELSE terminal \o buffer
  /\ buffer' = <<>>
  /\ UNCHANGED <<writers, pipe, pump, chunk, log, source, broken, written>>
-----------------------------------------------------------------------------
(* _pump.                                                                  *)

Read ==
  /\ pump = "read" /\ pipe # <<>>
  /\ chunk' = pipe /\ pipe' = <<>>
  /\ pump' = "to terminal"
  /\ UNCHANGED <<stage, buffer, writers, sinks, source, broken, written>>

\* An empty read: the pipe is empty and nobody has it open any more.
ReadEnd ==
  /\ pump = "read" /\ pipe = <<>> /\ writers = {}
  /\ pump' = "ended"
  /\ UNCHANGED <<stage, buffer, writers, pipe, chunk, sinks, source, broken, written>>

\* What cannot be written ends the thread, and with it every further copy.
CopyToTerminal ==
  /\ pump = "to terminal"
  /\ \/ /\ "terminal" \notin broken
        /\ terminal' = terminal \o chunk
        /\ pump' = "to log"
     \/ /\ "terminal" \in broken
        /\ pump' = "dead" /\ UNCHANGED terminal
  /\ UNCHANGED <<stage, buffer, writers, pipe, chunk, log, source, broken, written>>

\* Mutant of CopyToLog: without the flush the file has it when it is closed.
CopyToLogUnflushed ==
  /\ pump = "to log"
  /\ pump' = "read"
  /\ UNCHANGED <<stage, buffer, writers, pipe, chunk, sinks, source, broken, written>>

CopyToLog ==
  /\ pump = "to log"
  /\ \/ /\ "log" \notin broken
        /\ log' = log \o chunk
        /\ pump' = "read"
     \/ /\ "log" \in broken
        /\ pump' = "dead" /\ UNCHANGED log
  /\ UNCHANGED <<stage, buffer, writers, pipe, chunk, terminal, source, broken, written>>
-----------------------------------------------------------------------------
(* What passes outside.                                                    *)

ChildWrites ==
  /\ child = "running" /\ writes < MaxWrites /\ stage # "killed"
  /\ Send(<<"child", writes + 1>>)
  /\ writes' = writes + 1
  /\ UNCHANGED <<stage, buffer, writers, pump, chunk, sinks, child, prints, broken>>

ChildExits ==
  /\ child = "running"
  /\ child' = "exited"
  /\ writers' = writers \ {"child"}
  /\ UNCHANGED <<stage, buffer, pipe, pump, chunk, sinks, prints, writes, broken, written>>

Break ==
  /\ Cardinality(broken) < MaxBreaks
  /\ \E sink \in {"terminal", "log"} \ broken : broken' = broken \cup {sink}
  /\ UNCHANGED <<stage, buffer, writers, pipe, pump, chunk, sinks, source, written>>

\* The process and its thread are gone, with what they held.
KillTee ==
  /\ stage \notin {"closed", "killed"}
  /\ stage' = "killed" /\ pump' = "dead"
  /\ writers' = writers \cap {"child"}
  /\ UNCHANGED <<buffer, pipe, chunk, sinks, source, broken, written>>

Sweep == FlushBefore \/ Redirect \/ FlushPiece \/ SweepEnds \/ FlushedAgain
         \/ Restore \/ Join
Pump == Read \/ ReadEnd \/ CopyToTerminal \/ CopyToLog

TeeNext == Sweep \/ Pump \/ PrintPiece \/ Spawn \/ ChildWrites \/ ChildExits \/ Break \/ KillTee

TeeSpec == TeeInit /\ [][TeeNext]_teeVars

\* Both threads are scheduled, the sweep ends, and so does its child, some time.
TeeFairSpec == TeeSpec /\ WF_teeVars(Sweep) /\ WF_teeVars(Pump) /\ WF_teeVars(ChildExits)
-----------------------------------------------------------------------------
(* Properties.                                                             *)

\* The terminal has shown a sequence, after what was printed before the sweep.
Shows(pieces) == \E before \in {<<>>, <<Earlier>>} : terminal = before \o pieces

\* When `tee` is left and no copy failed, the log has what went into the pipe from
\* whatever process, in that order, and so has the terminal; nothing the sweep
\* printed went around it, nothing of before is in it, and no child still writes.
LogIsComplete ==
  stage = "closed" /\ pump # "dead" =>
    /\ log = written /\ Shows(written)
    /\ \A k \in 1 .. prints : Printed(k) \in Range(log)
    /\ child # "running"

\* The log is never behind the terminal by more than the last read, also when the
\* process is killed or a copy fails: the file is flushed with every chunk.
LogKeepsUp ==
  \/ Shows(log)
  \/ pump \in {"to log", "dead"} /\ Shows(log \o chunk)

\* The sweep gets out of `tee` as long as the copy works: the last descriptor that
\* leads into the pipe is closed some time, at the latest by the child.
TeeEnds == <>(stage \in {"closed", "killed"} \/ pump = "dead")

\* "Everything written to file descriptors 1 and 2 reaches both the terminal and
\* `run.log`" (`tee`): the copy ends for good with the first write that fails.
EverythingIsLogged ==
  stage = "closed" => \A k \in 1 .. prints : Printed(k) \in Range(log)

\* Nor does the sweep get out then: it waits for room in a pipe nobody reads.
TeeAlwaysEnds == <>(stage \in {"closed", "killed"})
=============================================================================
