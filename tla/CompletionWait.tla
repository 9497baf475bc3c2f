--------------------------- MODULE CompletionWait ---------------------------
(***************************************************************************)
(* Step 8 of the driver, `_wait`: the polling loop that decides when a run  *)
(* is over, against a session that is written to while the loop reads it.  *)
(* The three reads of one turn of the loop (audit.jsonl, the signature of  *)
(* the tree, the transcript) are steps of their own, and time may pass and *)
(* the session may be written between any two of them.                     *)
(***************************************************************************)
EXTENDS Naturals

CONSTANTS
  IdleSeconds,  \* cowork.idle_seconds
  RunTimeout,   \* cowork.run_timeout
  PollSeconds,  \* POLL_SECONDS
  MaxNow,       \* bound: the last value of the clock
  MaxWrites,    \* bound: how often the session is written to
  Never         \* a time that has not come

ASSUME WaitAssumption ==
  /\ IdleSeconds \in Nat
  /\ RunTimeout \in Nat
  /\ PollSeconds \in Nat \ {0}
  /\ MaxNow \in Nat /\ MaxNow > RunTimeout + PollSeconds
  /\ MaxWrites \in Nat
  /\ Never \notin Nat

VARIABLES
  now,       \* time.monotonic()
  state,     \* the last command_lifecycle state in audit.jsonl
  answered,  \* the transcript holds an assistant turn
  writes,    \* how often the tree changed, which is what a signature shows
  loopAt,        \* the next step of the loop
  audit,     \* the lifecycle state this turn read
  signature, \* the signature the loop holds, Never before the first
  idleSince, \* when it last saw the signature change
  wakeAt,    \* when the current sleep ends
  outcome,   \* how the loop ended
  times      \* history: when the session was last written, started and
             \* completed, and when the loop last read the audit log, last
             \* read a signature and ended

waitVars == <<now, state, answered, writes, loopAt, audit, signature, idleSince,
          wakeAt, outcome, times>>

loopVars == <<loopAt, audit, signature, idleSince, wakeAt, outcome>>

States == {"none", "started", "completed"}

WaitSteps == {"audit", "signature", "quiescence", "deadline", "sleep", "done"}

Outcomes == {"none", "completed", "quiescence", "timeout"}

Times == [write : Nat, started : Nat \cup {Never}, completed : Nat \cup {Never},
          looked : Nat \cup {Never}, signed : Nat, ended : Nat \cup {Never}]

WaitInit ==
  /\ now = 0
  /\ state = "none"
  /\ answered = FALSE
  /\ writes = 0
  /\ loopAt = "audit"
  /\ audit = "none"
  /\ signature = Never
  /\ idleSince = 0
  /\ wakeAt = 0
  /\ outcome = "none"
  /\ times = [write |-> 0, started |-> Never, completed |-> Never,
              looked |-> Never, signed |-> 0, ended |-> Never]

-----------------------------------------------------------------------------
(* The session.                                                            *)

HasStarted == state # "none" \/ answered

\* One write to a file of the tree: progress, a lifecycle record or the first
\* assistant turn.
Write(newState, newAnswered) ==
  /\ writes < MaxWrites
  /\ writes' = writes + 1
  /\ state' = newState
  /\ answered' = newAnswered
  /\ times' = [times EXCEPT
       !.write = now,
       !.started = IF HasStarted' /\ @ = Never THEN now ELSE @,
       !.completed = IF newState = "completed" /\ @ = Never THEN now ELSE @]
  /\ UNCHANGED <<now, loopVars>>

SessionWrites ==
  /\ state # "completed"
  /\ \/ Write(state, answered)
     \/ Write(state, TRUE)
     \/ state = "none" /\ Write("started", answered)
     \/ state = "started" /\ Write("completed", answered)

WaitTick ==
  /\ now < MaxNow
  /\ now' = now + 1
  /\ UNCHANGED <<state, answered, writes, loopVars, times>>

-----------------------------------------------------------------------------
(* The loop.                                                               *)

End(how) ==
  /\ loopAt' = "done"
  /\ outcome' = how

\* Mutant of ReadAudit: decides on the state the previous turn read.
ReadAuditLate ==
  /\ loopAt = "audit"
  /\ audit' = state
  /\ IF audit = "completed"
     THEN End("completed") /\ times' = [times EXCEPT !.looked = now, !.ended = now]
     ELSE /\ loopAt' = "signature"
          /\ times' = [times EXCEPT !.looked = now]
          /\ UNCHANGED outcome
  /\ UNCHANGED <<now, state, answered, writes, signature, idleSince, wakeAt>>

\* Read audit.jsonl: the terminal state ends the loop.
ReadAudit ==
  /\ loopAt = "audit"
  /\ audit' = state
  /\ IF state = "completed"
     THEN End("completed") /\ times' = [times EXCEPT !.looked = now, !.ended = now]
     ELSE /\ loopAt' = "signature"
          /\ times' = [times EXCEPT !.looked = now]
          /\ UNCHANGED outcome
  /\ UNCHANGED <<now, state, answered, writes, signature, idleSince, wakeAt>>

\* Compare the signature: a change starts the idle window again.
ReadSignature ==
  /\ loopAt = "signature"
  /\ signature' = writes
  /\ idleSince' = IF signature # writes THEN now ELSE idleSince
  /\ times' = [times EXCEPT !.signed = times.write]
  /\ loopAt' = "quiescence"
  /\ UNCHANGED <<now, state, answered, writes, audit, wakeAt, outcome>>

\* `_started`: what the audit read showed, or the transcript as it is now.
SeenStarted == audit = "started" \/ answered

\* Mutant of IdleLongEnough: one poll too early.
IdleAlmostLongEnough == now + PollSeconds >= idleSince + IdleSeconds

IdleLongEnough == now >= idleSince + IdleSeconds

CheckQuiescence ==
  /\ loopAt = "quiescence"
  /\ IF SeenStarted /\ IdleLongEnough
     THEN End("quiescence") /\ times' = [times EXCEPT !.ended = now]
     ELSE loopAt' = "deadline" /\ UNCHANGED <<outcome, times>>
  /\ UNCHANGED <<now, state, answered, writes, audit, signature, idleSince,
                 wakeAt>>

\* Mutant of CheckDeadline: the timeout covers a started run only.
CheckDeadlineOnceStarted ==
  /\ loopAt = "deadline"
  /\ IF now >= RunTimeout /\ SeenStarted
     THEN /\ End("timeout")
          /\ times' = [times EXCEPT !.ended = now]
          /\ UNCHANGED wakeAt
     ELSE /\ loopAt' = "sleep"
          /\ wakeAt' = now + PollSeconds
          /\ UNCHANGED <<outcome, times>>
  /\ UNCHANGED <<now, state, answered, writes, audit, signature, idleSince>>

CheckDeadline ==
  /\ loopAt = "deadline"
  /\ IF now >= RunTimeout
     THEN /\ End("timeout")
          /\ times' = [times EXCEPT !.ended = now]
          /\ UNCHANGED wakeAt
     ELSE /\ loopAt' = "sleep"
          /\ wakeAt' = now + PollSeconds
          /\ UNCHANGED <<outcome, times>>
  /\ UNCHANGED <<now, state, answered, writes, audit, signature, idleSince>>

Wake ==
  /\ loopAt = "sleep"
  /\ now >= wakeAt
  /\ loopAt' = "audit"
  /\ UNCHANGED <<now, state, answered, writes, audit, signature, idleSince,
                 wakeAt, outcome, times>>

Loop == ReadAudit \/ ReadSignature \/ CheckQuiescence \/ CheckDeadline \/ Wake

WaitNext == Loop \/ SessionWrites \/ WaitTick

WaitSpec == WaitInit /\ [][WaitNext]_waitVars

\* The loop is scheduled and the clock runs; the session may stop at any time.
WaitFairSpec == WaitSpec /\ WF_waitVars(Loop) /\ WF_waitVars(WaitTick)

-----------------------------------------------------------------------------
(* Properties.                                                             *)

WaitTypeOK ==
  /\ now \in 0 .. MaxNow
  /\ state \in States
  /\ answered \in BOOLEAN
  /\ writes \in 0 .. MaxWrites
  /\ loopAt \in WaitSteps
  /\ audit \in States
  /\ signature \in (0 .. MaxWrites) \cup {Never}
  /\ idleSince \in 0 .. MaxNow
  /\ wakeAt \in Nat
  /\ outcome \in Outcomes
  /\ times \in Times

\* Quiescence is never reported over a tree the loop has just seen change: by
\* the signature it last read, nothing was written for idle_seconds.
QuietAsSigned ==
  outcome = "quiescence" => times.ended >= times.signed + IdleSeconds

\* An empty session is not reported as a finished run: by the time quiescence
\* is, the run has a started state or an assistant turn.
QuietRunHasStarted == outcome = "quiescence" => HasStarted

\* A run that completed before the loop last looked is never reported as a
\* timeout or as quiescence: each turn looks before it asks the clock.
CompletionIsSeen ==
  outcome \in {"timeout", "quiescence"} /\ times.completed # Never =>
    times.completed >= times.looked

\* What the loop knows at each step: the signature it holds dates the last
\* write it saw, its window starts no earlier, and after a turn's look at the
\* audit log no older completion is left unseen.
LoopInv ==
  /\ outcome # "none" => loopAt = "done"
  /\ audit # "none" => state # "none"
  /\ signature # Never => signature <= writes
  /\ signature = writes => times.write = times.signed
  /\ times.write <= now
  /\ times.signed <= idleSince
  /\ idleSince <= now
  /\ state = "completed" <=> times.completed # Never
  /\ times.looked # Never => times.looked <= now
  /\ \/ loopAt \in {"signature", "quiescence", "deadline"}
     \/ outcome \in {"timeout", "quiescence"}
     => /\ times.looked # Never
        /\ times.completed # Never => times.completed >= times.looked

WaitIInv ==
  /\ WaitTypeOK
  /\ LoopInv
  /\ QuietAsSigned
  /\ QuietRunHasStarted

\* The loop ends, by the run's own signal or at the deadline.
WaitEnds == <>(loopAt = "done")

\* The docstring of `_wait`: quiescence counts only after the run has
\* demonstrably started, so the idle window does not accrue during VM boot.
IdleCountsFromStart ==
  outcome = "quiescence" => times.ended >= times.started + IdleSeconds
=============================================================================
