---------------------------- MODULE CoWorkDriver ----------------------------
(***************************************************************************)
(* The CoWork driver, src/cowork_evals/cowork.py: `run` and `submit`, step  *)
(* by step, in several operating system processes that share one desktop,  *)
(* one profile and one run log.                                            *)
(*                                                                         *)
(* A process makes up to MaxAttempts calls.  One call is an attempt,       *)
(* named <<process, number>>.  Every step at which another process, the    *)
(* person or the application can get in between is an action of its own.   *)
(* A poll that finds nothing changes nothing, so a polling loop is its     *)
(* last look: the one that finds something, or the one after which the     *)
(* deadline has passed.                                                    *)
(***************************************************************************)
EXTENDS CoWorkApp

CONSTANTS
  Procs,        \* the processes that run the driver on this machine
  LongPrompts,  \* the prompts above the deep link cap, PROMPT_LIMIT
  Consent,      \* cowork.consent: "dialog" or "none"
  MaxRuns,      \* cowork.max_runs
  Window,       \* CEILING_WINDOW: the ticks of the model's clock within it
  MaxDay,       \* bound: the last day of the model's clock
  MaxAttempts,  \* bound: the calls one process makes
  MaxKills,     \* bound: how many times a process is killed
  NoSession     \* no session is attributed

ASSUME DriverAssumption ==
  /\ IsFiniteSet(Procs)
  /\ Procs # {}
  /\ LongPrompts \subseteq Prompts
  /\ Consent \in {"dialog", "none"}
  /\ MaxRuns \in Nat
  /\ Window \in Nat
  /\ MaxDay \in Nat
  /\ MaxAttempts \in Nat
  /\ MaxKills \in Nat
  /\ NoSession \notin SessionIds
  /\ Person \notin Procs \X (1 .. MaxAttempts)

VARIABLES
  pc,         \* the next step of each process
  attempt,    \* the number of the call each process is in, or made last
  prompt,     \* the prompt of that call
  baseline,   \* the sessions listed before it fired
  found,      \* the session discovered, or NoSession
  result,     \* how that call ended, or the code of the error being raised
  consented,  \* _CONSENTED, per process
  log,        \* the lines of the run log
  day,        \* the clock the log's timestamps are read from
  kills,      \* how many kills there were
  typed,      \* history: what the current call sent to the desktop
  stray,      \* history: whether its Return reached another application
  fired,      \* history: the attempts whose Return was sent, and on which day
  lost,       \* history: fired attempts that left no log line
  returned    \* history: the session documents returned to a caller

localVars == <<pc, attempt, prompt, baseline, found, result, consented>>
history   == <<typed, stray, fired, lost, returned>>
vars == <<appVars, localVars, history, log, day, kills>>

AttemptIds == Procs \X (1 .. MaxAttempts)

\* The taxonomy of docs/cowork_driver.md, codes 2 to 9, by what each names.
Codes == {"refused",    \* 2
          "fire",       \* 3
          "nosession",  \* 4
          "ambiguous",  \* 5
          "mismatch",   \* 6
          "timeout",    \* 7
          "silent",     \* 8
          "focus"}      \* 9

\* A call ends with a code, a document, a session directory (`submit`), an
\* exception outside the taxonomy, or the death of its process.
Results == Codes \cup {"none", "document", "submitted", "escaped", "killed"}

\* The steps between `_check` and the run log line.
Firing == {"baseline", "consent", "activate", "guardclear", "clear", "link",
           "guardreturn", "return", "discover", "attribute", "record",
           "recordok"}
Steps == Firing \cup {"idle", "wait", "collect"}

LogEntries == [by : AttemptIds, outcome : Codes \cup {"submitted"},
               day : 0 .. MaxDay]

\* What a call sends to the desktop.
Inputs == {"activate", "clear", "link", "return"}

Me(p) == <<p, attempt[p]>>

Init ==
  /\ AppInit
  /\ pc = [p \in Procs |-> "idle"]
  /\ attempt = [p \in Procs |-> 0]
  /\ prompt = [p \in Procs |-> Altered]
  /\ baseline = [p \in Procs |-> {}]
  /\ found = [p \in Procs |-> NoSession]
  /\ result = [p \in Procs |-> "none"]
  /\ consented = [p \in Procs |-> FALSE]
  /\ log = {}
  /\ day = 0
  /\ kills = 0
  /\ typed = [p \in Procs |-> {}]
  /\ stray = [p \in Procs |-> FALSE]
  /\ fired = {}
  /\ lost = {}
  /\ returned = {}

\* A stamped line or event of the trailing window, whose edge is inside it.
RecentOf(stamped) == {e \in stamped : e.day + Window >= day}

\* `recent`: the submissions the ceiling counts.
Recent == Cardinality(RecentOf(log))

Goto(p, step) == pc' = [pc EXCEPT ![p] = step]

\* Raise a taxonomy error on the way to `_submit`'s handler.
Raise(p, code) ==
  /\ Goto(p, "record")
  /\ result' = [result EXCEPT ![p] = code]

\* The call is over, and its locals with it.
Forget(p) ==
  /\ baseline' = [baseline EXCEPT ![p] = {}]
  /\ found' = [found EXCEPT ![p] = NoSession]

Finish(p, outcome) ==
  /\ Goto(p, "idle")
  /\ result' = [result EXCEPT ![p] = outcome]
  /\ Forget(p)

-----------------------------------------------------------------------------
(* Step 1: refuse, or go on.                                               *)

Refuses(text) == Recent >= MaxRuns \/ text \in LongPrompts

Check(p) ==
  /\ pc[p] = "idle"
  /\ attempt[p] < MaxAttempts
  /\ attempt' = [attempt EXCEPT ![p] = @ + 1]
  /\ \E text \in Prompts :
       /\ prompt' = [prompt EXCEPT ![p] = text]
       /\ IF Refuses(text) THEN Finish(p, "refused")
          ELSE /\ Goto(p, "baseline")
               /\ result' = [result EXCEPT ![p] = "none"]
               /\ UNCHANGED <<baseline, found>>
  /\ typed' = [typed EXCEPT ![p] = {}]
  /\ stray' = [stray EXCEPT ![p] = FALSE]
  /\ UNCHANGED <<appVars, consented, log, day, kills, fired, lost, returned>>

-----------------------------------------------------------------------------
(* Steps 2 to 7: `_fire_and_attribute`.                                    *)

\* Mutant of RecordBaseline: the sessions already there are not recorded.
BaselineForgotten(p) ==
  /\ pc[p] = "baseline"
  /\ Goto(p, "consent")
  /\ UNCHANGED <<appVars, attempt, prompt, baseline, found, result, consented,
                 history, log, day, kills>>

RecordBaseline(p) ==
  /\ pc[p] = "baseline"
  /\ baseline' = [baseline EXCEPT ![p] = Directories]
  /\ Goto(p, "consent")
  /\ UNCHANGED <<appVars, attempt, prompt, found, result, consented, history,
                 log, day, kills>>

\* Mutant of AskConsent: asks on the first call only, whatever was answered.
AskConsentFirstCallOnly(p) ==
  /\ pc[p] = "consent"
  /\ \/ /\ Consent = "none" \/ consented[p] \/ attempt[p] > 1
        /\ Goto(p, "activate")
        /\ UNCHANGED <<result, consented>>
     \/ /\ Consent = "dialog" /\ attempt[p] = 1
        /\ \/ /\ consented' = [consented EXCEPT ![p] = TRUE]
              /\ Goto(p, "activate")
              /\ UNCHANGED result
           \/ /\ Raise(p, "refused")
              /\ UNCHANGED consented
  /\ UNCHANGED <<appVars, attempt, prompt, baseline, found, history, log, day,
                 kills>>

\* Go and the dialog's own timeout proceed and are remembered for the
\* process; Cancel refuses.  With consent "none", or once given, nothing is
\* asked and nothing is set.
AskConsent(p) ==
  /\ pc[p] = "consent"
  /\ \/ /\ Consent = "none" \/ consented[p]
        /\ Goto(p, "activate")
        /\ UNCHANGED <<result, consented>>
     \/ /\ Consent = "dialog" /\ ~consented[p]
        /\ \/ /\ consented' = [consented EXCEPT ![p] = TRUE]
              /\ Goto(p, "activate")
              /\ UNCHANGED result
           \/ /\ Raise(p, "refused")
              /\ UNCHANGED consented
  /\ UNCHANGED <<appVars, attempt, prompt, baseline, found, history, log, day,
                 kills>>

Sends(p, input) == typed' = [typed EXCEPT ![p] = @ \cup {input}]

\* `_fire` returned non-zero, and nothing reached the desktop; or of CLEAR's
\* two keystrokes the first did, which selects and deletes nothing.
FireFails(p) ==
  /\ pc[p] \in {"activate", "clear", "link", "return"}
  /\ Raise(p, "fire")
  /\ \/ UNCHANGED typed
     \/ pc[p] = "clear" /\ Sends(p, "clear")
  /\ UNCHANGED <<appVars, attempt, prompt, baseline, found, consented, log, day,
                 kills, stray, fired, lost, returned>>

Activate(p) ==
  /\ pc[p] = "activate"
  /\ front' = "CoWork"
  /\ Sends(p, "activate")
  /\ Goto(p, "guardclear")
  /\ UNCHANGED <<composer, sess, attempt, prompt, baseline, found, result,
                 consented, log, day, kills, stray, fired, lost, returned>>

\* `_guard`: code 9 when another process is in front, code 3 when osascript
\* cannot say which one is.  The keystroke it guards is a later step.
Guard(p, here, next) ==
  /\ pc[p] = here
  /\ \/ front = "CoWork" /\ Goto(p, next) /\ UNCHANGED result
     \/ front # "CoWork" /\ Raise(p, "focus")
     \/ Raise(p, "fire")
  /\ UNCHANGED <<appVars, attempt, prompt, baseline, found, consented, history,
                 log, day, kills>>

GuardClear(p)  == Guard(p, "guardclear", "clear")
GuardReturn(p) == Guard(p, "guardreturn", "return")

\* Select all and delete, in whatever is in front by now.
Clear(p) ==
  /\ pc[p] = "clear"
  /\ composer' = IF front = "CoWork" THEN Empty ELSE composer
  /\ Sends(p, "clear")
  /\ Goto(p, "link")
  /\ UNCHANGED <<front, sess, attempt, prompt, baseline, found, result,
                 consented, log, day, kills, stray, fired, lost, returned>>

\* The deep link starts a new conversation with the prompt in its composer.
OpenLink(p) ==
  /\ pc[p] = "link"
  /\ front' = "CoWork"
  /\ composer' = prompt[p]
  /\ Sends(p, "link")
  /\ Goto(p, "guardreturn")
  /\ UNCHANGED <<sess, attempt, prompt, baseline, found, result, consented,
                 log, day, kills, stray, fired, lost, returned>>

\* The synthetic Return, in whatever is in front by now.
Return(p) ==
  /\ pc[p] = "return"
  /\ IF front = "CoWork" THEN ReturnInComposer(Me(p))
                         ELSE UNCHANGED <<composer, sess>>
  /\ stray' = [stray EXCEPT ![p] = front # "CoWork"]
  /\ Sends(p, "return")
  /\ fired' = fired \cup {[by |-> Me(p), day |-> day]}
  /\ Goto(p, "discover")
  /\ UNCHANGED <<front, attempt, prompt, baseline, found, result, consented,
                 log, day, kills, lost, returned>>

\* Mutant of New: every listed directory passes for a new one.
NewIsListed(p) == Directories

New(p) == Directories \ baseline[p]

\* Mutant of Discover: polls without a deadline.
DiscoverForever(p) ==
  /\ pc[p] = "discover"
  /\ \/ /\ Cardinality(New(p)) > 1
        /\ Raise(p, "ambiguous")
        /\ UNCHANGED found
     \/ /\ Cardinality(New(p)) = 1
        /\ \E s \in New(p) : found' = [found EXCEPT ![p] = s]
        /\ Goto(p, "attribute")
        /\ UNCHANGED result
  /\ UNCHANGED <<appVars, attempt, prompt, baseline, consented, history, log,
                 day, kills>>

\* `_discover`: one new directory is the session, two are code 5, and none
\* when the deadline has passed is code 4.
Discover(p) ==
  /\ pc[p] = "discover"
  /\ \/ /\ Cardinality(New(p)) > 1
        /\ Raise(p, "ambiguous")
        /\ UNCHANGED found
     \/ /\ Cardinality(New(p)) = 1
        /\ \E s \in New(p) : found' = [found EXCEPT ![p] = s]
        /\ Goto(p, "attribute")
        /\ UNCHANGED result
     \/ /\ New(p) = {}
        /\ Raise(p, "nosession")
        /\ UNCHANGED found
  /\ UNCHANGED <<appVars, attempt, prompt, baseline, consented, history, log,
                 day, kills>>

HasRecord(s) == sess[s].stage \in Recorded

\* Mutant of Matches: any first user record will do.
MatchesAnything(p) == TRUE

Matches(p) == sess[found[p]].prompt = prompt[p]

\* `_attribute`: the first user record against the submitted prompt, and code
\* 6 when there is none by the deadline.
Attribute(p) ==
  /\ pc[p] = "attribute"
  /\ \/ /\ HasRecord(found[p]) /\ Matches(p)
        /\ Goto(p, "recordok")
        /\ UNCHANGED result
     \/ /\ HasRecord(found[p]) => ~Matches(p)
        /\ Raise(p, "mismatch")
  /\ UNCHANGED <<appVars, attempt, prompt, baseline, found, consented, history,
                 log, day, kills>>

\* The session is being written to and a read ends inside a multi-byte
\* character: `read_text` raises UnicodeDecodeError, which `_read_jsonl` does
\* not catch, and the call leaves through neither branch of `_submit`.
AttributeEscapes(p) ==
  /\ pc[p] = "attribute"
  /\ Finish(p, "escaped")
  /\ lost' = lost \cup {Me(p)}
  /\ UNCHANGED <<appVars, attempt, prompt, consented, log, day, kills, typed,
                 stray, fired, returned>>

-----------------------------------------------------------------------------
(* `_submit`: the run log line.                                            *)

Line(p, outcome) == [by |-> Me(p), outcome |-> outcome, day |-> day]

\* Mutants of RecordFailure: a refusal is logged too; and no failure is.
RecordRefusalToo(p) ==
  /\ pc[p] = "record"
  /\ log' = log \cup {Line(p, result[p])}
  /\ Finish(p, result[p])
  /\ UNCHANGED <<appVars, attempt, prompt, consented, history, day, kills>>

RecordNoFailure(p) ==
  /\ pc[p] = "record"
  /\ Finish(p, result[p])
  /\ UNCHANGED <<appVars, attempt, prompt, consented, history, log, day, kills>>

\* A refusal is not logged; every other code is.
RecordFailure(p) ==
  /\ pc[p] = "record"
  /\ log' = IF result[p] = "refused" THEN log
            ELSE log \cup {Line(p, result[p])}
  /\ Finish(p, result[p])
  /\ UNCHANGED <<appVars, attempt, prompt, consented, history, day, kills>>

\* `submit` returns here; `run` goes on to wait.
RecordSubmitted(p) ==
  /\ pc[p] = "recordok"
  /\ log' = log \cup {Line(p, "submitted")}
  /\ \/ Finish(p, "submitted")
     \/ Goto(p, "wait") /\ UNCHANGED <<baseline, found, result>>
  /\ UNCHANGED <<appVars, attempt, prompt, consented, history, day, kills>>

\* `_record` raises: the run log, or its directory, cannot be written.  The
\* call ends with that OSError and leaves no line.
RecordEscapes(p) ==
  /\ \/ pc[p] = "record" /\ result[p] # "refused"
     \/ pc[p] = "recordok"
  /\ Finish(p, "escaped")
  /\ lost' = IF "return" \in typed[p] THEN lost \cup {Me(p)} ELSE lost
  /\ UNCHANGED <<appVars, attempt, prompt, consented, log, day, kills, typed,
                 stray, fired, returned>>

-----------------------------------------------------------------------------
(* Steps 8 and 9.  CompletionWait.tla has the polling loop of `_wait`.     *)

\* The completed state or quiescence, or code 7 at the deadline.  Which of
\* them comes first is up to the run and the clock.
Wait(p) ==
  /\ pc[p] = "wait"
  /\ \/ Goto(p, "collect") /\ UNCHANGED <<baseline, found, result>>
     \/ Finish(p, "timeout")
  /\ UNCHANGED <<appVars, attempt, prompt, consented, history, log, day, kills>>

\* A read during `_wait` or `collect` meets half a multi-byte character, as
\* in AttributeEscapes.  The run is in the log already.
ReadEscapes(p) ==
  /\ pc[p] \in {"wait", "collect"}
  /\ Finish(p, "escaped")
  /\ UNCHANGED <<appVars, attempt, prompt, consented, history, log, day, kills>>

HasText(s) == sess[s].stage = "answered"

\* `collect`: a document, or code 8 when there is no assistant text.
Collect(p) ==
  /\ pc[p] = "collect"
  /\ \/ /\ HasText(found[p])
        /\ returned' = returned \cup
             {[by |-> Me(p), prompt |-> prompt[p], session |-> found[p]]}
        /\ Finish(p, "document")
     \/ /\ ~HasText(found[p])
        /\ Finish(p, "silent")
        /\ UNCHANGED returned
  /\ UNCHANGED <<appVars, attempt, prompt, consented, log, day, kills, typed,
                 stray, fired, lost>>

-----------------------------------------------------------------------------
(* A signal kills the process at any step; the next call is a new process, *)
(* which has not asked for consent.                                        *)

Kill(p) ==
  /\ pc[p] # "idle"
  /\ kills < MaxKills
  /\ kills' = kills + 1
  /\ Finish(p, "killed")
  /\ consented' = [consented EXCEPT ![p] = FALSE]
  /\ lost' = IF pc[p] \in Firing /\ "return" \in typed[p]
             THEN lost \cup {Me(p)} ELSE lost
  /\ UNCHANGED <<appVars, attempt, prompt, log, day, typed, stray, fired,
                 returned>>

Tick ==
  /\ day < MaxDay
  /\ day' = day + 1
  /\ UNCHANGED <<appVars, localVars, history, log, kills>>

Environment ==
  /\ AppNext
  /\ UNCHANGED <<localVars, history, log, day, kills>>

\* What a process does on its own once it has been called.
Step(p) ==
  \/ RecordBaseline(p) \/ AskConsent(p) \/ FireFails(p)
  \/ Activate(p) \/ GuardClear(p) \/ Clear(p) \/ OpenLink(p)
  \/ GuardReturn(p) \/ Return(p) \/ Discover(p)
  \/ Attribute(p) \/ AttributeEscapes(p)
  \/ RecordFailure(p) \/ RecordSubmitted(p) \/ RecordEscapes(p)
  \/ Wait(p) \/ ReadEscapes(p) \/ Collect(p)

Next ==
  \/ \E p \in Procs : Check(p) \/ Step(p) \/ Kill(p)
  \/ Tick
  \/ Environment

Spec == Init /\ [][Next]_vars

\* Every step ends: a subprocess returns, and a polling loop has a deadline
\* on a monotonic clock.  Nothing is assumed of the application, the person
\* or the clock of the log.
FairSpec == Spec /\ \A p \in Procs : WF_vars(Step(p))

-----------------------------------------------------------------------------
(* Properties.                                                             *)

TypeOK ==
  /\ front \in {"CoWork", "Other"}
  /\ composer \in Texts \cup {Empty}
  /\ sess \in [SessionIds -> [stage : Stages, prompt : Texts,
                              by : AttemptIds \cup {Person}]]
  /\ pc \in [Procs -> Steps]
  /\ attempt \in [Procs -> 0 .. MaxAttempts]
  /\ prompt \in [Procs -> Texts]
  /\ baseline \in [Procs -> SUBSET SessionIds]
  /\ found \in [Procs -> SessionIds \cup {NoSession}]
  /\ result \in [Procs -> Results]
  /\ consented \in [Procs -> BOOLEAN]
  /\ log \subseteq LogEntries
  /\ day \in 0 .. MaxDay
  /\ kills \in 0 .. MaxKills
  /\ typed \in [Procs -> SUBSET Inputs]
  /\ stray \in [Procs -> BOOLEAN]
  /\ fired \subseteq [by : AttemptIds, day : 0 .. MaxDay]
  /\ lost \subseteq AttemptIds
  /\ returned \subseteq [by : AttemptIds, prompt : Prompts,
                         session : SessionIds]

\* An altered prompt is never collected: whatever the person types and
\* whichever process's link or Return came in between, a document is built
\* from a session whose first user record is the submitted prompt.
AlteredPromptNeverReturned ==
  \A d \in returned : HasRecord(d.session) /\ sess[d.session].prompt = d.prompt

\* A call that ends with code 2, at step 1 or at the dialog, has sent nothing
\* to the desktop and left no line that counts against the ceiling.
RefusalLeavesNothing ==
  \A p \in Procs :
    pc[p] = "idle" /\ result[p] = "refused" =>
      typed[p] = {} /\ \A e \in log : e.by # Me(p)

\* Nothing reaches the desktop before the person at it approved this process,
\* and a process that was restarted asks again.
ConsentBeforeInput ==
  \A p \in Procs :
    typed[p] # {} /\ pc[p] # "idle" => Consent = "none" \/ consented[p]

\* Every submission is in the run log, however the call ended, unless its
\* process was killed or an exception outside the taxonomy went past the
\* handler: a read that does not decode, or the run log itself not written.
SubmissionsAreLogged ==
  \A f \in fired :
    \/ \E e \in log : e.by = f.by
    \/ f.by \in lost
    \/ \E p \in Procs : f.by = Me(p) /\ pc[p] \in Firing

\* The submissions of the trailing window, less those that were lost.
Submitted == RecentOf({f \in fired : f.by \notin lost})

\* The rate ceiling over concurrent processes: each may pass the check before
\* the others' lines are in the log, so the ceiling is exceeded by at most
\* one submission per further process, and by none when there is one process.
CeilingPerProcess ==
  Cardinality(Submitted) <= MaxRuns + Cardinality(Procs) - 1

\* With one process, no session is collected twice: the baseline of a call
\* holds every session an earlier call collected.
SessionReturnedOnce ==
  \A c, d \in returned : c.session = d.session => c.by = d.by

\* The call fired and failed: its session may yet appear, with nobody left
\* that waits for it.
Orphaned(a) ==
  a \in lost \/ \E e \in log : e.by = a /\ e.outcome \in Codes

\* The person pressed Return on a prompt a deep link left in the composer.
PersonSubmittedPrompt ==
  \E s \in SessionIds :
    sess[s].stage # "free" /\ sess[s].by = Person /\ sess[s].prompt \in Prompts

\* With one process, a call that collects the session of another call does so
\* only after some earlier call fired and failed or died, or the person
\* submitted the prompt: as long as every call finds its session and nobody
\* else presses Return, each call collects its own.
WrongSessionNeedsOrphan ==
  \A d \in returned :
    sess[d.session].by \in AttemptIds \ {d.by} =>
      \/ \E f \in fired : f.by[2] < d.by[2] /\ Orphaned(f.by)
      \/ PersonSubmittedPrompt

\* Every call ends, with a document, a code or an exception, whatever the
\* application and the person do.
CallsEnd == \A p \in Procs : pc[p] # "idle" ~> pc[p] = "idle"

\* The calls between the check and their run log line.
InFlight == {Me(p) : p \in {q \in Procs : pc[q] \in Firing}}

\* The run log without the outcomes.
Stamps == {[by |-> e.by, day |-> e.day] : e \in log}

\* The driver keeps the ledger's promise: a call is under way in the ledger
\* from the check to its run log line.
Ledger == INSTANCE SubmissionLedger WITH flying <- InFlight, log <- Stamps

LedgerSpec == Ledger!Spec

-----------------------------------------------------------------------------
(* The inductive invariant of CoWorkDriverProofs.                          *)

\* What a call knows at each step: from attribution on, the session it found
\* is a recorded one with the submitted prompt, whatever happens meanwhile.
CallInv ==
  \A p \in Procs :
    /\ pc[p] # "idle" => prompt[p] \in Prompts /\ attempt[p] # 0
    /\ pc[p] = "record" => result[p] \in Codes
    /\ pc[p] \in {"attribute", "recordok", "wait", "collect"} =>
         found[p] \in SessionIds
    /\ pc[p] \in {"recordok", "wait", "collect"} =>
         HasRecord(found[p]) /\ Matches(p)

\* The steps before the Return is sent.
BeforeReturn == {"baseline", "consent", "activate", "guardclear", "clear",
                 "link", "guardreturn", "return"}

\* A call fires once, and a refused call has not fired.
FiringInv ==
  /\ IsFiniteSet(log)
  /\ \A f \in fired : f.by[2] <= attempt[f.by[1]]
  /\ \A p \in Procs :
       /\ pc[p] \in Firing =>
            ("return" \in typed[p] <=> \E f \in fired : f.by = Me(p))
       /\ \/ pc[p] \in BeforeReturn
          \/ pc[p] = "record" /\ result[p] = "refused"
          => "return" \notin typed[p]

IInv ==
  /\ TypeOK
  /\ CallInv
  /\ FiringInv
  /\ AlteredPromptNeverReturned

-----------------------------------------------------------------------------
(* What the documentation says, and the code does not do.                  *)

\* docs/cowork_driver.md: max_runs is the submissions allowed in the trailing
\* 24 hours, and nothing skips the ceiling.
CeilingHolds == Cardinality(RecentOf(fired)) <= MaxRuns

\* cowork.py logs "attributed the session to this submission".
OwnSession == \A d \in returned : sess[d.session].by \in {d.by, Person}

\* docs/cowork_driver.md, code 9: nothing was typed.
FocusTypedNothing ==
  \A p \in Procs :
    pc[p] = "idle" /\ result[p] = "focus" =>
      typed[p] \cap {"clear", "return"} = {}

\* docs/cowork_driver_internals.md: a keystroke that lands elsewhere is caught
\* as code 6.
StrayReturnIsMismatch ==
  \A p \in Procs :
    pc[p] = "idle" /\ stray[p] /\ result[p] \in Codes => result[p] = "mismatch"

\* docs/cowork_driver.md: the run log holds one line per submission, and only
\* a killed process leaves one out.
OnlyKillsLoseLines == kills = 0 => lost = {}
=============================================================================
