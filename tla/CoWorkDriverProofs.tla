------------------------- MODULE CoWorkDriverProofs -------------------------
(* The driver's type invariant, that an altered prompt is never returned,   *)
(* and what a call promises of refusals, consent and the run log, for every *)
(* number of processes, prompts and sessions; and which session a call      *)
(* collects, when one process has the desktop to itself. Last, the driver   *)
(* implements the ledger, and so keeps its ceiling. The loop that waits for  *)
(* a run, a component of its own, is at the end.                            *)
EXTENDS CoWorkDriver, CompletionWait, FiniteSetTheorems, TLAPS

-----------------------------------------------------------------------------
(* The application and the person.                                         *)

AppTypeOK ==
  /\ front \in {"CoWork", "Other"}
  /\ composer \in Texts \cup {Empty}
  /\ sess \in [SessionIds -> [stage : Stages, prompt : Texts,
                              by : AttemptIds \cup {Person}]]

\* A session whose first user record is on disk keeps it.
RecordsKept ==
  \A s \in SessionIds :
    HasRecord(s) => HasRecord(s)' /\ sess'[s].prompt = sess[s].prompt

\* A Return creates at most one session, with a text as its prompt.
LEMMA ReturnApp ==
  ASSUME AppTypeOK, NEW who \in AttemptIds \cup {Person}, ReturnInComposer(who)
  PROVE  /\ composer' \in Texts \cup {Empty}
         /\ sess' \in [SessionIds -> [stage : Stages, prompt : Texts,
                                      by : AttemptIds \cup {Person}]]
         /\ RecordsKept
<1>1. CASE composer = Empty /\ UNCHANGED <<composer, sess>>
  BY <1>1 DEF AppTypeOK, RecordsKept, HasRecord
<1>2. CASE composer # Empty /\ composer' = Empty
  <2>1. PICK s \in SessionIds :
          /\ sess[s].stage = "free"
          /\ sess' = [sess EXCEPT ![s] =
               [stage |-> "sent", prompt |-> composer, by |-> who]]
    BY <1>2 DEF ReturnInComposer
  <2>2. composer \in Texts
    BY <1>2 DEF AppTypeOK
  <2>3. [stage |-> "sent", prompt |-> composer, by |-> who] \in
          [stage : Stages, prompt : Texts, by : AttemptIds \cup {Person}]
    BY <2>2 DEF Stages
  <2>4. RecordsKept
    BY <2>1 DEF RecordsKept, HasRecord, Recorded, Visible, AppTypeOK
  <2> QED
    BY <1>2, <2>1, <2>3, <2>4 DEF AppTypeOK
<1> QED
  BY <1>1, <1>2 DEF ReturnInComposer

\* What happens outside the driver keeps the types and the records.
LEMMA AppSteps ==
  ASSUME AppTypeOK, AppNext
  PROVE  AppTypeOK' /\ RecordsKept
<1>1. CASE PersonFocuses
  BY <1>1 DEF PersonFocuses, AppTypeOK, RecordsKept, HasRecord
<1>2. CASE PersonTypes
  BY <1>2 DEF PersonTypes, AppTypeOK, RecordsKept, HasRecord, Texts
<1>3. CASE PersonSubmits
  BY <1>3, ReturnApp DEF PersonSubmits, AppTypeOK
<1>4. CASE SessionAdvances
  <2>1. PICK s \in SessionIds, t \in Stages :
          /\ <<sess[s].stage, t>> \in StageStep
          /\ sess' = [sess EXCEPT ![s].stage = t]
    BY <1>4 DEF SessionAdvances
  <2>2. sess' \in [SessionIds -> [stage : Stages, prompt : Texts,
                                  by : AttemptIds \cup {Person}]]
    BY <2>1 DEF AppTypeOK
  <2>3. HasRecord(s) => t \in Recorded
    BY <2>1 DEF HasRecord, StageStep, Recorded, Visible
  <2>4. RecordsKept
    BY <2>1, <2>3 DEF RecordsKept, HasRecord, AppTypeOK
  <2> QED
    BY <1>4, <2>2, <2>4 DEF SessionAdvances, AppTypeOK
<1> QED
  BY <1>1, <1>2, <1>3, <1>4 DEF AppNext

-----------------------------------------------------------------------------
(* The type invariant.                                                     *)

\* The driver's own variables.
CallTypeOK ==
  /\ pc \in [Procs -> Steps]
  /\ attempt \in [Procs -> 0 .. MaxAttempts]
  /\ prompt \in [Procs -> Texts]
  /\ baseline \in [Procs -> SUBSET SessionIds]
  /\ found \in [Procs -> SessionIds \cup {NoSession}]
  /\ result \in [Procs -> Results]
  /\ consented \in [Procs -> BOOLEAN]
  /\ log \subseteq LogEntries
  /\ day \in 0 .. MaxDay
  /\ kills \in 0 .. MaxKills
  /\ typed \in [Procs -> SUBSET Inputs]
  /\ stray \in [Procs -> BOOLEAN]
  /\ fired \subseteq [by : AttemptIds, day : 0 .. MaxDay]
  /\ lost \subseteq AttemptIds
  /\ returned \subseteq [by : AttemptIds, prompt : Prompts,
                         session : SessionIds]

\* The variables a step moves when it goes on, raises or ends the call.
ControlTypeOK ==
  /\ pc \in [Procs -> Steps]
  /\ result \in [Procs -> Results]
  /\ baseline \in [Procs -> SUBSET SessionIds]
  /\ found \in [Procs -> SessionIds \cup {NoSession}]

LEMMA GotoType ==
  ASSUME TypeOK, NEW p \in Procs, NEW step \in Steps, Goto(p, step),
         UNCHANGED <<result, baseline, found>>
  PROVE  ControlTypeOK'
BY DEF TypeOK, Goto, ControlTypeOK

LEMMA RaiseType ==
  ASSUME TypeOK, NEW p \in Procs, NEW code \in Codes, Raise(p, code),
         UNCHANGED <<baseline, found>>
  PROVE  ControlTypeOK'
<1>1. "record" \in Steps /\ code \in Results
  BY DEF Steps, Firing, Results
<1> QED
  BY <1>1 DEF TypeOK, Goto, Raise, ControlTypeOK

LEMMA FinishType ==
  ASSUME TypeOK, NEW p \in Procs, NEW how \in Results, Finish(p, how)
  PROVE  ControlTypeOK'
<1>1. "idle" \in Steps
  BY DEF Steps
<1> QED
  BY <1>1 DEF TypeOK, Goto, Finish, Forget, ControlTypeOK

\* A call under way has a name.
LEMMA CallHasName ==
  ASSUME TypeOK, CallInv, NEW p \in Procs, pc[p] # "idle"
  PROVE  Me(p) \in AttemptIds
BY DriverAssumption DEF TypeOK, CallInv, Me, AttemptIds

LEMMA CheckType ==
  ASSUME TypeOK, CallInv, NEW p \in Procs, Check(p)
  PROVE  TypeOK'
<1>1. AppTypeOK'
  BY DEF Check, appVars, AppTypeOK, TypeOK
<1>2. CallTypeOK'
  <2>1. PICK text \in Prompts :
          /\ prompt' = [prompt EXCEPT ![p] = text]
          /\ IF Refuses(text) THEN Finish(p, "refused")
             ELSE /\ Goto(p, "baseline")
                  /\ result' = [result EXCEPT ![p] = "none"]
                  /\ UNCHANGED <<baseline, found>>
    BY DEF Check
  <2>2. attempt' \in [Procs -> 0 .. MaxAttempts]
    BY DriverAssumption DEF Check, TypeOK
  <2>3. /\ pc' \in [Procs -> Steps]
        /\ result' \in [Procs -> Results]
        /\ baseline' \in [Procs -> SUBSET SessionIds]
        /\ found' \in [Procs -> SessionIds \cup {NoSession}]
    BY <2>1 DEF Finish, Forget, Goto, TypeOK, Steps, Firing, Results, Codes
  <2> QED
    BY <2>1, <2>2, <2>3 DEF Check, TypeOK, CallTypeOK, Texts
<1> QED
  BY <1>1, <1>2 DEF TypeOK, AppTypeOK, CallTypeOK

LEMMA RecordBaselineType ==
  ASSUME TypeOK, CallInv, NEW p \in Procs, RecordBaseline(p)
  PROVE  TypeOK'
<1>1. AppTypeOK'
  BY DEF RecordBaseline, appVars, AppTypeOK, TypeOK
<1>2. CallTypeOK'
  BY CallHasName, DriverAssumption DEF RecordBaseline, Goto, Directories, TypeOK, CallInv, CallTypeOK, appVars,
     history, Steps, Firing, Results, Codes, Inputs, LogEntries, Texts
<1> QED
  BY <1>1, <1>2 DEF TypeOK, AppTypeOK, CallTypeOK

LEMMA AskConsentType ==
  ASSUME TypeOK, CallInv, NEW p \in Procs, AskConsent(p)
  PROVE  TypeOK'
<1>1. AppTypeOK'
  BY DEF AskConsent, appVars, AppTypeOK, TypeOK
<1>2. CallTypeOK'
  <2>1. ControlTypeOK'
    <3>1. "activate" \in Steps /\ "refused" \in Codes
      BY DEF Steps, Firing, Codes
    <3> QED
      BY <3>1, GotoType, RaiseType DEF AskConsent
  <2>2. consented' \in [Procs -> BOOLEAN]
    BY DEF AskConsent, TypeOK
  <2> QED
    BY <2>1, <2>2
       DEF AskConsent, TypeOK, CallTypeOK, ControlTypeOK, history
<1> QED
  BY <1>1, <1>2 DEF TypeOK, AppTypeOK, CallTypeOK

LEMMA FireFailsType ==
  ASSUME TypeOK, CallInv, NEW p \in Procs, FireFails(p)
  PROVE  TypeOK'
<1>1. AppTypeOK'
  BY DEF FireFails, appVars, AppTypeOK, TypeOK
<1>2. CallTypeOK'
  <2>1. ControlTypeOK'
    BY RaiseType DEF FireFails, Codes
  <2>2. typed' \in [Procs -> SUBSET Inputs]
    BY DEF FireFails, Sends, TypeOK, Inputs
  <2> QED
    BY <2>1, <2>2 DEF FireFails, TypeOK, CallTypeOK, ControlTypeOK
<1> QED
  BY <1>1, <1>2 DEF TypeOK, AppTypeOK, CallTypeOK

LEMMA ActivateType ==
  ASSUME TypeOK, CallInv, NEW p \in Procs, Activate(p)
  PROVE  TypeOK'
<1>1. AppTypeOK'
  BY DEF Activate, appVars, AppTypeOK, TypeOK
<1>2. CallTypeOK'
  BY CallHasName, DriverAssumption DEF Activate, Sends, Goto, TypeOK, CallInv, CallTypeOK, appVars,
     history, Steps, Firing, Results, Codes, Inputs, LogEntries, Texts
<1> QED
  BY <1>1, <1>2 DEF TypeOK, AppTypeOK, CallTypeOK

LEMMA GuardClearType ==
  ASSUME TypeOK, CallInv, NEW p \in Procs, GuardClear(p)
  PROVE  TypeOK'
<1>1. AppTypeOK'
  BY DEF GuardClear, Guard, appVars, AppTypeOK, TypeOK
<1>2. CallTypeOK'
  BY CallHasName, DriverAssumption DEF GuardClear, Guard, Raise, Goto, TypeOK, CallInv, CallTypeOK, appVars,
     history, Steps, Firing, Results, Codes, Inputs, LogEntries, Texts
<1> QED
  BY <1>1, <1>2 DEF TypeOK, AppTypeOK, CallTypeOK

LEMMA ClearType ==
  ASSUME TypeOK, CallInv, NEW p \in Procs, Clear(p)
  PROVE  TypeOK'
<1>1. AppTypeOK'
  BY DEF Clear, appVars, AppTypeOK, TypeOK
<1>2. CallTypeOK'
  BY CallHasName, DriverAssumption DEF Clear, Sends, Goto, TypeOK, CallInv, CallTypeOK, appVars,
     history, Steps, Firing, Results, Codes, Inputs, LogEntries, Texts
<1> QED
  BY <1>1, <1>2 DEF TypeOK, AppTypeOK, CallTypeOK

LEMMA OpenLinkType ==
  ASSUME TypeOK, CallInv, NEW p \in Procs, OpenLink(p)
  PROVE  TypeOK'
<1>1. AppTypeOK'
  BY DEF OpenLink, appVars, AppTypeOK, TypeOK
<1>2. CallTypeOK'
  BY CallHasName, DriverAssumption DEF OpenLink, Sends, Goto, TypeOK, CallInv, CallTypeOK, appVars,
     history, Steps, Firing, Results, Codes, Inputs, LogEntries, Texts
<1> QED
  BY <1>1, <1>2 DEF TypeOK, AppTypeOK, CallTypeOK

LEMMA GuardReturnType ==
  ASSUME TypeOK, CallInv, NEW p \in Procs, GuardReturn(p)
  PROVE  TypeOK'
<1>1. AppTypeOK'
  BY DEF GuardReturn, Guard, appVars, AppTypeOK, TypeOK
<1>2. CallTypeOK'
  BY CallHasName, DriverAssumption DEF GuardReturn, Guard, Raise, Goto, TypeOK, CallInv, CallTypeOK, appVars,
     history, Steps, Firing, Results, Codes, Inputs, LogEntries, Texts
<1> QED
  BY <1>1, <1>2 DEF TypeOK, AppTypeOK, CallTypeOK

LEMMA ReturnType ==
  ASSUME TypeOK, CallInv, NEW p \in Procs, Return(p)
  PROVE  TypeOK'
<1>1. AppTypeOK'
  BY CallHasName, ReturnApp DEF Return, appVars, AppTypeOK, TypeOK
<1>2. CallTypeOK'
  BY CallHasName, DriverAssumption DEF Return, Sends, Goto, TypeOK, CallInv, CallTypeOK, appVars,
     history, Steps, Firing, Results, Codes, Inputs, LogEntries, Texts
<1> QED
  BY <1>1, <1>2 DEF TypeOK, AppTypeOK, CallTypeOK

LEMMA DiscoverType ==
  ASSUME TypeOK, CallInv, NEW p \in Procs, Discover(p)
  PROVE  TypeOK'
<1>1. AppTypeOK'
  BY DEF Discover, appVars, AppTypeOK, TypeOK
<1>2. CallTypeOK'
  <2>1. found' \in [Procs -> SessionIds \cup {NoSession}]
    BY DEF Discover, New, Directories, TypeOK
  <2>2. /\ pc' \in [Procs -> Steps]
        /\ result' \in [Procs -> Results]
    BY DEF Discover, Raise, Goto, TypeOK, Steps, Firing, Results, Codes
  <2> QED
    BY <2>1, <2>2 DEF Discover, TypeOK, CallTypeOK, history
<1> QED
  BY <1>1, <1>2 DEF TypeOK, AppTypeOK, CallTypeOK

LEMMA AttributeType ==
  ASSUME TypeOK, CallInv, NEW p \in Procs, Attribute(p)
  PROVE  TypeOK'
<1>1. AppTypeOK'
  BY DEF Attribute, appVars, AppTypeOK, TypeOK
<1>2. CallTypeOK'
  <2>1. ControlTypeOK'
    <3>1. "recordok" \in Steps /\ "mismatch" \in Codes
      BY DEF Steps, Firing, Codes
    <3> QED
      BY <3>1, GotoType, RaiseType DEF Attribute
  <2> QED
    BY <2>1 DEF Attribute, TypeOK, CallTypeOK, ControlTypeOK, history
<1> QED
  BY <1>1, <1>2 DEF TypeOK, AppTypeOK, CallTypeOK

LEMMA AttributeEscapesType ==
  ASSUME TypeOK, CallInv, NEW p \in Procs, AttributeEscapes(p)
  PROVE  TypeOK'
<1>1. AppTypeOK'
  BY DEF AttributeEscapes, appVars, AppTypeOK, TypeOK
<1>2. CallTypeOK'
  BY CallHasName, DriverAssumption DEF AttributeEscapes, Finish, Forget, Goto, TypeOK, CallInv, CallTypeOK, appVars,
     history, Steps, Firing, Results, Codes, Inputs, LogEntries, Texts
<1> QED
  BY <1>1, <1>2 DEF TypeOK, AppTypeOK, CallTypeOK

LEMMA RecordFailureType ==
  ASSUME TypeOK, CallInv, NEW p \in Procs, RecordFailure(p)
  PROVE  TypeOK'
<1>1. AppTypeOK'
  BY DEF RecordFailure, appVars, AppTypeOK, TypeOK
<1>2. CallTypeOK'
  BY CallHasName, DriverAssumption DEF RecordFailure, Finish, Forget, Goto, Line, TypeOK, CallInv, CallTypeOK, appVars,
     history, Steps, Firing, Results, Codes, Inputs, LogEntries, Texts
<1> QED
  BY <1>1, <1>2 DEF TypeOK, AppTypeOK, CallTypeOK

LEMMA RecordSubmittedType ==
  ASSUME TypeOK, CallInv, NEW p \in Procs, RecordSubmitted(p)
  PROVE  TypeOK'
<1>1. AppTypeOK'
  BY DEF RecordSubmitted, appVars, AppTypeOK, TypeOK
<1>2. CallTypeOK'
  <2>1. Line(p, "submitted") \in LogEntries
    BY CallHasName DEF RecordSubmitted, Line, LogEntries, TypeOK
  <2>2. log' \subseteq LogEntries
    BY <2>1 DEF RecordSubmitted, TypeOK
  <2>3. ControlTypeOK'
    <3>1. "wait" \in Steps /\ "submitted" \in Results
      BY DEF Steps, Results
    <3> QED
      BY <3>1, GotoType, FinishType DEF RecordSubmitted
  <2> QED
    BY <2>2, <2>3
       DEF RecordSubmitted, TypeOK, CallTypeOK, ControlTypeOK, history
<1> QED
  BY <1>1, <1>2 DEF TypeOK, AppTypeOK, CallTypeOK

LEMMA RecordEscapesType ==
  ASSUME TypeOK, CallInv, NEW p \in Procs, RecordEscapes(p)
  PROVE  TypeOK'
<1>1. AppTypeOK'
  BY DEF RecordEscapes, appVars, AppTypeOK, TypeOK
<1>2. CallTypeOK'
  BY CallHasName, DriverAssumption DEF RecordEscapes, Finish, Forget, Goto, TypeOK, CallInv, CallTypeOK, appVars,
     history, Steps, Firing, Results, Codes, Inputs, LogEntries, Texts
<1> QED
  BY <1>1, <1>2 DEF TypeOK, AppTypeOK, CallTypeOK

LEMMA WaitType ==
  ASSUME TypeOK, CallInv, NEW p \in Procs, Wait(p)
  PROVE  TypeOK'
<1>1. AppTypeOK'
  BY DEF Wait, appVars, AppTypeOK, TypeOK
<1>2. CallTypeOK'
  <2>1. ControlTypeOK'
    <3>1. "collect" \in Steps /\ "timeout" \in Results
      BY DEF Steps, Results, Codes
    <3> QED
      BY <3>1, GotoType, FinishType DEF Wait
  <2> QED
    BY <2>1 DEF Wait, TypeOK, CallTypeOK, ControlTypeOK, history
<1> QED
  BY <1>1, <1>2 DEF TypeOK, AppTypeOK, CallTypeOK

LEMMA ReadEscapesType ==
  ASSUME TypeOK, CallInv, NEW p \in Procs, ReadEscapes(p)
  PROVE  TypeOK'
<1>1. AppTypeOK'
  BY DEF ReadEscapes, appVars, AppTypeOK, TypeOK
<1>2. CallTypeOK'
  BY CallHasName, DriverAssumption DEF ReadEscapes, Finish, Forget, Goto, TypeOK, CallInv, CallTypeOK, appVars,
     history, Steps, Firing, Results, Codes, Inputs, LogEntries, Texts
<1> QED
  BY <1>1, <1>2 DEF TypeOK, AppTypeOK, CallTypeOK

LEMMA CollectType ==
  ASSUME TypeOK, CallInv, NEW p \in Procs, Collect(p)
  PROVE  TypeOK'
<1>1. AppTypeOK'
  BY DEF Collect, appVars, AppTypeOK, TypeOK
<1>2. CallTypeOK'
  <2>1. [by |-> Me(p), prompt |-> prompt[p], session |-> found[p]] \in
          [by : AttemptIds, prompt : Prompts, session : SessionIds]
    BY CallHasName DEF Collect, CallInv
  <2>2. returned' \subseteq [by : AttemptIds, prompt : Prompts,
                             session : SessionIds]
    BY <2>1 DEF Collect, TypeOK
  <2>3. ControlTypeOK'
    <3>1. "document" \in Results /\ "silent" \in Results
      BY DEF Results, Codes
    <3> QED
      BY <3>1, FinishType DEF Collect
  <2> QED
    BY <2>2, <2>3 DEF Collect, TypeOK, CallTypeOK, ControlTypeOK
<1> QED
  BY <1>1, <1>2 DEF TypeOK, AppTypeOK, CallTypeOK

LEMMA KillType ==
  ASSUME TypeOK, CallInv, NEW p \in Procs, Kill(p)
  PROVE  TypeOK'
<1>1. AppTypeOK'
  BY DEF Kill, appVars, AppTypeOK, TypeOK
<1>2. CallTypeOK'
  <2>1. ControlTypeOK'
    <3>1. "killed" \in Results
      BY DEF Results
    <3> QED
      BY <3>1, FinishType DEF Kill
  <2>2. /\ kills' \in 0 .. MaxKills
        /\ consented' \in [Procs -> BOOLEAN]
    BY DriverAssumption DEF Kill, TypeOK
  <2>3. lost' \subseteq AttemptIds
    BY CallHasName DEF Kill, TypeOK
  <2> QED
    BY <2>1, <2>2, <2>3 DEF Kill, TypeOK, CallTypeOK, ControlTypeOK
<1> QED
  BY <1>1, <1>2 DEF TypeOK, AppTypeOK, CallTypeOK

-----------------------------------------------------------------------------
(* What a call found stays what it was found to be.                        *)

\* No step of the driver takes a record away from a session.
LEMMA DriverKeepsRecords ==
  ASSUME TypeOK, CallInv, NEW p \in Procs, Check(p) \/ Step(p) \/ Kill(p)
  PROVE  RecordsKept
<1>1. CASE Return(p)
  <2>1. CASE front = "CoWork"
    BY <1>1, <2>1, CallHasName, ReturnApp DEF Return, TypeOK, AppTypeOK
  <2>2. CASE front # "CoWork"
    BY <1>1, <2>2 DEF Return, RecordsKept, HasRecord
  <2> QED
    BY <2>1, <2>2
<1>2. CASE ~Return(p)
  <2>1. sess' = sess
    BY <1>2 DEF Step, appVars, Guard, Check, RecordBaseline, AskConsent, FireFails, Activate, GuardClear, Clear, OpenLink, GuardReturn, Discover, Attribute, AttributeEscapes, RecordFailure, RecordSubmitted, RecordEscapes, Wait, ReadEscapes, Collect, Kill
  <2> QED
    BY <2>1 DEF RecordsKept, HasRecord
<1> QED
  BY <1>1, <1>2

LEMMA CheckCall ==
  ASSUME TypeOK, CallInv, RecordsKept, NEW p \in Procs, Check(p)
  PROVE  CallInv'
BY DriverAssumption DEF Check, Refuses, Finish, Forget, Goto, TypeOK, CallInv, RecordsKept, HasRecord, Matches,
   Codes, Firing, Steps, appVars

LEMMA RecordBaselineCall ==
  ASSUME TypeOK, CallInv, RecordsKept, NEW p \in Procs, RecordBaseline(p)
  PROVE  CallInv'
BY DriverAssumption DEF RecordBaseline, Goto, TypeOK, CallInv, RecordsKept, HasRecord, Matches,
   Codes, Firing, Steps, appVars

LEMMA AskConsentCall ==
  ASSUME TypeOK, CallInv, RecordsKept, NEW p \in Procs, AskConsent(p)
  PROVE  CallInv'
BY DriverAssumption DEF AskConsent, Goto, Raise, TypeOK, CallInv, RecordsKept, HasRecord, Matches,
   Codes, Firing, Steps, appVars

LEMMA FireFailsCall ==
  ASSUME TypeOK, CallInv, RecordsKept, NEW p \in Procs, FireFails(p)
  PROVE  CallInv'
BY DriverAssumption DEF FireFails, Raise, Goto, TypeOK, CallInv, RecordsKept, HasRecord, Matches,
   Codes, Firing, Steps, appVars

LEMMA ActivateCall ==
  ASSUME TypeOK, CallInv, RecordsKept, NEW p \in Procs, Activate(p)
  PROVE  CallInv'
BY DriverAssumption DEF Activate, Goto, TypeOK, CallInv, RecordsKept, HasRecord, Matches,
   Codes, Firing, Steps, appVars

LEMMA GuardClearCall ==
  ASSUME TypeOK, CallInv, RecordsKept, NEW p \in Procs, GuardClear(p)
  PROVE  CallInv'
BY DriverAssumption DEF GuardClear, Guard, Raise, Goto, TypeOK, CallInv, RecordsKept, HasRecord, Matches,
   Codes, Firing, Steps, appVars

LEMMA ClearCall ==
  ASSUME TypeOK, CallInv, RecordsKept, NEW p \in Procs, Clear(p)
  PROVE  CallInv'
BY DriverAssumption DEF Clear, Goto, TypeOK, CallInv, RecordsKept, HasRecord, Matches,
   Codes, Firing, Steps, appVars

LEMMA OpenLinkCall ==
  ASSUME TypeOK, CallInv, RecordsKept, NEW p \in Procs, OpenLink(p)
  PROVE  CallInv'
BY DriverAssumption DEF OpenLink, Goto, TypeOK, CallInv, RecordsKept, HasRecord, Matches,
   Codes, Firing, Steps, appVars

LEMMA GuardReturnCall ==
  ASSUME TypeOK, CallInv, RecordsKept, NEW p \in Procs, GuardReturn(p)
  PROVE  CallInv'
BY DriverAssumption DEF GuardReturn, Guard, Raise, Goto, TypeOK, CallInv, RecordsKept, HasRecord, Matches,
   Codes, Firing, Steps, appVars

LEMMA ReturnCall ==
  ASSUME TypeOK, CallInv, RecordsKept, NEW p \in Procs, Return(p)
  PROVE  CallInv'
BY DriverAssumption DEF Return, Goto, TypeOK, CallInv, RecordsKept, HasRecord, Matches,
   Codes, Firing, Steps, appVars

LEMMA DiscoverCall ==
  ASSUME TypeOK, CallInv, RecordsKept, NEW p \in Procs, Discover(p)
  PROVE  CallInv'
BY DriverAssumption DEF Discover, Raise, Goto, New, Directories, TypeOK, CallInv, RecordsKept, HasRecord, Matches,
   Codes, Firing, Steps, appVars

LEMMA AttributeCall ==
  ASSUME TypeOK, CallInv, RecordsKept, NEW p \in Procs, Attribute(p)
  PROVE  CallInv'
BY DriverAssumption DEF Attribute, Raise, Goto, TypeOK, CallInv, RecordsKept, HasRecord, Matches,
   Codes, Firing, Steps, appVars

LEMMA AttributeEscapesCall ==
  ASSUME TypeOK, CallInv, RecordsKept, NEW p \in Procs, AttributeEscapes(p)
  PROVE  CallInv'
BY DriverAssumption DEF AttributeEscapes, Finish, Forget, Goto, TypeOK, CallInv, RecordsKept, HasRecord, Matches,
   Codes, Firing, Steps, appVars

LEMMA RecordFailureCall ==
  ASSUME TypeOK, CallInv, RecordsKept, NEW p \in Procs, RecordFailure(p)
  PROVE  CallInv'
BY DriverAssumption DEF RecordFailure, Finish, Forget, Goto, TypeOK, CallInv, RecordsKept, HasRecord, Matches,
   Codes, Firing, Steps, appVars

LEMMA RecordSubmittedCall ==
  ASSUME TypeOK, CallInv, RecordsKept, NEW p \in Procs, RecordSubmitted(p)
  PROVE  CallInv'
BY DriverAssumption DEF RecordSubmitted, Finish, Forget, Goto, TypeOK, CallInv, RecordsKept, HasRecord, Matches,
   Codes, Firing, Steps, appVars

LEMMA RecordEscapesCall ==
  ASSUME TypeOK, CallInv, RecordsKept, NEW p \in Procs, RecordEscapes(p)
  PROVE  CallInv'
BY DriverAssumption DEF RecordEscapes, Finish, Forget, Goto, TypeOK, CallInv, RecordsKept, HasRecord, Matches,
   Codes, Firing, Steps, appVars

LEMMA WaitCall ==
  ASSUME TypeOK, CallInv, RecordsKept, NEW p \in Procs, Wait(p)
  PROVE  CallInv'
BY DriverAssumption DEF Wait, Finish, Forget, Goto, TypeOK, CallInv, RecordsKept, HasRecord, Matches,
   Codes, Firing, Steps, appVars

LEMMA ReadEscapesCall ==
  ASSUME TypeOK, CallInv, RecordsKept, NEW p \in Procs, ReadEscapes(p)
  PROVE  CallInv'
BY DriverAssumption DEF ReadEscapes, Finish, Forget, Goto, TypeOK, CallInv, RecordsKept, HasRecord, Matches,
   Codes, Firing, Steps, appVars

LEMMA CollectCall ==
  ASSUME TypeOK, CallInv, RecordsKept, NEW p \in Procs, Collect(p)
  PROVE  CallInv'
BY DriverAssumption DEF Collect, Finish, Forget, Goto, TypeOK, CallInv, RecordsKept, HasRecord, Matches,
   Codes, Firing, Steps, appVars

LEMMA KillCall ==
  ASSUME TypeOK, CallInv, RecordsKept, NEW p \in Procs, Kill(p)
  PROVE  CallInv'
BY DriverAssumption DEF Kill, Finish, Forget, Goto, TypeOK, CallInv, RecordsKept, HasRecord, Matches,
   Codes, Firing, Steps, appVars

\* A document is of a recorded session with the submitted prompt.
LEMMA ReturnedStays ==
  ASSUME TypeOK, CallInv, RecordsKept, AlteredPromptNeverReturned,
         NEW p \in Procs, Check(p) \/ Step(p) \/ Kill(p)
  PROVE  AlteredPromptNeverReturned'
<1>1. CASE Collect(p)
  <2>1. \A d \in returned' :
          \/ d \in returned
          \/ d = [by |-> Me(p), prompt |-> prompt[p], session |-> found[p]]
    BY <1>1 DEF Collect
  <2>2. /\ found[p] \in SessionIds
        /\ HasRecord(found[p])
        /\ sess[found[p]].prompt = prompt[p]
    BY <1>1 DEF Collect, CallInv, Matches
  <2>3. \A d \in returned : d.session \in SessionIds
    BY DEF TypeOK
  <2> QED
    BY <2>1, <2>2, <2>3 DEF AlteredPromptNeverReturned, RecordsKept
<1>2. CASE ~Collect(p)
  <2>1. returned' = returned
    BY <1>2 DEF Step, Guard, history, Return, Check, RecordBaseline, AskConsent, FireFails, Activate, GuardClear, Clear, OpenLink, GuardReturn, Discover, Attribute, AttributeEscapes, RecordFailure, RecordSubmitted, RecordEscapes, Wait, ReadEscapes, Kill
  <2>2. \A d \in returned : d.session \in SessionIds
    BY DEF TypeOK
  <2> QED
    BY <2>1, <2>2 DEF AlteredPromptNeverReturned, RecordsKept
<1> QED
  BY <1>1, <1>2

-----------------------------------------------------------------------------
(* A call fires once.                                                      *)

\* The one step that fires.
LEMMA ReturnFires ==
  ASSUME TypeOK, CallInv, FiringInv, NEW p \in Procs, Return(p)
  PROVE  FiringInv'
<1>1. IsFiniteSet(log')
  BY DEF Return, FiringInv
<1>2. fired' = fired \cup {[by |-> Me(p), day |-> day]}
  BY DEF Return
<1>3. \A f \in fired' : f.by[2] <= attempt'[f.by[1]]
  BY <1>2, DriverAssumption DEF Return, FiringInv, Me, TypeOK
<1>4. ASSUME NEW q \in Procs
      PROVE  /\ pc'[q] \in Firing =>
                  ("return" \in typed'[q] <=> \E f \in fired' : f.by = Me(q)')
             /\ \/ pc'[q] \in BeforeReturn
                \/ pc'[q] = "record" /\ result'[q] = "refused"
                => "return" \notin typed'[q]
  <2>1. Me(q)' = Me(q)
    BY DEF Return, Me
  <2>2. CASE q = p
    <3>1. pc'[p] = "discover" /\ "return" \in typed'[p]
      BY DEF Return, Goto, Sends, TypeOK
    <3>2. [by |-> Me(p), day |-> day] \in fired'
      BY <1>2
    <3>3. \E f \in fired' : f.by = Me(p)
      BY <3>2
    <3> QED
      BY <2>1, <2>2, <3>1, <3>3 DEF BeforeReturn
  <2>3. CASE q # p
    <3>1. Me(q) # Me(p)
      BY <2>3 DEF Me
    <3>2. pc'[q] = pc[q] /\ typed'[q] = typed[q] /\ result'[q] = result[q]
      BY <2>3 DEF Return, Goto, Sends, TypeOK
    <3> QED
      BY <1>2, <2>1, <3>1, <3>2 DEF FiringInv
  <2> QED
    BY <2>2, <2>3
<1> QED
  BY <1>1, <1>3, <1>4 DEF FiringInv

\* A new call has not fired.
LEMMA CheckFires ==
  ASSUME TypeOK, CallInv, FiringInv, NEW p \in Procs, Check(p)
  PROVE  FiringInv'
<1>1. IsFiniteSet(log') /\ fired' = fired
  BY DEF Check, FiringInv
<1>2. \A f \in fired : f.by[1] \in Procs /\ f.by[2] \in Nat
  BY DEF TypeOK, AttemptIds
<1>3. \A q \in Procs : attempt'[q] = IF q = p THEN attempt[p] + 1 ELSE attempt[q]
  BY DEF Check, TypeOK
<1>4. \A q \in Procs : attempt[q] \in Nat
  BY DriverAssumption DEF TypeOK
<1>5. \A f \in fired : f.by[2] <= attempt'[f.by[1]]
  BY <1>2, <1>3, <1>4 DEF FiringInv
<1>6. ASSUME NEW q \in Procs
      PROVE  /\ pc'[q] \in Firing =>
                  ("return" \in typed'[q] <=> \E f \in fired : f.by = Me(q)')
             /\ \/ pc'[q] \in BeforeReturn
                \/ pc'[q] = "record" /\ result'[q] = "refused"
                => "return" \notin typed'[q]
  <2>1. CASE q = p
    <3>1. typed'[p] = {}
      BY DEF Check, TypeOK
    <3>2. Me(p)' = <<p, attempt[p] + 1>>
      BY <1>3 DEF Me
    <3>3. \A f \in fired : f.by # Me(p)'
      BY <1>2, <1>4, <3>2 DEF FiringInv
    <3> QED
      BY <2>1, <3>1, <3>3
  <2>2. CASE q # p
    <3>1. Me(q)' = Me(q)
      BY <1>3, <2>2 DEF Me
    <3>2. pc'[q] = pc[q] /\ typed'[q] = typed[q] /\ result'[q] = result[q]
      BY <2>2 DEF Check, Finish, Forget, Goto, TypeOK
    <3> QED
      BY <3>1, <3>2 DEF FiringInv
  <2> QED
    BY <2>1, <2>2
<1> QED
  BY <1>1, <1>5, <1>6 DEF FiringInv

LEMMA RecordBaselineFires ==
  ASSUME TypeOK, CallInv, FiringInv, NEW p \in Procs, RecordBaseline(p)
  PROVE  FiringInv'
<1>1. IsFiniteSet(log') /\ fired' = fired /\ attempt' = attempt
  BY FS_AddElement DEF RecordBaseline, Line, history, FiringInv
<1>2. \A q \in Procs : Me(q)' = Me(q)
  BY <1>1 DEF Me
<1> QED
  BY <1>1, <1>2 DEF RecordBaseline, Goto, history, FiringInv, TypeOK, Inputs, BeforeReturn,
     Firing, Codes

LEMMA AskConsentFires ==
  ASSUME TypeOK, CallInv, FiringInv, NEW p \in Procs, AskConsent(p)
  PROVE  FiringInv'
<1>1. IsFiniteSet(log') /\ fired' = fired /\ attempt' = attempt
  BY FS_AddElement DEF AskConsent, Line, history, FiringInv
<1>2. \A q \in Procs : Me(q)' = Me(q)
  BY <1>1 DEF Me
<1> QED
  BY <1>1, <1>2 DEF AskConsent, Goto, Raise, history, FiringInv, TypeOK, Inputs, BeforeReturn,
     Firing, Codes

LEMMA FireFailsFires ==
  ASSUME TypeOK, CallInv, FiringInv, NEW p \in Procs, FireFails(p)
  PROVE  FiringInv'
<1>1. log' = log /\ fired' = fired /\ attempt' = attempt
  BY DEF FireFails
<1>2. \A q \in Procs : Me(q)' = Me(q)
  BY <1>1 DEF Me
<1>3. \A q \in Procs : "return" \in typed'[q] <=> "return" \in typed[q]
  BY DEF FireFails, Sends, TypeOK
<1>4. \A q \in Procs \ {p} : pc'[q] = pc[q] /\ result'[q] = result[q]
  BY DEF FireFails, Raise, Goto, TypeOK
<1>5. pc[p] \in BeforeReturn /\ pc'[p] = "record"
  BY DEF FireFails, Raise, Goto, TypeOK, BeforeReturn
<1> QED
  BY <1>1, <1>2, <1>3, <1>4, <1>5 DEF FiringInv, BeforeReturn, Firing

LEMMA ActivateFires ==
  ASSUME TypeOK, CallInv, FiringInv, NEW p \in Procs, Activate(p)
  PROVE  FiringInv'
<1>1. IsFiniteSet(log') /\ fired' = fired /\ attempt' = attempt
  BY FS_AddElement DEF Activate, Line, history, FiringInv
<1>2. \A q \in Procs : Me(q)' = Me(q)
  BY <1>1 DEF Me
<1> QED
  BY <1>1, <1>2 DEF Activate, Goto, Sends, history, FiringInv, TypeOK, Inputs, BeforeReturn,
     Firing, Codes

LEMMA GuardClearFires ==
  ASSUME TypeOK, CallInv, FiringInv, NEW p \in Procs, GuardClear(p)
  PROVE  FiringInv'
<1>1. IsFiniteSet(log') /\ fired' = fired /\ attempt' = attempt
  BY FS_AddElement DEF GuardClear, Guard, Line, history, FiringInv
<1>2. \A q \in Procs : Me(q)' = Me(q)
  BY <1>1 DEF Me
<1> QED
  BY <1>1, <1>2 DEF GuardClear, Guard, Raise, Goto, history, FiringInv, TypeOK, Inputs, BeforeReturn,
     Firing, Codes

LEMMA ClearFires ==
  ASSUME TypeOK, CallInv, FiringInv, NEW p \in Procs, Clear(p)
  PROVE  FiringInv'
<1>1. IsFiniteSet(log') /\ fired' = fired /\ attempt' = attempt
  BY FS_AddElement DEF Clear, Line, history, FiringInv
<1>2. \A q \in Procs : Me(q)' = Me(q)
  BY <1>1 DEF Me
<1> QED
  BY <1>1, <1>2 DEF Clear, Goto, Sends, history, FiringInv, TypeOK, Inputs, BeforeReturn,
     Firing, Codes

LEMMA OpenLinkFires ==
  ASSUME TypeOK, CallInv, FiringInv, NEW p \in Procs, OpenLink(p)
  PROVE  FiringInv'
<1>1. IsFiniteSet(log') /\ fired' = fired /\ attempt' = attempt
  BY FS_AddElement DEF OpenLink, Line, history, FiringInv
<1>2. \A q \in Procs : Me(q)' = Me(q)
  BY <1>1 DEF Me
<1> QED
  BY <1>1, <1>2 DEF OpenLink, Goto, Sends, history, FiringInv, TypeOK, Inputs, BeforeReturn,
     Firing, Codes

LEMMA GuardReturnFires ==
  ASSUME TypeOK, CallInv, FiringInv, NEW p \in Procs, GuardReturn(p)
  PROVE  FiringInv'
<1>1. IsFiniteSet(log') /\ fired' = fired /\ attempt' = attempt
  BY FS_AddElement DEF GuardReturn, Guard, Line, history, FiringInv
<1>2. \A q \in Procs : Me(q)' = Me(q)
  BY <1>1 DEF Me
<1> QED
  BY <1>1, <1>2 DEF GuardReturn, Guard, Raise, Goto, history, FiringInv, TypeOK, Inputs, BeforeReturn,
     Firing, Codes

LEMMA DiscoverFires ==
  ASSUME TypeOK, CallInv, FiringInv, NEW p \in Procs, Discover(p)
  PROVE  FiringInv'
<1>1. IsFiniteSet(log') /\ fired' = fired /\ attempt' = attempt
  BY FS_AddElement DEF Discover, Line, history, FiringInv
<1>2. \A q \in Procs : Me(q)' = Me(q)
  BY <1>1 DEF Me
<1> QED
  BY <1>1, <1>2 DEF Discover, Raise, Goto, history, FiringInv, TypeOK, Inputs, BeforeReturn,
     Firing, Codes

LEMMA AttributeFires ==
  ASSUME TypeOK, CallInv, FiringInv, NEW p \in Procs, Attribute(p)
  PROVE  FiringInv'
<1>1. IsFiniteSet(log') /\ fired' = fired /\ attempt' = attempt
  BY FS_AddElement DEF Attribute, Line, history, FiringInv
<1>2. \A q \in Procs : Me(q)' = Me(q)
  BY <1>1 DEF Me
<1> QED
  BY <1>1, <1>2 DEF Attribute, Raise, Goto, history, FiringInv, TypeOK, Inputs, BeforeReturn,
     Firing, Codes

LEMMA AttributeEscapesFires ==
  ASSUME TypeOK, CallInv, FiringInv, NEW p \in Procs, AttributeEscapes(p)
  PROVE  FiringInv'
<1>1. IsFiniteSet(log') /\ fired' = fired /\ attempt' = attempt
  BY FS_AddElement DEF AttributeEscapes, Line, history, FiringInv
<1>2. \A q \in Procs : Me(q)' = Me(q)
  BY <1>1 DEF Me
<1> QED
  BY <1>1, <1>2 DEF AttributeEscapes, Finish, Forget, Goto, history, FiringInv, TypeOK, Inputs, BeforeReturn,
     Firing, Codes

LEMMA RecordFailureFires ==
  ASSUME TypeOK, CallInv, FiringInv, NEW p \in Procs, RecordFailure(p)
  PROVE  FiringInv'
<1>1. IsFiniteSet(log') /\ fired' = fired /\ attempt' = attempt
  BY FS_AddElement DEF RecordFailure, Line, history, FiringInv
<1>2. \A q \in Procs : Me(q)' = Me(q)
  BY <1>1 DEF Me
<1> QED
  BY <1>1, <1>2 DEF RecordFailure, Finish, Forget, Goto, history, FiringInv, TypeOK, Inputs, BeforeReturn,
     Firing, Codes

LEMMA RecordSubmittedFires ==
  ASSUME TypeOK, CallInv, FiringInv, NEW p \in Procs, RecordSubmitted(p)
  PROVE  FiringInv'
<1>1. IsFiniteSet(log') /\ fired' = fired /\ attempt' = attempt
  BY FS_AddElement DEF RecordSubmitted, Line, history, FiringInv
<1>2. \A q \in Procs : Me(q)' = Me(q)
  BY <1>1 DEF Me
<1> QED
  BY <1>1, <1>2 DEF RecordSubmitted, Finish, Forget, Goto, history, FiringInv, TypeOK, Inputs, BeforeReturn,
     Firing, Codes

LEMMA RecordEscapesFires ==
  ASSUME TypeOK, CallInv, FiringInv, NEW p \in Procs, RecordEscapes(p)
  PROVE  FiringInv'
<1>1. IsFiniteSet(log') /\ fired' = fired /\ attempt' = attempt
  BY FS_AddElement DEF RecordEscapes, Line, history, FiringInv
<1>2. \A q \in Procs : Me(q)' = Me(q)
  BY <1>1 DEF Me
<1> QED
  BY <1>1, <1>2 DEF RecordEscapes, Finish, Forget, Goto, history, FiringInv, TypeOK, Inputs, BeforeReturn,
     Firing, Codes

LEMMA WaitFires ==
  ASSUME TypeOK, CallInv, FiringInv, NEW p \in Procs, Wait(p)
  PROVE  FiringInv'
<1>1. IsFiniteSet(log') /\ fired' = fired /\ attempt' = attempt
  BY FS_AddElement DEF Wait, Line, history, FiringInv
<1>2. \A q \in Procs : Me(q)' = Me(q)
  BY <1>1 DEF Me
<1> QED
  BY <1>1, <1>2 DEF Wait, Finish, Forget, Goto, history, FiringInv, TypeOK, Inputs, BeforeReturn,
     Firing, Codes

LEMMA ReadEscapesFires ==
  ASSUME TypeOK, CallInv, FiringInv, NEW p \in Procs, ReadEscapes(p)
  PROVE  FiringInv'
<1>1. IsFiniteSet(log') /\ fired' = fired /\ attempt' = attempt
  BY FS_AddElement DEF ReadEscapes, Line, history, FiringInv
<1>2. \A q \in Procs : Me(q)' = Me(q)
  BY <1>1 DEF Me
<1> QED
  BY <1>1, <1>2 DEF ReadEscapes, Finish, Forget, Goto, history, FiringInv, TypeOK, Inputs, BeforeReturn,
     Firing, Codes

LEMMA CollectFires ==
  ASSUME TypeOK, CallInv, FiringInv, NEW p \in Procs, Collect(p)
  PROVE  FiringInv'
<1>1. IsFiniteSet(log') /\ fired' = fired /\ attempt' = attempt
  BY FS_AddElement DEF Collect, Line, history, FiringInv
<1>2. \A q \in Procs : Me(q)' = Me(q)
  BY <1>1 DEF Me
<1> QED
  BY <1>1, <1>2 DEF Collect, Finish, Forget, Goto, history, FiringInv, TypeOK, Inputs, BeforeReturn,
     Firing, Codes

LEMMA KillFires ==
  ASSUME TypeOK, CallInv, FiringInv, NEW p \in Procs, Kill(p)
  PROVE  FiringInv'
<1>1. IsFiniteSet(log') /\ fired' = fired /\ attempt' = attempt
  BY FS_AddElement DEF Kill, Line, history, FiringInv
<1>2. \A q \in Procs : Me(q)' = Me(q)
  BY <1>1 DEF Me
<1> QED
  BY <1>1, <1>2 DEF Kill, Finish, Forget, Goto, history, FiringInv, TypeOK, Inputs, BeforeReturn,
     Firing, Codes

-----------------------------------------------------------------------------
(* The invariant.                                                          *)

LEMMA InitIInv == Init => IInv
<1> SUFFICES ASSUME Init PROVE IInv
  OBVIOUS
<1>1. TypeOK
  BY DriverAssumption DEF Init, AppInit, TypeOK, Texts, Stages, Steps, Results
<1>2. CallInv /\ AlteredPromptNeverReturned
  BY DEF Init, CallInv, AlteredPromptNeverReturned
<1>3. FiringInv
  BY FS_EmptySet DEF Init, FiringInv, Firing, BeforeReturn
<1> QED
  BY <1>1, <1>2, <1>3 DEF IInv

\* Each step of a process.
LEMMA ProcessIInv ==
  ASSUME IInv, NEW p \in Procs, Check(p) \/ Step(p) \/ Kill(p)
  PROVE  IInv'
<1>1. TypeOK /\ CallInv /\ FiringInv /\ AlteredPromptNeverReturned
  BY DEF IInv
<1>2. RecordsKept
  BY <1>1, DriverKeepsRecords
<1>3. TypeOK'
  BY <1>1,
     CheckType, RecordBaselineType, AskConsentType, FireFailsType,
     ActivateType, GuardClearType, ClearType, OpenLinkType,
     GuardReturnType, ReturnType, DiscoverType, AttributeType,
     AttributeEscapesType, RecordFailureType, RecordSubmittedType, RecordEscapesType,
     WaitType, ReadEscapesType, CollectType, KillType DEF Step
<1>4. CallInv'
  BY <1>1, <1>2,
     CheckCall, RecordBaselineCall, AskConsentCall, FireFailsCall,
     ActivateCall, GuardClearCall, ClearCall, OpenLinkCall,
     GuardReturnCall, ReturnCall, DiscoverCall, AttributeCall,
     AttributeEscapesCall, RecordFailureCall, RecordSubmittedCall, RecordEscapesCall,
     WaitCall, ReadEscapesCall, CollectCall, KillCall DEF Step
<1>5. FiringInv'
  BY <1>1,
     CheckFires, RecordBaselineFires, AskConsentFires,
     FireFailsFires, ActivateFires, GuardClearFires, ClearFires,
     OpenLinkFires, GuardReturnFires, ReturnFires, DiscoverFires,
     AttributeFires, AttributeEscapesFires, RecordFailureFires,
     RecordSubmittedFires, RecordEscapesFires, WaitFires, ReadEscapesFires,
     CollectFires, KillFires DEF Step
<1>6. AlteredPromptNeverReturned'
  BY <1>1, <1>2, ReturnedStays
<1> QED
  BY <1>3, <1>4, <1>5, <1>6 DEF IInv

\* The steps of nobody's call.
LEMMA OutsideIInv ==
  ASSUME IInv, Tick \/ Environment \/ UNCHANGED vars
  PROVE  IInv'
<1>1. AppTypeOK' /\ RecordsKept
  <2>1. AppTypeOK
    BY DEF IInv, TypeOK, AppTypeOK
  <2>2. CASE Environment
    BY <2>1, <2>2, AppSteps DEF Environment
  <2>3. CASE UNCHANGED appVars
    BY <2>1, <2>3 DEF appVars, AppTypeOK, RecordsKept, HasRecord
  <2> QED
    BY <2>2, <2>3 DEF Tick, vars
<1>2. UNCHANGED <<localVars, history, log, kills>>
  BY DEF Tick, Environment, vars
<1>3. day' \in 0 .. MaxDay
  BY DriverAssumption DEF Tick, Environment, vars, IInv, TypeOK
<1>4. TypeOK'
  BY <1>1, <1>2, <1>3 DEF IInv, TypeOK, AppTypeOK, localVars, history
<1>5. CallInv'
  BY <1>1, <1>2 DEF IInv, CallInv, RecordsKept, Matches, localVars, history
<1>6. FiringInv'
  BY <1>2 DEF IInv, FiringInv, Me, localVars, history
<1>7. AlteredPromptNeverReturned'
  BY <1>1, <1>2 DEF IInv, AlteredPromptNeverReturned, RecordsKept, TypeOK,
     localVars, history
<1> QED
  BY <1>4, <1>5, <1>6, <1>7 DEF IInv

LEMMA NextIInv == IInv /\ [Next]_vars => IInv'
BY ProcessIInv, OutsideIInv DEF Next

\* In every behaviour of the driver, each call knows what it found, fires at
\* most once, and returns only what it was asked for.
THEOREM DriverInvariant == Spec => []IInv
<1> QED
  BY InitIInv, NextIInv, PTL DEF Spec

\* An altered prompt is never collected, with any number of processes typing
\* into the same composer.
THEOREM AlteredPromptIsNeverReturned == Spec => []AlteredPromptNeverReturned
<1>1. IInv => AlteredPromptNeverReturned
  BY DEF IInv
<1> QED
  BY <1>1, DriverInvariant, PTL
-----------------------------------------------------------------------------
(* What a call promises to whoever looks at the desktop and at the log.            *)

\* A refused call has sent nothing, no call has a line before its last step, and what
\* is sent was consented to.
Promise(p) ==
  /\ \/ pc[p] \in {"baseline", "consent"}
     \/ pc[p] \in {"record", "idle"} /\ result[p] = "refused"
     => typed[p] = {}
  /\ pc[p] \in Firing \/ (pc[p] = "idle" /\ result[p] = "refused") =>
       \A e \in log : e.by # Me(p)
  /\ \/ pc[p] \notin {"idle", "baseline", "consent", "record"}
     \/ typed[p] # {} /\ pc[p] # "idle"
     => Consent = "none" \/ consented[p]

\* A line is of a call that was made.
LinesAreOfCalls == \A e \in log : e.by[2] <= attempt[e.by[1]]

PromiseInv ==
  LinesAreOfCalls /\ SubmissionsAreLogged /\ (\A p \in Procs : Promise(p))

\* A step of p moves nothing of another process, and adds no line but its own.
Apart(p) ==
  /\ \A q \in Procs \ {p} :
       /\ pc'[q] = pc[q] /\ attempt'[q] = attempt[q] /\ result'[q] = result[q]
       /\ typed'[q] = typed[q] /\ consented'[q] = consented[q]
  /\ log \subseteq log'
  /\ \A e \in log' : e \in log \/ e.by = Me(p)

LEMMA StepsAreApart ==
  ASSUME TypeOK, NEW p \in Procs, Check(p) \/ Step(p) \/ Kill(p)
  PROVE  Apart(p)
<1> USE DEF TypeOK, Goto, Raise, Finish, Forget, Sends, Guard, history, Line, Apart
<1>1. CASE Check(p)
  BY <1>1 DEF Check
<1>2. CASE RecordBaseline(p)
  BY <1>2 DEF RecordBaseline
<1>3. CASE AskConsent(p)
  BY <1>3 DEF AskConsent
<1>4. CASE FireFails(p)
  BY <1>4 DEF FireFails
<1>5. CASE Activate(p)
  BY <1>5 DEF Activate
<1>6. CASE GuardClear(p)
  BY <1>6 DEF GuardClear
<1>7. CASE Clear(p)
  BY <1>7 DEF Clear
<1>8. CASE OpenLink(p)
  BY <1>8 DEF OpenLink
<1>9. CASE GuardReturn(p)
  BY <1>9 DEF GuardReturn
<1>10. CASE Return(p)
  BY <1>10 DEF Return
<1>11. CASE Discover(p)
  BY <1>11 DEF Discover
<1>12. CASE Attribute(p)
  BY <1>12 DEF Attribute
<1>13. CASE AttributeEscapes(p)
  BY <1>13 DEF AttributeEscapes
<1>14. CASE RecordFailure(p)
  BY <1>14 DEF RecordFailure
<1>15. CASE RecordSubmitted(p)
  BY <1>15 DEF RecordSubmitted
<1>16. CASE Wait(p)
  BY <1>16 DEF Wait
<1>17. CASE ReadEscapes(p)
  BY <1>17 DEF ReadEscapes
<1>18. CASE Collect(p)
  BY <1>18 DEF Collect
<1>19. CASE Kill(p)
  BY <1>19 DEF Kill
<1>20. CASE RecordEscapes(p)
  BY <1>20 DEF RecordEscapes
<1> QED
  BY <1>1, <1>2, <1>3, <1>4, <1>5, <1>6, <1>7, <1>8, <1>9, <1>10, <1>11, <1>12, <1>13, <1>14, <1>15, <1>16, <1>17, <1>18, <1>19, <1>20 DEF Step

LEMMA OthersKeepPromises ==
  ASSUME NEW p \in Procs, NEW q \in Procs \ {p}, Apart(p), Promise(q)
  PROVE  Promise(q)'
<1>1. Me(q)' = Me(q) /\ Me(q) # Me(p)
  BY DEF Apart, Me
<1>2. /\ pc'[q] = pc[q] /\ result'[q] = result[q]
      /\ typed'[q] = typed[q] /\ consented'[q] = consented[q]
      /\ \A e \in log' : e \in log \/ e.by = Me(p)
  BY DEF Apart
<1> QED
  BY <1>1, <1>2 DEF Promise

LEMMA CallsKeepPromises ==
  ASSUME TypeOK, CallInv, LinesAreOfCalls, NEW p \in Procs, Promise(p),
         Check(p) \/ Step(p) \/ Kill(p)
  PROVE  Promise(p)'
<1> USE DEF TypeOK, Promise, Goto, Raise, Finish, Forget, Sends, Guard, history, Firing, Me, Steps
<1>1. CASE Check(p)
  <2>1. attempt[p] \in Nat /\ attempt'[p] = attempt[p] + 1 /\ log' = log /\ typed'[p] = {}
    BY <1>1, DriverAssumption DEF Check
  <2>2. \A e \in log : e.by \in Procs \X Nat
    BY DEF LogEntries, AttemptIds
  <2>3. \A e \in log' : e.by # <<p, attempt[p] + 1>>
    BY <2>1, <2>2 DEF LinesAreOfCalls
  <2>4. pc'[p] \in {"idle", "baseline"} /\ consented'[p] = consented[p]
    BY <1>1 DEF Check
  <2> QED
    BY <2>1, <2>3, <2>4
<1>2. CASE RecordBaseline(p)
  BY <1>2 DEF RecordBaseline
<1>3. CASE AskConsent(p)
  BY <1>3 DEF AskConsent
<1>4. CASE FireFails(p)
  BY <1>4 DEF FireFails
<1>5. CASE Activate(p)
  BY <1>5 DEF Activate
<1>6. CASE GuardClear(p)
  BY <1>6 DEF GuardClear
<1>7. CASE Clear(p)
  BY <1>7 DEF Clear
<1>8. CASE OpenLink(p)
  BY <1>8 DEF OpenLink
<1>9. CASE GuardReturn(p)
  BY <1>9 DEF GuardReturn
<1>10. CASE Return(p)
  BY <1>10 DEF Return
<1>11. CASE Discover(p)
  BY <1>11 DEF Discover
<1>12. CASE Attribute(p)
  BY <1>12 DEF Attribute
<1>13. CASE AttributeEscapes(p)
  BY <1>13 DEF AttributeEscapes
<1>14. CASE RecordFailure(p)
  BY <1>14 DEF RecordFailure
<1>15. CASE RecordSubmitted(p)
  BY <1>15 DEF RecordSubmitted
<1>16. CASE Wait(p)
  BY <1>16 DEF Wait
<1>17. CASE ReadEscapes(p)
  BY <1>17 DEF ReadEscapes
<1>18. CASE Collect(p)
  BY <1>18 DEF Collect
<1>19. CASE Kill(p)
  BY <1>19 DEF Kill
<1>20. CASE RecordEscapes(p)
  BY <1>20 DEF RecordEscapes
<1> QED
  BY <1>1, <1>2, <1>3, <1>4, <1>5, <1>6, <1>7, <1>8, <1>9, <1>10, <1>11, <1>12, <1>13, <1>14, <1>15, <1>16, <1>17, <1>18, <1>19, <1>20 DEF Step

LEMMA OwnSubmission ==
  ASSUME TypeOK, CallInv, FiringInv, NEW p \in Procs, pc[p] \in Firing,
         NEW f \in fired, f.by = Me(p), Step(p) \/ Kill(p)
  PROVE  \/ \E e \in log' : e.by = f.by
         \/ f.by \in lost'
         \/ f.by = Me(p)' /\ pc'[p] \in Firing
<1>1. "return" \in typed[p]
  BY DEF FiringInv
<1>2. ~(pc[p] = "record" /\ result[p] = "refused")
  BY <1>1 DEF FiringInv
<1> USE DEF TypeOK, Goto, Raise, Finish, Guard, Firing, Me
<1>3. CASE RecordBaseline(p)
  BY <1>3 DEF RecordBaseline, history
<1>4. CASE AskConsent(p)
  BY <1>4 DEF AskConsent, history
<1>5. CASE FireFails(p)
  BY <1>5 DEF FireFails, history
<1>6. CASE Activate(p)
  BY <1>6 DEF Activate, history
<1>7. CASE GuardClear(p)
  BY <1>7 DEF GuardClear, history
<1>8. CASE Clear(p)
  BY <1>8 DEF Clear, history
<1>9. CASE OpenLink(p)
  BY <1>9 DEF OpenLink, history
<1>10. CASE GuardReturn(p)
  BY <1>10 DEF GuardReturn, history
<1>11. CASE Return(p)
  BY <1>11 DEF Return, history
<1>12. CASE Discover(p)
  BY <1>12 DEF Discover, history
<1>13. CASE Attribute(p)
  BY <1>13 DEF Attribute, history
<1>14. CASE AttributeEscapes(p)
  BY <1>14 DEF AttributeEscapes, history
<1>15. CASE RecordFailure(p)
  <2>1. Line(p, result[p]) \in log'
    BY <1>15, <1>2 DEF RecordFailure
  <2>2. Line(p, result[p]).by = f.by
    BY DEF Line
  <2> QED
    BY <2>1, <2>2
<1>16. CASE RecordSubmitted(p)
  <2>1. Line(p, "submitted") \in log'
    BY <1>16, <1>2 DEF RecordSubmitted
  <2>2. Line(p, "submitted").by = f.by
    BY DEF Line
  <2> QED
    BY <2>1, <2>2
<1>17. CASE Wait(p)
  BY <1>17 DEF Wait, history
<1>18. CASE ReadEscapes(p)
  BY <1>18 DEF ReadEscapes, history
<1>19. CASE Collect(p)
  BY <1>19 DEF Collect, history
<1>20. CASE Kill(p)
  BY <1>20, <1>1 DEF Kill
<1>21. CASE RecordEscapes(p)
  BY <1>21, <1>1 DEF RecordEscapes
<1> QED
  BY <1>3, <1>4, <1>5, <1>6, <1>7, <1>8, <1>9, <1>10, <1>11, <1>12, <1>13, <1>14, <1>15, <1>16, <1>17, <1>18, <1>19, <1>20, <1>21 DEF Step

LEMMA SubmissionsStayLogged ==
  ASSUME TypeOK, CallInv, FiringInv, SubmissionsAreLogged,
         NEW p \in Procs, Apart(p), Check(p) \/ Step(p) \/ Kill(p)
  PROVE  SubmissionsAreLogged'
<1>1. SUFFICES ASSUME NEW f \in fired'
               PROVE  \/ \E e \in log' : e.by = f.by
                      \/ f.by \in lost'
                      \/ \E q \in Procs : f.by = Me(q)' /\ pc'[q] \in Firing
  BY DEF SubmissionsAreLogged
<1>2. lost \subseteq lost'
  BY DEF Step, Guard, history, Check, RecordBaseline, AskConsent, FireFails, Activate,
     GuardClear, Clear, OpenLink, GuardReturn, Return, Discover, Attribute,
     AttributeEscapes, RecordFailure, RecordSubmitted, RecordEscapes, Wait, ReadEscapes, Collect, Kill
<1>3. CASE f \notin fired
  <2>1. Return(p) /\ f.by = Me(p)
    BY <1>3 DEF Step, Guard, history, Check, RecordBaseline, AskConsent, FireFails,
       Activate, GuardClear, Clear, OpenLink, GuardReturn, Return, Discover, Attribute,
       AttributeEscapes, RecordFailure, RecordSubmitted, RecordEscapes, Wait, ReadEscapes, Collect, Kill
  <2>2. Me(p)' = Me(p) /\ pc'[p] \in Firing
    BY <2>1 DEF Return, Goto, Firing, Me, TypeOK
  <2> QED
    BY <2>1, <2>2
<1>4. CASE f \in fired /\ \E q \in Procs : f.by = Me(q) /\ pc[q] \in Firing
  <2>1. PICK q \in Procs : f.by = Me(q) /\ pc[q] \in Firing
    BY <1>4
  <2>2. CASE q = p
    <3>1. ~Check(p)
      BY <2>1, <2>2 DEF Check, Firing
    <3> QED
      BY <1>4, <2>1, <2>2, <3>1, OwnSubmission
  <2>3. CASE q # p
    BY <2>1, <2>3 DEF Apart, Me
  <2> QED
    BY <2>2, <2>3
<1>5. CASE f \in fired /\ (f.by \in lost \/ \E e \in log : e.by = f.by)
  BY <1>2, <1>5 DEF Apart
<1> QED
  BY <1>3, <1>4, <1>5 DEF SubmissionsAreLogged

LEMMA LinesStayOfCalls ==
  ASSUME TypeOK, LinesAreOfCalls, NEW p \in Procs, Apart(p),
         Check(p) \/ Step(p) \/ Kill(p)
  PROVE  LinesAreOfCalls'
<1>1. attempt[p] \in Nat /\ \A e \in log : e.by[1] \in Procs /\ e.by[2] \in Nat
  BY DriverAssumption DEF TypeOK, LogEntries, AttemptIds
<1>2. attempt'[p] = attempt[p] \/ (attempt'[p] = attempt[p] + 1 /\ log' = log)
  <2>1. CASE Check(p)
    BY <2>1 DEF Check, TypeOK
  <2>2. CASE Step(p) \/ Kill(p)
    BY <2>2 DEF Step, Guard, history, RecordBaseline, AskConsent, FireFails, Activate,
       GuardClear, Clear, OpenLink, GuardReturn, Return, Discover, Attribute,
       AttributeEscapes, RecordFailure, RecordSubmitted, RecordEscapes, Wait, ReadEscapes, Collect, Kill
  <2> QED
    BY <2>1, <2>2
<1>3. SUFFICES ASSUME NEW e \in log'
               PROVE  e.by[2] <= attempt'[e.by[1]]
  BY DEF LinesAreOfCalls
<1>4. CASE e \in log
  BY <1>1, <1>2, <1>4 DEF LinesAreOfCalls, Apart
<1>5. CASE e \notin log
  BY <1>1, <1>2, <1>5 DEF Apart, Me
<1> QED
  BY <1>4, <1>5

\* The three are kept together, beside the driver's invariant.
LEMMA PromisesAreKept ==
  ASSUME IInv, PromiseInv, [Next]_vars
  PROVE  PromiseInv'
<1>1. TypeOK /\ CallInv /\ FiringInv
  BY DEF IInv
<1>2. ASSUME NEW p \in Procs, Check(p) \/ Step(p) \/ Kill(p)
      PROVE  PromiseInv'
  <2>1. Apart(p)
    BY <1>1, <1>2, StepsAreApart
  <2>2. LinesAreOfCalls'
    BY <1>1, <1>2, <2>1, LinesStayOfCalls DEF PromiseInv
  <2>3. SubmissionsAreLogged'
    BY <1>1, <1>2, <2>1, SubmissionsStayLogged DEF PromiseInv
  <2>4. ASSUME NEW q \in Procs PROVE Promise(q)'
    <3>1. CASE q = p
      BY <1>1, <1>2, <3>1, CallsKeepPromises DEF PromiseInv
    <3>2. CASE q # p
      BY <2>1, <3>2, OthersKeepPromises DEF PromiseInv
    <3> QED
      BY <3>1, <3>2
  <2> QED
    BY <2>2, <2>3, <2>4 DEF PromiseInv
<1>3. ASSUME UNCHANGED <<localVars, history, log, kills>>
      PROVE  PromiseInv'
  BY <1>3 DEF PromiseInv, LinesAreOfCalls, SubmissionsAreLogged, Promise, Me, localVars,
     history
<1> QED
  BY <1>2, <1>3 DEF Next, Tick, Environment, vars

LEMMA DriverKeepsPromises == Spec => []PromiseInv
<1>1. Init => PromiseInv
  BY DEF Init, PromiseInv, LinesAreOfCalls, SubmissionsAreLogged, Promise, Firing
<1> QED
  BY <1>1, PromisesAreKept, DriverInvariant, PTL DEF Spec

\* However many processes share the desktop and the log, a call that was refused has
\* sent nothing and has no line in the log that would count against the ceiling.
THEOREM RefusalsLeaveNothing == Spec => []RefusalLeavesNothing
<1>1. PromiseInv => RefusalLeavesNothing
  BY DEF PromiseInv, Promise, RefusalLeavesNothing
<1> QED
  BY <1>1, DriverKeepsPromises, PTL

\* However often processes are killed and restarted, what a call sends to the desktop
\* was consented to in its own process.
THEOREM ConsentComesFirst == Spec => []ConsentBeforeInput
<1>1. PromiseInv => ConsentBeforeInput
  BY DEF PromiseInv, Promise, ConsentBeforeInput
<1> QED
  BY <1>1, DriverKeepsPromises, PTL

\* Whatever happens after the Return, the submission is in the log when its call is
\* over, unless the process died, a read was not decoded before its line, or the line
\* could not be written.
THEOREM SubmissionsAreAllLogged == Spec => []SubmissionsAreLogged
<1>1. PromiseInv => SubmissionsAreLogged
  BY DEF PromiseInv
<1> QED
  BY <1>1, DriverKeepsPromises, PTL
-----------------------------------------------------------------------------
(* One process on the machine.                                             *)

Taken(s) == sess[s].stage # "free"

Owned(s, a) == Taken(s) /\ sess[s].by = a

\* What may go wrong before call n for it to collect another session than its own.
Excused(n) ==
  PersonSubmittedPrompt \/ \E f \in fired : f.by[2] < n /\ Orphaned(f.by)

\* Each submission has one session at most. That of a call which was submitted is
\* listed when the call is over, so it is in the baseline of every later one, unless
\* an earlier call already took a session for its own that was not.
SoleInv(p) ==
  /\ SessionReturnedOnce /\ WrongSessionNeedsOrphan
  /\ \A s \in SessionIds : Taken(s) /\ sess[s].by # Person =>
       \E f \in fired : f.by = sess[s].by
  /\ \A s, t \in SessionIds :
       Taken(s) /\ Taken(t) /\ sess[s].by = sess[t].by /\ sess[s].by # Person => s = t
  /\ \A e \in log : e.outcome = "submitted" =>
       Excused(e.by[2]) \/ \A s \in SessionIds : Owned(s, e.by) => s \in Directories
  /\ pc[p] \notin {"idle", "baseline"} =>
       /\ \A d \in returned : d.session \in baseline[p]
       /\ \A e \in log : e.outcome = "submitted" /\ e.by # Me(p) =>
            \/ Excused(attempt[p])
            \/ \A s \in SessionIds : Owned(s, e.by) => s \in baseline[p]
  /\ pc[p] \in {"attribute", "recordok", "wait", "collect"} => found[p] \notin baseline[p]

\* A session that was submitted stays what it is, and stays listed.
SessionsStay ==
  \A s \in SessionIds : Taken(s) =>
    /\ Taken(s)' /\ sess'[s].by = sess[s].by /\ sess'[s].prompt = sess[s].prompt
    /\ s \in Directories => s \in Directories'

\* A new one is of the person, or the only one of its submission.
NewSessions(who) ==
  \/ \A s \in SessionIds : Taken(s)' => Taken(s) \/ sess'[s].by = Person
  \/ \E t \in SessionIds :
       /\ sess'[t].by = who
       /\ \A s \in SessionIds : Taken(s)' => Taken(s) \/ s = t

LEMMA ReturnTakesOne ==
  ASSUME AppTypeOK, NEW who \in AttemptIds \cup {Person}, ReturnInComposer(who)
  PROVE  SessionsStay /\ NewSessions(who)
<1>1. CASE UNCHANGED sess
  BY <1>1 DEF SessionsStay, NewSessions, Taken, Directories
<1>2. CASE ~UNCHANGED sess
  <2>1. PICK t \in SessionIds :
          /\ sess[t].stage = "free"
          /\ sess' = [sess EXCEPT ![t] =
               [stage |-> "sent", prompt |-> composer, by |-> who]]
    BY <1>2 DEF ReturnInComposer
  <2>2. \A s \in SessionIds : s # t => sess'[s] = sess[s]
    BY <2>1 DEF AppTypeOK
  <2>3. sess'[t].by = who
    BY <2>1 DEF AppTypeOK
  <2>4. SessionsStay
    BY <2>1, <2>2 DEF SessionsStay, Taken, Directories
  <2>5. NewSessions(who)
    BY <2>2, <2>3 DEF NewSessions, Taken
  <2> QED
    BY <2>4, <2>5
<1> QED
  BY <1>1, <1>2

LEMMA AppTakesPersons ==
  ASSUME AppTypeOK, AppNext
  PROVE  SessionsStay /\ NewSessions(Person)
<1>1. CASE PersonFocuses \/ PersonTypes
  BY <1>1 DEF PersonFocuses, PersonTypes, SessionsStay, NewSessions, Taken, Directories
<1>2. CASE PersonSubmits
  BY <1>2, ReturnTakesOne DEF PersonSubmits
<1>3. CASE SessionAdvances
  <2>1. PICK s \in SessionIds, t \in Stages :
          /\ <<sess[s].stage, t>> \in StageStep
          /\ sess' = [sess EXCEPT ![s].stage = t]
    BY <1>3 DEF SessionAdvances
  <2>2. /\ Taken(s) /\ t \in Visible /\ sess'[s].stage = t
        /\ sess'[s].by = sess[s].by /\ sess'[s].prompt = sess[s].prompt
        /\ \A r \in SessionIds : r # s => sess'[r] = sess[r]
    BY <2>1 DEF AppTypeOK, StageStep, Visible, Taken
  <2>3. t # "free"
    BY <2>2 DEF Visible
  <2>4. SessionsStay
    BY <2>2, <2>3 DEF SessionsStay, Taken, Directories
  <2>5. \A r \in SessionIds : Taken(r)' => Taken(r)
    BY <2>2 DEF Taken
  <2> QED
    BY <2>4, <2>5 DEF NewSessions
<1> QED
  BY <1>1, <1>2, <1>3 DEF AppNext

LEMMA StepsTakeOne ==
  ASSUME TypeOK, CallInv, NEW p \in Procs, Check(p) \/ Step(p) \/ Kill(p)
  PROVE  SessionsStay /\ (UNCHANGED sess \/ (Return(p) /\ NewSessions(Me(p))))
<1>1. CASE Return(p) /\ ~UNCHANGED sess
  <2>1. Me(p) \in AttemptIds /\ ReturnInComposer(Me(p))
    BY <1>1, CallHasName DEF Return
  <2> QED
    BY <1>1, <2>1, ReturnTakesOne DEF TypeOK, AppTypeOK
<1>2. CASE ~Return(p) \/ UNCHANGED sess
  <2>1. sess' = sess
    BY <1>2 DEF Step, appVars, Guard,
       Check, RecordBaseline, AskConsent, FireFails, Activate, GuardClear, Clear,
       OpenLink, GuardReturn, Discover, Attribute, AttributeEscapes, RecordFailure,
       RecordSubmitted, RecordEscapes, Wait, ReadEscapes, Collect, Kill
  <2> QED
    BY <2>1 DEF SessionsStay, Taken, Directories
<1> QED
  BY <1>1, <1>2

\* What may have gone wrong stays so, and counts for every later call.
LEMMA ExcusesStay ==
  ASSUME SessionsStay, log \subseteq log', fired \subseteq fired', lost \subseteq lost',
         NEW m \in Nat, NEW n \in Nat, m <= n, Excused(m),
         \A f \in fired : f.by[2] \in Nat
  PROVE  Excused(n)'
<1>1. CASE PersonSubmittedPrompt
  BY <1>1 DEF PersonSubmittedPrompt, SessionsStay, Taken, Excused
<1>2. CASE \E f \in fired : f.by[2] < m /\ Orphaned(f.by)
  BY <1>2 DEF Orphaned, Excused
<1> QED
  BY <1>1, <1>2 DEF Excused

\* How a call comes to the steps after its baseline, and after its discovery.
LEMMA StepsOfACall ==
  ASSUME TypeOK, CallInv, NEW p \in Procs, Check(p) \/ Step(p) \/ Kill(p)
  PROVE  /\ log \subseteq log' /\ fired \subseteq fired' /\ lost \subseteq lost'
         /\ \/ returned' = returned
            \/ /\ Collect(p) /\ pc'[p] = "idle"
               /\ returned' = returned \cup
                    {[by |-> Me(p), prompt |-> prompt[p], session |-> found[p]]}
         /\ pc'[p] \notin {"idle", "baseline"} =>
              /\ attempt'[p] = attempt[p]
              /\ \/ RecordBaseline(p) /\ baseline'[p] = Directories
                 \/ pc[p] \notin {"idle", "baseline"} /\ baseline'[p] = baseline[p]
         /\ pc'[p] \in {"attribute", "recordok", "wait", "collect"} =>
              /\ baseline'[p] = baseline[p]
              /\ \/ found'[p] \in New(p)
                 \/ /\ pc[p] \in {"attribute", "recordok", "wait", "collect"}
                    /\ found'[p] = found[p]
         /\ \A e \in log' : e.outcome = "submitted" =>
              e \in log \/ (RecordSubmitted(p) /\ e.by = Me(p))
<1> USE DEF TypeOK, Goto, Raise, Finish, Forget, Sends, Guard, history, Line
<1>1. CASE Check(p)
  BY <1>1 DEF Check
<1>2. CASE RecordBaseline(p)
  BY <1>2 DEF RecordBaseline
<1>3. CASE AskConsent(p)
  BY <1>3 DEF AskConsent
<1>4. CASE FireFails(p)
  BY <1>4 DEF FireFails
<1>5. CASE Activate(p)
  BY <1>5 DEF Activate
<1>6. CASE GuardClear(p)
  BY <1>6 DEF GuardClear
<1>7. CASE Clear(p)
  BY <1>7 DEF Clear
<1>8. CASE OpenLink(p)
  BY <1>8 DEF OpenLink
<1>9. CASE GuardReturn(p)
  BY <1>9 DEF GuardReturn
<1>10. CASE Return(p)
  BY <1>10 DEF Return
<1>11. CASE Discover(p)
  BY <1>11 DEF Discover
<1>12. CASE Attribute(p)
  BY <1>12 DEF Attribute
<1>13. CASE AttributeEscapes(p)
  BY <1>13 DEF AttributeEscapes
<1>14. CASE RecordFailure(p)
  <2>1. result[p] # "submitted"
    BY <1>14 DEF RecordFailure, CallInv, Codes
  <2> QED
    BY <1>14, <2>1 DEF RecordFailure
<1>15. CASE RecordSubmitted(p)
  BY <1>15 DEF RecordSubmitted
<1>16. CASE Wait(p)
  BY <1>16 DEF Wait
<1>17. CASE ReadEscapes(p)
  BY <1>17 DEF ReadEscapes
<1>18. CASE Collect(p)
  BY <1>18 DEF Collect
<1>19. CASE Kill(p)
  BY <1>19 DEF Kill
<1>20. CASE RecordEscapes(p)
  BY <1>20 DEF RecordEscapes
<1> QED
  BY <1>1, <1>2, <1>3, <1>4, <1>5, <1>6, <1>7, <1>8, <1>9, <1>10, <1>11, <1>12, <1>13, <1>14, <1>15, <1>16, <1>17, <1>18, <1>19, <1>20 DEF Step

LEMMA FoundIsExcused ==
  ASSUME IInv, PromiseInv, NEW p, Procs = {p}, SoleInv(p),
         pc[p] \in {"recordok", "wait", "collect"}, sess[found[p]].by # Me(p)
  PROVE  Excused(attempt[p])
<1> DEFINE s == found[p]
           b == sess[s].by
<1>1. /\ s \in SessionIds /\ HasRecord(s) /\ sess[s].prompt = prompt[p]
      /\ prompt[p] \in Prompts /\ s \notin baseline[p]
  BY DEF IInv, CallInv, Matches, SoleInv
<1>2. Taken(s)
  BY <1>1 DEF HasRecord, Recorded, Visible, Taken
<1>3. CASE b = Person
  BY <1>1, <1>2, <1>3 DEF Taken, PersonSubmittedPrompt, Excused
<1>4. CASE b # Person
  <2>1. PICK f \in fired : f.by = b
    BY <1>1, <1>2, <1>4 DEF SoleInv
  <2>2. f.by \in AttemptIds
    BY DEF IInv, TypeOK
  <2>3. f.by = <<p, f.by[2]>> /\ f.by[2] \in Nat /\ f.by[2] <= attempt[p]
    BY <2>2 DEF IInv, FiringInv, AttemptIds
  <2>4. attempt[p] \in Nat
    BY DriverAssumption DEF IInv, TypeOK
  <2>5. f.by[2] < attempt[p]
    BY <2>1, <2>3, <2>4 DEF Me
  <2>6. CASE f.by \in lost
    BY <2>5, <2>6 DEF Orphaned, Excused
  <2>7. ASSUME NEW e \in log, e.by = f.by
        PROVE  Excused(attempt[p])
    <3>1. e.outcome \in Codes \/ e.outcome = "submitted"
      BY DEF IInv, TypeOK, LogEntries
    <3>2. CASE e.outcome \in Codes
      BY <2>5, <2>7, <3>2 DEF Orphaned, Excused
    <3>3. CASE e.outcome = "submitted"
      <4>1. e.by # Me(p) /\ Owned(s, e.by)
        BY <1>2, <2>1, <2>7 DEF Owned
      <4> QED
        BY <1>1, <3>3, <4>1 DEF SoleInv
    <3> QED
      BY <3>1, <3>2, <3>3
  <2>8. ~ \E q \in Procs : f.by = Me(q)
    BY <2>1
  <2> QED
    BY <2>6, <2>7, <2>8 DEF PromiseInv, SubmissionsAreLogged
<1> QED
  BY <1>3, <1>4

\* Each step of the one process.
LEMMA SoleStep ==
  ASSUME IInv, PromiseInv, NEW p, Procs = {p}, SoleInv(p), Check(p) \/ Step(p) \/ Kill(p)
  PROVE  SoleInv(p)'
<1>1. p \in Procs /\ TypeOK /\ CallInv /\ FiringInv /\ AlteredPromptNeverReturned
  BY DEF IInv
<1>2. /\ SessionsStay
      /\ UNCHANGED sess \/ (Return(p) /\ NewSessions(Me(p)))
  BY <1>1, StepsTakeOne
<1>3. log \subseteq log' /\ fired \subseteq fired' /\ lost \subseteq lost'
  BY <1>1, StepsOfACall
<1>4. attempt[p] \in Nat /\ (\A f \in fired : f.by[2] \in Nat)
      /\ (\A e \in log : e.by[2] \in Nat /\ e.by[2] <= attempt[p])
      /\ (\A d \in returned : d.by[2] \in Nat /\ d.session \in SessionIds)
  <2>1. attempt[p] \in Nat
    BY <1>1, DriverAssumption DEF TypeOK
  <2>2. \A e \in log : e.by \in AttemptIds
    BY <1>1 DEF TypeOK, LogEntries
  <2>3. \A e \in log : e.by[1] = p /\ e.by[2] \in Nat
    BY <2>2 DEF AttemptIds
  <2>4. (\A f \in fired : f.by \in AttemptIds)
        /\ \A d \in returned : d.by \in AttemptIds /\ d.session \in SessionIds
    BY <1>1 DEF TypeOK
  <2>5. (\A f \in fired : f.by[2] \in Nat) /\ \A d \in returned : d.by[2] \in Nat
    BY <2>4 DEF AttemptIds
  <2> QED
    BY <2>1, <2>3, <2>4, <2>5 DEF PromiseInv, LinesAreOfCalls
<1>5. \A s \in SessionIds : HasRecord(s) => Taken(s) /\ s \in Directories
  BY DEF HasRecord, Recorded, Visible, Taken, Directories
<1>6. \A d \in returned : HasRecord(d.session) /\ d.session \in SessionIds
  BY <1>1, <1>4 DEF AlteredPromptNeverReturned
<1>7. \A s \in SessionIds : \A a :
       Owned(s, a)' /\ a # Me(p) /\ a # Person => Owned(s, a)
  BY <1>2 DEF SessionsStay, NewSessions, Owned, Taken
<1>8. ASSUME Return(p) PROVE \A f \in fired : f.by # Me(p)
  BY <1>1, <1>8 DEF FiringInv, Return, BeforeReturn, Firing
<1>9. (pc[p] # "idle" => Me(p) # Person) /\ \A e \in log : e.by # Person
  <2>1. \A e \in log : e.by \in AttemptIds
    BY <1>1 DEF TypeOK, LogEntries
  <2>2. pc[p] # "idle" => Me(p) # Person
    BY <1>1, CallHasName, DriverAssumption DEF AttemptIds
  <2> QED
    BY <2>1, <2>2, DriverAssumption DEF AttemptIds
<1>10. SessionReturnedOnce'
  <2>1. CASE returned' = returned
    BY <2>1 DEF SessionReturnedOnce, SoleInv
  <2>2. CASE /\ Collect(p)
             /\ returned' = returned \cup
                  {[by |-> Me(p), prompt |-> prompt[p], session |-> found[p]]}
    <3>1. \A d \in returned : d.session # found[p]
      BY <2>2 DEF Collect, SoleInv
    <3>2. \A c, d \in returned : c.session = d.session => c.by = d.by
      BY DEF SoleInv, SessionReturnedOnce
    <3> QED
      BY <2>2, <3>1, <3>2 DEF SessionReturnedOnce
  <2> QED
    BY <1>1, <2>1, <2>2, StepsOfACall
<1>11. WrongSessionNeedsOrphan'
  <2>1. SUFFICES ASSUME NEW d \in returned',
                        sess'[d.session].by \in AttemptIds \ {d.by}
                 PROVE  Excused(d.by[2])'
    BY DEF WrongSessionNeedsOrphan, Excused
  <2>2. CASE d \in returned
    <3>1. sess'[d.session].by = sess[d.session].by
      BY <1>2, <1>5, <1>6, <2>2 DEF SessionsStay
    <3>2. Excused(d.by[2])
      BY <2>1, <2>2, <3>1 DEF SoleInv, WrongSessionNeedsOrphan, Excused
    <3> QED
      BY <1>2, <1>3, <1>4, <2>2, <3>2, ExcusesStay
  <2>3. CASE d \notin returned
    <3>1. Collect(p) /\ d.by = Me(p) /\ d.session = found[p]
      BY <1>1, <2>3, StepsOfACall
    <3>2. found[p] \in SessionIds /\ HasRecord(found[p]) /\ pc[p] = "collect"
      BY <1>1, <3>1 DEF Collect, CallInv
    <3>3. sess[found[p]].by # Me(p)
      BY <1>2, <1>5, <2>1, <3>1, <3>2 DEF SessionsStay
    <3>4. Excused(attempt[p])
      BY <3>2, <3>3, FoundIsExcused
    <3> QED
      BY <1>2, <1>3, <1>4, <3>1, <3>4, ExcusesStay DEF Me
  <2> QED
    BY <2>2, <2>3
<1>12. \A s \in SessionIds : Taken(s)' /\ sess'[s].by # Person =>
         \E f \in fired' : f.by = sess'[s].by
  <2> SUFFICES ASSUME NEW s \in SessionIds, Taken(s)', sess'[s].by # Person
               PROVE  \E f \in fired' : f.by = sess'[s].by
    OBVIOUS
  <2>1. CASE Taken(s)
    BY <1>2, <1>3, <2>1 DEF SessionsStay, SoleInv
  <2>2. CASE ~Taken(s)
    <3>1. Return(p) /\ sess'[s].by = Me(p)
      BY <1>2, <2>2 DEF NewSessions, Taken
    <3>2. [by |-> Me(p), day |-> day] \in fired'
      BY <3>1 DEF Return
    <3> QED
      BY <3>1, <3>2
  <2> QED
    BY <2>1, <2>2
<1>13. \A s, t \in SessionIds :
         Taken(s)' /\ Taken(t)' /\ sess'[s].by = sess'[t].by /\ sess'[s].by # Person => s = t
  <2> SUFFICES ASSUME NEW s \in SessionIds, NEW t \in SessionIds, Taken(s)', Taken(t)',
                      sess'[s].by = sess'[t].by, sess'[s].by # Person
               PROVE  s = t
    OBVIOUS
  <2>1. CASE Taken(s) /\ Taken(t)
    BY <1>2, <2>1 DEF SessionsStay, SoleInv
  <2>2. CASE ~Taken(s) \/ ~Taken(t)
    <3>1. Return(p) /\ NewSessions(Me(p)) /\ sess'[s].by = Me(p)
      BY <1>2, <2>2 DEF NewSessions, Taken
    <3>2. \A r \in SessionIds : Taken(r) => sess[r].by # Me(p) \/ sess[r].by = Person
      BY <1>8, <3>1 DEF SoleInv
    <3>3. ~Taken(s) /\ ~Taken(t)
      BY <1>2, <3>1, <3>2 DEF SessionsStay
    <3> QED
      BY <3>1, <3>3 DEF NewSessions
  <2> QED
    BY <2>1, <2>2
<1>14. ASSUME NEW e \in log', e.outcome = "submitted"
       PROVE  Excused(e.by[2])' \/ \A s \in SessionIds : Owned(s, e.by)' => s \in Directories'
  <2>1. CASE e \in log
    <3>1. CASE Excused(e.by[2])
      BY <1>2, <1>3, <1>4, <2>1, <3>1, ExcusesStay
    <3>2. CASE \A s \in SessionIds : Owned(s, e.by) => s \in Directories
      <4>1. UNCHANGED sess \/ e.by # Me(p)
        BY <1>1, <1>2, <2>1 DEF PromiseInv, Promise, Return, Firing
      <4>2. \A s \in SessionIds : Owned(s, e.by)' => Owned(s, e.by)
        BY <1>7, <1>9, <2>1, <4>1 DEF Owned, Taken
      <4> QED
        BY <1>2, <3>2, <4>2 DEF SessionsStay, Owned
    <3> QED
      BY <1>14, <2>1, <3>1, <3>2 DEF SoleInv
  <2>2. CASE e \notin log
    <3>1. RecordSubmitted(p) /\ e.by = Me(p)
      BY <1>1, <1>14, <2>2, StepsOfACall
    <3>2. pc[p] = "recordok" /\ sess' = sess
      BY <3>1 DEF RecordSubmitted, appVars
    <3>3. CASE sess[found[p]].by # Me(p)
      <4>1. Excused(attempt[p])
        BY <3>2, <3>3, FoundIsExcused
      <4> QED
        BY <1>2, <1>3, <1>4, <3>1, <4>1, ExcusesStay DEF Me
    <3>4. CASE sess[found[p]].by = Me(p)
      <4>1. found[p] \in SessionIds /\ Taken(found[p]) /\ found[p] \in Directories
        BY <1>1, <1>5, <3>2 DEF CallInv
      <4>2. Me(p) # Person
        BY <1>9, <3>2
      <4>3. \A s \in SessionIds : Owned(s, Me(p)) => s = found[p]
        BY <3>4, <4>1, <4>2 DEF SoleInv, Owned
      <4> QED
        BY <3>1, <3>2, <4>1, <4>3 DEF Owned, Taken, Directories
    <3> QED
      BY <3>3, <3>4
  <2> QED
    BY <2>1, <2>2
<1>15. ASSUME pc'[p] \notin {"idle", "baseline"}, NEW d \in returned'
       PROVE  d.session \in baseline'[p]
  <2>1. d \in returned
    BY <1>1, <1>15, StepsOfACall
  <2>2. CASE baseline'[p] = Directories
    BY <1>5, <1>6, <2>1, <2>2
  <2>3. CASE pc[p] \notin {"idle", "baseline"} /\ baseline'[p] = baseline[p]
    BY <2>1, <2>3 DEF SoleInv
  <2> QED
    BY <1>1, <1>15, <2>2, <2>3, StepsOfACall
<1>16. ASSUME pc'[p] \notin {"idle", "baseline"},
              NEW e \in log', e.outcome = "submitted", e.by # Me(p)'
       PROVE  \/ Excused(attempt[p])'
              \/ \A s \in SessionIds : Owned(s, e.by)' => s \in baseline'[p]
  <2>1. attempt'[p] = attempt[p] /\ Me(p)' = Me(p) /\ e \in log
    BY <1>1, <1>16, StepsOfACall DEF Me
  <2>2. \A s \in SessionIds : Owned(s, e.by)' => Owned(s, e.by)
    BY <1>7, <1>9, <1>16, <2>1
  <2>3. Excused(attempt[p]) => Excused(attempt[p])'
    BY <1>2, <1>3, <1>4, ExcusesStay, <2>1
  <2>4. CASE baseline'[p] = Directories
    <3>1. CASE Excused(e.by[2])
      BY <1>2, <1>3, <1>4, <2>1, <3>1, ExcusesStay
    <3>2. CASE \A s \in SessionIds : Owned(s, e.by) => s \in Directories
      BY <2>2, <2>4, <3>2
    <3> QED
      BY <1>16, <2>1, <3>1, <3>2 DEF SoleInv
  <2>5. CASE pc[p] \notin {"idle", "baseline"} /\ baseline'[p] = baseline[p]
    <3>1. \/ Excused(attempt[p])
          \/ \A s \in SessionIds : Owned(s, e.by) => s \in baseline[p]
      BY <1>16, <2>1, <2>5 DEF SoleInv
    <3> QED
      BY <2>2, <2>3, <2>5, <3>1
  <2> QED
    BY <1>1, <1>16, <2>4, <2>5, StepsOfACall
<1>17. pc'[p] \in {"attribute", "recordok", "wait", "collect"} => found'[p] \notin baseline'[p]
  BY <1>1, StepsOfACall DEF New, SoleInv
<1> QED
  BY <1>10, <1>11, <1>12, <1>13, <1>14, <1>15, <1>16, <1>17 DEF SoleInv

\* What happens outside of its calls.
LEMMA SoleOutside ==
  ASSUME IInv, NEW p, Procs = {p}, SoleInv(p), Tick \/ Environment \/ UNCHANGED vars
  PROVE  SoleInv(p)'
<1>1. /\ pc' = pc /\ attempt' = attempt /\ baseline' = baseline /\ found' = found
      /\ log' = log /\ fired' = fired /\ lost' = lost /\ returned' = returned
  BY DEF Tick, Environment, vars, localVars, history
<1>2. SessionsStay /\ NewSessions(Person)
  <2>1. CASE Environment
    BY <2>1, AppTakesPersons DEF Environment, IInv, TypeOK, AppTypeOK
  <2>2. CASE UNCHANGED sess
    BY <2>2 DEF SessionsStay, NewSessions, Taken, Directories
  <2> QED
    BY <2>1, <2>2 DEF Tick, vars, appVars
<1>3. Me(p)' = Me(p)
  BY <1>1 DEF Me
<1>4. /\ attempt[p] \in Nat /\ \A f \in fired : f.by[2] \in Nat
      /\ \A e \in log : e.by[2] \in Nat /\ e.by # Person
      /\ \A d \in returned : d.by[2] \in Nat /\ d.session \in SessionIds
  <2>1. /\ \A f \in fired : f.by \in AttemptIds
        /\ \A e \in log : e.by \in AttemptIds
        /\ \A d \in returned : d.by \in AttemptIds /\ d.session \in SessionIds
    BY DEF IInv, TypeOK, LogEntries
  <2>2. attempt[p] \in Nat
    BY DriverAssumption DEF IInv, TypeOK
  <2> QED
    BY <2>1, <2>2, DriverAssumption DEF AttemptIds
<1>5. \A s \in SessionIds :
        Taken(s)' /\ sess'[s].by # Person => Taken(s) /\ sess'[s].by = sess[s].by
  BY <1>2 DEF SessionsStay, NewSessions
<1>6. \A s \in SessionIds : \A a :
       Owned(s, a)' /\ a # Person => Owned(s, a)
  BY <1>5 DEF Owned
<1>7. ASSUME NEW n \in Nat, Excused(n) PROVE Excused(n)'
  BY <1>1, <1>2, <1>4, <1>7, ExcusesStay
<1>8. SessionReturnedOnce'
  BY <1>1 DEF SoleInv, SessionReturnedOnce
<1>9. WrongSessionNeedsOrphan'
  <2>1. SUFFICES ASSUME NEW d \in returned,
                        sess'[d.session].by \in AttemptIds \ {d.by}
                 PROVE  Excused(d.by[2])'
    BY <1>1 DEF WrongSessionNeedsOrphan, Excused
  <2>2. sess'[d.session].by = sess[d.session].by
    <3>1. HasRecord(d.session) /\ d.session \in SessionIds
      BY <1>4 DEF IInv, AlteredPromptNeverReturned
    <3>2. Taken(d.session)
      BY <3>1 DEF HasRecord, Recorded, Visible, Taken
    <3> QED
      BY <1>2, <3>1, <3>2 DEF SessionsStay
  <2>3. Excused(d.by[2])
    BY <2>1, <2>2 DEF SoleInv, WrongSessionNeedsOrphan, Excused
  <2> QED
    BY <1>4, <1>7, <2>3
<1>10. \A s \in SessionIds : Taken(s)' /\ sess'[s].by # Person =>
         \E f \in fired' : f.by = sess'[s].by
  BY <1>1, <1>5 DEF SoleInv
<1>11. \A s, t \in SessionIds :
         Taken(s)' /\ Taken(t)' /\ sess'[s].by = sess'[t].by /\ sess'[s].by # Person => s = t
  BY <1>5 DEF SoleInv
<1>12. ASSUME NEW e \in log', e.outcome = "submitted"
       PROVE  Excused(e.by[2])' \/ \A s \in SessionIds : Owned(s, e.by)' => s \in Directories'
  <2>1. \/ Excused(e.by[2])
        \/ \A s \in SessionIds : Owned(s, e.by) => s \in Directories
    BY <1>1, <1>12 DEF SoleInv
  <2>2. e.by # Person /\ e.by[2] \in Nat
    BY <1>1, <1>4
  <2>3. \A s \in SessionIds : Owned(s, e.by)' => Owned(s, e.by)
    BY <1>6, <2>2
  <2>4. \A s \in SessionIds : Owned(s, e.by) /\ s \in Directories => s \in Directories'
    BY <1>2 DEF SessionsStay, Owned
  <2> QED
    BY <1>7, <2>1, <2>2, <2>3, <2>4
<1>13. ASSUME pc'[p] \notin {"idle", "baseline"}, NEW d \in returned'
       PROVE  d.session \in baseline'[p]
  BY <1>1, <1>13 DEF SoleInv
<1>14. ASSUME pc'[p] \notin {"idle", "baseline"},
              NEW e \in log', e.outcome = "submitted", e.by # Me(p)'
       PROVE  \/ Excused(attempt[p])'
              \/ \A s \in SessionIds : Owned(s, e.by)' => s \in baseline'[p]
  <2>1. \/ Excused(attempt[p])
        \/ \A s \in SessionIds : Owned(s, e.by) => s \in baseline[p]
    BY <1>1, <1>3, <1>14 DEF SoleInv
  <2>2. Excused(attempt[p]) => Excused(attempt[p])'
    BY <1>1, <1>2, <1>4, ExcusesStay
  <2> QED
    BY <1>1, <1>4, <1>6, <2>1, <2>2
<1>15. pc'[p] \in {"attribute", "recordok", "wait", "collect"} => found'[p] \notin baseline'[p]
  BY <1>1 DEF SoleInv
<1> QED
  BY <1>8, <1>9, <1>10, <1>11, <1>12, <1>13, <1>14, <1>15 DEF SoleInv

\* Of one process, and any number of its calls, kills and sessions.
LEMMA OneProcess ==
  ASSUME NEW p, Procs = {p}
  PROVE  Spec => []SoleInv(p)
<1>1. Init => SoleInv(p)
  BY DEF Init, AppInit, SoleInv, SessionReturnedOnce, WrongSessionNeedsOrphan, Taken
<1>2. IInv /\ PromiseInv /\ SoleInv(p) /\ [Next]_vars => SoleInv(p)'
  BY SoleStep, SoleOutside DEF Next
<1> QED
  BY <1>1, <1>2, DriverInvariant, DriverKeepsPromises, PTL DEF Spec

\* With one process, no session is collected by two calls, whatever the person, the
\* application and kills do to either of them.
THEOREM SessionsAreReturnedOnce ==
  ASSUME NEW p, Procs = {p}
  PROVE  Spec => []SessionReturnedOnce
<1>1. SoleInv(p) => SessionReturnedOnce
  BY DEF SoleInv
<1> QED
  BY <1>1, OneProcess, PTL

\* With one process, a call collects another call's session only in the wake of one that
\* fired and failed or died before it, or of a person who submitted the prompt.
THEOREM WrongSessionsNeedAnOrphan ==
  ASSUME NEW p, Procs = {p}
  PROVE  Spec => []WrongSessionNeedsOrphan
<1>1. SoleInv(p) => WrongSessionNeedsOrphan
  BY DEF SoleInv
<1> QED
  BY <1>1, OneProcess, PTL

-----------------------------------------------------------------------------
(* The driver implements the ledger.                                       *)

\* The ledger's theorems, about the driver's run log and calls.
Proved == INSTANCE SubmissionLedgerProofs WITH flying <- InFlight, log <- Stamps

\* Counting is the same in both modules.
LEMMA SameCardinality ==
  \A S : /\ Ledger!Cardinality(S) = Cardinality(S)
         /\ Proved!Cardinality(S) = Cardinality(S)
         /\ Proved!IsFiniteSet(S) <=> IsFiniteSet(S)
BY DEF Ledger!Cardinality, Proved!Cardinality, Cardinality,
       Proved!IsFiniteSet, IsFiniteSet

-----------------------------------------------------------------------------
(* How a step of one call changes the calls in flight.                     *)

LEMMA FlightStays ==
  ASSUME attempt' = attempt,
         \A q \in Procs : pc'[q] \in Firing <=> pc[q] \in Firing
  PROVE  InFlight' = InFlight
BY DEF InFlight, Me

LEMMA FlightEnds ==
  ASSUME TypeOK, NEW p \in Procs, pc[p] \in Firing, attempt' = attempt,
         NEW step, step \notin Firing, Goto(p, step)
  PROVE  Me(p) \in InFlight /\ InFlight' = InFlight \ {Me(p)}
<1>1. \A q \in Procs : pc'[q] \in Firing <=> pc[q] \in Firing /\ q # p
  BY DEF TypeOK, Goto
<1>2. \A q \in Procs : Me(q)' = Me(q) /\ (Me(q) = Me(p) => q = p)
  BY DEF Me
<1> QED
  BY <1>1, <1>2 DEF InFlight

\* A call in flight has fired exactly when its Return is among what it sent.
LEMMA FiredByCall ==
  ASSUME IInv, NEW p \in Procs, pc[p] \in Firing
  PROVE  "return" \in typed[p] <=> \E f \in fired : f.by = Me(p)
BY DEF IInv, FiringInv

LEMMA FlyingName ==
  ASSUME IInv, NEW p \in Procs, pc[p] \in Firing
  PROVE  Me(p) \in Ledger!Attempts
BY CallHasName DEF IInv, Ledger!Attempts, AttemptIds, Firing

-----------------------------------------------------------------------------
(* Each step of the driver is a step of the ledger, or none.               *)

LEMMA AdmitStep ==
  ASSUME IInv, NEW p \in Procs, Check(p)
  PROVE  [Ledger!Next]_Ledger!vars
<1>1. UNCHANGED <<Stamps, fired, lost, day>>
  BY DEF Check, Stamps
<1>2. /\ attempt' = [attempt EXCEPT ![p] = @ + 1]
      /\ pc[p] = "idle"
      /\ attempt[p] < MaxAttempts
      /\ attempt \in [Procs -> 0 .. MaxAttempts]
      /\ pc \in [Procs -> Steps]
      /\ pc[p] \notin Firing
  BY DEF Check, IInv, TypeOK, Firing
<1>3. \A q \in Procs : q # p => Me(q)' = Me(q)
  BY <1>2 DEF Me
<1>4. PICK text \in Prompts :
        IF Refuses(text) THEN Finish(p, "refused") ELSE Goto(p, "baseline")
  BY DEF Check
<1>5. CASE Refuses(text)
  <2>1. \A q \in Procs : pc'[q] = pc[q]
    BY <1>2, <1>4, <1>5 DEF Finish, Goto
  <2>2. InFlight' = InFlight
    BY <1>2, <1>3, <2>1 DEF InFlight
  <2> QED
    BY <1>1, <2>2 DEF Ledger!vars
<1>6. CASE ~Refuses(text)
  <2>1. \A q \in Procs : pc'[q] \in Firing <=> pc[q] \in Firing \/ q = p
    BY <1>2, <1>4, <1>6 DEF Goto, Firing
  <2>2. InFlight' = InFlight \cup {Me(p)'}
    BY <1>2, <1>3, <2>1 DEF InFlight
  <2>3. Me(p)' = <<p, attempt[p] + 1>>
    BY <1>2 DEF Me
  <2>4. Me(p)' \in Ledger!Attempts
    BY <1>2, <2>3, DriverAssumption DEF Ledger!Attempts
  <2>5. \A b \in InFlight : b[1] # p
    BY <1>2 DEF InFlight, Me
  <2>6. \A f \in fired : f.by # Me(p)'
    BY <1>2, <2>3, DriverAssumption DEF IInv, FiringInv
  <2>7. Cardinality(Ledger!RecentOf(Stamps)) < MaxRuns
    <3>1. DEFINE f == [e \in RecentOf(log) |-> [by |-> e.by, day |-> e.day]]
    <3>2. IsFiniteSet(RecentOf(log))
      BY FS_Subset DEF IInv, FiringInv, RecentOf
    <3>3. f \in Surjection(RecentOf(log), Ledger!RecentOf(Stamps))
      BY DEF Surjection, RecentOf, Ledger!RecentOf, Stamps
    <3>4. /\ IsFiniteSet(Ledger!RecentOf(Stamps))
          /\ Cardinality(Ledger!RecentOf(Stamps)) <= Cardinality(RecentOf(log))
      BY <3>2, <3>3, FS_Surjection
    <3>5. Cardinality(RecentOf(log)) < MaxRuns
      BY <1>6, <3>2, FS_CardinalityType, DriverAssumption DEF Refuses, Recent
    <3> QED
      BY <3>2, <3>4, <3>5, FS_CardinalityType, DriverAssumption
  <2>8. \A b \in InFlight : b[1] # (Me(p)')[1]
    BY <2>3, <2>5
  <2>9. Ledger!Admit(Me(p)')
    BY <1>1, <2>2, <2>6, <2>7, <2>8, SameCardinality DEF Ledger!Admit
  <2> QED
    BY <2>4, <2>9 DEF Ledger!Next
<1> QED
  BY <1>5, <1>6

\* The steps on the way to the Return, and from it to attribution.
LEMMA QuietStep ==
  ASSUME IInv, NEW p \in Procs,
         \/ RecordBaseline(p) \/ AskConsent(p) \/ FireFails(p)
         \/ Activate(p) \/ GuardClear(p) \/ Clear(p) \/ OpenLink(p)
         \/ GuardReturn(p) \/ Discover(p) \/ Attribute(p)
         \/ Wait(p) \/ ReadEscapes(p) \/ Collect(p)
  PROVE  UNCHANGED Ledger!vars
<1>1. UNCHANGED <<attempt, log, fired, lost, day>>
  BY DEF RecordBaseline, AskConsent, FireFails, Activate, GuardClear, Clear,
         OpenLink, GuardReturn, Guard, Discover, Attribute, Wait, ReadEscapes,
         Collect, history
<1>2. \A q \in Procs : pc'[q] \in Firing <=> pc[q] \in Firing
  BY DEF RecordBaseline, AskConsent, FireFails, Activate, GuardClear, Clear,
         OpenLink, GuardReturn, Guard, Discover, Attribute, Wait, ReadEscapes,
         Collect, Finish, Raise, Goto, IInv, TypeOK, Firing
<1>3. InFlight' = InFlight
  BY <1>1, <1>2, FlightStays
<1> QED
  BY <1>1, <1>3 DEF Ledger!vars, Stamps

LEMMA FireStep ==
  ASSUME IInv, NEW p \in Procs, Return(p)
  PROVE  Ledger!Next
<1>1. Me(p) \in InFlight
  BY DEF Return, InFlight, Firing
<1>2. \A f \in fired : f.by # Me(p)
  BY FiredByCall DEF IInv, FiringInv, Return, Firing, BeforeReturn
<1>3. InFlight' = InFlight
  BY FlightStays DEF Return, Goto, IInv, TypeOK, Firing
<1>4. Ledger!Fire(Me(p))
  BY <1>1, <1>2, <1>3 DEF Return, Ledger!Fire, Stamps
<1> QED
  BY <1>4, FlyingName DEF Return, Firing, Ledger!Next

LEMMA EnterStep ==
  ASSUME IInv, NEW p \in Procs, RecordFailure(p) \/ RecordSubmitted(p)
  PROVE  Ledger!Next
<1>1. pc[p] \in Firing /\ Me(p) \in Ledger!Attempts
  BY FlyingName DEF RecordFailure, RecordSubmitted, Firing
<1>2. Me(p) \in InFlight /\ InFlight' = InFlight \ {Me(p)}
  BY <1>1, FlightEnds
     DEF RecordFailure, RecordSubmitted, Finish, IInv, Firing
<1>3. CASE RecordFailure(p) /\ result[p] = "refused"
  <2>1. \A f \in fired : f.by # Me(p)
    BY <1>1, <1>3, FiredByCall DEF RecordFailure, IInv, FiringInv
  <2>2. Ledger!Withdraw(Me(p))
    BY <1>2, <1>3, <2>1 DEF RecordFailure, Ledger!Withdraw, Stamps, history
  <2> QED
    BY <1>1, <2>2 DEF Ledger!Next
<1>4. CASE RecordSubmitted(p) \/ result[p] # "refused"
  <2>1. PICK how : log' = log \cup {Line(p, how)}
    BY <1>4 DEF RecordFailure, RecordSubmitted
  <2>2. Stamps' = Stamps \cup {[by |-> Me(p), day |-> day]}
    <3>1. Line(p, how).by = Me(p) /\ Line(p, how).day = day
      BY DEF Line
    <3> QED
      BY <2>1, <3>1, Zenon DEF Stamps
  <2>3. Ledger!Enter(Me(p))
    BY <1>2, <2>2 DEF RecordFailure, RecordSubmitted, Ledger!Enter, history
  <2> QED
    BY <1>1, <2>3 DEF Ledger!Next
<1> QED
  BY <1>3, <1>4

LEMMA LoseStep ==
  ASSUME IInv, NEW p \in Procs, AttributeEscapes(p)
  PROVE  Ledger!Next
<1>1. pc[p] \in Firing /\ Me(p) \in Ledger!Attempts
  BY FlyingName DEF AttributeEscapes, Firing
<1>2. Me(p) \in InFlight /\ InFlight' = InFlight \ {Me(p)}
  BY <1>1, FlightEnds DEF AttributeEscapes, Finish, IInv, Firing
<1>3. Ledger!Lose(Me(p))
  BY <1>2 DEF AttributeEscapes, Ledger!Lose, Stamps
<1> QED
  BY <1>1, <1>3 DEF Ledger!Next

LEMMA UnwrittenStep ==
  ASSUME IInv, NEW p \in Procs, RecordEscapes(p)
  PROVE  Ledger!Next
<1>1. pc[p] \in Firing /\ Me(p) \in Ledger!Attempts
  BY FlyingName DEF RecordEscapes, Firing
<1>2. Me(p) \in InFlight /\ InFlight' = InFlight \ {Me(p)}
  BY <1>1, FlightEnds DEF RecordEscapes, Finish, IInv, Firing
<1>3. CASE "return" \in typed[p]
  <2>1. Ledger!Lose(Me(p))
    BY <1>2, <1>3 DEF RecordEscapes, Ledger!Lose, Stamps
  <2> QED
    BY <1>1, <2>1 DEF Ledger!Next
<1>4. CASE "return" \notin typed[p]
  <2>1. \A f \in fired : f.by # Me(p)
    BY <1>1, <1>4, FiredByCall
  <2>2. Ledger!Withdraw(Me(p))
    BY <1>2, <1>4, <2>1 DEF RecordEscapes, Ledger!Withdraw, Stamps
  <2> QED
    BY <1>1, <2>2 DEF Ledger!Next
<1> QED
  BY <1>3, <1>4

LEMMA KillStep ==
  ASSUME IInv, NEW p \in Procs, Kill(p)
  PROVE  [Ledger!Next]_Ledger!vars
<1>1. CASE pc[p] \notin Firing
  <2>1. InFlight' = InFlight
    BY <1>1, FlightStays DEF Kill, Finish, Goto, IInv, TypeOK, Firing
  <2> QED
    BY <1>1, <2>1 DEF Kill, Ledger!vars, Stamps
<1>2. CASE pc[p] \in Firing
  <2>1. Me(p) \in Ledger!Attempts
    BY <1>2, FlyingName
  <2>2. Me(p) \in InFlight /\ InFlight' = InFlight \ {Me(p)}
    BY <1>2, FlightEnds DEF Kill, Finish, IInv, Firing
  <2>3. CASE "return" \in typed[p]
    <3>1. Ledger!Lose(Me(p))
      BY <1>2, <2>2, <2>3 DEF Kill, Ledger!Lose, Stamps
    <3> QED
      BY <2>1, <3>1 DEF Ledger!Next
  <2>4. CASE "return" \notin typed[p]
    <3>1. \A f \in fired : f.by # Me(p)
      BY <1>2, <2>4, FiredByCall
    <3>2. Ledger!Withdraw(Me(p))
      BY <2>2, <2>4, <3>1 DEF Kill, Ledger!Withdraw, Stamps
    <3> QED
      BY <2>1, <3>2 DEF Ledger!Next
  <2> QED
    BY <2>3, <2>4
<1> QED
  BY <1>1, <1>2

LEMMA OutsideStep ==
  ASSUME IInv, Tick \/ Environment \/ UNCHANGED vars
  PROVE  [Ledger!Next]_Ledger!vars
<1>1. InFlight' = InFlight /\ UNCHANGED <<Stamps, fired, lost>>
  BY DEF Tick, Environment, vars, localVars, history, InFlight, Me, Stamps
<1>2. CASE Tick
  BY <1>1, <1>2 DEF Tick, Ledger!Tick, Ledger!Next
<1>3. CASE day' = day
  BY <1>1, <1>3 DEF Ledger!vars
<1> QED
  BY <1>2, <1>3 DEF Environment, vars

LEMMA EachStep == IInv /\ [Next]_vars => [Ledger!Next]_Ledger!vars
BY AdmitStep, QuietStep, FireStep, EnterStep, LoseStep, UnwrittenStep, KillStep,
   OutsideStep
   DEF Next, Step

\* The driver implements the ledger, with any number of processes: between
\* the check of the ceiling and the run log line it never fires twice, never
\* withdraws what it fired, and dies at worst without its line.
THEOREM DriverImplementsLedger == Spec => LedgerSpec
<1>1. Init => Ledger!Init
  BY DEF Init, Ledger!Init, InFlight, Stamps, Firing
<1> QED
  BY <1>1, EachStep, DriverInvariant, PTL DEF Spec, LedgerSpec, Ledger!Spec

\* The submissions of any trailing window that were not lost exceed
\* cowork.max_runs by at most one for each process beyond the first.
THEOREM DriverCeiling == Spec => []CeilingPerProcess
<1>1. Proved!Spec => []Proved!CeilingPerProcess
  <2>1. Proved!LedgerAssumption
    BY SameCardinality, DriverAssumption DEF Proved!LedgerAssumption
  <2> QED
    BY <2>1, Proved!LedgerCeiling
<1>2. Ledger!Init => Proved!Init
  BY DEF Ledger!Init, Proved!Init
<1>3. [Ledger!Next]_Ledger!vars => [Proved!Next]_Proved!vars
  BY SameCardinality
     DEF Ledger!Next, Proved!Next, Ledger!vars, Proved!vars, Ledger!Admit,
         Proved!Admit, Ledger!Fire, Proved!Fire, Ledger!Enter, Proved!Enter,
         Ledger!Withdraw, Proved!Withdraw, Ledger!Lose, Proved!Lose,
         Ledger!Tick, Proved!Tick, Ledger!RecentOf, Proved!RecentOf,
         Ledger!Attempts, Proved!Attempts
<1>4. Proved!CeilingPerProcess <=> CeilingPerProcess
  BY SameCardinality
     DEF Proved!CeilingPerProcess, CeilingPerProcess, Proved!Submitted,
         Submitted, Proved!RecentOf, RecentOf
<1> QED
  BY <1>1, <1>2, <1>3, <1>4, DriverImplementsLedger, PTL
     DEF LedgerSpec, Ledger!Spec, Proved!Spec
-----------------------------------------------------------------------------
(* What `_wait` reports, for every timeout and every pace of writing.      *)

LEMMA WaitInitIInv == WaitInit => WaitIInv
<1> SUFFICES ASSUME WaitInit PROVE WaitIInv
  OBVIOUS
<1>1. times \in Times
  BY DEF WaitInit, Times
<1>2. WaitTypeOK
  <2>1. /\ now \in 0 .. MaxNow
        /\ writes \in 0 .. MaxWrites
        /\ idleSince \in 0 .. MaxNow
        /\ wakeAt \in Nat
    BY WaitAssumption DEF WaitInit
  <2>2. /\ state \in States
        /\ answered \in BOOLEAN
        /\ loopAt \in WaitSteps
        /\ audit \in States
        /\ signature = Never
        /\ outcome \in Outcomes
    BY DEF WaitInit, States, WaitSteps, Outcomes
  <2> QED
    BY <1>1, <2>1, <2>2 DEF WaitTypeOK
<1>3. LoopInv
  BY WaitAssumption DEF WaitInit, LoopInv
<1> QED
  BY <1>2, <1>3 DEF WaitInit, WaitIInv, QuietAsSigned, QuietRunHasStarted

\* A write is dated now, and a first completion is not older than any look.
LEMMA WriteIInv ==
  ASSUME WaitIInv, SessionWrites
  PROVE  WaitIInv'
<1>1. PICK newState \in States, newAnswered \in BOOLEAN :
        /\ Write(newState, newAnswered)
        /\ state # "none" => newState # "none"
        /\ answered => newAnswered
  BY DEF SessionWrites, WaitIInv, WaitTypeOK, States
<1>2. /\ state # "completed"
      /\ writes < MaxWrites
      /\ writes' = writes + 1
      /\ state' = newState
      /\ answered' = newAnswered
      /\ UNCHANGED <<now, loopAt, audit, signature, idleSince, wakeAt, outcome>>
  BY <1>1 DEF SessionWrites, Write, loopVars
<1>3. /\ times'.write = now
      /\ times'.looked = times.looked
      /\ times'.signed = times.signed
      /\ times'.ended = times.ended
      /\ times'.completed = IF newState = "completed" THEN now ELSE Never
      /\ times' \in Times
  <2>1. times.completed = Never /\ times \in Times /\ now \in Nat
    BY <1>2, WaitAssumption DEF WaitIInv, WaitTypeOK, LoopInv
  <2>2. PICK began \in Nat \cup {Never} :
          times' = [times EXCEPT
            !.write = now,
            !.started = began,
            !.completed = IF newState = "completed" THEN now ELSE Never]
    <3>1. times' = [times EXCEPT
            !.write = now,
            !.started = IF HasStarted' /\ times.started = Never
                        THEN now ELSE times.started,
            !.completed = IF newState = "completed" /\ times.completed = Never
                          THEN now ELSE times.completed]
      BY <1>1 DEF Write
    <3>2. times.started \in Nat \cup {Never}
      BY <2>1 DEF Times
    <3> QED
      BY <2>1, <3>1, <3>2
  <2> QED
    BY <2>1, <2>2 DEF Times
<1>4. WaitTypeOK'
  BY <1>2, <1>3, WaitAssumption DEF WaitIInv, WaitTypeOK
<1>5. LoopInv'
  <2>1. now \in Nat /\ writes \in Nat /\ Never \notin Nat
    BY WaitAssumption DEF WaitIInv, WaitTypeOK
  <2>2. /\ signature # Never => signature <= writes
        /\ signature \in Nat \cup {Never}
        /\ times.looked \in Nat \cup {Never}
    BY WaitAssumption DEF WaitIInv, WaitTypeOK, LoopInv, Times
  <2>3. signature # writes' /\ (signature # Never => signature <= writes')
    BY <1>2, <2>1, <2>2
  <2>4. newState = "completed" <=> times'.completed # Never
    BY <1>3, <2>1
  <2>5. times'.looked # Never => times'.looked <= now
    BY <1>3 DEF WaitIInv, LoopInv
  <2>6. \/ loopAt \in {"signature", "quiescence", "deadline"}
        \/ outcome \in {"timeout", "quiescence"}
        => /\ times'.looked # Never
           /\ times'.completed # Never => times'.completed >= times'.looked
    BY <1>3, <2>1, <2>2, <2>5 DEF WaitIInv, LoopInv
  <2> QED
    BY <1>1, <1>2, <1>3, <2>1, <2>3, <2>4, <2>5, <2>6 DEF WaitIInv, LoopInv
<1>6. QuietAsSigned' /\ QuietRunHasStarted'
  BY <1>1, <1>2, <1>3 DEF WaitIInv, QuietAsSigned, QuietRunHasStarted, HasStarted
<1> QED
  BY <1>4, <1>5, <1>6 DEF WaitIInv

\* Each step of the loop.
LEMMA LoopIInv ==
  ASSUME WaitIInv, Loop
  PROVE  WaitIInv'
<1>1. CASE ReadAudit
  <2>1. /\ times'.write = times.write
        /\ times'.signed = times.signed
        /\ times'.completed = times.completed
        /\ times'.looked = now
        /\ times' \in Times
    <3>1. times \in Times /\ now \in Nat
      BY WaitAssumption DEF WaitIInv, WaitTypeOK
    <3>2. \/ times' = [times EXCEPT !.looked = now, !.ended = now]
          \/ times' = [times EXCEPT !.looked = now]
      BY <1>1 DEF ReadAudit
    <3> QED
      BY <3>1, <3>2 DEF Times
  <2>2. WaitTypeOK'
    BY <1>1, <2>1, WaitAssumption
       DEF ReadAudit, End, WaitIInv, WaitTypeOK, WaitSteps, Outcomes, States
  <2>3. LoopInv'
    <3>1. now \in Nat /\ Never \notin Nat
      BY WaitAssumption DEF WaitIInv, WaitTypeOK
    <3>2. outcome = "none"
      BY <1>1 DEF ReadAudit, WaitIInv, LoopInv
    <3>3. CASE state = "completed"
      <4>1. loopAt' = "done" /\ outcome' = "completed"
        BY <1>1, <3>3 DEF ReadAudit, End
      <4> QED
        BY <1>1, <2>1, <3>1, <3>3, <4>1 DEF ReadAudit, WaitIInv, LoopInv
    <3>4. CASE state # "completed"
      BY <1>1, <2>1, <3>1, <3>2, <3>4 DEF ReadAudit, WaitIInv, LoopInv
    <3> QED
      BY <3>3, <3>4
  <2>4. QuietAsSigned' /\ QuietRunHasStarted'
    BY <1>1 DEF ReadAudit, End, WaitIInv, LoopInv, QuietAsSigned,
                QuietRunHasStarted, HasStarted
  <2> QED
    BY <2>2, <2>3, <2>4 DEF WaitIInv
<1>2. CASE ReadSignature
  <2>1. WaitTypeOK'
    BY <1>2, WaitAssumption DEF ReadSignature, WaitIInv, WaitTypeOK, WaitSteps, Times
  <2>2. LoopInv'
    BY <1>2, WaitAssumption
       DEF ReadSignature, WaitIInv, WaitTypeOK, LoopInv, Times, WaitSteps
  <2>3. QuietAsSigned' /\ QuietRunHasStarted'
    BY <1>2 DEF ReadSignature, WaitIInv, LoopInv, QuietAsSigned,
                QuietRunHasStarted, HasStarted
  <2> QED
    BY <2>1, <2>2, <2>3 DEF WaitIInv
<1>3. CASE CheckQuiescence
  <2>1. WaitTypeOK'
    BY <1>3, WaitAssumption
       DEF CheckQuiescence, End, WaitIInv, WaitTypeOK, WaitSteps, Outcomes, Times
  <2>2. LoopInv'
    BY <1>3, WaitAssumption
       DEF CheckQuiescence, End, WaitIInv, WaitTypeOK, LoopInv, Times, WaitSteps
  <2>3. QuietAsSigned'
    BY <1>3, WaitAssumption
       DEF CheckQuiescence, End, IdleLongEnough, WaitIInv, WaitTypeOK, LoopInv,
           QuietAsSigned, Times
  <2>4. QuietRunHasStarted'
    BY <1>3 DEF CheckQuiescence, SeenStarted, End, WaitIInv, LoopInv,
                QuietRunHasStarted, HasStarted
  <2> QED
    BY <2>1, <2>2, <2>3, <2>4 DEF WaitIInv
<1>4. CASE CheckDeadline
  <2>1. WaitTypeOK'
    BY <1>4, WaitAssumption
       DEF CheckDeadline, End, WaitIInv, WaitTypeOK, WaitSteps, Outcomes, Times
  <2>2. LoopInv'
    BY <1>4, WaitAssumption
       DEF CheckDeadline, End, WaitIInv, WaitTypeOK, LoopInv, Times, WaitSteps
  <2>3. QuietAsSigned' /\ QuietRunHasStarted'
    BY <1>4 DEF CheckDeadline, End, WaitIInv, LoopInv, QuietAsSigned,
                QuietRunHasStarted, HasStarted
  <2> QED
    BY <2>1, <2>2, <2>3 DEF WaitIInv
<1>5. CASE Wake
  BY <1>5 DEF Wake, WaitIInv, WaitTypeOK, LoopInv, QuietAsSigned, QuietRunHasStarted,
              HasStarted, WaitSteps
<1> QED
  BY <1>1, <1>2, <1>3, <1>4, <1>5 DEF Loop

LEMMA WaitNextIInv == WaitIInv /\ [WaitNext]_waitVars => WaitIInv'
<1>1. ASSUME WaitIInv, WaitTick PROVE WaitIInv'
  BY <1>1, WaitAssumption
     DEF WaitTick, loopVars, WaitIInv, WaitTypeOK, LoopInv, QuietAsSigned,
         QuietRunHasStarted, HasStarted, Times
<1>2. ASSUME WaitIInv, UNCHANGED waitVars PROVE WaitIInv'
  BY <1>2 DEF waitVars, WaitIInv, WaitTypeOK, LoopInv, QuietAsSigned, QuietRunHasStarted,
              HasStarted
<1> QED
  BY <1>1, <1>2, WriteIInv, LoopIInv DEF WaitNext

LEMMA WaitIInvSafe == WaitIInv => QuietAsSigned /\ QuietRunHasStarted /\ CompletionIsSeen
BY DEF WaitIInv, LoopInv, CompletionIsSeen

\* A run is never reported as quiet within idle_seconds of a write that the
\* loop has seen, nor before it has started.
THEOREM QuietMeansQuiet == WaitSpec => [](QuietAsSigned /\ QuietRunHasStarted)
<1> QED
  BY WaitInitIInv, WaitNextIInv, WaitIInvSafe, PTL DEF WaitSpec

\* A completion that was on disk when the loop last looked is never reported
\* as a timeout or as quiescence.
THEOREM CompletionIsNeverMissed == WaitSpec => []CompletionIsSeen
<1> QED
  BY WaitInitIInv, WaitNextIInv, WaitIInvSafe, PTL DEF WaitSpec
=============================================================================
