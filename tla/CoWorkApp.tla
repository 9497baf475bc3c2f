----------------------------- MODULE CoWorkApp -----------------------------
(***************************************************************************)
(* The desktop application the driver types into, and the person who may   *)
(* be using it.  None of it is code of this repository: it is modelled     *)
(* from what cowork.py observes of it (the frontmost process, the session  *)
(* directories, their audit records and transcripts) and from what the     *)
(* keystrokes and the deep link are sent for.                              *)
(*                                                                         *)
(* A session is created by one Return in the composer and goes through     *)
(*   sent      the application has the prompt, nothing is on disk          *)
(*   dir       its directory exists and holds an empty audit.jsonl         *)
(*   user      the first user record is in audit.jsonl                     *)
(*   answered  its transcript holds assistant text                         *)
(* Nothing bounds the time a session spends in a stage, so a directory may *)
(* appear long after the submission that caused it was given up, and a run *)
(* may end, as far as the driver can tell, in either of the last two.      *)
(***************************************************************************)
EXTENDS Naturals, FiniteSets

CONSTANTS
  Prompts,     \* the prompts a caller submits
  Empty,       \* an empty composer
  Altered,     \* any composer text that is none of Prompts
  SessionIds,  \* the pool of session directories, a bound
  Person       \* the submitter of a session no driver fired

ASSUME AppAssumption ==
  /\ Empty \notin Prompts
  /\ Altered \notin Prompts
  /\ Empty # Altered

VARIABLES
  front,     \* the frontmost process
  composer,  \* the text in CoWork's composer
  sess       \* each session directory: its stage, recorded prompt, submitter

appVars == <<front, composer, sess>>

Texts == Prompts \cup {Altered}

\* Stages in which the sessions root lists the directory (it holds audit.jsonl).
Visible == {"dir", "user", "answered"}

\* Stages in which audit.jsonl holds the first user record.
Recorded == Visible \ {"dir"}

Stages == Visible \cup {"free", "sent"}

AppInit ==
  /\ front \in {"CoWork", "Other"}
  /\ composer \in {Empty, Altered}
  /\ sess = [s \in SessionIds |->
               [stage |-> "free", prompt |-> Altered, by |-> Person]]

\* The directories `sessions` lists.
Directories == {s \in SessionIds : sess[s].stage \in Visible}

\* A Return typed into the composer: a session is under way, and the composer
\* of the new conversation is empty.  An empty composer submits nothing.
ReturnInComposer(submitter) ==
  \/ /\ composer = Empty
     /\ UNCHANGED <<composer, sess>>
  \/ /\ composer # Empty
     /\ \E s \in SessionIds :
          /\ sess[s].stage = "free"
          /\ sess' = [sess EXCEPT ![s] =
               [stage |-> "sent", prompt |-> composer, by |-> submitter]]
     /\ composer' = Empty

-----------------------------------------------------------------------------
(* The person: changes the window in front, types, presses Return.         *)

PersonFocuses ==
  /\ \E f \in {"CoWork", "Other"} : front' = f
  /\ UNCHANGED <<composer, sess>>

PersonTypes ==
  /\ front = "CoWork"
  /\ composer' = Altered
  /\ UNCHANGED <<front, sess>>

PersonSubmits ==
  /\ front = "CoWork"
  /\ composer # Empty
  /\ ReturnInComposer(Person)
  /\ UNCHANGED front

-----------------------------------------------------------------------------
(* The session daemon writes to the host file system.                      *)

StageStep == {<<"sent", "dir">>, <<"dir", "user">>, <<"user", "answered">>}

SessionAdvances ==
  /\ \E s \in SessionIds, t \in Stages :
       /\ <<sess[s].stage, t>> \in StageStep
       /\ sess' = [sess EXCEPT ![s].stage = t]
  /\ UNCHANGED <<front, composer>>

AppNext == PersonFocuses \/ PersonTypes \/ PersonSubmits \/ SessionAdvances
=============================================================================
