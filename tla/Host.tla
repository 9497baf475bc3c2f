-------------------------------- MODULE Host --------------------------------
(***************************************************************************)
(* The container side of src/cowork_evals/cli.py, docker/__init__.py,        *)
(* docker/pytest_image.py and preflight.py: the verbs setup, check, login,    *)
(* run --docker, test and prune --docker, as invocations that share one       *)
(* Docker daemon, its images and one login directory. An invocation reads its *)
(* configuration and its environment once; of the host it asks one thing at a *)
(* time, and anything may change in between.                                *)
(*                                                                         *)
(* External: the daemon, the CLI in the login container, and pytest.         *)
(***************************************************************************)
EXTENDS Naturals, FiniteSets

CONSTANTS
  Procs,    \* the processes, each one invocation after the other
  Configs,  \* the configurations, each with its own digest
  Route,    \* docker.credential of each: "login" or "bedrock"
  Scenarios \* sets of the invocations that are made

Verbs == {"setup", "check", "login", "run", "test", "prune"}

\* The options that decide something; `environ` is whether what the configuration
\* forwards from the environment is set there.
Invocations ==
  [verb : Verbs, config : Configs, force : BOOLEAN, build : BOOLEAN,
   terminal : BOOLEAN, environ : BOOLEAN]

ASSUME HostAssumption ==
  /\ Route \in [Configs -> {"login", "bedrock"}]
  /\ Scenarios \subseteq SUBSET Invocations

VARIABLES
  daemon,      \* it answers
  images,      \* "absent", or built "before" or "since" the cutoff of a prune
  credential,  \* the credentials file: "none", "empty" (no token), "good"
  stateFile,   \* the CLI's state file: "none" (or empty), "torn", "good"
  may,         \* the invocations that are made
  args,        \* the invocation of each process
  pc,          \* what it does next, "idle" when it has returned
  todo,        \* the images it has yet to look for
  unmet,       \* the conditions `check` found unmet
  listed,      \* the images a prune has yet to remove
  (* History. *)
  taken,       \* the images that a prune of another configuration removed
  rebuilt,     \* what was built since a prune of each process listed its images
  prepared,    \* the configurations for which a setup returned 0
  had,         \* there was a working login
  excused,     \* it was risked: a login was forced, or two of them overlapped
  cleared,     \* since it was made, the container of a run has left no token of it
  killed       \* a container that mounts the login directory was killed

host == <<daemon, images, credential, stateFile>>
past == <<had, excused, cleared, killed>>
history == <<taken, rebuilt, prepared, past>>
vars == <<host, may, args, pc, todo, unmet, listed, history>>
-----------------------------------------------------------------------------
Kinds == {"eval", "test"}
Images == Kinds \X Configs

Image(p, kind) == <<kind, args[p].config>>
Present(i) == daemon /\ images[i] # "absent"

\* Mutant of Stale: by age alone.
StaleByAge(p) == {i \in Images : images[i] = "before"}

\* `_stale`: neither of the configuration's own two tags, and built before the cutoff.
Stale(p) ==
  {i \in Images : i \notin {Image(p, kind) : kind \in Kinds} /\ images[i] = "before"}

Idle == CHOOSE a \in Invocations : a.verb = "check"

Init ==
  /\ daemon \in BOOLEAN
  /\ images = [i \in Images |-> "absent"]
  /\ credential \in {"none", "empty"} /\ stateFile = "none"
  /\ pc = [p \in Procs |-> "idle"]
  /\ may \in Scenarios /\ args = [p \in Procs |-> Idle]
  /\ todo = [p \in Procs |-> {}]
  /\ unmet = [p \in Procs |-> {}]
  /\ listed = [p \in Procs |-> {}]
  /\ taken = {} /\ rebuilt = [p \in Procs |-> {}]
  /\ prepared = {}
  /\ had = FALSE /\ excused = FALSE /\ cleared = FALSE /\ killed = FALSE
-----------------------------------------------------------------------------
(* Control. *)

\* What the interpreter exits with for an exception that nothing catches.
Raised == 1

At(p, where) == pc[p] = where
Verb(p, verb) == args[p].verb = verb
Goto(p, where) == pc' = [pc EXCEPT ![p] = where]
Look(p, kinds) == todo' = [todo EXCEPT ![p] = kinds]

Return(p, code) ==
  /\ Goto(p, "idle")
  /\ args' = [args EXCEPT ![p] = Idle]
  /\ prepared' = IF Verb(p, "setup") /\ code = 0
                    THEN prepared \cup {args[p].config} ELSE prepared
  /\ todo' = [todo EXCEPT ![p] = {}]
  /\ unmet' = [unmet EXCEPT ![p] = {}]
  /\ listed' = [listed EXCEPT ![p] = {}]
  /\ rebuilt' = [rebuilt EXCEPT ![p] = {}]

\* The images of a preflight.
Needed(p) == IF Verb(p, "test") THEN Kinds ELSE {"eval"}

\* The one that is looked for next: the base before the layer over it.
Now(p) == IF "eval" \in todo[p] THEN "eval" ELSE "test"

Preflight(p) == Goto(p, "daemon") /\ Look(p, Needed(p))

\* `_dispatch`.
First(a) ==
  CASE a.verb = "setup" \/ (a.verb = "test" /\ a.build) -> "ensure"
    [] a.verb = "run" /\ a.build -> "reach"
    [] a.verb = "login" -> "login"
    [] a.verb = "prune" -> "list"
    [] OTHER -> "daemon"

Start(p) ==
  /\ At(p, "idle")
  /\ \E a \in may :
       /\ args' = [args EXCEPT ![p] = a]
       /\ Goto(p, First(a))
       /\ Look(p, IF a.verb \in {"setup", "test"} THEN Kinds ELSE {"eval"})
  /\ UNCHANGED <<host, unmet, listed, history>>
-----------------------------------------------------------------------------
(* Building what is missing: setup, test --build-missing, run --build-missing. *)

\* `_run_preflight`: an absent image is built when the daemon answers.
Reach(p) ==
  /\ At(p, "reach")
  /\ Goto(p, IF daemon THEN "ensure" ELSE "daemon")
  /\ UNCHANGED <<host, args, todo, unmet, listed, history>>

Ensure(p) ==
  /\ At(p, "ensure") /\ todo[p] # {}
  /\ IF Present(Image(p, Now(p)))
       THEN Look(p, todo[p] \ {Now(p)}) /\ UNCHANGED pc
       ELSE Goto(p, "build") /\ UNCHANGED todo
  /\ UNCHANGED <<host, args, unmet, listed, history>>

EndEnsure(p) ==
  /\ At(p, "ensure") /\ todo[p] = {}
  /\ IF Verb(p, "setup") THEN Return(p, 0)
     ELSE Preflight(p) /\ UNCHANGED <<unmet, listed, rebuilt, prepared, args>>
  /\ UNCHANGED <<host, taken, past>>

\* The test image is built over the base, and never builds it.
Build(p) ==
  LET i == Image(p, Now(p)) IN
  /\ At(p, "build")
  /\ daemon /\ (Now(p) = "test" => Present(Image(p, "eval")))
  /\ images' = [images EXCEPT ![i] = "since"]
  /\ taken' = taken \ {i}
  /\ rebuilt' = [q \in Procs |-> rebuilt[q] \cup (listed[q] \cap {i})]
  /\ Goto(p, "ensure") /\ Look(p, todo[p] \ {Now(p)})
  /\ UNCHANGED <<daemon, credential, stateFile, args, unmet, listed, prepared, past>>

BuildFails(p) ==
  /\ At(p, "build")
  /\ Return(p, Raised)
  /\ UNCHANGED <<host, taken, past>>
-----------------------------------------------------------------------------
(* `check`: of Docker, or of PytestImage, which asks for no credential.      *)

Find(p, conditions) == unmet' = [unmet EXCEPT ![p] = @ \cup conditions]

CheckDaemon(p) ==
  /\ At(p, "daemon")
  /\ IF daemon THEN Goto(p, "image") /\ UNCHANGED unmet
     ELSE Goto(p, "credential") /\ Find(p, {"DAEMON"})
  /\ UNCHANGED <<host, args, todo, listed, history>>

CheckImage(p) ==
  /\ At(p, "image")
  /\ IF todo[p] = {} THEN Goto(p, "credential") /\ UNCHANGED <<todo, unmet>>
     ELSE IF Present(Image(p, Now(p)))
       THEN Look(p, todo[p] \ {Now(p)}) /\ UNCHANGED <<pc, unmet>>
       ELSE Goto(p, "credential") /\ Find(p, {"IMAGE"}) /\ UNCHANGED todo
  /\ UNCHANGED <<host, args, listed, history>>

\* `check_credential` and `check_environment`.
CheckCredential(p) ==
  LET login == Route[args[p].config] = "login" IN
  /\ At(p, "credential")
  /\ Find(p, IF Verb(p, "test") THEN {}
             ELSE {c \in {"CREDENTIAL"} : login /\ credential # "good"}
                  \cup {c \in {"BEDROCK"} : ~login /\ ~args[p].environ}
                  \cup {c \in {"ENVIRONMENT"} : ~args[p].environ})
  /\ Goto(p, "decide")
  /\ UNCHANGED <<host, args, todo, listed, history>>

\* What a verb does with the conditions. A login asks for the daemon, the image and
\* a terminal.
Blocking(p) ==
  IF Verb(p, "login") THEN unmet[p] \cap {"DAEMON", "IMAGE"} ELSE unmet[p]

Refuse(p) ==
  /\ At(p, "decide")
  /\ Blocking(p) # {} \/ (Verb(p, "login") /\ ~args[p].terminal)
  /\ Return(p, 3)
  /\ UNCHANGED <<host, taken, past>>

Ready(p) ==
  /\ At(p, "decide") /\ Verb(p, "check") /\ unmet[p] = {}
  /\ Return(p, 0)
  /\ UNCHANGED <<host, taken, past>>

Proceed(p) ==
  /\ At(p, "decide") /\ Blocking(p) = {} /\ ~Verb(p, "check")
  /\ Verb(p, "login") => args[p].terminal
  /\ Goto(p, CASE Verb(p, "login") -> "seed"
               [] Verb(p, "run") -> "container"
               [] Verb(p, "test") -> "check again")
  /\ UNCHANGED <<host, args, todo, unmet, listed, history>>

\* `PytestImage.run` checks for itself, and raises.
CheckAgain(p) ==
  /\ At(p, "check again")
  /\ IF \A kind \in Kinds : Present(Image(p, kind))
       THEN Goto(p, "container") /\ UNCHANGED <<todo, unmet, listed, rebuilt, prepared, args>>
       ELSE Return(p, Raised)
  /\ UNCHANGED <<host, taken, past>>
-----------------------------------------------------------------------------
(* The login.                                                              *)

\* The logins between their look at the credential and their end.
LoggingIn == {q \in Procs : Verb(q, "login") /\ pc[q] \notin {"idle", "login"}}

NoLogin(p) == Route[args[p].config] # "login"

\* Mutant of Current: a login that is there is made again.
CurrentNever(p) == FALSE

Current(p) == credential = "good" /\ ~args[p].force

LookAtLogin(p) ==
  /\ At(p, "login")
  /\ IF NoLogin(p) THEN Return(p, 3) /\ UNCHANGED excused
     ELSE IF Current(p) THEN Return(p, 0) /\ UNCHANGED excused
     ELSE /\ Preflight(p)
          /\ excused' = (excused \/ args[p].force \/ LoggingIn # {})
          /\ UNCHANGED <<unmet, listed, rebuilt, prepared, args>>
  /\ UNCHANGED <<host, taken, had, cleared, killed>>

\* `seed_login_dir`: an empty state file would stop the CLI. One that is torn does
\* too, and is left as it is.
Seed(p) ==
  /\ At(p, "seed")
  /\ stateFile' = IF stateFile = "none" THEN "good" ELSE stateFile
  /\ Goto(p, "container")
  /\ UNCHANGED <<daemon, images, credential, args, todo, unmet, listed, history>>
-----------------------------------------------------------------------------
(* One container.                                                          *)

Kind(p) == IF Verb(p, "test") THEN "test" ELSE "eval"
Mounts(p) == ~Verb(p, "test") /\ ~NoLogin(p)

StartContainer(p) ==
  /\ At(p, "container") /\ Present(Image(p, Kind(p)))
  /\ Goto(p, "running")
  /\ UNCHANGED <<host, args, todo, unmet, listed, history>>

\* `docker run` finds no image or no daemon: a run and a login fail, and `test`
\* returns docker's code as it would pytest's.
NoContainer(p) ==
  /\ At(p, "container") /\ ~Present(Image(p, Kind(p)))
  /\ Return(p, IF Verb(p, "test") THEN 125 ELSE 1)
  /\ UNCHANGED <<host, taken, past>>

\* The login directory is mounted read-write, and the CLI of a run refreshes its
\* token there. A refresh is refused once the login is revoked or too old, at any
\* time, and the CLI then leaves a file without a token.
RefreshRefused(p) ==
  /\ At(p, "running") /\ Verb(p, "run") /\ Mounts(p)
  /\ credential = "good" /\ credential' = "empty" /\ cleared' = TRUE
  /\ UNCHANGED <<daemon, images, stateFile, args, pc, todo, unmet, listed>>
  /\ UNCHANGED <<taken, rebuilt, prepared, had, excused, killed>>

\* What a login leaves: a credential when it completes, and a file without a token
\* or nothing when it does not.
LeftBehind == {"good", "empty", credential}

\* A container that ends by itself leaves its files whole.
EndContainer(p) ==
  /\ At(p, "running")
  /\ IF Verb(p, "login")
       THEN \E left \in LeftBehind, exit \in 0 .. 1 :
              /\ left = "good" \/ exit = 1 \/ left = credential
              /\ credential' = left
              /\ had' = (had \/ left = "good")
              /\ cleared' = (cleared /\ left # "good")
              /\ Return(p, IF exit = 0 /\ left = "good" THEN 0 ELSE 1)
       ELSE /\ \E exit \in 0 .. 1 : Return(p, exit)
            /\ UNCHANGED <<credential, had, cleared>>
  /\ UNCHANGED <<daemon, images, stateFile, taken, excused, killed>>
-----------------------------------------------------------------------------
(* prune --docker.                                                         *)

List(p) ==
  /\ At(p, "list")
  /\ IF daemon
       THEN /\ listed' = [listed EXCEPT ![p] = Stale(p)]
            /\ Goto(p, "remove")
            /\ UNCHANGED <<todo, unmet, rebuilt, prepared, args>>
       ELSE Return(p, Raised)
  /\ UNCHANGED <<host, taken, past>>

InUse(i) == \E q \in Procs : At(q, "running") /\ Image(q, Kind(q)) = i

Remove(p) ==
  /\ At(p, "remove")
  /\ \E i \in listed[p] :
       /\ Present(i) /\ ~InUse(i)
       /\ images' = [images EXCEPT ![i] = "absent"]
       /\ listed' = [listed EXCEPT ![p] = @ \ {i}]
       /\ rebuilt' = [rebuilt EXCEPT ![p] = @ \ {i}]
       /\ taken' = IF i[2] # args[p].config THEN taken \cup {i} ELSE taken
  /\ UNCHANGED <<daemon, credential, stateFile, args, pc, todo, unmet, prepared, past>>

\* The first one that docker keeps ends the prune.
RemoveFails(p) ==
  /\ At(p, "remove")
  /\ \E i \in listed[p] : ~Present(i) \/ InUse(i)
  /\ Return(p, Raised)
  /\ UNCHANGED <<host, taken, past>>

EndPrune(p) ==
  /\ At(p, "remove") /\ listed[p] = {}
  /\ Return(p, 0)
  /\ UNCHANGED <<host, taken, past>>
-----------------------------------------------------------------------------
\* Ctrl-C, anywhere. It reaches the container too, and what that was writing in the
\* login directory is half written or empty.
Interrupt(p) ==
  /\ ~At(p, "idle")
  /\ Return(p, 130)
  /\ IF At(p, "running") /\ Mounts(p)
       THEN /\ credential' \in {credential, "empty"}
            /\ cleared' = (cleared \/ (Verb(p, "run") /\ credential' # credential))
            /\ stateFile' \in {stateFile, "none", "torn"}
            /\ killed' = TRUE
       ELSE UNCHANGED <<credential, stateFile, cleared, killed>>
  /\ UNCHANGED <<daemon, images, taken, had, excused>>

Daemon ==
  /\ daemon' = ~daemon
  /\ UNCHANGED <<images, credential, stateFile, args, pc, todo, unmet, listed, history>>

\* An image passes the cutoff.
Age ==
  /\ \E i \in Images : images[i] = "since" /\ images' = [images EXCEPT ![i] = "before"]
  /\ UNCHANGED <<daemon, credential, stateFile, args, pc, todo, unmet, listed, history>>

Step(p) ==
  \/ Start(p) \/ Reach(p) \/ Ensure(p) \/ EndEnsure(p) \/ Build(p) \/ BuildFails(p)
  \/ CheckDaemon(p) \/ CheckImage(p) \/ CheckCredential(p) \/ Refuse(p) \/ Ready(p)
  \/ Proceed(p) \/ CheckAgain(p) \/ LookAtLogin(p) \/ Seed(p) \/ StartContainer(p)
  \/ RefreshRefused(p) \/ NoContainer(p) \/ EndContainer(p) \/ List(p) \/ Remove(p)
  \/ RemoveFails(p) \/ EndPrune(p) \/ Interrupt(p)

Next == ((\E p \in Procs : Step(p)) \/ Daemon \/ Age) /\ UNCHANGED may

Spec == Init /\ [][Next]_vars
-----------------------------------------------------------------------------
(* Properties.                                                             *)

\* The images of a configuration are taken only by a prune under another one: a
\* preflight that passed still has its image when the container starts, and a setup
\* that returned 0 leaves both, unless such a prune took it. A prune takes nothing
\* younger than its cutoff, unless it was rebuilt after the listing.
ImagesAreKept ==
  /\ \A i \in Kinds \X prepared : images[i] # "absent" \/ i \in taken
  /\ \A p \in Procs :
       /\ pc[p] \in {"container", "seed", "check again"} =>
            images[Image(p, Kind(p))] # "absent" \/ Image(p, Kind(p)) \in taken
       /\ \A i \in listed[p] : images[i] = "since" => i \in rebuilt[p]

\* A login, once made, outlives the commands: it is lost only to a login that was
\* forced or overlapped another, to a refresh that was refused in the container of a
\* run, or to a run that was killed while it wrote. But for those, the container of a
\* run that passed its preflight has a login that works, whatever was made, refused
\* or interrupted since; and a run and a login find a state file that the CLI can
\* read unless a container was killed.
LoginIsKept ==
  /\ had /\ ~excused => credential = "good" \/ cleared
  /\ \A p \in Procs :
       Mounts(p) /\ pc[p] \in {"container", "running"} =>
         /\ stateFile = "good" \/ killed
         /\ Verb(p, "run") /\ ~excused => credential = "good" \/ cleared
=============================================================================
