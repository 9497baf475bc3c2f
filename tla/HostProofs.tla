----------------------------- MODULE HostProofs -----------------------------
(* That images and logins are kept, for every number of invocations and of    *)
(* configurations.                                                         *)
EXTENDS Host, TLAPS

Places == {"idle", "login", "reach", "ensure", "build", "daemon", "image", "credential",
           "decide", "check again", "seed", "container", "running", "list", "remove"}

Conditions == {"DAEMON", "IMAGE", "CREDENTIAL", "BEDROCK", "ENVIRONMENT"}

Types ==
  /\ daemon \in BOOLEAN /\ stateFile \in {"none", "torn", "good"}
  /\ had \in BOOLEAN /\ excused \in BOOLEAN /\ cleared \in BOOLEAN /\ killed \in BOOLEAN
  /\ images \in [Images -> {"absent", "before", "since"}]
  /\ taken \subseteq Images /\ prepared \subseteq Configs
  /\ may \subseteq Invocations
  /\ args \in [Procs -> Invocations \cup {Idle}]
  /\ pc \in [Procs -> Places]
  /\ todo \in [Procs -> SUBSET Kinds]
  /\ unmet \in [Procs -> SUBSET Conditions]
  /\ listed \in [Procs -> SUBSET Images]
  /\ rebuilt \in [Procs -> SUBSET Images]

\* Which verb may be where.
Fits(a, where) ==
  /\ where # "idle" => a \in Invocations
  /\ where \in {"login", "seed"} => a.verb = "login"
  /\ where = "reach" => a.verb = "run"
  /\ where = "check again" => a.verb = "test"
  /\ where \in {"list", "remove"} => a.verb = "prune"
  /\ where \in {"ensure", "build"} => a.verb \in {"setup", "run", "test"}
  /\ where \in {"daemon", "image", "credential", "decide"} =>
       a.verb \in {"check", "login", "run", "test"}
  /\ where \in {"container", "running"} => a.verb \in {"login", "run", "test"}
  /\ a.verb = "login" /\ where \notin {"idle", "login"} => Route[a.config] = "login"

Control ==
  \A p \in Procs :
    /\ Fits(args[p], pc[p])
    /\ pc[p] # "remove" => listed[p] = {}

Kept(i) == images[i] # "absent" \/ i \in taken

\* What an invocation has seen of the images, it has still but for what was taken.
SeenBy(p) ==
  /\ pc[p] \in {"ensure", "build"} /\ Verb(p, "setup") =>
       \A k \in Kinds \ todo[p] : Kept(Image(p, k))
  /\ pc[p] \in {"reach", "daemon"} => todo[p] = Needed(p)
  /\ pc[p] = "image" => \A k \in Needed(p) \ todo[p] : Kept(Image(p, k))
  /\ pc[p] \in {"credential", "decide"} /\ unmet[p] \cap {"DAEMON", "IMAGE"} = {} =>
       \A k \in Needed(p) : Kept(Image(p, k))
  /\ pc[p] \in {"check again", "seed", "container", "running"} => Kept(Image(p, Kind(p)))
  /\ \A i \in listed[p] : i[2] # args[p].config

\* What is younger than the cutoff of a prune was built after its listing.
OldListed(p) == \A i \in listed[p] : images[i] = "since" => i \in rebuilt[p]

ImagesSeen ==
  /\ \A i \in Kinds \X prepared : Kept(i)
  /\ \A p \in Procs : SeenBy(p) /\ OldListed(p)

ImagesInv == Types /\ Control /\ ImagesSeen
-----------------------------------------------------------------------------
LEMMA TypesInit == ASSUME HostAssumption, Init PROVE Types
BY DEF HostAssumption, Init, Types, Places

LEMMA TypesNext == ASSUME Types, Control, Next PROVE Types'
<1>1. may' \subseteq Invocations
  BY DEF Types, Next
<1>2. CASE Daemon
  BY <1>1, <1>2 DEF Types, Daemon, history, past
<1>3. CASE Age
  BY <1>1, <1>3 DEF Types, Age, history, past
<1>4. ASSUME NEW p \in Procs, Step(p) PROVE Types'
  <2>0. ASSUME NEW code, Return(p, code), args[p].config \in Configs \/ ~Verb(p, "setup")
        PROVE  /\ prepared' \subseteq Configs
               /\ args' \in [Procs -> Invocations \cup {Idle}]
               /\ pc' \in [Procs -> Places]
               /\ todo' \in [Procs -> SUBSET Kinds]
               /\ unmet' \in [Procs -> SUBSET Conditions]
               /\ listed' \in [Procs -> SUBSET Images]
               /\ rebuilt' \in [Procs -> SUBSET Images]
    BY <2>0 DEF Types, Return, Goto, Places
  <2>1. pc[p] # "idle" => args[p].config \in Configs
    BY DEF Control, Fits, Invocations
  <2>a. Kinds \in SUBSET Kinds /\ {"eval"} \in SUBSET Kinds /\ Needed(p) \in SUBSET Kinds
    BY DEF Needed, Kinds
  <2>b. ASSUME NEW C \in SUBSET Conditions, Find(p, C)
        PROVE unmet' \in [Procs -> SUBSET Conditions]
    BY <2>b DEF Types, Find
  <2>c. {"DAEMON"} \in SUBSET Conditions /\ {"IMAGE"} \in SUBSET Conditions
    BY DEF Conditions
  <2>2. CASE Start(p)
    <3>1. PICK a \in may : /\ args' = [args EXCEPT ![p] = a]
                           /\ Goto(p, First(a))
                           /\ Look(p, IF a.verb \in {"setup", "test"} THEN Kinds ELSE {"eval"})
      BY <2>2 DEF Start
    <3>2. First(a) \in Places
      BY DEF First, Places
    <3>3. pc' \in [Procs -> Places]
      BY <3>1, <3>2 DEF Types, Goto
    <3>4. todo' \in [Procs -> SUBSET Kinds]
      BY <3>1, <2>a DEF Types, Look
    <3>5. args' \in [Procs -> Invocations \cup {Idle}]
      BY <3>1 DEF Types
    <3> QED
      BY <1>1, <2>2, <3>3, <3>4, <3>5 DEF Types, Start, host, history, past
  <2>3. CASE Reach(p) BY <1>1, <2>3 DEF Types, Reach, Goto, Places, host, history, past
  <2>4. CASE Ensure(p) BY <1>1, <2>4 DEF Types, Ensure, Goto, Look, Places, host, history, past
  <2>5. CASE EndEnsure(p)
    <3>1. CASE Verb(p, "setup")
      BY <1>1, <2>0, <2>1, <2>5, <3>1 DEF Types, EndEnsure, At, host, past
    <3>2. CASE ~Verb(p, "setup")
      <4>1. /\ Preflight(p) /\ UNCHANGED <<host, taken, past>>
            /\ UNCHANGED <<unmet, listed, rebuilt, prepared, args>>
        BY <2>5, <3>2 DEF EndEnsure
      <4>2. pc' \in [Procs -> Places] /\ todo' \in [Procs -> SUBSET Kinds]
        BY <2>a, <4>1 DEF Types, Preflight, Goto, Look, Places
      <4> QED BY <1>1, <4>1, <4>2 DEF Types, host, past
    <3> QED BY <3>1, <3>2
  <2>6. CASE Build(p)
    BY <1>1, <2>1, <2>6 DEF Types, Build, Goto, Look, Places, At, Image, Images, Now, Kinds, past
  <2>7. CASE BuildFails(p) BY <1>1, <2>0, <2>1, <2>7 DEF Types, BuildFails, At, host, past
  <2>8. CASE CheckDaemon(p)
    BY <1>1, <2>b, <2>c, <2>8 DEF Types, CheckDaemon, Goto, Places, host, history, past
  <2>9. CASE CheckImage(p)
    <3>1. unmet' \in [Procs -> SUBSET Conditions]
      BY <2>b, <2>c, <2>9 DEF Types, CheckImage
    <3>2. pc' \in [Procs -> Places] /\ todo' \in [Procs -> SUBSET Kinds]
      BY <2>9 DEF Types, CheckImage, Goto, Look, Places
    <3> QED BY <1>1, <2>9, <3>1, <3>2 DEF Types, CheckImage, host, history, past
  <2>10. CASE CheckCredential(p)
    BY <1>1, <2>10 DEF Types, CheckCredential, Find, Conditions, Goto, Places, host, history, past
  <2>11. CASE Refuse(p) BY <1>1, <2>0, <2>1, <2>11 DEF Types, Refuse, At, host, past
  <2>12. CASE Ready(p) BY <1>1, <2>0, <2>1, <2>12 DEF Types, Ready, At, host, past
  <2>13. CASE Proceed(p) BY <1>1, <2>13 DEF Types, Proceed, Goto, Places, host, history, past, Control, Fits, At, Verb
  <2>14. CASE CheckAgain(p)
    BY <1>1, <2>0, <2>1, <2>14 DEF Types, CheckAgain, At, Goto, Places, host, history, past
  <2>15. CASE LookAtLogin(p)
    <3>1. /\ UNCHANGED <<host, taken, had, cleared, killed>>
          /\ excused' \in BOOLEAN
      BY <2>15 DEF LookAtLogin, Types
    <3>2. CASE NoLogin(p) \/ Current(p)
      BY <1>1, <2>0, <2>1, <2>15, <3>1, <3>2 DEF Types, LookAtLogin, At, host
    <3>3. CASE ~NoLogin(p) /\ ~Current(p)
      BY <1>1, <2>a, <2>15, <3>1, <3>3
      DEF Types, LookAtLogin, Preflight, Goto, Look, Places, host
    <3> QED BY <3>2, <3>3
  <2>16. CASE Seed(p) BY <1>1, <2>16 DEF Types, Seed, Goto, Places, history, past
  <2>17. CASE StartContainer(p) BY <1>1, <2>17 DEF Types, StartContainer, Goto, Places, host, history, past
  <2>18. CASE NoContainer(p) BY <1>1, <2>0, <2>1, <2>18 DEF Types, NoContainer, At, host, past
  <2>19. CASE EndContainer(p) BY <1>1, <2>0, <2>1, <2>19 DEF Types, EndContainer, At
  <2>20. CASE List(p)
    <3>1. Stale(p) \in SUBSET Images
      BY DEF Stale
    <3> QED
      BY <1>1, <2>0, <2>1, <2>20, <3>1 DEF Types, List, At, Goto, Places, host, past
  <2>21. CASE Remove(p) BY <1>1, <2>21 DEF Types, Remove, past
  <2>22. CASE RemoveFails(p) BY <1>1, <2>0, <2>1, <2>22 DEF Types, RemoveFails, At, host, past
  <2>23. CASE EndPrune(p) BY <1>1, <2>0, <2>1, <2>23 DEF Types, EndPrune, At, host, past
  <2>24. CASE Interrupt(p) BY <1>1, <2>0, <2>1, <2>24 DEF Types, Interrupt, At
  <2>25. CASE RefreshRefused(p) BY <1>1, <2>25 DEF Types, RefreshRefused
  <2> QED
    BY <1>4, <2>2, <2>3, <2>4, <2>5, <2>6, <2>7, <2>8, <2>9, <2>10, <2>11, <2>12, <2>13,
       <2>14, <2>15, <2>16, <2>17, <2>18, <2>19, <2>20, <2>21, <2>22, <2>23, <2>24, <2>25
    DEF Step
<1> QED BY <1>2, <1>3, <1>4 DEF Next
-----------------------------------------------------------------------------
LEMMA ControlInit == ASSUME Init PROVE Control
BY DEF Init, Control, Fits

LEMMA ReturnControl ==
  ASSUME Types, Control, NEW p \in Procs, NEW code, Return(p, code) PROVE Control'
BY DEF Types, Control, Return, Goto, Fits

LEMMA GotoControl ==
  ASSUME Types, Control, NEW p \in Procs, NEW where, Goto(p, where), where # "remove",
         UNCHANGED <<args, listed>>, pc[p] # "remove", Fits(args[p], where)
  PROVE Control'
BY DEF Types, Control, Goto

LEMMA FirstStep ==
  ASSUME NEW a \in Invocations
  PROVE  /\ First(a) \in {"ensure", "reach", "login", "list", "daemon"}
         /\ First(a) = "ensure" => a.verb \in {"setup", "test"}
         /\ First(a) = "reach" => a.verb = "run"
         /\ First(a) = "login" => a.verb = "login"
         /\ First(a) = "list" => a.verb = "prune"
         /\ First(a) = "daemon" => a.verb \in {"check", "run", "test"}
BY DEF First, Invocations, Verbs

LEMMA ControlNext == ASSUME Types, Control, Next PROVE Control'
<1>1. CASE Daemon BY <1>1 DEF Control, Daemon
<1>2. CASE Age BY <1>2 DEF Control, Age
<1>3. ASSUME NEW p \in Procs, Step(p) PROVE Control'
  <2>0. Fits(args[p], pc[p])
    BY DEF Control
  <2>1. CASE Start(p)
    <3>1. PICK a \in may : args' = [args EXCEPT ![p] = a] /\ Goto(p, First(a))
      BY <2>1 DEF Start
    <3>2. a \in Invocations
      BY DEF Types
    <3>3. Fits(a, First(a)) /\ First(a) # "remove"
      BY <3>2, FirstStep DEF Fits
    <3> QED
      BY <2>1, <3>1, <3>3 DEF Types, Control, Start, Goto, At
  <2>2. CASE Reach(p)
    <3>1. CASE daemon
      BY <2>0, <2>2, <3>1, ReturnControl, GotoControl DEF Reach, At, Fits
    <3>2. CASE ~daemon
      BY <2>0, <2>2, <3>2, ReturnControl, GotoControl DEF Reach, At, Fits
    <3> QED BY <3>1, <3>2
  <2>3. CASE Ensure(p)
    <3>1. CASE Present(Image(p, Now(p)))
      BY <2>0, <2>3, <3>1, ReturnControl, GotoControl DEF Ensure, At, Fits, Control
    <3>2. CASE ~Present(Image(p, Now(p)))
      BY <2>0, <2>3, <3>2, ReturnControl, GotoControl DEF Ensure, At, Fits, Control
    <3> QED BY <3>1, <3>2
  <2>4. CASE EndEnsure(p)
    <3>1. CASE Verb(p, "setup")
      BY <2>0, <2>4, <3>1, ReturnControl, GotoControl DEF EndEnsure, Preflight, At, Verb, Fits
    <3>2. CASE ~Verb(p, "setup")
      BY <2>0, <2>4, <3>2, ReturnControl, GotoControl DEF EndEnsure, Preflight, At, Verb, Fits
    <3> QED BY <3>1, <3>2
  <2>5. CASE Build(p)
    BY <2>0, <2>5, GotoControl DEF Build, At, Verb, Fits
  <2>6. CASE BuildFails(p)
    BY <2>6, ReturnControl DEF BuildFails
  <2>7. CASE CheckDaemon(p)
    <3>1. CASE daemon
      BY <2>0, <2>7, <3>1, ReturnControl, GotoControl DEF CheckDaemon, At, Fits
    <3>2. CASE ~daemon
      BY <2>0, <2>7, <3>2, ReturnControl, GotoControl DEF CheckDaemon, At, Fits
    <3> QED BY <3>1, <3>2
  <2>8. CASE CheckImage(p)
    <3>1. CASE todo[p] = {}
      BY <2>0, <2>8, <3>1, ReturnControl, GotoControl DEF CheckImage, At, Fits, Control
    <3>2. CASE todo[p] # {} /\ Present(Image(p, Now(p)))
      BY <2>0, <2>8, <3>2, ReturnControl, GotoControl DEF CheckImage, At, Fits, Control
    <3>3. CASE todo[p] # {} /\ ~Present(Image(p, Now(p)))
      BY <2>0, <2>8, <3>3, ReturnControl, GotoControl DEF CheckImage, At, Fits, Control
    <3> QED BY <3>1, <3>2, <3>3
  <2>9. CASE CheckCredential(p)
    BY <2>0, <2>9, GotoControl DEF CheckCredential, At, Verb, Fits
  <2>10. CASE Refuse(p)
    BY <2>10, ReturnControl DEF Refuse
  <2>11. CASE Ready(p)
    BY <2>11, ReturnControl DEF Ready
  <2>12. CASE Proceed(p)
    BY <2>0, <2>12, GotoControl DEF Proceed, At, Verb, Fits
  <2>13. CASE CheckAgain(p)
    <3>1. CASE \A kind \in Kinds : Present(Image(p, kind))
      BY <2>0, <2>13, <3>1, ReturnControl, GotoControl DEF CheckAgain, At, Fits
    <3>2. CASE ~\A kind \in Kinds : Present(Image(p, kind))
      BY <2>0, <2>13, <3>2, ReturnControl, GotoControl DEF CheckAgain, At, Fits
    <3> QED BY <3>1, <3>2
  <2>14. CASE LookAtLogin(p)
    <3>1. CASE NoLogin(p) \/ Current(p)
      BY <2>0, <2>14, <3>1, ReturnControl, GotoControl DEF LookAtLogin, Preflight, At, Fits, NoLogin
    <3>2. CASE ~NoLogin(p) /\ ~Current(p)
      BY <2>0, <2>14, <3>2, ReturnControl, GotoControl DEF LookAtLogin, Preflight, At, Fits, NoLogin
    <3> QED BY <3>1, <3>2
  <2>15. CASE Seed(p)
    BY <2>0, <2>15, GotoControl DEF Seed, At, Verb, Fits
  <2>16. CASE StartContainer(p)
    BY <2>0, <2>16, GotoControl DEF StartContainer, At, Verb, Fits
  <2>17. CASE NoContainer(p)
    BY <2>17, ReturnControl DEF NoContainer
  <2>18. CASE EndContainer(p)
    BY <2>18, ReturnControl DEF EndContainer
  <2>19. CASE List(p)
    <3>1. CASE daemon
      <4>1. Fits(args[p], "remove")
        BY <2>0, <2>19 DEF List, At, Fits
      <4>2. /\ args' = args /\ pc' = [pc EXCEPT ![p] = "remove"]
            /\ listed' = [listed EXCEPT ![p] = Stale(p)]
        BY <2>19, <3>1 DEF List, Goto
      <4> HIDE DEF Fits
      <4> QED
        BY <4>1, <4>2 DEF Types, Control
    <3>2. CASE ~daemon
      BY <2>19, <3>2, ReturnControl DEF List
    <3> QED BY <3>1, <3>2
  <2>20. CASE Remove(p)
    BY <2>20 DEF Remove, At, Types, Control
  <2>21. CASE RemoveFails(p)
    BY <2>21, ReturnControl DEF RemoveFails
  <2>22. CASE EndPrune(p)
    BY <2>22, ReturnControl DEF EndPrune
  <2>23. CASE Interrupt(p)
    BY <2>23, ReturnControl DEF Interrupt
  <2>24. CASE RefreshRefused(p)
    BY <2>24 DEF RefreshRefused, Control
  <2> QED
    BY <1>3, <2>24, <2>1, <2>2, <2>3, <2>4, <2>5, <2>6, <2>7, <2>8, <2>9, <2>10, <2>11, <2>12, <2>13, <2>14, <2>15, <2>16, <2>17, <2>18, <2>19, <2>20, <2>21, <2>22, <2>23 DEF Step
<1> QED BY <1>1, <1>2, <1>3 DEF Next
-----------------------------------------------------------------------------
(* Images.                                                                 *)

LEMMA ImagesInit == ASSUME Init PROVE ImagesSeen
BY DEF Init, ImagesSeen, SeenBy, OldListed

\* A step of one process leaves the others where they are.
LEMMA StepFrame ==
  ASSUME Types, NEW p \in Procs, Step(p), NEW q \in Procs, q # p
  PROVE  /\ args'[q] = args[q] /\ pc'[q] = pc[q] /\ todo'[q] = todo[q]
         /\ unmet'[q] = unmet[q] /\ listed'[q] = listed[q]
         /\ rebuilt[q] \subseteq rebuilt'[q]
<1> DEFINE Same == /\ args'[q] = args[q] /\ pc'[q] = pc[q] /\ todo'[q] = todo[q]
                   /\ unmet'[q] = unmet[q] /\ listed'[q] = listed[q]
                   /\ rebuilt[q] \subseteq rebuilt'[q]
<1>0. ASSUME NEW code, Return(p, code) PROVE Same
  BY <1>0 DEF Types, Return, Goto
<1>1. CASE Start(p) BY <1>0, <1>1 DEF Types, Start, Goto, Look, history, past
<1>2. CASE Reach(p) BY <1>0, <1>2 DEF Types, Reach, Goto, Look, history, past
<1>3. CASE Ensure(p) BY <1>0, <1>3 DEF Types, Ensure, Goto, Look, history, past
<1>4. CASE EndEnsure(p) BY <1>0, <1>4 DEF Types, EndEnsure, Preflight, Goto, Look
<1>5. CASE Build(p) BY <1>0, <1>5 DEF Types, Build, Goto, Look, history, past
<1>6. CASE BuildFails(p) BY <1>0, <1>6 DEF BuildFails
<1>7. CASE CheckDaemon(p) BY <1>0, <1>7 DEF Types, CheckDaemon, Goto, Find, history, past
<1>8. CASE CheckImage(p) BY <1>0, <1>8 DEF Types, CheckImage, Goto, Look, Find, history, past
<1>9. CASE CheckCredential(p) BY <1>0, <1>9 DEF Types, CheckCredential, Goto, Find, history, past
<1>10. CASE Refuse(p) BY <1>0, <1>10 DEF Refuse
<1>11. CASE Ready(p) BY <1>0, <1>11 DEF Ready
<1>12. CASE Proceed(p) BY <1>0, <1>12 DEF Types, Proceed, Goto, Look, history, past
<1>13. CASE CheckAgain(p) BY <1>0, <1>13 DEF Types, CheckAgain, Goto, Look, history, past
<1>14. CASE LookAtLogin(p) BY <1>0, <1>14 DEF Types, LookAtLogin, Preflight, Goto, Look
<1>15. CASE Seed(p) BY <1>0, <1>15 DEF Types, Seed, Goto, Look, history, past
<1>16. CASE StartContainer(p) BY <1>0, <1>16 DEF Types, StartContainer, Goto, Look, history, past
<1>17. CASE NoContainer(p) BY <1>0, <1>17 DEF NoContainer
<1>18. CASE EndContainer(p) BY <1>0, <1>18 DEF EndContainer
<1>19. CASE List(p) BY <1>0, <1>19 DEF Types, List, Goto, Look, history, past
<1>20. CASE Remove(p) BY <1>0, <1>20 DEF Types, Remove, Goto, Look, history, past
<1>21. CASE RemoveFails(p) BY <1>0, <1>21 DEF RemoveFails
<1>22. CASE EndPrune(p) BY <1>0, <1>22 DEF EndPrune
<1>23. CASE Interrupt(p) BY <1>0, <1>23 DEF Interrupt
<1>24. CASE RefreshRefused(p) BY <1>24 DEF RefreshRefused
<1> QED
  BY <1>1, <1>2, <1>3, <1>4, <1>5, <1>6, <1>7, <1>8, <1>9, <1>10, <1>11, <1>12, <1>13, <1>14, <1>15, <1>16, <1>17, <1>18, <1>19, <1>20, <1>21, <1>22, <1>23, <1>24 DEF Step

LEMMA OwnImage ==
  ASSUME Types, Control, NEW p \in Procs, pc[p] # "idle", NEW k \in Kinds
  PROVE  Image(p, k) \in Images /\ args[p].config \in Configs
BY DEF Control, Fits, Invocations, Image, Images

\* Only a build and a prune change an image, and age does.
LEMMA StepImages ==
  ASSUME Types, NEW p \in Procs, Step(p)
  PROVE  \/ UNCHANGED <<images, taken>>
         \/ Build(p)
         \/ Remove(p)
BY DEF Step, Start, Reach, Ensure, EndEnsure, BuildFails, CheckDaemon, CheckImage,
  CheckCredential, Refuse, Ready, Proceed, CheckAgain, LookAtLogin, Seed, StartContainer,
  NoContainer, EndContainer, List, RemoveFails, EndPrune, Interrupt, RefreshRefused, host,
  history, past

LEMMA StepKeeps ==
  ASSUME ImagesInv, NEW p \in Procs, Step(p), NEW i \in Images, Kept(i)
  PROVE  Kept(i)'
<1>1. CASE UNCHANGED <<images, taken>>
  BY <1>1 DEF Kept
<1>2. CASE Build(p)
  <2>1. PICK j : images' = [images EXCEPT ![j] = "since"] /\ taken' = taken \ {j}
    BY <1>2 DEF Build
  <2> QED
    BY <2>1 DEF ImagesInv, Types, Kept
<1>3. CASE Remove(p)
  <2>1. PICK j \in listed[p] :
          /\ images' = [images EXCEPT ![j] = "absent"]
          /\ taken' = IF j[2] # args[p].config THEN taken \cup {j} ELSE taken
    BY <1>3 DEF Remove
  <2>2. j[2] # args[p].config
    BY DEF ImagesInv, ImagesSeen, SeenBy
  <2> QED
    BY <2>1, <2>2 DEF ImagesInv, Types, Kept
<1> QED BY <1>1, <1>2, <1>3, StepImages DEF ImagesInv

LEMMA StepOld ==
  ASSUME ImagesInv, NEW p \in Procs, Step(p), NEW q \in Procs, q # p
  PROVE  OldListed(q)'
<1>0. listed'[q] = listed[q] /\ rebuilt[q] \subseteq rebuilt'[q]
  BY StepFrame DEF ImagesInv
<1>1. CASE UNCHANGED <<images, taken>>
  BY <1>0, <1>1 DEF ImagesInv, ImagesSeen, OldListed
<1>2. CASE Build(p)
  <2>1. PICK j : /\ images' = [images EXCEPT ![j] = "since"]
                 /\ rebuilt' = [o \in Procs |-> rebuilt[o] \cup (listed[o] \cap {j})]
    BY <1>2 DEF Build
  <2> QED
    BY <1>0, <2>1 DEF ImagesInv, ImagesSeen, OldListed, Types
<1>3. CASE Remove(p)
  <2>1. PICK j \in listed[p] : images' = [images EXCEPT ![j] = "absent"]
    BY <1>3 DEF Remove
  <2> QED
    BY <1>0, <2>1 DEF ImagesInv, ImagesSeen, OldListed, Types
<1> QED BY <1>1, <1>2, <1>3, StepImages DEF ImagesInv

LEMMA OthersSee ==
  ASSUME ImagesInv, NEW p \in Procs, Step(p), NEW q \in Procs, q # p
  PROVE  SeenBy(q)'
<1>0. /\ args'[q] = args[q] /\ pc'[q] = pc[q] /\ todo'[q] = todo[q]
      /\ unmet'[q] = unmet[q] /\ listed'[q] = listed[q]
  BY StepFrame DEF ImagesInv
<1>1. ASSUME NEW k \in Kinds, pc[q] # "idle" PROVE Kept(Image(q, k)) => Kept(Image(q, k))'
  <2>1. Image(q, k) \in Images /\ Image(q, k)' = Image(q, k)
    BY <1>0, <1>1, OwnImage DEF ImagesInv, Image
  <2> QED
    BY <2>1, StepKeeps DEF Kept
<1>2. Needed(q)' = Needed(q) /\ Needed(q) \subseteq Kinds /\ Kind(q)' = Kind(q) /\ Kind(q) \in Kinds
  BY <1>0 DEF Needed, Kind, Kinds, Verb
<1>3. SeenBy(q)
  BY DEF ImagesInv, ImagesSeen
<1>4. pc[q] # "idle" /\ Kept(Image(q, Kind(q))) => Kept(Image(q, Kind(q)))'
  BY <1>1, <1>2 DEF Kept, Image
<1> QED
  BY <1>0, <1>1, <1>2, <1>3, <1>4 DEF SeenBy, Verb

\* A setup that returns 0 has seen both images.
LEMMA StepPrepared ==
  ASSUME ImagesInv, NEW p \in Procs, Step(p)
  PROVE  \/ prepared' = prepared
         \/ /\ prepared' = prepared \cup {args[p].config}
            /\ pc[p] # "idle" /\ UNCHANGED <<images, taken>>
            /\ \A k \in Kinds : Kept(Image(p, k))
<1>0. ASSUME NEW code, Return(p, code), code # 0 \/ ~Verb(p, "setup") PROVE prepared' = prepared
  BY <1>0 DEF Return
<1>00. Fits(args[p], pc[p])
  BY DEF ImagesInv, Control
<1>1. CASE Start(p) BY <1>1 DEF Start, history, past
<1>2. CASE Reach(p) BY <1>2 DEF Reach, history, past
<1>3. CASE Ensure(p) BY <1>3 DEF Ensure, history, past
<1>4. CASE EndEnsure(p)
  <2>1. CASE Verb(p, "setup")
    <3>1. \A k \in Kinds : Kept(Image(p, k))
      BY <1>4, <2>1 DEF EndEnsure, At, ImagesInv, ImagesSeen, SeenBy
    <3> QED
      BY <1>4, <2>1, <3>1 DEF EndEnsure, At, Return, host
  <2>2. CASE ~Verb(p, "setup")
    BY <1>4, <2>2 DEF EndEnsure
  <2> QED BY <2>1, <2>2
<1>5. CASE Build(p) BY <1>5 DEF Build, history, past
<1>6. CASE BuildFails(p) BY <1>0, <1>00, <1>6 DEF BuildFails, At, Verb, Fits, Raised
<1>7. CASE CheckDaemon(p) BY <1>7 DEF CheckDaemon, history, past
<1>8. CASE CheckImage(p) BY <1>8 DEF CheckImage, history, past
<1>9. CASE CheckCredential(p) BY <1>9 DEF CheckCredential, history, past
<1>10. CASE Refuse(p) BY <1>0, <1>00, <1>10 DEF Refuse, At, Verb, Fits, Raised
<1>11. CASE Ready(p) BY <1>0, <1>00, <1>11 DEF Ready, At, Verb, Fits, Raised
<1>12. CASE Proceed(p) BY <1>12 DEF Proceed, history, past
<1>13. CASE CheckAgain(p) BY <1>0, <1>00, <1>13 DEF CheckAgain, At, Verb, Fits, Raised
<1>14. CASE LookAtLogin(p) BY <1>0, <1>00, <1>14 DEF LookAtLogin, At, Verb, Fits, Raised
<1>15. CASE Seed(p) BY <1>15 DEF Seed, history, past
<1>16. CASE StartContainer(p) BY <1>16 DEF StartContainer, history, past
<1>17. CASE NoContainer(p) BY <1>0, <1>00, <1>17 DEF NoContainer, At, Verb, Fits, Raised
<1>18. CASE EndContainer(p) BY <1>0, <1>00, <1>18 DEF EndContainer, At, Verb, Fits, Raised
<1>19. CASE List(p) BY <1>0, <1>00, <1>19 DEF List, At, Verb, Fits, Raised
<1>20. CASE Remove(p) BY <1>20 DEF Remove, history, past
<1>21. CASE RemoveFails(p) BY <1>0, <1>00, <1>21 DEF RemoveFails, At, Verb, Fits, Raised
<1>22. CASE EndPrune(p) BY <1>0, <1>00, <1>22 DEF EndPrune, At, Verb, Fits, Raised
<1>23. CASE Interrupt(p)
  <2>1. Return(p, 130)
    BY <1>23 DEF Interrupt
  <2> QED BY <1>0, <2>1
<1>24. CASE RefreshRefused(p) BY <1>24 DEF RefreshRefused
<1> QED
  BY <1>1, <1>2, <1>3, <1>4, <1>5, <1>6, <1>7, <1>8, <1>9, <1>10, <1>11, <1>12, <1>13, <1>14, <1>15, <1>16, <1>17, <1>18, <1>19, <1>20, <1>21, <1>22, <1>23, <1>24 DEF Step

LEMMA PreparedNext ==
  ASSUME ImagesInv, NEW p \in Procs, Step(p), NEW i \in Kinds \X prepared'
  PROVE  Kept(i)'
<1>1. CASE i \in Kinds \X prepared
  <2>1. Kept(i) /\ i \in Images
    BY <1>1 DEF ImagesInv, ImagesSeen, Types, Images
  <2> QED
    BY <2>1, StepKeeps
<1>2. CASE i \notin Kinds \X prepared
  <2>1. /\ prepared' = prepared \cup {args[p].config}
        /\ UNCHANGED <<images, taken>>
        /\ \A k \in Kinds : Kept(Image(p, k))
    BY <1>2, StepPrepared
  <2>2. PICK k \in Kinds : i = Image(p, k)
    BY <1>2, <2>1 DEF Image
  <2> QED
    BY <2>1, <2>2 DEF Kept
<1> QED BY <1>1, <1>2

LEMMA ReturnSees ==
  ASSUME Types, NEW p \in Procs, NEW code, Return(p, code)
  PROVE  SeenBy(p)' /\ OldListed(p)'
BY DEF Types, Return, Goto, SeenBy, OldListed

LEMMA OwnSees ==
  ASSUME ImagesInv, NEW p \in Procs, Step(p)
  PROVE  SeenBy(p)' /\ OldListed(p)'
<1> USE DEF ImagesInv
<1>a. SeenBy(p) /\ OldListed(p) /\ Fits(args[p], pc[p]) /\ (pc[p] # "remove" => listed[p] = {})
  BY DEF ImagesSeen, Control
<1>b. Needed(p) \subseteq Kinds /\ Kind(p) \in Needed(p) /\ Kind(p) \in Kinds
  BY DEF Needed, Kind, Kinds
<1>c. ASSUME UNCHANGED args PROVE /\ Needed(p)' = Needed(p) /\ Kind(p)' = Kind(p)
                                  /\ \A k : Image(p, k)' = Image(p, k)
  BY <1>c DEF Needed, Kind, Image, Verb
<1>d. ASSUME UNCHANGED <<args, images, taken>>
      PROVE  \A k : Kept(Image(p, k)) => Kept(Image(p, k))'
  BY <1>d DEF Kept, Image
<1>e. ASSUME UNCHANGED <<args, listed, images, rebuilt>>, NEW where, Goto(p, where),
             where \in {"ensure", "build", "seed", "container", "running"},
             where \in {"ensure", "build"} => ~Verb(p, "setup"),
             where \in {"seed", "container", "running"} => Kept(Image(p, Kind(p)))'
      PROVE  SeenBy(p)' /\ OldListed(p)'
  BY <1>a, <1>e DEF Types, Goto, SeenBy, OldListed, Verb
<1>1. CASE Start(p)
  <2>1. PICK a \in may : /\ args' = [args EXCEPT ![p] = a]
                         /\ Goto(p, First(a))
                         /\ Look(p, IF a.verb \in {"setup", "test"} THEN Kinds ELSE {"eval"})
    BY <1>1 DEF Start
  <2>2. a \in Invocations /\ args'[p] = a /\ pc'[p] = First(a)
    BY <2>1 DEF Types, Goto
  <2>3. todo'[p] = IF a.verb \in {"setup", "test"} THEN Kinds ELSE {"eval"}
    BY <2>1 DEF Types, Look
  <2>4. listed'[p] = {}
    BY <1>1, <1>a DEF Start, At
  <2>5. a.verb = "setup" => Kinds \ todo'[p] = {}
    BY <2>3
  <2>6. First(a) \in {"reach", "daemon"} => todo'[p] = Needed(p)'
    BY <2>2, <2>3, FirstStep DEF Needed, Verb
  <2> QED
    BY <2>2, <2>4, <2>5, <2>6, FirstStep DEF SeenBy, OldListed, Verb
<1>2. CASE Reach(p)
  <2>1. ~Verb(p, "setup") /\ listed'[p] = {} /\ pc'[p] \in {"ensure", "daemon"}
    BY <1>2, <1>a DEF Reach, At, Fits, Verb, Goto, Types
  <2>2. UNCHANGED <<args, todo>>
    BY <1>2 DEF Reach
  <2>3. todo[p] = Needed(p)
    BY <1>2, <1>a DEF Reach, At, SeenBy
  <2> QED
    BY <1>c, <2>1, <2>2, <2>3 DEF SeenBy, OldListed, Verb
<1>3. CASE Ensure(p)
  <2>1. UNCHANGED <<args, images, taken, listed, rebuilt>> /\ listed[p] = {} /\ At(p, "ensure")
    BY <1>3, <1>a DEF Ensure, At, host, history, past
  <2>2. CASE Present(Image(p, Now(p)))
    <3>1. pc'[p] = "ensure" /\ todo'[p] = todo[p] \ {Now(p)}
      BY <1>3, <2>2 DEF Ensure, At, Look, Types
    <3>2. Kept(Image(p, Now(p)))
      BY <2>2 DEF Present, Kept
    <3>3. Verb(p, "setup") => \A k \in Kinds \ todo'[p] : Kept(Image(p, k))
      BY <1>a, <2>1, <3>1, <3>2 DEF SeenBy, At
    <3> QED
      BY <1>d, <2>1, <3>1, <3>3 DEF SeenBy, OldListed, Verb
  <2>3. CASE ~Present(Image(p, Now(p)))
    <3>1. pc'[p] = "build" /\ todo'[p] = todo[p]
      BY <1>3, <2>3 DEF Ensure, At, Goto, Types
    <3> QED
      BY <1>a, <1>d, <2>1, <3>1 DEF SeenBy, OldListed, Verb, At
  <2> QED BY <2>2, <2>3
<1>4. CASE EndEnsure(p)
  <2>1. CASE Verb(p, "setup")
    BY <1>4, <2>1, ReturnSees DEF EndEnsure
  <2>2. CASE ~Verb(p, "setup")
    <3>1. /\ UNCHANGED args /\ pc'[p] = "daemon" /\ todo'[p] = Needed(p) /\ listed'[p] = {}
      BY <1>4, <1>a, <2>2 DEF EndEnsure, At, Preflight, Goto, Look, Types
    <3> QED
      BY <1>c, <3>1 DEF SeenBy, OldListed
  <2> QED BY <2>1, <2>2
<1>5. CASE Build(p)
  <2>1. /\ UNCHANGED args /\ pc'[p] = "ensure" /\ todo'[p] = todo[p] \ {Now(p)}
        /\ listed'[p] = {} /\ pc[p] = "build"
    BY <1>5, <1>a DEF Build, At, Goto, Look, Types
  <2>2. ASSUME NEW k \in Kinds, k = Now(p) PROVE Kept(Image(p, k))'
    <3>1. Image(p, k) \in Images /\ Image(p, k)' = Image(p, k)
      BY <1>c, <2>1, OwnImage
    <3>2. images' = [images EXCEPT ![Image(p, k)] = "since"]
      BY <1>5, <2>2 DEF Build
    <3> QED
      BY <3>1, <3>2 DEF Types, Kept
  <2>3. ASSUME NEW k \in Kinds, Kept(Image(p, k)) PROVE Kept(Image(p, k))'
    <3>1. Image(p, k) \in Images /\ Image(p, k)' = Image(p, k)
      BY <1>c, <2>1, OwnImage
    <3> QED BY <2>3, <3>1, StepKeeps DEF Kept
  <2> QED
    BY <1>a, <2>1, <2>2, <2>3 DEF SeenBy, OldListed, Verb
<1>6. CASE BuildFails(p) BY <1>6, ReturnSees DEF BuildFails
<1>7. CASE CheckDaemon(p)
  <2>1. /\ UNCHANGED <<args, images, taken, todo, listed>> /\ listed[p] = {}
        /\ todo[p] = Needed(p)
    BY <1>7, <1>a DEF CheckDaemon, At, SeenBy, host, history, past
  <2>2. CASE daemon
    <3>1. pc'[p] = "image"
      BY <1>7, <2>2 DEF CheckDaemon, Goto, Types
    <3> QED
      BY <1>c, <2>1, <3>1 DEF SeenBy, OldListed, Verb
  <2>3. CASE ~daemon
    <3>1. pc'[p] = "credential" /\ "DAEMON" \in unmet'[p]
      BY <1>7, <2>3 DEF CheckDaemon, Goto, Find, Types
    <3> QED
      BY <2>1, <3>1 DEF SeenBy, OldListed
  <2> QED BY <2>2, <2>3
<1>8. CASE CheckImage(p)
  <2>1. /\ UNCHANGED <<args, images, taken, listed>> /\ listed[p] = {}
        /\ \A k \in Needed(p) \ todo[p] : Kept(Image(p, k))
    BY <1>8, <1>a DEF CheckImage, At, SeenBy, host, history, past
  <2>2. CASE todo[p] = {}
    <3>1. pc'[p] = "credential"
      BY <1>8, <2>2 DEF CheckImage, Goto, Types
    <3>2. \A k \in Needed(p) : Kept(Image(p, k))
      BY <2>1, <2>2
    <3> QED
      BY <1>c, <1>d, <2>1, <3>1, <3>2 DEF SeenBy, OldListed
  <2>3. CASE todo[p] # {} /\ Present(Image(p, Now(p)))
    <3>1. pc'[p] = "image" /\ todo'[p] = todo[p] \ {Now(p)}
      BY <1>8, <2>3 DEF CheckImage, At, Look, Types
    <3>2. Kept(Image(p, Now(p)))
      BY <2>3 DEF Present, Kept
    <3>3. \A k \in Needed(p) \ todo'[p] : Kept(Image(p, k))
      BY <2>1, <3>1, <3>2
    <3> QED
      BY <1>c, <1>d, <2>1, <3>1, <3>3 DEF SeenBy, OldListed
  <2>4. CASE todo[p] # {} /\ ~Present(Image(p, Now(p)))
    <3>1. pc'[p] = "credential" /\ "IMAGE" \in unmet'[p]
      BY <1>8, <2>4 DEF CheckImage, Goto, Find, Types
    <3> QED
      BY <2>1, <3>1 DEF SeenBy, OldListed
  <2> QED BY <2>2, <2>3, <2>4
<1>9. CASE CheckCredential(p)
  <2>1. /\ UNCHANGED <<args, images, taken, listed>> /\ listed[p] = {}
        /\ pc[p] = "credential" /\ pc'[p] = "decide" /\ unmet[p] \subseteq unmet'[p]
    BY <1>9, <1>a DEF CheckCredential, At, Goto, Find, Types, host, history, past
  <2> QED
    BY <1>a, <1>c, <1>d, <2>1 DEF SeenBy, OldListed
<1>10. CASE Refuse(p) BY <1>10, ReturnSees DEF Refuse
<1>11. CASE Ready(p) BY <1>11, ReturnSees DEF Ready
<1>12. CASE Proceed(p)
  <2>1. /\ UNCHANGED <<args, images, taken, listed, rebuilt>> /\ At(p, "decide")
        /\ unmet[p] \cap {"DAEMON", "IMAGE"} = {}
    BY <1>12 DEF Proceed, Blocking, host, history, past
  <2>2. Kept(Image(p, Kind(p)))
    BY <1>a, <1>b, <2>1 DEF SeenBy, At
  <2>3. Kept(Image(p, Kind(p)))'
    BY <1>c, <1>d, <2>1, <2>2 DEF Kept, Image
  <2>4. pc'[p] \in {"seed", "container", "check again"} /\ listed[p] = {}
    BY <1>12, <1>a, <2>1 DEF Proceed, Goto, At, Fits, Verb, Types
  <2> QED
    BY <2>1, <2>3, <2>4 DEF SeenBy, OldListed
<1>13. CASE CheckAgain(p)
  <2>1. CASE \A kind \in Kinds : Present(Image(p, kind))
    <3>1. /\ UNCHANGED <<args, images, taken, listed>> /\ listed[p] = {}
          /\ pc'[p] = "container"
      BY <1>13, <1>a, <2>1 DEF CheckAgain, At, Goto, Types, host
    <3>2. Kept(Image(p, Kind(p)))
      BY <1>b, <2>1 DEF Present, Kept
    <3>3. Kept(Image(p, Kind(p)))'
      BY <1>c, <1>d, <3>1, <3>2 DEF Kept, Image
    <3> QED
      BY <3>1, <3>3 DEF SeenBy, OldListed
  <2>2. CASE ~\A kind \in Kinds : Present(Image(p, kind))
    BY <1>13, <2>2, ReturnSees DEF CheckAgain
  <2> QED BY <2>1, <2>2
<1>14. CASE LookAtLogin(p)
  <2>1. CASE NoLogin(p) \/ Current(p)
    BY <1>14, <2>1, ReturnSees DEF LookAtLogin
  <2>2. CASE ~NoLogin(p) /\ ~Current(p)
    <3>1. /\ UNCHANGED args /\ pc'[p] = "daemon" /\ todo'[p] = Needed(p) /\ listed'[p] = {}
      BY <1>14, <1>a, <2>2 DEF LookAtLogin, At, Preflight, Goto, Look, Types
    <3> QED
      BY <1>c, <3>1 DEF SeenBy, OldListed
  <2> QED BY <2>1, <2>2
<1>15. CASE Seed(p)
  <2>1. Kept(Image(p, Kind(p)))
    BY <1>15, <1>a DEF Seed, At, SeenBy
  <2>2. Kept(Image(p, Kind(p)))'
    BY <1>c, <2>1, <1>15 DEF Seed, history, past, Kept, Image
  <2> QED
    BY <1>e, <1>15, <2>2 DEF Seed, history, past
<1>16. CASE StartContainer(p)
  <2>1. Kept(Image(p, Kind(p)))
    BY <1>16, <1>a DEF StartContainer, At, SeenBy
  <2>2. Kept(Image(p, Kind(p)))'
    BY <1>c, <2>1, <1>16 DEF StartContainer, host, history, past, Kept, Image
  <2> QED
    BY <1>e, <1>16, <2>2 DEF StartContainer, host, history, past
<1>17. CASE NoContainer(p) BY <1>17, ReturnSees DEF NoContainer
<1>18. CASE EndContainer(p)
  <2>1. \E code : Return(p, code)
    BY <1>18 DEF EndContainer
  <2> QED BY <2>1, ReturnSees
<1>19. CASE List(p)
  <2>1. CASE daemon
    <3>1. /\ UNCHANGED <<args, images>> /\ pc'[p] = "remove" /\ listed'[p] = Stale(p)
      BY <1>19, <2>1 DEF List, At, Goto, Types, host
    <3>2. ASSUME NEW i \in Stale(p)
          PROVE i[2] # args[p].config /\ images[i] = "before"
      <4>1. i \in Kinds \X Configs /\ i \notin {Image(p, kind) : kind \in Kinds}
        BY DEF Stale, Images
      <4>2. PICK k \in Kinds, c \in Configs : i = <<k, c>>
        BY <4>1
      <4>3. i # Image(p, k)
        BY <4>1
      <4> QED
        BY <4>2, <4>3 DEF Stale, Image
    <3> QED
      BY <3>1, <3>2 DEF SeenBy, OldListed
  <2>2. CASE ~daemon
    BY <1>19, <2>2, ReturnSees DEF List
  <2> QED BY <2>1, <2>2
<1>20. CASE Remove(p)
  <2>1. PICK i \in listed[p] :
          /\ images' = [images EXCEPT ![i] = "absent"]
          /\ listed' = [listed EXCEPT ![p] = @ \ {i}]
          /\ rebuilt' = [rebuilt EXCEPT ![p] = @ \ {i}]
    BY <1>20 DEF Remove
  <2>2. UNCHANGED <<args, pc>> /\ pc[p] = "remove"
    BY <1>20 DEF Remove, At
  <2>3. listed'[p] = listed[p] \ {i} /\ rebuilt'[p] = rebuilt[p] \ {i}
    BY <2>1 DEF Types
  <2>4. ASSUME NEW j \in listed'[p], images'[j] = "since" PROVE j \in rebuilt'[p]
    BY <1>a, <2>1, <2>3, <2>4 DEF Types, OldListed
  <2> QED
    BY <1>a, <2>2, <2>3, <2>4 DEF SeenBy, OldListed
<1>21. CASE RemoveFails(p) BY <1>21, ReturnSees DEF RemoveFails
<1>22. CASE EndPrune(p) BY <1>22, ReturnSees DEF EndPrune
<1>23. CASE Interrupt(p) BY <1>23, ReturnSees DEF Interrupt
<1>24. CASE RefreshRefused(p)
  BY <1>a, <1>24 DEF RefreshRefused, SeenBy, OldListed, Kept, Image, Needed, Kind, Verb
<1> QED
  BY <1>1, <1>2, <1>3, <1>4, <1>5, <1>6, <1>7, <1>8, <1>9, <1>10, <1>11, <1>12, <1>13, <1>14, <1>15, <1>16, <1>17, <1>18, <1>19, <1>20, <1>21, <1>22, <1>23, <1>24 DEF Step

LEMMA ImagesNext == ASSUME ImagesInv, Next PROVE ImagesSeen'
<1>1. CASE Daemon
  BY <1>1 DEF ImagesInv, ImagesSeen, SeenBy, OldListed, Daemon, history, past, Kept, Image, Needed,
    Kind, Verb
<1>2. CASE Age
  <2>1. PICK i \in Images : images[i] = "since" /\ images' = [images EXCEPT ![i] = "before"]
    BY <1>2 DEF Age
  <2>2. UNCHANGED <<args, pc, todo, unmet, listed, taken, rebuilt, prepared>>
    BY <1>2 DEF Age, history, past
  <2>3. ASSUME NEW j, Kept(j), j \in Images PROVE Kept(j)'
    BY <2>1, <2>2, <2>3 DEF ImagesInv, Types, Kept
  <2>4. ASSUME NEW p \in Procs PROVE SeenBy(p)' /\ OldListed(p)'
    <3>1. \A k : Image(p, k)' = Image(p, k)
      BY <2>2 DEF Image
    <3>2. Needed(p)' = Needed(p) /\ Needed(p) \subseteq Kinds
          /\ Kind(p)' = Kind(p) /\ Kind(p) \in Kinds
      BY <2>2 DEF Needed, Kind, Kinds, Verb
    <3>3. ASSUME NEW k \in Kinds, pc[p] # "idle", Kept(Image(p, k)) PROVE Kept(Image(p, k))'
      <4>1. Image(p, k) \in Images
        BY <3>3, OwnImage DEF ImagesInv
      <4> QED BY <2>3, <3>1, <3>3, <4>1 DEF Kept
    <3>4. SeenBy(p) /\ OldListed(p)
      BY DEF ImagesInv, ImagesSeen
    <3>5. pc[p] # "idle" /\ Kept(Image(p, Kind(p))) => Kept(Image(p, Kind(p)))'
      BY <3>2, <3>3 DEF Kept, Image
    <3>6. SeenBy(p)'
      BY <2>2, <3>2, <3>3, <3>4, <3>5 DEF SeenBy, Verb
    <3>7. OldListed(p)'
      BY <2>1, <2>2, <3>4 DEF OldListed, ImagesInv, Types
    <3> QED BY <3>6, <3>7
  <2>5. ASSUME NEW i_1 \in Kinds \X prepared PROVE Kept(i_1)'
    BY <2>3 DEF ImagesInv, ImagesSeen, Types, Images
  <2> QED
    BY <2>2, <2>4, <2>5 DEF ImagesSeen
<1>3. ASSUME NEW p \in Procs, Step(p) PROVE ImagesSeen'
  BY <1>3, PreparedNext, OwnSees, OthersSee, StepOld DEF ImagesSeen
<1> QED BY <1>1, <1>2, <1>3 DEF Next

LEMMA ImagesInductive == ASSUME ImagesInv, [Next]_vars PROVE ImagesInv'
<1>1. CASE Next
  BY <1>1, TypesNext, ControlNext, ImagesNext DEF ImagesInv
<1>2. CASE UNCHANGED vars
  <2>1. Types' /\ Control'
    BY <1>2 DEF vars, host, history, past, ImagesInv, Types, Control
  <2>2. ImagesSeen'
    BY <1>2 DEF vars, host, history, ImagesInv, ImagesSeen, SeenBy, OldListed, Kept, Image,
      Needed, Kind, Verb
  <2> QED BY <2>1, <2>2 DEF ImagesInv
<1> QED BY <1>1, <1>2

\* For any number of processes and configurations: what an invocation saw of its
\* images it has still, but for what a prune under another configuration took, and
\* a prune lists nothing younger than its cutoff.
THEOREM ImagesKept == Spec => []ImagesAreKept
<1>1. Init => ImagesInv
  BY HostAssumption, TypesInit, ControlInit, ImagesInit DEF ImagesInv
<1>2. ImagesInv /\ [Next]_vars => ImagesInv'
  BY ImagesInductive
<1>3. ImagesInv => ImagesAreKept
  BY DEF ImagesInv, ImagesSeen, SeenBy, OldListed, ImagesAreKept, Kept
<1> QED
  BY <1>1, <1>2, <1>3, PTL DEF Spec
-----------------------------------------------------------------------------
(* Logins.                                                                 *)

InLogin(p) == Verb(p, "login") /\ pc[p] \notin {"idle", "login"}

\* What a preflight saw of the login, and what a login has prepared.
SeenLogin(p) ==
  /\ Verb(p, "run") /\ ~NoLogin(p) =>
       /\ pc[p] = "decide" /\ "CREDENTIAL" \notin unmet[p] => had
       /\ pc[p] \in {"container", "running"} => had
  /\ Verb(p, "login") /\ pc[p] \in {"container", "running"} => stateFile = "good" \/ killed

\* A login that is not forced begins where there is none, and is alone.
LoginSeen ==
  /\ had /\ ~excused => credential = "good" \/ cleared
  /\ credential = "good" => had
  /\ had => stateFile = "good" \/ killed
  /\ stateFile = "torn" => killed
  /\ ~excused => \A p \in Procs : InLogin(p) =>
       credential # "good" /\ \A q \in Procs : InLogin(q) => q = p
  /\ \A p \in Procs : SeenLogin(p)

LoginInv == Types /\ Control /\ LoginSeen

LEMMA LoginInit == ASSUME Init PROVE LoginSeen
BY DEF Init, LoginSeen, SeenLogin, InLogin

Login == <<credential, stateFile, had, excused, cleared, killed>>

LEMMA StepLogin ==
  ASSUME Types, NEW p \in Procs, Step(p)
  PROVE  \/ UNCHANGED Login
         \/ LookAtLogin(p) \/ Seed(p) \/ EndContainer(p) \/ Interrupt(p) \/ RefreshRefused(p)
BY DEF Step, Start, Reach, Ensure, EndEnsure, Build, BuildFails, CheckDaemon, CheckImage,
  CheckCredential, Refuse, Ready, Proceed, CheckAgain, StartContainer,
  NoContainer, List, Remove, RemoveFails, EndPrune, host, history, past, Login

\* The other processes see the same of the login, when it is not lost to them.
LEMMA OthersLogin ==
  ASSUME LoginInv, NEW p \in Procs, Step(p), NEW q \in Procs, q # p, had => had',
         stateFile = "good" \/ killed => stateFile' = "good" \/ killed'
  PROVE  SeenLogin(q)' /\ InLogin(q)' = InLogin(q)
<1>1. /\ args'[q] = args[q] /\ pc'[q] = pc[q] /\ unmet'[q] = unmet[q]
  BY StepFrame DEF LoginInv
<1> QED
  BY <1>1 DEF LoginInv, LoginSeen, SeenLogin, InLogin, Verb, NoLogin

LEMMA ReturnLogin ==
  ASSUME Types, NEW p \in Procs, NEW code, Return(p, code)
  PROVE  SeenLogin(p)' /\ ~InLogin(p)'
BY DEF Types, Return, Goto, SeenLogin, InLogin

\* A step that leaves the login alone begins no login.
LEMMA OwnLogin ==
  ASSUME LoginInv, NEW p \in Procs, Step(p), UNCHANGED Login, ~LookAtLogin(p)
  PROVE  SeenLogin(p)' /\ (InLogin(p)' => InLogin(p))
<1> USE DEF LoginInv, Login
<1>a. SeenLogin(p) /\ Fits(args[p], pc[p])
  BY DEF LoginSeen, Control
<1>b. ASSUME UNCHANGED args, NEW where, Goto(p, where), pc[p] \notin {"idle", "login"},
             where \notin {"decide", "container", "running"}
      PROVE  SeenLogin(p)' /\ (InLogin(p)' => InLogin(p))
  BY <1>b DEF Types, Goto, SeenLogin, InLogin, Verb
<1>1. CASE Start(p)
  <2>1. PICK a \in may : args' = [args EXCEPT ![p] = a] /\ Goto(p, First(a))
    BY <1>1 DEF Start
  <2>2. a \in Invocations /\ args'[p] = a /\ pc'[p] = First(a)
    BY <2>1 DEF Types, Goto
  <2> QED
    BY <2>2, FirstStep DEF SeenLogin, InLogin, Verb
<1>2. CASE Reach(p)
  BY <1>b, <1>2 DEF Reach, At
<1>3. CASE Ensure(p)
  <2>1. CASE Present(Image(p, Now(p)))
    BY <1>a, <1>3, <2>1 DEF Ensure, At, SeenLogin, InLogin, Verb
  <2>2. CASE ~Present(Image(p, Now(p)))
    BY <1>b, <1>3, <2>2 DEF Ensure, At
  <2> QED BY <2>1, <2>2
<1>4. CASE EndEnsure(p)
  <2>1. CASE Verb(p, "setup")
    BY <1>4, <2>1, ReturnLogin DEF EndEnsure
  <2>2. CASE ~Verb(p, "setup")
    BY <1>b, <1>4, <2>2 DEF EndEnsure, Preflight, At
  <2> QED BY <2>1, <2>2
<1>5. CASE Build(p)
  BY <1>b, <1>5 DEF Build, At
<1>6. CASE BuildFails(p) BY <1>6, ReturnLogin DEF BuildFails
<1>7. CASE CheckDaemon(p)
  <2>1. CASE daemon
    BY <1>b, <1>7, <2>1 DEF CheckDaemon, At
  <2>2. CASE ~daemon
    BY <1>b, <1>7, <2>2 DEF CheckDaemon, At
  <2> QED BY <2>1, <2>2
<1>8. CASE CheckImage(p)
  <2>1. CASE todo[p] # {} /\ Present(Image(p, Now(p)))
    BY <1>a, <1>8, <2>1 DEF CheckImage, At, SeenLogin, InLogin, Verb
  <2>2. CASE todo[p] = {}
    BY <1>b, <1>8, <2>2 DEF CheckImage, At
  <2>3. CASE todo[p] # {} /\ ~Present(Image(p, Now(p)))
    BY <1>b, <1>8, <2>3 DEF CheckImage, At
  <2> QED BY <2>1, <2>2, <2>3
<1>9. CASE CheckCredential(p)
  <2>1. UNCHANGED args /\ pc'[p] = "decide" /\ pc[p] = "credential"
    BY <1>9 DEF CheckCredential, At, Goto, Types
  <2>2. Verb(p, "run") /\ ~NoLogin(p) /\ credential # "good" => "CREDENTIAL" \in unmet'[p]
    BY <1>9 DEF CheckCredential, Find, Types, NoLogin, Verb, At
  <2> QED
    BY <2>1, <2>2 DEF LoginSeen, SeenLogin, InLogin, Verb, NoLogin
<1>10. CASE Refuse(p) BY <1>10, ReturnLogin DEF Refuse
<1>11. CASE Ready(p) BY <1>11, ReturnLogin DEF Ready
<1>12. CASE Proceed(p)
  <2>1. /\ UNCHANGED args /\ pc[p] = "decide" /\ pc'[p] \in {"seed", "container", "check again"}
        /\ Verb(p, "login") => pc'[p] = "seed"
        /\ Verb(p, "run") => unmet[p] = {}
    BY <1>12, <1>a DEF Proceed, Goto, At, Fits, Verb, Types, Blocking
  <2> QED
    BY <1>a, <2>1 DEF SeenLogin, InLogin, Verb, NoLogin
<1>13. CASE CheckAgain(p)
  <2>1. CASE \A kind \in Kinds : Present(Image(p, kind))
    <3>1. UNCHANGED args /\ Verb(p, "test")
      BY <1>13, <1>a, <2>1 DEF CheckAgain, At, Fits, Verb
    <3> QED
      BY <3>1 DEF SeenLogin, InLogin, Verb
  <2>2. CASE ~\A kind \in Kinds : Present(Image(p, kind))
    BY <1>13, <2>2, ReturnLogin DEF CheckAgain
  <2> QED BY <2>1, <2>2
<1>14. CASE Seed(p)
  <2>1. /\ UNCHANGED args /\ pc[p] = "seed" /\ Verb(p, "login")
        /\ stateFile' = "good" \/ killed'
    BY <1>14, <1>a DEF Seed, At, Fits, Verb, LoginSeen, Types
  <2> QED
    BY <2>1 DEF SeenLogin, InLogin, Verb
<1>15. CASE StartContainer(p)
  <2>1. UNCHANGED args /\ pc[p] = "container" /\ pc'[p] = "running"
    BY <1>15 DEF StartContainer, At, Goto, Types
  <2> QED
    BY <1>a, <2>1 DEF SeenLogin, InLogin, Verb, NoLogin
<1>16. CASE NoContainer(p) BY <1>16, ReturnLogin DEF NoContainer
<1>17. CASE EndContainer(p)
  <2>1. \E code : Return(p, code)
    BY <1>17 DEF EndContainer
  <2> QED BY <2>1, ReturnLogin
<1>18. CASE List(p)
  <2>1. CASE daemon
    BY <1>b, <1>18, <2>1 DEF List, At
  <2>2. CASE ~daemon
    BY <1>18, <2>2, ReturnLogin DEF List
  <2> QED BY <2>1, <2>2
<1>19. CASE Remove(p)
  BY <1>a, <1>19 DEF Remove, At, SeenLogin, InLogin, Verb
<1>20. CASE RemoveFails(p) BY <1>20, ReturnLogin DEF RemoveFails
<1>21. CASE EndPrune(p) BY <1>21, ReturnLogin DEF EndPrune
<1>22. CASE Interrupt(p) BY <1>22, ReturnLogin DEF Interrupt
<1>23. CASE RefreshRefused(p)
  BY <1>a, <1>23 DEF RefreshRefused, SeenLogin, InLogin, Verb, NoLogin
<1> QED
  BY <1>1, <1>2, <1>3, <1>4, <1>5, <1>6, <1>7, <1>8, <1>9, <1>10, <1>11, <1>12, <1>13, <1>14, <1>15, <1>16, <1>17, <1>18, <1>19, <1>20, <1>21, <1>22, <1>23 DEF Step

LEMMA LoginNext == ASSUME LoginInv, Next PROVE LoginSeen'
<1> USE DEF LoginInv
<1>1. CASE Daemon
  BY <1>1 DEF LoginSeen, SeenLogin, InLogin, Verb, NoLogin, Daemon, history, past
<1>2. CASE Age
  BY <1>2 DEF LoginSeen, SeenLogin, InLogin, Verb, NoLogin, Age, history, past
<1>3. ASSUME NEW p \in Procs, Step(p) PROVE LoginSeen'
  <2>1. CASE UNCHANGED Login /\ ~LookAtLogin(p)
    <3>1. SeenLogin(p)' /\ (InLogin(p)' => InLogin(p))
      BY <1>3, <2>1, OwnLogin
    <3>2. \A q \in Procs : q # p => SeenLogin(q)' /\ InLogin(q)' = InLogin(q)
      BY <1>3, <2>1, OthersLogin DEF Login
    <3> QED
      BY <2>1, <3>1, <3>2 DEF LoginSeen, Login
  <2>2. CASE LookAtLogin(p)
    <3>1. UNCHANGED <<credential, stateFile, had, cleared, killed>>
      BY <2>2 DEF LookAtLogin, host
    <3>2. \A q \in Procs : q # p => SeenLogin(q)' /\ InLogin(q)' = InLogin(q)
      BY <1>3, <3>1, OthersLogin
    <3>3. CASE NoLogin(p) \/ Current(p)
      <4>1. SeenLogin(p)' /\ ~InLogin(p)' /\ UNCHANGED excused
        BY <2>2, <3>3, ReturnLogin DEF LookAtLogin
      <4> QED
        BY <3>1, <3>2, <4>1 DEF LoginSeen
    <3>4. CASE ~NoLogin(p) /\ ~Current(p)
      <4>1. /\ pc'[p] = "daemon" /\ UNCHANGED args
            /\ excused' = (excused \/ args[p].force \/ LoggingIn # {})
        BY <2>2, <3>4 DEF LookAtLogin, Preflight, Goto, Types
      <4>2. SeenLogin(p)'
        BY <4>1 DEF SeenLogin
      <4>3. ~excused' => ~excused /\ credential # "good" /\ \A q \in Procs : ~InLogin(q)
        BY <3>4, <4>1 DEF Current, LoggingIn, InLogin
      <4> QED
        BY <3>1, <3>2, <4>2, <4>3 DEF LoginSeen
    <3> QED BY <3>3, <3>4
  <2>3. CASE Seed(p)
    <3>1. /\ UNCHANGED <<credential, had, excused, cleared, killed>>
          /\ stateFile' = "good" \/ (killed /\ stateFile' = stateFile)
      BY <2>3 DEF Seed, history, past, LoginSeen, Types
    <3>2. \A q \in Procs : q # p => SeenLogin(q)' /\ InLogin(q)' = InLogin(q)
      BY <1>3, <3>1, OthersLogin
    <3>3. UNCHANGED args /\ pc[p] = "seed" /\ Verb(p, "login")
      BY <2>3 DEF Seed, At, Control, Fits, Verb
    <3>4. SeenLogin(p)' /\ (InLogin(p)' => InLogin(p))
      BY <3>1, <3>3 DEF SeenLogin, InLogin, Verb
    <3> QED
      BY <3>1, <3>2, <3>4 DEF LoginSeen
  <2>4. CASE EndContainer(p) \/ Interrupt(p)
    <3>1. UNCHANGED excused /\ pc[p] # "idle"
      BY <2>4 DEF EndContainer, Interrupt, At
    <3>2. At(p, "running") /\ Verb(p, "login") =>
            InLogin(p) /\ (stateFile = "good" \/ killed)
      BY DEF At, InLogin, LoginSeen, SeenLogin
    <3>3. \/ UNCHANGED <<credential, stateFile, had, cleared, killed>>
          \/ /\ At(p, "running") /\ Verb(p, "login") /\ credential' = "good"
             /\ had' /\ UNCHANGED <<stateFile, killed>>
          \/ /\ At(p, "running") /\ Verb(p, "login") /\ credential' # "good"
             /\ UNCHANGED <<stateFile, had, cleared, killed>>
          \/ /\ At(p, "running") /\ killed' /\ UNCHANGED had
             /\ Verb(p, "login") => credential' \in {credential, "empty"}
             /\ \/ UNCHANGED <<credential, cleared>>
                \/ credential' = "empty" /\ (cleared' \/ Verb(p, "login"))
             /\ cleared => cleared'
      <4>1. CASE EndContainer(p) /\ Verb(p, "login")
        <5>1. PICK left \in LeftBehind :
                /\ credential' = left /\ had' = (had \/ left = "good")
                /\ cleared' = (cleared /\ left # "good")
          BY <4>1 DEF EndContainer
        <5>2. At(p, "running") /\ UNCHANGED <<stateFile, killed>>
          BY <4>1 DEF EndContainer
        <5> QED BY <4>1, <5>1, <5>2 DEF Types
      <4>2. CASE EndContainer(p) /\ ~Verb(p, "login")
        BY <4>2 DEF EndContainer
      <4>3. CASE Interrupt(p) /\ At(p, "running") /\ Mounts(p)
        <5>1. Verb(p, "login") \/ Verb(p, "run")
          BY <4>3 DEF Mounts, Control, Fits, At, Verb
        <5>2. /\ credential' \in {credential, "empty"} /\ killed' /\ UNCHANGED had
              /\ cleared' = (cleared \/ (Verb(p, "run") /\ credential' # credential))
          BY <4>3 DEF Interrupt
        <5> QED BY <4>3, <5>1, <5>2 DEF Types
      <4>4. CASE Interrupt(p) /\ ~(At(p, "running") /\ Mounts(p))
        BY <4>4 DEF Interrupt
      <4> QED BY <2>4, <4>1, <4>2, <4>3, <4>4
    <3>4. /\ had => had'
          /\ stateFile = "good" \/ killed => stateFile' = "good" \/ killed'
          /\ stateFile' = "torn" => killed'
      BY <3>3 DEF LoginSeen
    <3>5. \A q \in Procs : q # p => SeenLogin(q)' /\ InLogin(q)' = InLogin(q)
      BY <1>3, <3>4, OthersLogin
    <3>6. SeenLogin(p)' /\ ~InLogin(p)'
      <4>1. \E code : Return(p, code)
        BY <2>4 DEF EndContainer, Interrupt
      <4> QED BY <4>1, ReturnLogin
    <3>7. \A q \in Procs : InLogin(q)' => q # p /\ InLogin(q)
      BY <3>5, <3>6
    <3>8. ~excused /\ InLogin(p) => credential # "good" /\ \A q \in Procs : ~InLogin(q)'
      BY <3>7 DEF LoginSeen
    <3>9. (credential' = "good" => had') /\ (had' => stateFile' = "good" \/ killed')
      BY <3>2, <3>3, <3>4 DEF LoginSeen
    <3>10. had' /\ ~excused' => credential' = "good" \/ cleared'
      BY <3>1, <3>2, <3>3, <3>8 DEF LoginSeen
    <3>11. ~excused' => \A q \in Procs : InLogin(q)' =>
             credential' # "good" /\ \A o \in Procs : InLogin(o)' => o = q
      BY <3>1, <3>2, <3>3, <3>7, <3>8 DEF LoginSeen
    <3>12. \A q \in Procs : SeenLogin(q)'
      BY <3>5, <3>6
    <3> QED
      BY <3>4, <3>9, <3>10, <3>11, <3>12 DEF LoginSeen
  <2>5. CASE RefreshRefused(p)
    <3>1. /\ UNCHANGED <<stateFile, had, excused, killed, args, pc, unmet>>
          /\ credential' = "empty" /\ cleared'
      BY <2>5 DEF RefreshRefused
    <3> QED
      BY <3>1 DEF LoginSeen, SeenLogin, InLogin, Verb, NoLogin
  <2> QED
    BY <1>3, <2>1, <2>2, <2>3, <2>4, <2>5, StepLogin
<1> QED BY <1>1, <1>2, <1>3 DEF Next

\* For any number of processes, a login is lost only to a login that was forced or
\* that overlapped another, to a refusal of its refresh or to a run that was killed
\* while it wrote; but for those, what passed the preflight starts with it.
THEOREM LoginKept == Spec => []LoginIsKept
<1>1. Init => LoginInv
  BY HostAssumption, TypesInit, ControlInit, LoginInit DEF LoginInv
<1>2. LoginInv /\ [Next]_vars => LoginInv'
  <2>1. CASE Next
    BY <2>1, TypesNext, ControlNext, LoginNext DEF LoginInv
  <2>2. CASE UNCHANGED vars
    BY <2>2 DEF vars, host, history, past, LoginInv, Types, Control, LoginSeen, SeenLogin, InLogin,
      Verb, NoLogin
  <2> QED BY <2>1, <2>2
<1>3. LoginInv => LoginIsKept
  <2> SUFFICES ASSUME LoginInv PROVE LoginIsKept
    OBVIOUS
  <2>1. ASSUME NEW p \in Procs, Mounts(p), pc[p] \in {"container", "running"}
        PROVE  /\ stateFile = "good" \/ killed
               /\ Verb(p, "run") /\ ~excused => credential = "good" \/ cleared
    <3>1. ~NoLogin(p) /\ args[p].verb \in {"login", "run"}
      BY <2>1 DEF Mounts, LoginInv, Control, Fits, Verb
    <3> QED
      BY <2>1, <3>1 DEF LoginInv, LoginSeen, SeenLogin, Verb
  <2> QED
    BY <2>1 DEF LoginInv, LoginSeen, LoginIsKept
<1> QED
  BY <1>1, <1>2, <1>3, PTL DEF Spec
=============================================================================
