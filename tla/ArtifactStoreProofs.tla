------------------------- MODULE ArtifactStoreProofs -------------------------
(***************************************************************************)
(* Theorems about the commands over their files, for every number of       *)
(* processes, every choice of options and paths, every aliasing of names   *)
(* and every death or failure in between.                                  *)
(***************************************************************************)
EXTENDS ArtifactStore, TLAPS

-----------------------------------------------------------------------------
(* The inductive invariant: what each stage of a command has established. *)

Creating == {"look", "capture", "write", "replace", "clean up"}
Applying == {"load remote", "execute", "writing", "write", "replace"}
Stage == Creating \union Applying \union {"start", "ended"}
Kind == {"remote", "plan", "result"}
ExitCode == {EXIT_SUCCESS, EXIT_VALIDATION, EXIT_SAFETY, EXIT_PREWRITE, EXIT_WRITE, EXIT_PERSIST}

Local == [at : Stage, exit : ExitCode \union {None}, config : Config \union {None},
          plan : Plan \union {None}, remote : RemoteDocument \union {None},
          existed : BOOLEAN, what : Kind \union {None}, status : Status \union {None}]

Parsed(j) ==
  /\ j \in Job
  /\ j.command # "apply" => j.output # None /\ ~j.authorize
  /\ j.command = "capture" => j.remote = None

Typed ==
  /\ DOMAIN jobs \subseteq Process /\ \A p \in DOMAIN jobs : Parsed(jobs[p])
  /\ files \in [Location -> Document \union {NoFile}] /\ account \in State
  /\ proc \in [Process -> Local]
  /\ placed \in [Process -> SUBSET Kind] /\ changed \subseteq Process

Begun(p) ==
  /\ p \notin DOMAIN jobs => At(p) = "start"
  /\ At(p) # "ended" => proc[p].exit = None
  /\ At(p) = "start" => placed[p] = {} /\ p \notin changed /\ ~proc[p].existed

(* The paths of a command are apart from what it reads, and from each other. *)
Apart(left, right) == left = None \/ right = None \/ ~Conflict(left, right)

(* remote-state capture and plan create, once they are admitted. *)
Creates(p) ==
  At(p) \notin {"start", "ended"} /\ job(p).command # "apply" =>
    /\ At(p) \in Creating /\ p \notin changed
    /\ Apart(job(p).input, job(p).output) /\ Apart(job(p).input, job(p).remote)
    /\ proc[p].config \in Config
    /\ job(p).command = "plan" => (job(p).remote = None <=> proc[p].config.api = "scanning")
    /\ At(p) = "look" => job(p).command = "plan" /\ job(p).remote # None
    /\ At(p) \in {"look", "capture"} => placed[p] = {}
    /\ At(p) \in {"write", "replace"} =>
         /\ proc[p].remote \in RemoteDocument /\ proc[p].plan \in Plan
         /\ proc[p].remote.by = p /\ proc[p].plan.by = p
         /\ \/ /\ What(p) = "remote" /\ placed[p] = {}
               /\ job(p).command = "plan" => job(p).remote # None
            \/ /\ What(p) = "plan" /\ job(p).command = "plan"
               /\ placed[p] = IF job(p).remote = None THEN {} ELSE {"remote"}
    /\ At(p) = "clean up" =>
         job(p).command = "plan" /\ job(p).remote # None /\ placed[p] = {"remote"}

Matched(p) == proc[p].plan.api = "unified catalog" => proc[p].remote.state = proc[p].plan.state

(* apply, once it is admitted. *)
Applies(p) ==
  At(p) \notin {"start", "ended"} /\ job(p).command = "apply" =>
    /\ At(p) \in Applying /\ ~proc[p].existed
    /\ Apart(job(p).input, job(p).output) /\ Apart(job(p).remote, job(p).output)
    /\ proc[p].plan \in Plan /\ placed[p] = {}
    /\ At(p) = "load remote" => job(p).remote # None
    /\ At(p) \in {"load remote", "execute"} => p \notin changed
    /\ At(p) = "writing" => job(p).authorize /\ Matched(p)
    /\ At(p) \in {"write", "replace"} =>
         /\ What(p) = "result" /\ job(p).output # None /\ proc[p].status \in Status
         /\ p \in changed => proc[p].status \in {"applied", "write-failed"}

(* What the exit code of a process says of it. *)
TellsTruth(p) ==
  LET code == proc[p].exit IN
  /\ code \in {EXIT_VALIDATION, EXIT_SAFETY, EXIT_PREWRITE} =>
       p \notin changed /\ placed[p] \intersect {"remote", "plan"} = {}
  /\ code = EXIT_VALIDATION => placed[p] = {}
  /\ code = EXIT_SUCCESS =>
       CASE job(p).command = "apply"   -> job(p).output # None => "result" \in placed[p]
         [] job(p).command = "plan"    -> "plan" \in placed[p] /\ (job(p).remote # None => "remote" \in placed[p])
         [] job(p).command = "capture" -> "remote" \in placed[p]

Sound(p) ==
  /\ Begun(p) /\ Creates(p) /\ Applies(p) /\ TellsTruth(p)
  /\ p \in changed => Matched(p)

AInv == Typed /\ \A p \in Process : Sound(p)

-----------------------------------------------------------------------------
(* A step of one process. *)

LEMMA GoFacts ==
  ASSUME proc \in [Process -> Local], NEW p \in Process, NEW stage \in Stage, Go(p, stage)
  PROVE  /\ proc' \in [Process -> Local] /\ \A q \in Process : q # p => proc'[q] = proc[q]
         /\ At(p)' = stage /\ proc'[p].exit = proc[p].exit /\ proc'[p].config = proc[p].config
         /\ proc'[p].plan = proc[p].plan /\ proc'[p].remote = proc[p].remote
         /\ proc'[p].existed = proc[p].existed /\ What(p)' = What(p)
         /\ proc'[p].status = proc[p].status
BY DEF Go, Local, At, What

LEMMA ExitFacts ==
  ASSUME proc \in [Process -> Local], NEW p \in Process, NEW code \in ExitCode \union {None},
         Exit(p, code)
  PROVE  /\ proc' \in [Process -> Local] /\ \A q \in Process : q # p => proc'[q] = proc[q]
         /\ At(p)' = "ended" /\ proc'[p].exit = code /\ proc'[p].config = proc[p].config
         /\ proc'[p].plan = proc[p].plan /\ proc'[p].remote = proc[p].remote
         /\ proc'[p].existed = proc[p].existed
<1>1. proc' = [proc EXCEPT ![p].at = "ended", ![p].exit = code] /\ proc[p] \in Local
  BY DEF Exit
<1>2. [proc[p] EXCEPT !.at = "ended", !.exit = code] \in Local
  BY <1>1 DEF Local, Stage
<1> QED BY <1>1, <1>2 DEF Local, At

LEMMA OwnStep ==
  ASSUME AInv, NEW p \in DOMAIN jobs, jobs' = jobs,
         files' \in [Location -> Document \union {NoFile}], account' \in State,
         proc' \in [Process -> Local], placed' \in [Process -> SUBSET Kind],
         changed' \subseteq Process,
         \A q \in Process : q # p =>
           proc'[q] = proc[q] /\ placed'[q] = placed[q] /\ (q \in changed' <=> q \in changed),
         Sound(p)'
  PROVE  AInv'
<1>1. Typed'
  BY DEF AInv, Typed
<1>2. ASSUME NEW q \in Process, q # p PROVE Sound(q)'
  <2>1. Sound(q)
    BY DEF AInv
  <2>2. proc'[q] = proc[q] /\ placed'[q] = placed[q] /\ (q \in changed' <=> q \in changed)
    BY <1>2
  <2>3. /\ At(q)' = At(q) /\ What(q)' = What(q) /\ job(q)' = job(q) /\ Matched(q)' = Matched(q)
    BY <2>2 DEF At, What, job, Matched
  <2>4. Begun(q)' /\ TellsTruth(q)'
    BY <2>1, <2>2, <2>3 DEF Sound, Begun, TellsTruth
  <2>5. Creates(q)'
    BY <2>1, <2>2, <2>3 DEF Sound, Creates, Apart, Conflict
  <2>6. Applies(q)'
    BY <2>1, <2>2, <2>3 DEF Sound, Applies, Apart, Conflict
  <2> QED BY <2>1, <2>2, <2>3, <2>4, <2>5, <2>6 DEF Sound
<1> QED BY <1>1, <1>2 DEF AInv

LEMMA JobFacts ==
  ASSUME AInv, NEW p \in DOMAIN jobs
  PROVE  /\ p \in Process /\ Sound(p) /\ proc \in [Process -> Local] /\ proc[p] \in Local
         /\ job(p).command \in Command /\ job(p).input \in Path
         /\ job(p).output \in Path \union {None} /\ job(p).remote \in Path \union {None}
         /\ job(p).command # "apply" => job(p).output # None /\ ~job(p).authorize
         /\ job(p).command = "capture" => job(p).remote = None
         /\ Input(p) \in Document \union {NoFile}
<1>1. p \in Process /\ Parsed(jobs[p])
  BY DEF AInv, Typed
<1>2. /\ job(p).command \in Command /\ job(p).input \in Path
      /\ job(p).output \in Path \union {None} /\ job(p).remote \in Path \union {None}
      /\ job(p).command # "apply" => job(p).output # None /\ ~job(p).authorize
      /\ job(p).command = "capture" => job(p).remote = None
  BY <1>1 DEF Parsed, Job, job
<1>3. Input(p) \in Document \union {NoFile}
  BY <1>2, StoreAssumption DEF Input, AInv, Typed
<1> QED BY <1>1, <1>2, <1>3 DEF AInv, Typed

(* What a process finds in a file of a kind. *)
LEMMA KindFacts ==
  ASSUME NEW d \in Document \union {NoFile}
  PROVE  /\ IsA(d, "config") => d \in Config
         /\ IsA(d, "remote") => d \in RemoteDocument
         /\ IsA(d, "plan") => d \in Plan
BY DEF IsA, Document, Config, RemoteDocument, Plan, ResultDocument

(* A step that ends a process which has changed nothing but itself. *)
LEMMA EndKeeps ==
  ASSUME AInv, NEW p \in DOMAIN jobs, Quiet, NEW code \in ExitCode \union {None}, Exit(p, code),
         At(p) \notin {"start", "ended"} /\ code \in {EXIT_VALIDATION, EXIT_SAFETY, EXIT_PREWRITE} =>
           p \notin changed /\ placed[p] \intersect {"remote", "plan"} = {},
         code = EXIT_VALIDATION => placed[p] = {},
         code = EXIT_SUCCESS =>
           At(p) \notin {"start", "ended"} /\ job(p).command = "apply" /\ job(p).output = None,
         At(p) # "ended"
  PROVE  AInv'
<1>1. p \in Process /\ Sound(p) /\ proc \in [Process -> Local]
  BY JobFacts
<1>2. /\ proc' \in [Process -> Local] /\ \A q \in Process : q # p => proc'[q] = proc[q]
      /\ At(p)' = "ended" /\ proc'[p].exit = code
      /\ proc'[p].plan = proc[p].plan /\ proc'[p].remote = proc[p].remote
  BY <1>1, ExitFacts
<1>3. UNCHANGED <<jobs, files, account, edits, placed, changed>> /\ job(p)' = job(p)
  BY DEF Quiet, job
<1>4. Begun(p)' /\ Creates(p)' /\ Applies(p)'
  BY <1>2, <1>3 DEF Begun, Creates, Applies
<1>5. TellsTruth(p)'
  <2>1. code \in {EXIT_VALIDATION, EXIT_SAFETY, EXIT_PREWRITE} =>
          p \notin changed /\ placed[p] \intersect {"remote", "plan"} = {}
    BY <1>1 DEF Sound, Begun
  <2> QED BY <1>2, <1>3, <2>1 DEF TellsTruth
<1>6. p \in changed' => Matched(p)'
  BY <1>1, <1>2, <1>3 DEF Sound, Matched
<1> QED BY <1>2, <1>3, <1>4, <1>5, <1>6, OwnStep DEF AInv, Typed, Sound

-----------------------------------------------------------------------------
(* Every step keeps it: the commands that create. *)

LEMMA CreationsAdmitted ==
  ASSUME AInv, NEW p \in DOMAIN jobs, RefuseCreate(p) \/ AdmitCreate(p)
  PROVE  AInv'
<1>1. /\ p \in Process /\ Sound(p) /\ proc \in [Process -> Local] /\ At(p) = "start" /\ Quiet
      /\ job(p).command \in {"capture", "plan"} /\ Input(p) \in Document \union {NoFile}
      /\ placed[p] = {} /\ p \notin changed /\ ~proc[p].existed
  BY JobFacts DEF RefuseCreate, AdmitCreate, Sound, Begun
<1>2. CASE RefuseCreate(p)
  <2>1. EXIT_VALIDATION \in ExitCode \union {None} /\ EXIT_VALIDATION # EXIT_SUCCESS
    BY DEF ExitCode, EXIT_VALIDATION, EXIT_SUCCESS
  <2> QED BY <1>1, <1>2, <2>1, EndKeeps DEF RefuseCreate
<1>3. CASE AdmitCreate(p)
  <2> DEFINE stage == IF job(p).command = "plan" /\ job(p).remote # None THEN "look" ELSE "capture"
  <2>1. /\ Input(p) \in Config /\ ~CreateOptionsRefused(p) /\ ~CreateOutputsRefused(p)
    BY <1>1, <1>3, KindFacts DEF AdmitCreate, CreateRefused
  <2>a. /\ stage \in Stage /\ stage \in Creating /\ stage \in {"look", "capture"}
        /\ stage = "look" => job(p).command = "plan" /\ job(p).remote # None
    BY DEF Stage, Creating
  <2>b. proc' = [proc EXCEPT ![p].at = stage, ![p].config = Input(p)]
    BY <1>3 DEF AdmitCreate
  <2>c. PICK st \in Stage : st = stage
    BY <2>a
  <2> HIDE DEF stage
  <2>2. /\ proc' \in [Process -> Local] /\ \A q \in Process : q # p => proc'[q] = proc[q]
        /\ At(p)' = st /\ proc'[p].exit = proc[p].exit /\ proc'[p].config = Input(p)
    <3>5. PICK r \in Local : r = proc[p]
      BY <1>1
    <3>6. PICK c \in Config : c = Input(p)
      BY <2>1
    <3> DEFINE new == [r EXCEPT !.at = st, !.config = c]
    <3>7. new \in Local /\ new.at = st /\ new.config = c /\ new.exit = r.exit
      BY DEF Local
    <3>8. proc' = [proc EXCEPT ![p] = new]
      BY <1>1, <2>b, <2>c, <3>5, <3>6
    <3> HIDE DEF new
    <3> QED BY <1>1, <3>5, <3>6, <3>7, <3>8 DEF At
  <2>3. UNCHANGED <<jobs, files, account, edits, placed, changed>> /\ job(p)' = job(p)
    BY <1>1 DEF Quiet, job
  <2>4. /\ job(p).output # None /\ job(p).command # "apply"
        /\ job(p).command = "capture" => job(p).remote = None
    BY <1>1, JobFacts
  <2>5. Apart(job(p).input, job(p).output) /\ Apart(job(p).input, job(p).remote)
    BY <1>1, <2>1, <2>4 DEF CreateOutputsRefused, OutputRefused, Apart, Conflict
  <2>6. job(p).command = "plan" => (job(p).remote = None <=> Input(p).api = "scanning")
    BY <2>1 DEF CreateOptionsRefused
  <2>7. Creates(p)'
    BY <1>1, <2>1, <2>a, <2>c, <2>2, <2>3, <2>5, <2>6 DEF Creates, Apart, Conflict
  <2>8. Begun(p)' /\ Applies(p)' /\ TellsTruth(p)' /\ p \notin changed'
    <3>1. proc'[p].exit = None
      BY <1>1, <2>2 DEF Sound, Begun
    <3>2. None \notin ExitCode
      BY NoneAssumption DEF ExitCode
    <3> QED BY <1>1, <2>a, <2>c, <2>2, <2>3, <2>4, <3>1, <3>2 DEF Begun, Applies, TellsTruth, ExitCode
  <2> QED BY <2>2, <2>3, <2>7, <2>8, OwnStep DEF AInv, Typed, Sound
<1> QED BY <1>2, <1>3

LEMMA LookKeeps ==
  ASSUME AInv, NEW p \in DOMAIN jobs, LookForRemote(p)
  PROVE  AInv'
<1> DEFINE there == files[Resolve[job(p).remote]] # NoFile
<1>1. /\ p \in Process /\ Sound(p) /\ proc \in [Process -> Local] /\ At(p) = "look" /\ Quiet
      /\ proc' = [proc EXCEPT ![p].at = "capture", ![p].existed = there]
  BY JobFacts DEF LookForRemote
<1>2. job(p).command # "apply"
  BY <1>1 DEF Sound, Applies, Applying
<1>3. /\ proc' \in [Process -> Local] /\ \A q \in Process : q # p => proc'[q] = proc[q]
      /\ At(p)' = "capture" /\ proc'[p].exit = proc[p].exit /\ proc'[p].config = proc[p].config
  <2>1. "capture" \in Stage
    BY DEF Stage, Creating
  <2>2. PICK e \in BOOLEAN : e = there
    OBVIOUS
  <2>3. PICK r \in Local : r = proc[p]
    BY <1>1
  <2> DEFINE new == [r EXCEPT !.at = "capture", !.existed = e]
  <2>4. new \in Local /\ new.at = "capture" /\ new.exit = r.exit /\ new.config = r.config
    BY <2>1 DEF Local
  <2>5. proc' = [proc EXCEPT ![p] = new]
    BY <1>1, <2>2, <2>3
  <2> HIDE DEF new
  <2> QED BY <1>1, <2>3, <2>4, <2>5 DEF At
<1>4. UNCHANGED <<jobs, files, account, edits, placed, changed>> /\ job(p)' = job(p)
  BY <1>1 DEF Quiet, job
<1>5. Creates(p)'
  <2>1. "capture" \in Creating
    BY DEF Creating
  <2> QED BY <1>1, <1>2, <1>3, <1>4, <2>1 DEF Sound, Creates, Apart, Conflict
<1>6. p \notin changed
  BY <1>1, <1>2 DEF Sound, Creates
<1>7. Begun(p)' /\ Applies(p)' /\ TellsTruth(p)' /\ p \notin changed'
  <2>1. proc'[p].exit = None
    BY <1>1, <1>3 DEF Sound, Begun
  <2> QED BY <1>2, <1>3, <1>4, <1>6, <2>1, NoneAssumption DEF Begun, Applies, TellsTruth
<1> QED BY <1>3, <1>4, <1>5, <1>7, OwnStep DEF AInv, Typed, Sound

LEMMA CaptureKeeps ==
  ASSUME AInv, NEW p \in DOMAIN jobs, CaptureFails(p) \/ Capture(p)
  PROVE  AInv'
<1>1. /\ p \in Process /\ Sound(p) /\ proc \in [Process -> Local] /\ At(p) = "capture" /\ Quiet
  BY JobFacts DEF CaptureFails, Capture
<1>2. job(p).command # "apply"
  BY <1>1 DEF Sound, Applies, Applying
<1>3. /\ p \notin changed /\ placed[p] = {} /\ proc[p].config \in Config
      /\ Apart(job(p).input, job(p).output) /\ Apart(job(p).input, job(p).remote)
      /\ job(p).command = "plan" => (job(p).remote = None <=> proc[p].config.api = "scanning")
  BY <1>1, <1>2 DEF Sound, Creates
<1>4. CASE CaptureFails(p)
  <2>1. EXIT_VALIDATION \in ExitCode /\ EXIT_PREWRITE \in ExitCode
        /\ EXIT_VALIDATION # EXIT_SUCCESS /\ EXIT_PREWRITE # EXIT_SUCCESS
    BY DEF ExitCode, EXIT_VALIDATION, EXIT_SUCCESS, EXIT_PREWRITE
  <2> QED BY <1>1, <1>3, <1>4, <2>1, EndKeeps DEF CaptureFails
<1>5. CASE Capture(p)
  <2>1. PICK ready \in BOOLEAN :
          proc' = [proc EXCEPT ![p].at = "write", ![p].what = FirstDocument(p),
                     ![p].remote = [kind |-> "remote", api |-> proc[p].config.api,
                                    state |-> account, by |-> p],
                     ![p].plan = [kind |-> "plan", api |-> proc[p].config.api, state |-> account,
                                  goal |-> proc[p].config.goal, ready |-> ready, by |-> p]]
    BY <1>5 DEF Capture
  <2>2. PICK remote \in RemoteDocument :
          remote = [kind |-> "remote", api |-> proc[p].config.api, state |-> account, by |-> p]
    BY <1>1, <1>3 DEF AInv, Typed, Config, RemoteDocument, Author
  <2>3. PICK plan \in Plan :
          plan = [kind |-> "plan", api |-> proc[p].config.api, state |-> account,
                  goal |-> proc[p].config.goal, ready |-> ready, by |-> p]
    BY <1>1, <1>3 DEF AInv, Typed, Config, Plan, Author
  <2>4. FirstDocument(p) \in {"plan", "remote"}
        /\ (FirstDocument(p) = "plan" <=> job(p).command = "plan" /\ proc[p].config.api = "scanning")
    BY DEF FirstDocument
  <2>5. /\ proc' \in [Process -> Local] /\ \A q \in Process : q # p => proc'[q] = proc[q]
        /\ At(p)' = "write" /\ What(p)' = FirstDocument(p) /\ proc'[p].exit = proc[p].exit
        /\ proc'[p].config = proc[p].config /\ proc'[p].existed = proc[p].existed
        /\ proc'[p].remote = remote /\ proc'[p].plan = plan
    <3>1. "write" \in Stage /\ FirstDocument(p) \in Kind
      BY <2>4 DEF Stage, Creating, Kind
    <3>2. proc' = [proc EXCEPT ![p].at = "write", ![p].what = FirstDocument(p),
                     ![p].remote = remote, ![p].plan = plan]
      BY <2>1, <2>2, <2>3
    <3>3. PICK r \in Local : r = proc[p]
      BY <1>1
    <3>4. PICK first \in Kind : first = FirstDocument(p)
      BY <3>1
    <3> DEFINE new == [r EXCEPT !.at = "write", !.what = first, !.remote = remote, !.plan = plan]
    <3>5. /\ new \in Local /\ new.at = "write" /\ new.what = first /\ new.remote = remote
          /\ new.plan = plan /\ new.exit = r.exit /\ new.config = r.config
          /\ new.existed = r.existed
      BY <3>1 DEF Local
    <3>6. proc' = [proc EXCEPT ![p] = new]
      BY <1>1, <3>2, <3>3, <3>4
    <3> HIDE DEF new
    <3> QED BY <1>1, <3>3, <3>4, <3>5, <3>6 DEF At, What
  <2>6. UNCHANGED <<jobs, files, account, edits, placed, changed>> /\ job(p)' = job(p)
    BY <1>1 DEF Quiet, job
  <2>7. Creates(p)'
    <3>1. "write" \in Creating
      BY DEF Creating
    <3>2. proc'[p].remote.by = p /\ proc'[p].plan.by = p
      BY <2>2, <2>3, <2>5
    <3> QED BY <1>3, <2>4, <2>5, <2>6, <3>1, <3>2 DEF Creates, Apart, Conflict
  <2>8. Begun(p)' /\ Applies(p)' /\ TellsTruth(p)' /\ p \notin changed'
    <3>1. proc'[p].exit = None
      BY <1>1, <2>5 DEF Sound, Begun
    <3> QED BY <1>2, <1>3, <2>5, <2>6, <3>1, NoneAssumption DEF Begun, Applies, TellsTruth, ExitCode
  <2> QED BY <2>5, <2>6, <2>7, <2>8, OwnStep DEF AInv, Typed, Sound
<1> QED BY <1>4, <1>5

-----------------------------------------------------------------------------
(* Writing a document. *)

Writes(p) == At(p) \in {"write", "replace"}

LEMMA WritingFacts ==
  ASSUME AInv, NEW p \in DOMAIN jobs, Writes(p)
  PROVE  /\ p \in Process /\ Sound(p) /\ proc \in [Process -> Local] /\ At(p) # "ended"
         /\ proc[p].exit = None
         /\ \/ /\ What(p) = "remote" /\ job(p).command \in {"capture", "plan"}
               /\ job(p).command = "plan" => job(p).remote # None
               /\ job(p).output # None
               /\ placed[p] = {} /\ p \notin changed /\ ~CompletesPair(p)
            \/ /\ What(p) = "plan" /\ job(p).command = "plan" /\ p \notin changed
               /\ job(p).output # None
               /\ placed[p] = IF job(p).remote = None THEN {} ELSE {"remote"}
               /\ CompletesPair(p) <=> job(p).remote # None
            \/ /\ What(p) = "result" /\ job(p).command = "apply" /\ job(p).output # None
               /\ placed[p] = {} /\ ~CompletesPair(p)
               /\ proc[p].status \in Status
               /\ p \in changed => proc[p].status \in {"applied", "write-failed"}
<1>1. /\ p \in Process /\ Sound(p) /\ proc \in [Process -> Local]
      /\ job(p).command \in Command
      /\ job(p).command # "apply" => job(p).output # None
  BY JobFacts
<1>2. At(p) \notin {"start", "ended"} /\ proc[p].exit = None
  BY <1>1 DEF Writes, Sound, Begun
<1>3. CASE job(p).command = "apply"
  BY <1>1, <1>2, <1>3 DEF Sound, Applies, Writes, CompletesPair
<1>4. CASE job(p).command # "apply"
  <2>1. /\ p \notin changed /\ proc[p].config \in Config
        /\ job(p).command = "plan" => (job(p).remote = None <=> proc[p].config.api = "scanning")
        /\ \/ /\ What(p) = "remote" /\ placed[p] = {}
              /\ job(p).command = "plan" => job(p).remote # None
           \/ /\ What(p) = "plan" /\ job(p).command = "plan"
              /\ placed[p] = IF job(p).remote = None THEN {} ELSE {"remote"}
    BY <1>1, <1>2, <1>4 DEF Sound, Creates, Writes
  <2>2. proc[p].config.api \in {"scanning", "unified catalog"}
    BY <2>1 DEF Config, Api
  <2>3. CASE What(p) = "remote"
    BY <1>1, <1>2, <1>4, <2>1, <2>3 DEF CompletesPair, Command
  <2>4. CASE What(p) = "plan"
    BY <1>1, <1>2, <1>4, <2>1, <2>2, <2>4 DEF CompletesPair
  <2> QED BY <2>1, <2>3, <2>4
<1> QED BY <1>3, <1>4

(* A process goes on to another stage of what it does. *)
LEMMA StageKeeps ==
  ASSUME AInv, NEW p \in DOMAIN jobs, Quiet, NEW stage \in Stage, Go(p, stage),
         At(p) \notin {"start", "ended"}, stage \notin {"start", "ended"},
         job(p).command # "apply" =>
           /\ stage = "replace" => At(p) = "write"
           /\ stage = "clean up" =>
                job(p).command = "plan" /\ job(p).remote # None /\ placed[p] = {"remote"}
           /\ stage \in {"replace", "clean up"},
         job(p).command = "apply" =>
           \/ stage = "replace" /\ At(p) = "write"
           \/ stage = "writing" /\ job(p).authorize /\ Matched(p)
  PROVE  AInv'
<1>1. p \in Process /\ Sound(p) /\ proc \in [Process -> Local]
  BY JobFacts
<1>2. /\ proc' \in [Process -> Local] /\ \A q \in Process : q # p => proc'[q] = proc[q]
      /\ At(p)' = stage /\ proc'[p].exit = proc[p].exit /\ proc'[p].config = proc[p].config
      /\ proc'[p].plan = proc[p].plan /\ proc'[p].remote = proc[p].remote
      /\ proc'[p].existed = proc[p].existed /\ What(p)' = What(p)
      /\ proc'[p].status = proc[p].status
  BY <1>1, GoFacts
<1>3. UNCHANGED <<jobs, files, account, edits, placed, changed>> /\ job(p)' = job(p)
  BY DEF Quiet, job
<1>4. Matched(p)' = Matched(p)
  BY <1>2 DEF Matched
<1>5. proc'[p].exit = None
  BY <1>1, <1>2 DEF Sound, Begun
<1>6. Begun(p)' /\ TellsTruth(p)'
  BY <1>2, <1>3, <1>5, NoneAssumption DEF Begun, TellsTruth
<1>7. Creates(p)'
  <2> SUFFICES ASSUME job(p).command # "apply" PROVE Creates(p)'
    BY <1>3 DEF Creates
  <2>1. stage \in Creating
    BY DEF Creating
  <2> QED BY <1>1, <1>2, <1>3, <2>1 DEF Sound, Creates, Apart, Conflict
<1>8. Applies(p)'
  <2> SUFFICES ASSUME job(p).command = "apply" PROVE Applies(p)'
    BY <1>3 DEF Applies
  <2>1. stage \in Applying
    BY DEF Applying
  <2> QED BY <1>1, <1>2, <1>3, <1>4, <2>1 DEF Sound, Applies, Apart, Conflict
<1> QED BY <1>1, <1>2, <1>3, <1>4, <1>6, <1>7, <1>8, OwnStep DEF AInv, Typed, Sound

LEMMA FailingKeeps ==
  ASSUME AInv, NEW p \in DOMAIN jobs, Writes(p), Quiet,
         NEW code \in {EXIT_VALIDATION, EXIT_PERSIST}, WriteFails(p, code)
  PROVE  AInv'
<1>1. CASE CompletesPair(p)
  <2>1. "clean up" \in Stage
    BY DEF Stage, Creating
  <2>2. What(p) = "plan" /\ job(p).command = "plan" /\ job(p).remote # None /\ placed[p] = {"remote"}
    BY <1>1, WritingFacts
  <2> QED BY <1>1, <2>1, <2>2, StageKeeps DEF WriteFails, Writes
<1>2. CASE ~CompletesPair(p)
  <2> DEFINE exit == IF What(p) = "result" THEN EXIT_PERSIST ELSE code
  <2>1. exit \in ExitCode \union {None} /\ exit # EXIT_SUCCESS /\ exit \notin {EXIT_SAFETY, EXIT_PREWRITE}
        /\ EXIT_PERSIST # EXIT_VALIDATION
    BY DEF ExitCode, EXIT_PERSIST, EXIT_VALIDATION, EXIT_SUCCESS, EXIT_SAFETY, EXIT_PREWRITE
  <2>2. Exit(p, exit) /\ At(p) # "ended"
    BY <1>2, WritingFacts DEF WriteFails
  <2>3. exit = EXIT_VALIDATION => placed[p] = {} /\ p \notin changed
    BY <1>2, <2>1, WritingFacts
  <2> HIDE DEF exit
  <2> QED BY <2>1, <2>2, <2>3, EndKeeps
<1> QED BY <1>1, <1>2

LEMMA WritesKeep ==
  ASSUME AInv, NEW p \in DOMAIN jobs, DestinationTaken(p) \/ WriteTemporary(p) \/ WriteBreaks(p)
  PROVE  AInv'
<1>1. Writes(p) /\ Quiet
  BY DEF DestinationTaken, WriteTemporary, WriteBreaks, Writes
<1>2. CASE DestinationTaken(p)
  BY <1>1, <1>2, FailingKeeps DEF DestinationTaken
<1>3. CASE WriteBreaks(p)
  BY <1>1, <1>3, FailingKeeps DEF WriteBreaks
<1>4. CASE WriteTemporary(p)
  <2>1. "replace" \in Stage
    BY DEF Stage, Creating
  <2> QED BY <1>1, <1>4, <2>1, StageKeeps DEF WriteTemporary
<1> QED BY <1>2, <1>3, <1>4

LEMMA DocumentFacts ==
  ASSUME AInv, NEW p \in DOMAIN jobs, Writes(p)
  PROVE  /\ TheDocument(p) \in Document /\ Destination(p) \in Location
         /\ What(p) \in Kind
<1>1. What(p) \in Kind
  BY WritingFacts DEF Kind
<1>2. Destination(p) \in Location
  <2>1. /\ job(p).output \in Path \union {None} /\ job(p).remote \in Path \union {None}
        /\ job(p).output # None
    BY JobFacts, WritingFacts
  <2>2. What(p) = "remote" /\ job(p).command = "plan" => job(p).remote # None
    BY WritingFacts
  <2> QED BY <2>1, <2>2, StoreAssumption DEF Destination
<1>3. CASE What(p) = "result"
  <2>1. TheDocument(p) = [kind |-> "result", status |-> proc[p].status, by |-> p]
    BY <1>3 DEF TheDocument
  <2>2. proc[p].status \in Status /\ p \in Author
    BY <1>3, WritingFacts DEF Author
  <2>3. TheDocument(p) \in ResultDocument
    BY <2>1, <2>2 DEF ResultDocument
  <2> QED BY <1>1, <1>2, <2>3 DEF Document
<1>4. CASE What(p) # "result"
  <2>1. job(p).command # "apply" /\ At(p) \notin {"start", "ended"}
    BY <1>4, WritingFacts DEF Writes
  <2>2. proc[p].remote \in RemoteDocument /\ proc[p].plan \in Plan
    BY <2>1, WritingFacts DEF Sound, Creates, Writes
  <2>3. TheDocument(p) \in {proc[p].remote, proc[p].plan}
    BY <1>1, <1>4 DEF TheDocument, Kind
  <2> QED BY <1>1, <1>2, <2>2, <2>3 DEF Document
<1> QED BY <1>3, <1>4

LEMMA ReplaceKeeps ==
  ASSUME AInv, NEW p \in DOMAIN jobs, Replace(p)
  PROVE  AInv'
<1>1. /\ Writes(p) /\ UNCHANGED <<jobs, account, edits, changed>> /\ job(p)' = job(p)
      /\ files' = [files EXCEPT ![Destination(p)] = TheDocument(p)]
      /\ placed' = [placed EXCEPT ![p] = placed[p] \union {What(p)}]
      /\ AfterDocument(p)
  BY DEF Replace, Writes, job
<1>2. /\ p \in Process /\ Sound(p) /\ proc \in [Process -> Local] /\ proc[p].exit = None
      /\ What(p) \in Kind /\ TheDocument(p) \in Document
      /\ placed \in [Process -> SUBSET Kind] /\ changed \subseteq Process /\ account \in State
      /\ files \in [Location -> Document \union {NoFile}]
  BY <1>1, WritingFacts, DocumentFacts DEF AInv, Typed
<1>3. /\ files' \in [Location -> Document \union {NoFile}]
      /\ placed' \in [Process -> SUBSET Kind] /\ placed'[p] = placed[p] \union {What(p)}
      /\ \A q \in Process : q # p => placed'[q] = placed[q] /\ (q \in changed' <=> q \in changed)
  BY <1>1, <1>2
<1>4. CASE What(p) = "remote" /\ job(p).command = "plan"
  <2>1. proc' = [proc EXCEPT ![p].at = "write", ![p].what = "plan"]
    BY <1>1, <1>4 DEF AfterDocument
  <2>2. /\ proc' \in [Process -> Local] /\ \A q \in Process : q # p => proc'[q] = proc[q]
        /\ At(p)' = "write" /\ What(p)' = "plan" /\ proc'[p].exit = proc[p].exit
        /\ proc'[p].config = proc[p].config /\ proc'[p].existed = proc[p].existed
        /\ proc'[p].remote = proc[p].remote /\ proc'[p].plan = proc[p].plan
    <3>1. "write" \in Stage /\ "plan" \in Kind
      BY DEF Stage, Creating, Kind
    <3>2. PICK r \in Local : r = proc[p]
      BY <1>2
    <3> DEFINE new == [r EXCEPT !.at = "write", !.what = "plan"]
    <3>3. /\ new \in Local /\ new.at = "write" /\ new.what = "plan" /\ new.remote = r.remote
          /\ new.plan = r.plan /\ new.exit = r.exit /\ new.config = r.config
          /\ new.existed = r.existed
      BY <3>1 DEF Local
    <3>4. proc' = [proc EXCEPT ![p] = new]
      BY <1>2, <2>1, <3>2
    <3> HIDE DEF new
    <3> QED BY <1>2, <3>2, <3>3, <3>4 DEF At, What
  <2>3. job(p).remote # None /\ placed'[p] = {"remote"} /\ p \notin changed
    BY <1>1, <1>3, <1>4, WritingFacts
  <2>4. Creates(p)'
    <3>1. "write" \in Creating
      BY DEF Creating
    <3> QED BY <1>1, <1>2, <1>4, <2>2, <2>3, <3>1 DEF Sound, Creates, Apart, Conflict, Writes
  <2>5. Begun(p)' /\ TellsTruth(p)' /\ Applies(p)'
    BY <1>1, <1>2, <1>4, <2>2, NoneAssumption DEF Begun, TellsTruth, Applies
  <2> QED BY <1>1, <1>2, <1>3, <2>2, <2>3, <2>4, <2>5, OwnStep DEF Sound
<1>5. CASE ~(What(p) = "remote" /\ job(p).command = "plan")
  <2> DEFINE code == IF What(p) = "result" THEN ExitFor(proc[p].status) ELSE EXIT_SUCCESS
  <2>1. Exit(p, code)
    BY <1>1, <1>2, <1>5 DEF AfterDocument, Kind
  <2>2. code \in ExitCode \union {None} /\ code # EXIT_VALIDATION
    BY DEF ExitFor, ExitCode, EXIT_SUCCESS, EXIT_VALIDATION, EXIT_SAFETY, EXIT_PREWRITE, EXIT_WRITE
  <2>3. code \in {EXIT_SAFETY, EXIT_PREWRITE} =>
          What(p) = "result" /\ proc[p].status \in {"blocked", "stale", "failed-before-write"}
    BY DEF ExitFor, EXIT_SUCCESS, EXIT_SAFETY, EXIT_PREWRITE, EXIT_WRITE
  <2>4. code = EXIT_SUCCESS \/ What(p) = "result"
    OBVIOUS
  <2> HIDE DEF code
  <2>5. /\ proc' \in [Process -> Local] /\ \A q \in Process : q # p => proc'[q] = proc[q]
        /\ At(p)' = "ended" /\ proc'[p].exit = code
        /\ proc'[p].plan = proc[p].plan /\ proc'[p].remote = proc[p].remote
    BY <1>2, <2>1, <2>2, ExitFacts
  <2>6. TellsTruth(p)'
    <3>1. code \in {EXIT_VALIDATION, EXIT_SAFETY, EXIT_PREWRITE} =>
            p \notin changed /\ placed'[p] = {"result"}
      BY <1>1, <1>3, <2>2, <2>3, WritingFacts
    <3>2. \/ job(p).command = "apply" /\ "result" \in placed'[p]
          \/ job(p).command = "capture" /\ "remote" \in placed'[p]
          \/ /\ job(p).command = "plan" /\ "plan" \in placed'[p]
             /\ job(p).remote # None => "remote" \in placed'[p]
      BY <1>1, <1>3, <1>5, WritingFacts
    <3> QED BY <1>1, <2>2, <2>5, <3>1, <3>2 DEF TellsTruth
  <2>7. Begun(p)' /\ Creates(p)' /\ Applies(p)'
    BY <1>1, <2>5 DEF Begun, Creates, Applies
  <2>8. p \in changed' => Matched(p)'
    BY <1>1, <1>2, <2>5 DEF Sound, Matched
  <2> QED BY <1>1, <1>2, <1>3, <2>5, <2>6, <2>7, <2>8, OwnStep DEF Sound
<1> QED BY <1>4, <1>5

LEMMA CleanUpKeeps ==
  ASSUME AInv, NEW p \in DOMAIN jobs, CleanUp(p)
  PROVE  AInv'
<1>1. /\ At(p) = "clean up" /\ UNCHANGED <<jobs, account, edits, placed, changed>>
      /\ job(p)' = job(p) /\ Exit(p, EXIT_PERSIST)
      /\ \/ files' = files
         \/ files' = [files EXCEPT ![Resolve[job(p).remote]] = NoFile]
  BY DEF CleanUp, job
<1>2. /\ p \in Process /\ Sound(p) /\ proc \in [Process -> Local] /\ account \in State
      /\ placed \in [Process -> SUBSET Kind] /\ changed \subseteq Process
      /\ files \in [Location -> Document \union {NoFile}]
  BY JobFacts DEF AInv, Typed
<1>3. files' \in [Location -> Document \union {NoFile}]
  BY <1>1, <1>2
<1>4. EXIT_PERSIST \in ExitCode \union {None}
      /\ EXIT_PERSIST \notin {EXIT_SUCCESS, EXIT_VALIDATION, EXIT_SAFETY, EXIT_PREWRITE}
  BY DEF ExitCode, EXIT_PERSIST, EXIT_SUCCESS, EXIT_VALIDATION, EXIT_SAFETY, EXIT_PREWRITE
<1>5. /\ proc' \in [Process -> Local] /\ \A q \in Process : q # p => proc'[q] = proc[q]
      /\ At(p)' = "ended" /\ proc'[p].exit = EXIT_PERSIST
      /\ proc'[p].plan = proc[p].plan /\ proc'[p].remote = proc[p].remote
  BY <1>1, <1>2, <1>4, ExitFacts
<1>6. TellsTruth(p)' /\ Begun(p)' /\ Creates(p)' /\ Applies(p)'
  BY <1>1, <1>4, <1>5 DEF TellsTruth, Begun, Creates, Applies
<1>7. p \in changed' => Matched(p)'
  BY <1>1, <1>2, <1>5 DEF Sound, Matched
<1> QED BY <1>1, <1>2, <1>3, <1>5, <1>6, <1>7, OwnStep DEF Sound

-----------------------------------------------------------------------------
(* apply *)

LEMMA ExecutionFacts ==
  ASSUME AInv, NEW p \in DOMAIN jobs, At(p) \in {"load remote", "execute", "writing"}
  PROVE  /\ p \in Process /\ Sound(p) /\ proc \in [Process -> Local] /\ proc[p].exit = None
         /\ job(p).command = "apply" /\ ~proc[p].existed /\ placed[p] = {}
         /\ Apart(job(p).input, job(p).output) /\ Apart(job(p).remote, job(p).output)
         /\ proc[p].plan \in Plan /\ job(p).output \in Path \union {None}
         /\ At(p) = "load remote" => job(p).remote # None
         /\ At(p) # "writing" => p \notin changed
         /\ At(p) = "writing" => job(p).authorize /\ Matched(p)
<1>1. /\ p \in Process /\ Sound(p) /\ proc \in [Process -> Local]
      /\ job(p).output \in Path \union {None}
  BY JobFacts
<1>2. At(p) \notin Creating
  BY DEF Creating
<1>3. job(p).command = "apply" /\ proc[p].exit = None
  BY <1>1, <1>2 DEF Sound, Creates, Begun
<1> QED BY <1>1, <1>3 DEF Sound, Applies

LEMMA AdmissionKeeps ==
  ASSUME AInv, NEW p \in DOMAIN jobs, RefuseApply(p) \/ AdmitApply(p)
  PROVE  AInv'
<1>1. /\ p \in Process /\ Sound(p) /\ proc \in [Process -> Local] /\ At(p) = "start" /\ Quiet
      /\ job(p).command = "apply" /\ Input(p) \in Document \union {NoFile}
      /\ placed[p] = {} /\ p \notin changed /\ ~proc[p].existed /\ proc[p].exit = None
      /\ job(p).output \in Path \union {None}
  BY JobFacts DEF RefuseApply, AdmitApply, Sound, Begun
<1>2. CASE RefuseApply(p)
  <2>1. EXIT_VALIDATION \in ExitCode \union {None} /\ EXIT_VALIDATION # EXIT_SUCCESS
    BY DEF ExitCode, EXIT_VALIDATION, EXIT_SUCCESS
  <2> QED BY <1>1, <1>2, <2>1, EndKeeps DEF RefuseApply
<1>3. CASE AdmitApply(p)
  <2> DEFINE stage == IF Input(p).api = "scanning" THEN "execute" ELSE "load remote"
  <2>1. Input(p) \in Plan /\ ~ApplyOptionsRefused(p) /\ ~ResultRefused(p)
    BY <1>1, <1>3, KindFacts DEF AdmitApply, ApplyRefused
  <2>2. /\ Apart(job(p).input, job(p).output) /\ Apart(job(p).remote, job(p).output)
        /\ stage = "load remote" => job(p).remote # None
    BY <1>1, <2>1 DEF ResultRefused, OutputRefused, ApplyOptionsRefused, Apart, Conflict
  <2>3. stage \in Stage /\ stage \in Applying /\ stage \in {"execute", "load remote"}
    BY DEF Stage, Applying
  <2>4. proc' = [proc EXCEPT ![p].at = stage, ![p].plan = Input(p)]
    BY <1>3 DEF AdmitApply
  <2>5. PICK st \in Stage : st = stage
    BY <2>3
  <2> HIDE DEF stage
  <2>6. /\ proc' \in [Process -> Local] /\ \A q \in Process : q # p => proc'[q] = proc[q]
        /\ At(p)' = st /\ proc'[p].plan = Input(p) /\ proc'[p].exit = proc[p].exit
        /\ proc'[p].existed = proc[p].existed
    <3>1. PICK r \in Local : r = proc[p]
      BY <1>1
    <3>2. PICK plan \in Plan : plan = Input(p)
      BY <2>1
    <3> DEFINE new == [r EXCEPT !.at = st, !.plan = plan]
    <3>3. /\ new \in Local /\ new.at = st /\ new.plan = plan /\ new.exit = r.exit
          /\ new.existed = r.existed
      BY DEF Local
    <3>4. proc' = [proc EXCEPT ![p] = new]
      BY <1>1, <2>4, <2>5, <3>1, <3>2
    <3> HIDE DEF new
    <3> QED BY <1>1, <3>1, <3>2, <3>3, <3>4 DEF At
  <2>7. UNCHANGED <<jobs, files, account, edits, placed, changed>> /\ job(p)' = job(p)
    BY <1>1 DEF Quiet, job
  <2>8. Applies(p)'
    BY <1>1, <2>1, <2>2, <2>3, <2>5, <2>6, <2>7 DEF Applies, Apart, Conflict
  <2>9. Begun(p)' /\ Creates(p)' /\ TellsTruth(p)' /\ p \notin changed'
    BY <1>1, <2>3, <2>5, <2>6, <2>7, NoneAssumption DEF Begun, Creates, TellsTruth
  <2> QED BY <2>6, <2>7, <2>8, <2>9, OwnStep DEF AInv, Typed, Sound
<1> QED BY <1>2, <1>3

LEMMA LoadKeeps ==
  ASSUME AInv, NEW p \in DOMAIN jobs, LoadRemote(p)
  PROVE  AInv'
<1> DEFINE found == files[Resolve[job(p).remote]]
<1>1. At(p) = "load remote" /\ Quiet
  BY DEF LoadRemote
<1>2. /\ p \in Process /\ Sound(p) /\ proc \in [Process -> Local] /\ proc[p].exit = None
      /\ job(p).command = "apply" /\ ~proc[p].existed /\ placed[p] = {}
      /\ Apart(job(p).input, job(p).output) /\ Apart(job(p).remote, job(p).output)
      /\ proc[p].plan \in Plan /\ job(p).remote # None /\ p \notin changed
  BY <1>1, ExecutionFacts
<1>3. found \in Document \union {NoFile}
  BY <1>2, JobFacts, StoreAssumption DEF AInv, Typed
<1>4. \/ Exit(p, EXIT_VALIDATION) \/ Exit(p, EXIT_PREWRITE)
      \/ IsA(found, "remote") /\ proc' = [proc EXCEPT ![p].at = "execute", ![p].remote = found]
  BY DEF LoadRemote
<1>5. CASE Exit(p, EXIT_VALIDATION) \/ Exit(p, EXIT_PREWRITE)
  <2>1. EXIT_VALIDATION \in ExitCode /\ EXIT_PREWRITE \in ExitCode
        /\ EXIT_VALIDATION # EXIT_SUCCESS /\ EXIT_PREWRITE # EXIT_SUCCESS
    BY DEF ExitCode, EXIT_VALIDATION, EXIT_SUCCESS, EXIT_PREWRITE
  <2> QED BY <1>1, <1>2, <1>5, <2>1, EndKeeps
<1>6. CASE /\ IsA(found, "remote")
           /\ proc' = [proc EXCEPT ![p].at = "execute", ![p].remote = found]
  <2>1. PICK remote \in RemoteDocument : remote = found
    BY <1>3, <1>6, KindFacts
  <2>2. /\ proc' \in [Process -> Local] /\ \A q \in Process : q # p => proc'[q] = proc[q]
        /\ At(p)' = "execute" /\ proc'[p].plan = proc[p].plan /\ proc'[p].exit = proc[p].exit
        /\ proc'[p].existed = proc[p].existed
    <3>1. "execute" \in Stage
      BY DEF Stage, Applying
    <3>2. PICK r \in Local : r = proc[p]
      BY <1>2
    <3> DEFINE new == [r EXCEPT !.at = "execute", !.remote = remote]
    <3>3. /\ new \in Local /\ new.at = "execute" /\ new.plan = r.plan /\ new.exit = r.exit
          /\ new.existed = r.existed
      BY <3>1 DEF Local
    <3>4. proc' = [proc EXCEPT ![p] = new]
      BY <1>2, <1>6, <2>1, <3>2
    <3> HIDE DEF new
    <3> QED BY <1>2, <3>2, <3>3, <3>4 DEF At
  <2>3. UNCHANGED <<jobs, files, account, edits, placed, changed>> /\ job(p)' = job(p)
    BY <1>1 DEF Quiet, job
  <2>4. Applies(p)'
    <3>1. "execute" \in Applying
      BY DEF Applying
    <3> QED BY <1>2, <2>2, <2>3, <3>1 DEF Applies, Apart, Conflict
  <2>5. Begun(p)' /\ Creates(p)' /\ TellsTruth(p)' /\ p \notin changed'
    BY <1>2, <2>2, <2>3, NoneAssumption DEF Begun, Creates, TellsTruth
  <2> QED BY <2>2, <2>3, <2>4, <2>5, OwnStep DEF AInv, Typed, Sound
<1> QED BY <1>4, <1>5, <1>6

LEMMA ReportKeeps ==
  ASSUME AInv, NEW p \in DOMAIN jobs, At(p) \in {"execute", "writing"}, Quiet,
         NEW status \in Status, Report(p, status),
         p \in changed => status \in {"applied", "write-failed"}
  PROVE  AInv'
<1>1. /\ p \in Process /\ Sound(p) /\ proc \in [Process -> Local] /\ proc[p].exit = None
      /\ job(p).command = "apply" /\ ~proc[p].existed /\ placed[p] = {}
      /\ Apart(job(p).input, job(p).output) /\ Apart(job(p).remote, job(p).output)
      /\ proc[p].plan \in Plan
  BY ExecutionFacts
<1>2. CASE job(p).output = None
  <2> DEFINE code == ExitFor(status)
  <2>1. /\ code \in ExitCode \union {None} /\ code # EXIT_VALIDATION
        /\ code \in {EXIT_SAFETY, EXIT_PREWRITE} => status \notin {"applied", "write-failed"}
    BY DEF ExitFor, ExitCode, EXIT_SUCCESS, EXIT_VALIDATION, EXIT_SAFETY, EXIT_PREWRITE, EXIT_WRITE
  <2>2. Exit(p, code)
    BY <1>2 DEF Report
  <2> HIDE DEF code
  <2> QED BY <1>1, <1>2, <2>1, <2>2, EndKeeps
<1>3. CASE job(p).output # None
  <2>1. proc' = [proc EXCEPT ![p].at = "write", ![p].what = "result", ![p].status = status]
    BY <1>3 DEF Report
  <2>2. /\ proc' \in [Process -> Local] /\ \A q \in Process : q # p => proc'[q] = proc[q]
        /\ At(p)' = "write" /\ proc'[p].plan = proc[p].plan /\ proc'[p].exit = proc[p].exit
        /\ proc'[p].existed = proc[p].existed /\ proc'[p].remote = proc[p].remote
        /\ What(p)' = "result" /\ proc'[p].status = status
    <3>1. "write" \in Stage /\ "result" \in Kind
      BY DEF Stage, Applying, Kind
    <3>2. PICK r \in Local : r = proc[p]
      BY <1>1
    <3> DEFINE new == [r EXCEPT !.at = "write", !.what = "result", !.status = status]
    <3>3. /\ new \in Local /\ new.at = "write" /\ new.what = "result" /\ new.status = status
          /\ new.plan = r.plan /\ new.exit = r.exit /\ new.existed = r.existed
          /\ new.remote = r.remote
      BY <3>1 DEF Local
    <3>4. proc' = [proc EXCEPT ![p] = new]
      BY <1>1, <2>1, <3>2
    <3> HIDE DEF new
    <3> QED BY <1>1, <3>2, <3>3, <3>4 DEF At, What
  <2>3. UNCHANGED <<jobs, files, account, edits, placed, changed>> /\ job(p)' = job(p)
    BY DEF Quiet, job
  <2>4. Applies(p)'
    <3>1. "write" \in Applying
      BY DEF Applying
    <3> QED BY <1>1, <1>3, <2>2, <2>3, <3>1 DEF Applies, Apart, Conflict
  <2>5. Begun(p)' /\ Creates(p)' /\ TellsTruth(p)'
    BY <1>1, <2>2, <2>3, NoneAssumption DEF Begun, Creates, TellsTruth
  <2>6. p \in changed' => Matched(p)'
    BY <1>1, <2>2, <2>3 DEF Sound, Matched
  <2> QED BY <2>2, <2>3, <2>4, <2>5, <2>6, OwnStep DEF AInv, Typed, Sound
<1> QED BY <1>2, <1>3

LEMMA GatesKeep ==
  ASSUME AInv, NEW p \in DOMAIN jobs, PassGates(p)
  PROVE  AInv'
<1>1. At(p) = "execute" /\ Quiet
  BY DEF PassGates
<1>2. /\ p \in Process /\ proc \in [Process -> Local] /\ proc[p].plan \in Plan
      /\ job(p).command = "apply" /\ p \notin changed
  BY <1>1, ExecutionFacts
<1>3. \/ \E status \in Status : Report(p, status)
      \/ Paired(p) /\ job(p).authorize /\ Go(p, "writing")
  BY DEF PassGates, Status
<1>4. CASE \E status \in Status : Report(p, status)
  BY <1>1, <1>2, <1>4, ReportKeeps
<1>5. CASE Paired(p) /\ job(p).authorize /\ Go(p, "writing")
  <2>1. "writing" \in Stage
    BY DEF Stage, Applying
  <2>2. Matched(p)
    BY <1>5 DEF Paired, Matched
  <2> QED BY <1>1, <1>2, <1>5, <2>1, <2>2, StageKeeps
<1> QED BY <1>3, <1>4, <1>5

LEMMA EscapeKeeps ==
  ASSUME AInv, NEW p \in DOMAIN jobs, Escape(p)
  PROVE  AInv'
<1>1. At(p) \in {"execute", "writing"} /\ Quiet
  BY DEF Escape
<1>2. /\ placed[p] = {} /\ (At(p) # "writing" => p \notin changed)
      /\ At(p) = "writing" => job(p).authorize
  BY <1>1, ExecutionFacts
<1>3. /\ {EXIT_VALIDATION, EXIT_PREWRITE, EXIT_WRITE} \subseteq ExitCode
      /\ EXIT_SUCCESS \notin {EXIT_VALIDATION, EXIT_PREWRITE, EXIT_WRITE}
      /\ EXIT_WRITE \notin {EXIT_VALIDATION, EXIT_PREWRITE, EXIT_SAFETY}
  BY DEF ExitCode, EXIT_VALIDATION, EXIT_SUCCESS, EXIT_PREWRITE, EXIT_WRITE, EXIT_SAFETY
<1>4. \/ At(p) = "execute" /\ Exit(p, EXIT_VALIDATION)
      \/ At(p) = "execute" /\ Exit(p, EXIT_PREWRITE)
      \/ Exit(p, EXIT_WRITE)
  BY <1>1, <1>2 DEF Escape
<1>5. CASE Exit(p, EXIT_WRITE)
  BY <1>1, <1>3, <1>5, EndKeeps
<1>6. CASE At(p) = "execute" /\ Exit(p, EXIT_VALIDATION)
  BY <1>1, <1>2, <1>3, <1>6, EndKeeps
<1>7. CASE At(p) = "execute" /\ Exit(p, EXIT_PREWRITE)
  BY <1>1, <1>2, <1>3, <1>7, EndKeeps
<1> QED BY <1>4, <1>5, <1>6, <1>7

LEMMA AccountKeeps ==
  ASSUME AInv, NEW p \in DOMAIN jobs, WriteAccount(p)
  PROVE  AInv'
<1>1. /\ At(p) = "writing" /\ account' \in State /\ changed' = changed \union {p}
      /\ UNCHANGED <<jobs, files, edits, proc, placed>> /\ job(p)' = job(p)
  BY DEF WriteAccount, job
<1>2. /\ p \in Process /\ Sound(p) /\ proc \in [Process -> Local] /\ proc[p].exit = None
      /\ job(p).command = "apply" /\ Matched(p)
  BY <1>1, ExecutionFacts
<1>3. Applies(p)'
  BY <1>1, <1>2 DEF Sound, Applies, At, What, Matched, Apart, Conflict
<1>4. Begun(p)' /\ TellsTruth(p)' /\ Creates(p)' /\ Matched(p)'
  BY <1>1, <1>2, NoneAssumption DEF Sound, Begun, TellsTruth, Creates, At, Matched
<1> QED BY <1>1, <1>2, <1>3, <1>4, OwnStep DEF AInv, Typed, Sound

LEMMA FinishKeeps ==
  ASSUME AInv, NEW p \in DOMAIN jobs, FinishWriting(p)
  PROVE  AInv'
<1>1. At(p) = "writing" /\ Quiet
  BY DEF FinishWriting
<1>2. "applied" \in Status /\ "write-failed" \in Status
  BY DEF Status
<1>3. Report(p, "applied") \/ Report(p, "write-failed")
  BY DEF FinishWriting
<1> QED BY <1>1, <1>2, <1>3, ReportKeeps

-----------------------------------------------------------------------------
(* Deaths, edits of others, and the invariant. *)

LEMMA KilledKeeps ==
  ASSUME AInv, NEW p \in DOMAIN jobs, Killed(p)
  PROVE  AInv'
<1>1. None \notin {EXIT_SUCCESS, EXIT_VALIDATION, EXIT_SAFETY, EXIT_PREWRITE}
  BY NoneAssumption
<1> QED BY <1>1, EndKeeps DEF Killed

LEMMA OthersKeep ==
  ASSUME AInv, EditByOthers \/ UNCHANGED vars
  PROVE  AInv'
<1>1. account' \in State /\ UNCHANGED <<jobs, files, proc, placed, changed>>
  BY DEF EditByOthers, vars, AInv, Typed
<1>2. Typed'
  BY <1>1 DEF AInv, Typed
<1>3. ASSUME NEW p \in Process PROVE Sound(p)'
  BY <1>1 DEF AInv, Sound, Begun, Creates, Applies, TellsTruth, Matched, At, What, job, Apart, Conflict
<1> QED BY <1>2, <1>3 DEF AInv

LEMMA InitSound ==
  ASSUME Init
  PROVE  AInv
<1>1. PICK s \in Scenarios : jobs = s.jobs /\ files = s.files /\ account = s.account
  BY DEF Init
<1>2. proc = [p \in Process |-> Fresh] /\ placed = [p \in Process |-> {}] /\ changed = {}
  BY DEF Init
<1>3. Fresh \in Local
  <2>1. "start" \in Stage
    BY DEF Stage
  <2> QED BY <2>1 DEF Fresh, Local
<1>4. Typed
  <2>1. \A p \in DOMAIN jobs : Parsed(jobs[p])
    BY <1>1, ScenarioAssumption DEF Parsed
  <2> QED BY <1>1, <1>2, <1>3, <2>1, ScenarioAssumption DEF Typed
<1>5. ASSUME NEW p \in Process PROVE Sound(p)
  <2>1. At(p) = "start" /\ proc[p].exit = None /\ ~proc[p].existed /\ placed[p] = {} /\ p \notin changed
    BY <1>2 DEF At, Fresh
  <2> QED BY <2>1, NoneAssumption DEF Sound, Begun, Creates, Applies, TellsTruth
<1> QED BY <1>4, <1>5 DEF AInv

LEMMA ProcessKeeps ==
  ASSUME AInv, NEW p \in DOMAIN jobs, Step(p)
  PROVE  AInv'
BY CreationsAdmitted, LookKeeps, CaptureKeeps, WritesKeep, ReplaceKeeps, CleanUpKeeps, AdmissionKeeps,
   LoadKeeps, GatesKeep, EscapeKeeps, AccountKeeps, FinishKeeps, KilledKeeps
DEF Step

LEMMA Invariance == Spec => []AInv
<1>1. Init => AInv
  BY InitSound
<1>2. AInv /\ [Next]_vars => AInv'
  BY ProcessKeeps, OthersKeep DEF Next
<1> QED BY <1>1, <1>2, PTL DEF Spec

-----------------------------------------------------------------------------
(* What the invariant says of the commands. *)

(* A plan and a remote state of different captures change nothing: of one pair *)
(* the executor checks that the plan was made from that remote state, whoever  *)
(* wrote the two files and whatever killed them in between.                    *)
THEOREM MixedPairsAreHarmless == Spec => []MixedPairsChangeNothing
<1>1. AInv => MixedPairsChangeNothing
  BY DEF AInv, Typed, Sound, Matched, MixedPairsChangeNothing
<1> QED BY <1>1, Invariance, PTL

(* Every exit code of cli.py is true: below 6 the account was not changed, a *)
(* refusal has put nothing in place, and success means that every document   *)
(* asked for was.                                                            *)
THEOREM ExitCodesTellTheTruth == Spec => []ExitCodesAreTrue
<1>1. AInv => ExitCodesAreTrue
  BY DEF AInv, Sound, TellsTruth, ExitCodesAreTrue
<1> QED BY <1>1, Invariance, PTL

(* A step of a process changes no file but by _write_atomic or the clean-up of *)
(* plan create, and neither touches what it reads.                             *)
LEMMA FilesOfStep ==
  ASSUME AInv, NEW p \in DOMAIN jobs, Step(p), NEW l \in Location, files'[l] # files[l]
  PROVE  l \notin Inputs(p)
<1>1. p \in Process /\ Sound(p) /\ files \in [Location -> Document \union {NoFile}]
  BY JobFacts DEF AInv, Typed
<1>2. Replace(p) \/ CleanUp(p)
  BY DEF Step, RefuseCreate, AdmitCreate, LookForRemote, CaptureFails, Capture, DestinationTaken, WriteTemporary,
         WriteBreaks, RefuseApply, AdmitApply, LoadRemote, PassGates, Escape, WriteAccount,
         FinishWriting, Killed, Quiet
<1>3. CASE Replace(p)
  <2>1. /\ Writes(p) /\ l = Destination(p) /\ files'[l] = TheDocument(p)
        /\ At(p) \notin {"start", "ended"}
    BY <1>1, <1>3 DEF Replace, Writes
  <2>3. CASE job(p).command = "apply"
    <3>1. /\ Apart(job(p).input, job(p).output) /\ Apart(job(p).remote, job(p).output)
          /\ job(p).output # None /\ What(p) = "result"
      BY <1>1, <2>1, <2>3 DEF Sound, Applies, Writes
    <3>2. l = Resolve[job(p).output] /\ job(p).input \in Path
      BY <2>1, <3>1, JobFacts DEF Destination
    <3> QED BY <2>3, <3>1, <3>2, StoreAssumption DEF Inputs, Apart, Conflict
  <2>4. CASE job(p).command # "apply"
    <3>1. Apart(job(p).input, job(p).output) /\ Apart(job(p).input, job(p).remote)
      BY <1>1, <2>1, <2>4 DEF Sound, Creates, Writes
    <3>2. /\ job(p).output # None /\ job(p).input \in Path
          /\ What(p) = "remote" /\ job(p).command = "plan" => job(p).remote # None
      BY <2>1, <2>4, JobFacts, WritingFacts
    <3> QED BY <2>1, <2>4, <3>1, <3>2, StoreAssumption DEF Inputs, Apart, Conflict, Destination
  <2> QED BY <2>3, <2>4
<1>4. CASE CleanUp(p)
  <2>1. At(p) = "clean up" /\ l = Resolve[job(p).remote]
    BY <1>1, <1>4 DEF CleanUp
  <2>2. job(p).command # "apply"
    BY <1>1, <2>1 DEF Sound, Applies, Applying
  <2>3. Apart(job(p).input, job(p).remote) /\ job(p).remote # None /\ job(p).input \in Path
    BY <1>1, <2>1, <2>2, JobFacts DEF Sound, Creates
  <2> QED BY <2>1, <2>2, <2>3, StoreAssumption DEF Inputs, Apart, Conflict
<1> QED BY <1>2, <1>3, <1>4

(* A process moves by its own steps. *)
LEMMA OnlyOwnSteps ==
  ASSUME AInv, [Next]_vars, NEW p \in Process, proc'[p] # proc[p]
  PROVE  p \in DOMAIN jobs /\ Step(p)
<1>1. PICK q \in DOMAIN jobs : Step(q)
  BY DEF Next, EditByOthers, vars
<1>2. p = q
  <2> SUFFICES ASSUME p # q PROVE FALSE
    OBVIOUS
  <2>1. proc \in [Process -> Local] /\ q \in Process
    BY JobFacts
  <2>2. proc'[p] = proc[p]
    BY <1>1, <2>1
    DEF Step, RefuseCreate, AdmitCreate, LookForRemote, CaptureFails, Capture, DestinationTaken, WriteTemporary,
        WriteBreaks, Replace, CleanUp, RefuseApply, AdmitApply, LoadRemote, PassGates, Escape,
        WriteAccount, FinishWriting, Killed, Exit, Go, WriteFails, AfterDocument, Report
  <2> QED BY <2>2
<1> QED BY <1>1, <1>2

(* No command replaces or removes a file it was given to read, with --force or *)
(* not, under whatever name: _validate_output_vs_input and the checks of       *)
(* plan create compare resolved paths.                                         *)
THEOREM InputsAreSafe == Spec => InputsSurvive
<1>1. ASSUME AInv, [Next]_vars, NEW p \in Process, proc'[p] # proc[p], NEW l \in Inputs(p)
      PROVE  files'[l] = files[l]
  <2>1. p \in DOMAIN jobs /\ Step(p)
    BY <1>1, OnlyOwnSteps
  <2>2. l \in Location
    BY <1>1, <2>1, JobFacts, StoreAssumption DEF Inputs
  <2> QED BY <1>1, <2>1, <2>2, FilesOfStep
<1>2. AInv /\ [Next]_vars =>
        [\A p \in Process : proc'[p] # proc[p] => \A l \in Inputs(p) : files'[l] = files[l]]_vars
  BY <1>1
<1> QED BY <1>2, Invariance, PTL DEF Spec, InputsSurvive

-----------------------------------------------------------------------------
(* Files older than every command. *)

Spared(l) == files[l] # NoFile /\ (files[l].by = User \/ job(files[l].by).force)

(* What a command has seen of the files: it goes on to replace a file without *)
(* --force, or to remove one, only where it once found nothing.               *)
SeenFree(p) ==
  /\ At(p) = "replace" /\ ~job(p).force => Destination(p) \notin older
  /\ At(p) \in {"capture", "write", "replace", "clean up"} /\ ~proc[p].existed
       /\ job(p).command = "plan" /\ job(p).remote # None => Resolve[job(p).remote] \notin older

OInv ==
  /\ AInv /\ older \subseteq Location
  /\ \A l \in older : Spared(l)
  /\ \A p \in DOMAIN jobs : SeenFree(p)

LEMMA OthersSeeTheSame ==
  ASSUME OInv, NEW p \in DOMAIN jobs, older' = older, jobs' = jobs,
         \A q \in Process : q # p => proc'[q] = proc[q],
         SeenFree(p)'
  PROVE  \A q \in DOMAIN jobs' : SeenFree(q)'
<1> SUFFICES ASSUME NEW q \in DOMAIN jobs, q # p PROVE SeenFree(q)'
  OBVIOUS
<1>1. SeenFree(q) /\ proc'[q] = proc[q] /\ job(q)' = job(q)
  BY DEF OInv, AInv, Typed, job
<1> QED BY <1>1 DEF SeenFree, At, Destination, What

(* A step that leaves the files alone. *)
LEMMA QuietStepSpares ==
  ASSUME OInv, NEW p \in DOMAIN jobs, files' = files, older' = older, jobs' = jobs,
         \A q \in Process : q # p => proc'[q] = proc[q],
         SeenFree(p)', AInv'
  PROVE  OInv'
BY OthersSeeTheSame DEF OInv, Spared, job

LEMMA SparedByStep ==
  ASSUME OInv, NEW p \in DOMAIN jobs, Step(p)
  PROVE  OInv'
<1>1. /\ AInv /\ AInv' /\ SeenFree(p) /\ jobs' = jobs /\ older' = older /\ job(p)' = job(p)
      /\ p \in Process /\ proc \in [Process -> Local] /\ Sound(p)
      /\ files \in [Location -> Document \union {NoFile}]
  BY ProcessKeeps, JobFacts
  DEF OInv, AInv, Typed, Step, RefuseCreate, AdmitCreate, LookForRemote, CaptureFails, Capture,
      DestinationTaken, WriteTemporary, WriteBreaks, Replace, CleanUp, RefuseApply, AdmitApply,
      LoadRemote, PassGates, Escape, WriteAccount, FinishWriting, Killed, Quiet, job
<1>2. \A q \in Process : q # p => proc'[q] = proc[q]
  BY <1>1 DEF Step, RefuseCreate, AdmitCreate, LookForRemote, CaptureFails, Capture,
     DestinationTaken, WriteTemporary, WriteBreaks, Replace, CleanUp, RefuseApply, AdmitApply,
     LoadRemote, PassGates, Escape, WriteAccount, FinishWriting, Killed, Exit, Go, WriteFails,
     AfterDocument, Report
<1>3. CASE At(p)' = "ended" /\ files' = files
  BY <1>1, <1>2, <1>3, QuietStepSpares DEF SeenFree
<1>4. CASE LookForRemote(p)
  <2>1. files' = files /\ At(p)' = "capture"
        /\ (proc'[p].existed <=> files[Resolve[job(p).remote]] # NoFile)
    BY <1>1, <1>4 DEF LookForRemote, Quiet, At, Local
  <2>2. ~proc'[p].existed => Resolve[job(p).remote] \notin older
    BY <2>1 DEF OInv, Spared
  <2>3. SeenFree(p)'
    BY <1>1, <2>1, <2>2 DEF SeenFree
  <2> QED BY <1>1, <1>2, <2>1, <2>3, QuietStepSpares
<1>5. CASE AdmitCreate(p)
  <2>1. files' = files /\ At(p)' \in {"look", "capture"}
        /\ (At(p)' = "capture" => ~(job(p).command = "plan" /\ job(p).remote # None))
    BY <1>1, <1>5 DEF AdmitCreate, Quiet, At, Local
  <2>2. SeenFree(p)'
    BY <1>1, <2>1 DEF SeenFree
  <2> QED BY <1>1, <1>2, <2>1, <2>2, QuietStepSpares
<1>6. CASE Capture(p)
  <2>1. /\ files' = files /\ At(p) = "capture" /\ At(p)' = "write"
        /\ proc'[p].existed = proc[p].existed
    BY <1>1, <1>6 DEF Capture, Quiet, At, Local
  <2>2. SeenFree(p)'
    BY <1>1, <2>1 DEF SeenFree
  <2> QED BY <1>1, <1>2, <2>1, <2>2, QuietStepSpares
<1>7. CASE WriteTemporary(p)
  <2>1. /\ files' = files /\ At(p) = "write" /\ At(p)' = "replace"
        /\ proc'[p].existed = proc[p].existed /\ Destination(p)' = Destination(p)
        /\ (~job(p).force => files[Destination(p)] = NoFile)
    BY <1>1, <1>7 DEF WriteTemporary, Quiet, Go, At, Local, Destination, What, Taken
  <2>2. SeenFree(p)'
    BY <1>1, <2>1 DEF SeenFree, OInv, Spared
  <2> QED BY <1>1, <1>2, <2>1, <2>2, QuietStepSpares
<1>8. CASE (DestinationTaken(p) \/ WriteBreaks(p)) /\ At(p)' # "ended"
  <2>1. /\ files' = files /\ At(p) \in {"write", "replace"} /\ At(p)' = "clean up"
        /\ proc'[p].existed = proc[p].existed
    <3>1. /\ Quiet /\ At(p) \in {"write", "replace"}
          /\ Go(p, "clean up") \/ \E code \in {EXIT_PERSIST, EXIT_VALIDATION} : Exit(p, code)
      BY <1>8 DEF DestinationTaken, WriteBreaks, WriteFails
    <3>2. ~\E code \in {EXIT_PERSIST, EXIT_VALIDATION} : Exit(p, code)
      BY <1>1, <1>8 DEF Exit, At, Local
    <3>3. Go(p, "clean up") /\ "clean up" \in Stage
      BY <3>1, <3>2 DEF Stage, Creating
    <3>4. At(p)' = "clean up" /\ proc'[p].existed = proc[p].existed
      BY <1>1, <3>3, GoFacts
    <3> QED BY <3>1, <3>4 DEF Quiet
  <2>2. SeenFree(p)'
    BY <1>1, <2>1 DEF SeenFree
  <2> QED BY <1>1, <1>2, <2>1, <2>2, QuietStepSpares
<1>9. CASE job(p).command = "apply" /\ files' = files /\ At(p)' # "replace"
  BY <1>1, <1>2, <1>9, QuietStepSpares DEF SeenFree
<1>10. CASE Replace(p)
  <2>1. /\ Writes(p) /\ At(p) = "replace" /\ Destination(p) \in Location
        /\ files' = [files EXCEPT ![Destination(p)] = TheDocument(p)]
        /\ At(p)' \in {"ended", "write"} /\ proc'[p].existed = proc[p].existed
    BY <1>1, <1>10, DocumentFacts DEF Replace, Writes, AfterDocument, Exit, At, Local
  <2>2. TheDocument(p) \in Document /\ TheDocument(p).by = p
    <3>1. CASE What(p) = "result"
      <4>1. TheDocument(p) = [kind |-> "result", status |-> proc[p].status, by |-> p]
        BY <3>1 DEF TheDocument
      <4> QED BY <1>1, <2>1, <4>1, DocumentFacts
    <3>2. CASE What(p) # "result"
      <4>1. job(p).command # "apply" /\ At(p) \notin {"start", "ended"} /\ What(p) \in Kind
        BY <1>1, <2>1, <3>2, WritingFacts, DocumentFacts DEF Writes
      <4>2. proc[p].remote.by = p /\ proc[p].plan.by = p
        BY <1>1, <2>1, <4>1 DEF Sound, Creates, Writes
      <4>3. TheDocument(p) \in {proc[p].remote, proc[p].plan}
        BY <3>2, <4>1 DEF TheDocument, Kind
      <4> QED BY <1>1, <2>1, <4>2, <4>3, DocumentFacts
    <3> QED BY <3>1, <3>2
  <2>3. ASSUME NEW l \in older' PROVE Spared(l)'
    <3>1. l \in Location /\ Spared(l)
      BY <1>1 DEF OInv
    <3>2. CASE l = Destination(p)
      <4>1. files'[l] = TheDocument(p) /\ job(p).force
        BY <1>1, <2>1, <3>1, <3>2 DEF SeenFree
      <4> QED BY <1>1, <2>2, <4>1, StoreAssumption DEF Spared
    <3>3. CASE l # Destination(p)
      <4>1. files'[l] = files[l]
        BY <1>1, <2>1, <3>1, <3>3
      <4> QED BY <1>1, <3>1, <4>1 DEF Spared, job
    <3> QED BY <3>2, <3>3
  <2>4. SeenFree(p)'
    BY <1>1, <2>1 DEF SeenFree
  <2> QED BY <1>1, <1>2, <2>3, <2>4, OthersSeeTheSame DEF OInv
<1>11. CASE CleanUp(p)
  <2>1. /\ At(p) = "clean up" /\ Exit(p, EXIT_PERSIST)
        /\ \/ files' = files
           \/ ~proc[p].existed /\ files' = [files EXCEPT ![Resolve[job(p).remote]] = NoFile]
    BY <1>11 DEF CleanUp
  <2>2. At(p)' = "ended"
    BY <1>1, <2>1, ExitFacts DEF ExitCode
  <2>3. job(p).command = "plan" /\ job(p).remote # None
    BY <1>1, <2>1 DEF Sound, Applies, Applying, Creates
  <2>4. \A l \in older : files'[l] = files[l]
    BY <1>1, <2>1, <2>3 DEF SeenFree, OInv
  <2>5. SeenFree(p)'
    BY <2>2 DEF SeenFree
  <2> QED BY <1>1, <1>2, <2>4, <2>5, OthersSeeTheSame DEF OInv, Spared, job
<1>12. CASE RefuseCreate(p) \/ CaptureFails(p) \/ RefuseApply(p) \/ Killed(p)
  BY <1>1, <1>3, <1>12
  DEF RefuseCreate, CaptureFails, RefuseApply, Killed, Exit, Quiet, At, Local
<1>13. CASE DestinationTaken(p) \/ WriteBreaks(p)
  <2>1. files' = files
    BY <1>13 DEF DestinationTaken, WriteBreaks, Quiet
  <2> QED BY <1>3, <1>8, <1>13, <2>1
<1>14. CASE AdmitApply(p) \/ LoadRemote(p) \/ PassGates(p) \/ Escape(p)
             \/ WriteAccount(p) \/ FinishWriting(p)
  <2>1. files' = files /\ At(p) \in {"start", "load remote", "execute", "writing"}
    BY <1>14 DEF AdmitApply, LoadRemote, PassGates, Escape, WriteAccount, FinishWriting, Quiet
  <2>2. job(p).command = "apply"
    BY <1>1, <1>14, <2>1, ExecutionFacts
    DEF AdmitApply, LoadRemote, PassGates, Escape, WriteAccount, FinishWriting
  <2>3. At(p)' # "replace"
    <3>1. CASE AdmitApply(p)
      BY <1>1, <3>1 DEF AdmitApply, At, Local
    <3>2. CASE LoadRemote(p)
      <4>1. \/ Exit(p, EXIT_VALIDATION) \/ Exit(p, EXIT_PREWRITE)
            \/ proc' = [proc EXCEPT ![p].at = "execute",
                                    ![p].remote = files[Resolve[job(p).remote]]]
        BY <3>2 DEF LoadRemote
      <4> QED BY <1>1, <4>1, ExitFacts DEF ExitCode, At, Local
    <3>3. CASE PassGates(p) \/ FinishWriting(p)
      <4>1. Go(p, "writing") \/ \E status \in Status : Report(p, status)
        BY <3>3 DEF PassGates, FinishWriting, Status
      <4> QED BY <1>1, <4>1 DEF Report, Go, Exit, At, Local
    <3>4. CASE Escape(p)
      BY <1>1, <3>4 DEF Escape, Exit, At, Local
    <3>5. CASE WriteAccount(p)
      BY <3>5 DEF WriteAccount, At
    <3> QED BY <1>14, <3>1, <3>2, <3>3, <3>4, <3>5
  <2> QED BY <1>9, <2>1, <2>2, <2>3
<1> QED BY <1>1, <1>4, <1>5, <1>6, <1>7, <1>10, <1>11, <1>12, <1>13, <1>14 DEF Step

(* Killed or failing at any step, and whatever other commands do between its   *)
(* looks and its writing, no command leaves half a document behind; and a file *)
(* older than every command is there at the end, or a document that a command  *)
(* with --force has put in its place: _write_atomic and remote_existed.        *)
THEOREM OlderFilesAreKept == Spec => []OlderFilesAreSpared
<1>1. Init => OInv
  <2> SUFFICES ASSUME Init PROVE OInv
    OBVIOUS
  <2>1. PICK s \in Scenarios : jobs = s.jobs /\ files = s.files
    BY DEF Init
  <2>2. AInv /\ older = {l \in Location : files[l] # NoFile}
    BY InitSound DEF Init
  <2>3. \A l \in older : files[l].by = User
    BY <2>1, <2>2, ScenarioAssumption
  <2>4. \A p \in DOMAIN jobs : SeenFree(p)
    BY <2>2 DEF Init, Fresh, SeenFree, At, AInv, Typed
  <2> QED BY <2>2, <2>3, <2>4 DEF OInv, Spared
<1>2. OInv /\ [Next]_vars => OInv'
  <2> SUFFICES ASSUME OInv, [Next]_vars PROVE OInv'
    OBVIOUS
  <2>1. CASE \E p \in DOMAIN jobs : Step(p)
    BY <2>1, SparedByStep
  <2>2. CASE EditByOthers \/ UNCHANGED vars
    <3>1. AInv' /\ UNCHANGED <<jobs, files, proc, older>>
      BY <2>2, OthersKeep DEF OInv, EditByOthers, vars
    <3> QED BY <3>1 DEF OInv, Spared, SeenFree, At, Destination, What, job
  <2> QED BY <2>1, <2>2 DEF Next
<1>3. OInv => OlderFilesAreSpared
  BY StoreAssumption DEF OInv, AInv, Typed, Spared, OlderFilesAreSpared
<1> QED BY <1>1, <1>2, <1>3, PTL DEF Spec
=============================================================================
