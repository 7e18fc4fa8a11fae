---------------------------- MODULE ArtifactStore ----------------------------
(***************************************************************************)
(* The command line over the files it reads and writes: remote-state       *)
(* capture, plan create and apply, run by several people on the same       *)
(* files, each of which may be killed between any two steps.  A document   *)
(* is written to a temporary file that then replaces the destination; a    *)
(* v3 plan and the remote state it was made from are two files, written    *)
(* one after the other.                                                    *)
(*                                                                         *)
(* What the executor does is modelled in UnifiedCatalogApply and           *)
(* ScanningApply; here an execution passes its gates in one step and       *)
(* writes in another.                                                      *)
(***************************************************************************)
EXTENDS Naturals

CONSTANTS
  Process,       \* runs of the program
  Path,          \* names of files
  Location,      \* the files they resolve to
  Resolve,       \* [Path -> Location]: links and relative names followed
  Unusable,      \* locations that are directories, or whose parent is missing
  State,         \* states of an account
  None,          \* an option not given
  NoFile,        \* nothing at a location
  Torn,          \* the beginning of a document
  User,          \* the author of the files there are at first
  Scenarios,     \* initial situations: [jobs, files, account]
  MaxEdits       \* bound on the edits of others to the account

Command == {"capture", "plan", "apply"}
Status == {"blocked", "stale", "failed-before-write", "dry-run-ready", "applied", "write-failed"}
Api == {"scanning", "unified catalog"}

(* "input" is the configuration, or the plan of an apply; "remote" is the path of *)
(* the remote-state file; "output" is that of the document the command is for.    *)
Job == [command : Command, input : Path, remote : Path \union {None},
        output : Path \union {None}, force : BOOLEAN, authorize : BOOLEAN,
        credential : BOOLEAN]

Author == Process \union {User}
Config == [kind : {"config"}, api : Api, goal : State, by : {User}]
RemoteDocument == [kind : {"remote"}, api : Api, state : State, by : Author]
Plan == [kind : {"plan"}, api : Api, state : State, goal : State, ready : BOOLEAN, by : Author]
ResultDocument == [kind : {"result"}, status : Status, by : Author]
Document == Config \union RemoteDocument \union Plan \union ResultDocument

ASSUME StoreAssumption ==
  /\ Resolve \in [Path -> Location] /\ Unusable \subseteq Location
  /\ None \notin Path /\ User \notin Process
  /\ NoFile \notin Document /\ Torn \notin Document /\ NoFile # Torn
  /\ MaxEdits \in Nat

(* What the parser of the options lets through: capture has no remote-state file, *)
(* both it and plan create ask for an output, and only apply can be authorized.   *)
ASSUME ScenarioAssumption ==
  \A s \in Scenarios :
    /\ s.account \in State
    /\ s.files \in [Location -> Document \union {NoFile}]
    /\ \A l \in Location : s.files[l] # NoFile => s.files[l].by = User
    /\ DOMAIN s.jobs \subseteq Process
    /\ \A p \in DOMAIN s.jobs :
         /\ s.jobs[p] \in Job
         /\ s.jobs[p].command # "apply" => s.jobs[p].output # None /\ ~s.jobs[p].authorize
         /\ s.jobs[p].command = "capture" => s.jobs[p].remote = None

VARIABLES
  jobs,      \* what each process that is started was asked to do
  files,     \* the documents at each location
  account,   \* the state of the account
  edits,     \* edits others have made
  proc,      \* where each process is, and its local variables
  placed,    \* history: the documents each process has put in place
  changed,   \* history: the processes that have changed the account
  older      \* history: where there was a file before any command was started

vars == <<jobs, files, account, edits, proc, placed, changed, older>>

job(p) == jobs[p]
At(p) == proc[p].at
Go(p, stage) == proc' = [proc EXCEPT ![p].at = stage]
Exit(p, code) == proc' = [proc EXCEPT ![p].at = "ended", ![p].exit = code]

EXIT_SUCCESS == 0
EXIT_VALIDATION == 3
EXIT_SAFETY == 4
EXIT_PREWRITE == 5
EXIT_WRITE == 6
EXIT_PERSIST == 7

ASSUME NoneAssumption ==
  None \notin {EXIT_SUCCESS, EXIT_VALIDATION, EXIT_SAFETY, EXIT_PREWRITE, EXIT_WRITE, EXIT_PERSIST}

Quiet == UNCHANGED <<jobs, files, account, edits, placed, changed, older>>

-----------------------------------------------------------------------------
(* Admission of a command: its input is loaded and its paths are checked. *)

(* Mutant: names are compared as they were typed. *)
SameName(left, right) == left = right

(* paths_conflict *)
Conflict(left, right) == Resolve[left] = Resolve[right]

Taken(p, location) == files[location] # NoFile /\ ~job(p).force

(* _preflight_output_destination *)
DestinationRefused(p, path) == Resolve[path] \in Unusable \/ Taken(p, Resolve[path])

(* _validate_output_vs_input *)
OutputRefused(p, input, output) == Conflict(input, output) \/ DestinationRefused(p, output)

Input(p) == files[Resolve[job(p).input]]

IsA(document, kind) == document \notin {NoFile, Torn} /\ document.kind = kind

(* Options of the other API, or an option of this one that is missing. *)
CreateOptionsRefused(p) ==
  IF Input(p).api = "scanning"
  THEN job(p).credential \/ (job(p).command = "plan" /\ job(p).remote # None)
  ELSE job(p).command = "plan" /\ job(p).remote = None

CreateOutputsRefused(p) ==
  \/ OutputRefused(p, job(p).input, job(p).output)
  \/ /\ job(p).command = "plan" /\ job(p).remote # None
     /\ \/ OutputRefused(p, job(p).input, job(p).remote)
        \/ Conflict(job(p).output, job(p).remote)

CreateRefused(p) ==
  IsA(Input(p), "config") => CreateOptionsRefused(p) \/ CreateOutputsRefused(p)

RefuseCreate(p) ==
  /\ At(p) = "start" /\ job(p).command \in {"capture", "plan"}
  /\ CreateRefused(p)
  /\ Exit(p, EXIT_VALIDATION) /\ Quiet

AdmitCreate(p) ==
  /\ At(p) = "start" /\ job(p).command \in {"capture", "plan"}
  /\ ~CreateRefused(p)
  /\ LET stage == IF job(p).command = "plan" /\ job(p).remote # None THEN "look" ELSE "capture" IN
     proc' = [proc EXCEPT ![p].at = stage, ![p].config = Input(p)]
  /\ Quiet

(* remote_existed: a Unified Catalog plan create looks once more, after its *)
(* admission, and remembers whether the remote-state file was there.        *)
LookForRemote(p) ==
  /\ At(p) = "look"
  /\ LET there == files[Resolve[job(p).remote]] # NoFile IN
     proc' = [proc EXCEPT ![p].at = "capture", ![p].existed = there]
  /\ Quiet

-----------------------------------------------------------------------------
(* remote-state capture and plan create *)

(* No token, a failed read; or, of plan create, a plan that cannot be built. *)
CaptureFails(p) ==
  /\ At(p) = "capture"
  /\ \/ Exit(p, EXIT_PREWRITE)
     \/ job(p).command = "plan" /\ Exit(p, EXIT_VALIDATION)
  /\ Quiet

(* A Unified Catalog plan is written after its remote state. *)
FirstDocument(p) ==
  IF job(p).command = "plan" /\ proc[p].config.api = "scanning" THEN "plan" ELSE "remote"

Capture(p) ==
  /\ At(p) = "capture"
  /\ \E ready \in BOOLEAN :
       LET config == proc[p].config
           remote == [kind |-> "remote", api |-> config.api, state |-> account, by |-> p]
           plan == [kind |-> "plan", api |-> config.api, state |-> account,
                    goal |-> config.goal, ready |-> ready, by |-> p]
       IN  proc' = [proc EXCEPT ![p].at = "write", ![p].what = FirstDocument(p),
                                ![p].remote = remote, ![p].plan = plan]
  /\ Quiet

-----------------------------------------------------------------------------
(* Writing a document: _write_atomic and what its callers do about a failure. *)

What(p) == proc[p].what
Destination(p) ==
  Resolve[IF What(p) = "remote" /\ job(p).command = "plan" THEN job(p).remote ELSE job(p).output]

TheDocument(p) ==
  CASE What(p) = "remote" -> proc[p].remote
    [] What(p) = "plan"   -> proc[p].plan
    [] What(p) = "result" -> [kind |-> "result", status |-> proc[p].status, by |-> p]

(* The second file of a pair: the first one has to go. *)
CompletesPair(p) == What(p) = "plan" /\ proc[p].config.api = "unified catalog"

WriteFails(p, code) ==
  IF CompletesPair(p) THEN Go(p, "clean up")
  ELSE Exit(p, IF What(p) = "result" THEN EXIT_PERSIST ELSE code)

DestinationTaken(p) ==
  /\ At(p) = "write" /\ Taken(p, Destination(p))
  /\ WriteFails(p, EXIT_VALIDATION) /\ Quiet

(* Mutant: the document is written straight into its destination. *)
OpenDestination(p) ==
  /\ At(p) = "write" /\ ~Taken(p, Destination(p))
  /\ files' = [files EXCEPT ![Destination(p)] = Torn]
  /\ Go(p, "replace")
  /\ UNCHANGED <<jobs, account, edits, placed, changed, older>>

(* The temporary file is written and flushed; its name is the process's own. *)
WriteTemporary(p) ==
  /\ At(p) = "write" /\ ~Taken(p, Destination(p))
  /\ Go(p, "replace") /\ Quiet

(* No space, no permission; the temporary file is removed. *)
WriteBreaks(p) ==
  /\ At(p) \in {"write", "replace"}
  /\ At(p) = "write" => ~Taken(p, Destination(p))
  /\ WriteFails(p, EXIT_PERSIST) /\ Quiet

(* _exit_for_result *)
ExitFor(status) ==
  CASE status \in {"dry-run-ready", "applied"} -> EXIT_SUCCESS
    [] status \in {"blocked", "stale"}         -> EXIT_SAFETY
    [] status = "failed-before-write"          -> EXIT_PREWRITE
    [] OTHER                                   -> EXIT_WRITE

AfterDocument(p) ==
  CASE What(p) = "remote" /\ job(p).command = "plan" ->
         proc' = [proc EXCEPT ![p].at = "write", ![p].what = "plan"]
    [] What(p) = "result" -> Exit(p, ExitFor(proc[p].status))
    [] OTHER              -> Exit(p, EXIT_SUCCESS)

(* os.replace *)
Replace(p) ==
  /\ At(p) = "replace"
  /\ files' = [files EXCEPT ![Destination(p)] = TheDocument(p)]
  /\ placed' = [placed EXCEPT ![p] = @ \union {What(p)}]
  /\ AfterDocument(p)
  /\ UNCHANGED <<jobs, account, edits, changed, older>>

(* Mutant: the remote-state file is removed whether or not it is new. *)
RemoveRemote(p) ==
  /\ At(p) = "clean up"
  /\ files' = [files EXCEPT ![Resolve[job(p).remote]] = NoFile]
  /\ Exit(p, EXIT_PERSIST)
  /\ UNCHANGED <<jobs, account, edits, placed, changed, older>>

(* The plan was not written: a remote-state file that was not there when the *)
(* command looked is removed, if that works.                                 *)
CleanUp(p) ==
  /\ At(p) = "clean up"
  /\ \/ UNCHANGED files
     \/ ~proc[p].existed /\ files' = [files EXCEPT ![Resolve[job(p).remote]] = NoFile]
  /\ Exit(p, EXIT_PERSIST)
  /\ UNCHANGED <<jobs, account, edits, placed, changed, older>>

-----------------------------------------------------------------------------
(* apply *)

ApplyOptionsRefused(p) ==
  IF Input(p).api = "scanning" THEN job(p).remote # None \/ job(p).credential
  ELSE job(p).remote = None

ResultRefused(p) ==
  /\ job(p).output # None
  /\ \/ OutputRefused(p, job(p).input, job(p).output)
     \/ job(p).remote # None /\ Conflict(job(p).remote, job(p).output)

ApplyRefused(p) ==
  IsA(Input(p), "plan") => ApplyOptionsRefused(p) \/ ResultRefused(p)

RefuseApply(p) ==
  /\ At(p) = "start" /\ job(p).command = "apply" /\ ApplyRefused(p)
  /\ Exit(p, EXIT_VALIDATION) /\ Quiet

AdmitApply(p) ==
  /\ At(p) = "start" /\ job(p).command = "apply" /\ ~ApplyRefused(p)
  /\ LET stage == IF Input(p).api = "scanning" THEN "execute" ELSE "load remote" IN
     proc' = [proc EXCEPT ![p].at = stage, ![p].plan = Input(p)]
  /\ Quiet

(* The remote-state file is read after the plan; then a ready plan needs a *)
(* credential, which may be unusable or unable to bind the tenant.         *)
LoadRemote(p) ==
  LET remote == files[Resolve[job(p).remote]] IN
  /\ At(p) = "load remote"
  /\ IF ~IsA(remote, "remote") \/ remote.api # "unified catalog"
          \/ (proc[p].plan.ready /\ ~job(p).credential)
     THEN Exit(p, EXIT_VALIDATION)
     ELSE \/ proc' = [proc EXCEPT ![p].at = "execute", ![p].remote = remote]
          \/ proc[p].plan.ready /\ Exit(p, EXIT_PREWRITE)
  /\ Quiet

(* Mutant: the artifact need not be the one the plan was made from. *)
AnyPair(p) == TRUE

(* The executor's check of the plan against its artifact. *)
Paired(p) == proc[p].plan.api = "scanning" \/ proc[p].remote.state = proc[p].plan.state

Report(p, status) ==
  IF job(p).output = None THEN Exit(p, ExitFor(status))
  ELSE proc' = [proc EXCEPT ![p].at = "write", ![p].what = "result", ![p].status = status]

(* The executor's gates: nothing is written unless all of them are passed. *)
PassGates(p) ==
  /\ At(p) = "execute"
  /\ IF ~proc[p].plan.ready THEN Report(p, "blocked")
     ELSE IF ~Paired(p) THEN Report(p, "failed-before-write")
     ELSE \/ Report(p, "failed-before-write")
          \/ account # proc[p].plan.state /\ Report(p, "stale")
          \/ account = proc[p].plan.state
             /\ IF job(p).authorize THEN Go(p, "writing") ELSE Report(p, "dry-run-ready")
  /\ Quiet

(* Mutant: an escape from the executor counts as a failure before its writes. *)
PrewriteEscape(p) ==
  /\ At(p) \in {"execute", "writing"}
  /\ Exit(p, EXIT_PREWRITE) /\ Quiet

(* The executor raises: an invalid plan, no token, or anything unexpected. *)
Escape(p) ==
  /\ At(p) \in {"execute", "writing"}
  /\ \/ At(p) = "execute" /\ Exit(p, EXIT_VALIDATION)
     \/ At(p) = "execute" /\ Exit(p, EXIT_PREWRITE)
     \/ Exit(p, IF job(p).authorize THEN EXIT_WRITE ELSE EXIT_PREWRITE)
  /\ Quiet

(* The account changes with every write: to the goal, or not as far as that. *)
WriteAccount(p) ==
  /\ At(p) = "writing"
  /\ account' \in State \ {account}
  /\ changed' = changed \union {p}
  /\ UNCHANGED <<jobs, files, edits, proc, placed, older>>

(* Writing ends: "applied", or one of the statuses of an unfinished execution. *)
FinishWriting(p) ==
  /\ At(p) = "writing"
  /\ \/ (p \in changed \/ proc[p].plan.goal = proc[p].plan.state) /\ Report(p, "applied")
     \/ Report(p, "write-failed")
  /\ Quiet

-----------------------------------------------------------------------------
(* Processes may be killed; others use the account. *)

Killed(p) ==
  /\ At(p) # "ended"
  /\ Exit(p, None) /\ Quiet

EditByOthers ==
  /\ edits < MaxEdits
  /\ account' \in State \ {account} /\ edits' = edits + 1
  /\ UNCHANGED <<jobs, files, proc, placed, changed, older>>

Fresh == [at |-> "start", exit |-> None, config |-> None, plan |-> None, remote |-> None,
          existed |-> FALSE, what |-> None, status |-> None]

Init ==
  /\ \E s \in Scenarios : jobs = s.jobs /\ files = s.files /\ account = s.account
  /\ edits = 0
  /\ proc = [p \in Process |-> Fresh]
  /\ placed = [p \in Process |-> {}] /\ changed = {}
  /\ older = {l \in Location : files[l] # NoFile}

Step(p) ==
  \/ RefuseCreate(p) \/ AdmitCreate(p) \/ LookForRemote(p) \/ CaptureFails(p) \/ Capture(p)
  \/ DestinationTaken(p) \/ WriteTemporary(p) \/ WriteBreaks(p) \/ Replace(p) \/ CleanUp(p)
  \/ RefuseApply(p) \/ AdmitApply(p) \/ LoadRemote(p) \/ PassGates(p) \/ Escape(p)
  \/ WriteAccount(p) \/ FinishWriting(p)
  \/ Killed(p)

Next == (\E p \in DOMAIN jobs : Step(p)) \/ EditByOthers

Spec == Init /\ [][Next]_vars

-----------------------------------------------------------------------------
(* Properties. *)

Inputs(p) ==
  IF job(p).command = "apply"
  THEN {Resolve[job(p).input]} \union {Resolve[path] : path \in {job(p).remote} \ {None}}
  ELSE {Resolve[job(p).input]}

(* A command never replaces or removes a file it was given to read, not even with *)
(* --force and under another name of that file.                                   *)
InputsSurvive ==
  [][\A p \in Process : proc'[p] # proc[p] =>
       \A l \in Inputs(p) : files'[l] = files[l]]_vars

(* What an exit code says: below 6 the account was not changed; after a refusal or *)
(* a failed read no remote state and no plan was put in place either; and success  *)
(* means that every document asked for was.                                        *)
ExitCodesAreTrue ==
  \A p \in Process :
    LET code == proc[p].exit IN
    /\ code \in {EXIT_VALIDATION, EXIT_SAFETY, EXIT_PREWRITE} =>
         p \notin changed /\ placed[p] \intersect {"remote", "plan"} = {}
    /\ code = EXIT_VALIDATION => placed[p] = {}
    /\ code = EXIT_SUCCESS =>
         CASE job(p).command = "apply"   -> job(p).output # None => "result" \in placed[p]
           [] job(p).command = "plan"    -> "plan" \in placed[p] /\ (job(p).remote # None => "remote" \in placed[p])
           [] job(p).command = "capture" -> "remote" \in placed[p]

(* A plan and a remote state left behind by different captures, by a crash between *)
(* the two files, by --force over an older pair or by two commands at once, change *)
(* nothing unless both captures found the same state.                              *)
MixedPairsChangeNothing ==
  \A p \in changed :
    proc[p].plan.api = "unified catalog" => proc[p].remote.state = proc[p].plan.state

(* Killed or failing at any step, and whatever other commands do between its looks *)
(* at a file and its writing there, no command leaves half a document behind; and  *)
(* where there was a file before any of them was started there is always one: that *)
(* file, or a document put in its place by a command with --force.                 *)
OlderFilesAreSpared ==
  /\ \A l \in Location : files[l] # Torn
  /\ \A l \in older : files[l] # NoFile /\ (files[l].by = User \/ job(files[l].by).force)

(* README.md:265-266: when the plan cannot be written after a new remote file was  *)
(* created, plan create removes "that new remote": a file it has written itself.   *)
RemovesOnlyItsOwn ==
  [][\A p \in Process, l \in Location :
       proc'[p] # proc[p] /\ files[l] # NoFile /\ files'[l] = NoFile => files[l].by = p]_vars
=============================================================================
