----------------------------- MODULE ScanningApply -----------------------------
(***************************************************************************)
(* execute_governance_plan: the executor of a plan/v1 or plan/v2 against   *)
(* the Scanning data plane.  It checks the plan, materialises every        *)
(* payload, captures the account anew, refuses a stale plan, and only then *)
(* sends the PUTs, in order, until one is not confirmed.  Nothing is read  *)
(* between two PUTs, nor after one.                                        *)
(*                                                                         *)
(* The account is shared: others edit it between any two requests, a PUT   *)
(* that timed out may still be processed later, and the process may be     *)
(* killed and the same plan executed again.                                *)
(***************************************************************************)
EXTENDS ScanningCapture, ScanningResult

CONSTANTS
  Target,      \* target contexts (endpoints)
  Scenarios,   \* initial situations: [plan, endpoint, catalog]
  MaxRuns      \* bound on the executions of the plan

Operation == [id : Id, action : Acting]

(* The loader checks the shape of a plan document.  An account holds no scan *)
(* without its data source.                                                  *)
ASSUME ScenarioAssumption ==
  /\ None \notin Target /\ None \notin RemoteState /\ MaxRuns \in Nat
  /\ \A s \in Scenarios :
       /\ s.endpoint \in Target /\ s.catalog \in RemoteState
       /\ s.plan.version \in {1, 2} /\ s.plan.target \in Target
       /\ s.plan.desired \in Configuration /\ s.plan.remote \in RemoteState
       /\ s.plan.ops \in Seq(Operation)
       /\ \A id \in Scan : s.catalog[id] # Missing => s.catalog[Parent[id]] # Missing

(* The identities of a plan are digests of its contents: with them intact, its *)
(* change set is the one the planner found.                                    *)
ASSUME PlannerAssumption ==
  \A s \in Scenarios :
    Sealed(s.plan) =>
      s.plan.items = ChangeSet(s.plan.version, s.plan.desired, s.plan.remote)

VARIABLES
  plan,       \* the plan document
  endpoint,   \* the endpoint of the client
  mode,       \* dry-run or apply
  delayed,    \* PUTs sent, not answered, and not yet processed
  runs,       \* executions started
  pc,         \* where the executor is
  performed,  \* writesPerformed
  outcome,    \* op_results: the status of every operation
  result,     \* the result document, None before there is one
  initiated,  \* history: operations whose PUT this run invoked
  landed,     \* history: operations this run's PUTs changed the account with
  earlier     \* history: operations that had changed it when this run started

jobVars == <<plan, version, endpoint, mode>>
serviceVars == <<catalog, edits, late, delayed>>
readVars == <<phase, requested, ahead, names, captured>>
applyVars == <<performed, outcome>>
historyVars == <<initiated, landed, earlier>>
vars == <<jobVars, serviceVars, readVars, runs, pc, applyVars, result, historyVars>>

-----------------------------------------------------------------------------
Ops == plan.ops
Last == Len(Ops)
Positions == DOMAIN Ops
Want(id) == plan.desired[id]
AllNotRun == [i \in Positions |-> "not-run"]

Final == {"rejected", "done", "escaped", "crashed"}
Stage == Final \union {"start", "capture", "write"}

(* _finalize_result_v1, _v2: build the document, validate it, return it or raise. *)
Result(status, code, target, observed, confirmed, attempted, unknown, ops) ==
  [status |-> status, code |-> code, mode |-> mode,
   plannedTarget |-> plan.target, executionTarget |-> target,
   plannedRemote |-> plan.remote, observed |-> observed,
   performed |-> confirmed, attempted |-> attempted, unknown |-> unknown, ops |-> ops]

Report(document) ==
  /\ result' = document
  /\ pc' = IF ValidScanningResult(document) THEN "done" ELSE "escaped"

(* A refusal before the first write. *)
Refuse(status, code, target, observed) ==
  /\ Report(Result(status, code, target, observed, 0, 0, 0, AllNotRun))
  /\ UNCHANGED <<jobVars, serviceVars, requested, ahead, names, captured, runs,
                 applyVars, historyVars>>

-----------------------------------------------------------------------------
(* Admission: decided from the plan and the client. *)

(* _revalidate_plan_v1, _v2 raise: no result. *)
RejectPlan ==
  /\ pc = "start" /\ ~ValidPlan(plan)
  /\ pc' = "rejected"
  /\ UNCHANGED <<jobVars, serviceVars, readVars, runs, applyVars, result, historyVars>>

Admissible == pc = "start" /\ ValidPlan(plan) /\ plan.eligibility = "ready"

RefuseBlocked ==
  /\ pc = "start" /\ ValidPlan(plan) /\ plan.eligibility = "blocked"
  /\ Refuse("blocked", "apply.plan_blocked", None, None) /\ UNCHANGED phase

RefuseWrongTarget ==
  /\ Admissible /\ endpoint # plan.target
  /\ Refuse("wrong-target", "apply.wrong_target", endpoint, None) /\ UNCHANGED phase

(* What an operation needs to find: what it uses, and the data source of a scan. *)
NeededBy(id) ==
  (Want(id).uses \intersect UsableBy(id)) \union (IF id \in Scan THEN {Parent[id]} ELSE {})

(* _validate_same_plan_prerequisites: those of the plan itself come first. *)
PrerequisitesPrecede ==
  \A i, j \in Positions : Ops[j].id \in NeededBy(Ops[i].id) => j < i

(* materialize_mutation_intents, _v2. *)
Materializes ==
  /\ \A i \in Positions : Ops[i].action \in Acting /\ Want(Ops[i].id) # Absent
  /\ plan.version = 2 => PrerequisitesPrecede

(* Every payload is built before anything is read. *)
Materialize ==
  /\ Admissible /\ endpoint = plan.target
  /\ IF Materializes
     THEN /\ pc' = "capture" /\ phase' = "capturing"
          /\ UNCHANGED <<jobVars, serviceVars, requested, ahead, names, captured, runs,
                         applyVars, result, historyVars>>
     ELSE /\ Refuse("failed-before-write", "apply.payload_preflight_failed", endpoint, None)
          /\ UNCHANGED phase

Admission == RejectPlan \/ RefuseBlocked \/ RefuseWrongTarget \/ Materialize

-----------------------------------------------------------------------------
(* The fresh capture, and what becomes of it. *)

CaptureGoesOn ==
  /\ pc = "capture" /\ CaptureStep
  /\ UNCHANGED <<jobVars, delayed, runs, pc, applyVars, result, historyVars>>

CaptureFailed ==
  /\ pc = "capture" /\ phase = "failed"
  /\ \E code \in {"apply.authentication_failed", "apply.remote_state_failed",
                  "apply.remote_read_failed"} :
       Refuse("failed-before-write", code, endpoint, None)
  /\ UNCHANGED phase

(* Mutant: a capture is stale when its data sources differ. *)
StaleDataSources == \E id \in DataSource : captured[id] # plan.remote[id]

(* Mutant: only what disappeared makes a plan stale. *)
StaleWhenGone == \E id \in Id : captured[id] = Missing /\ plan.remote[id] # Missing

Stale == captured # plan.remote

DetectStale ==
  /\ pc = "capture" /\ phase = "captured" /\ Stale
  /\ Refuse("stale", "apply.stale_plan", endpoint, captured) /\ UNCHANGED phase

DryRunReady ==
  /\ pc = "capture" /\ phase = "captured" /\ ~Stale /\ mode = "dry-run"
  /\ Refuse("dry-run-ready", None, endpoint, captured) /\ UNCHANGED phase

-----------------------------------------------------------------------------
(* _apply_intents_v1, _v2. *)

Conclude(status, code, confirmed, attempted, unknown, ops) ==
  Report(Result(status, code, endpoint, captured, confirmed, attempted, unknown, ops))

Current == performed + 1
Writing == Ops[Current].id

Start ==
  /\ pc = "capture" /\ phase = "captured" /\ ~Stale /\ mode = "apply"
  /\ IF Last = 0 THEN Conclude("applied", None, 0, 0, 0, outcome)
                 ELSE pc' = "write" /\ UNCHANGED result
  /\ UNCHANGED <<jobVars, serviceVars, readVars, runs, applyVars, historyVars>>

(* Mutant: the payload leaves out the rules of a rule set, the rule set of a scan. *)
UnlinkedPayload(id) ==
  [place |-> Want(id).place, body |-> Want(id).body, uses |-> {}, holds |-> {}]

(* A PUT stores the whole resource, over whatever is there.  The path of a scan *)
(* names its data source, which has to exist.                                   *)
Payload(id) ==
  [place |-> Want(id).place, body |-> Want(id).body, uses |-> Want(id).uses, holds |-> {}]
Storable(id) == id \in Scan => catalog[Parent[id]] # Missing
Store == catalog' = [catalog EXCEPT ![Writing] = Payload(Writing)]

Invoked == initiated' = initiated \union {Current}
Landed == landed' = landed \union {Current}

(* Mutant: whatever is not confirmed counts as rejected. *)
ClassifyRejected(answer) == IF answer = "no token" THEN "failed_auth" ELSE "failed_rejected"

(* _invoke_put_v1, _v2. *)
Classify(answer) ==
  CASE answer = "no token" -> "failed_auth"
    [] answer = "4xx"      -> "failed_rejected"
    [] OTHER               -> "unknown"

(* Mutant: after a PUT that failed, the next one is sent. *)
SkipOperation(class) ==
  /\ outcome' = [outcome EXCEPT ![Current] = IF class = "unknown" THEN "unknown" ELSE "failed"]
  /\ IF Current = Last
     THEN Conclude("write-failed", "apply.write_rejected", performed, Current, 0, outcome')
          /\ UNCHANGED performed
     ELSE performed' = Current /\ UNCHANGED <<pc, result>>

(* Mutant: a PUT without an answer is sent again. *)
RetryPut(class) == UNCHANGED <<pc, performed, outcome, result>>

(* Mutant: a PUT that was not confirmed is not counted as attempted. *)
AttemptUncounted(class) ==
  /\ outcome' = [outcome EXCEPT ![Current] = IF class = "unknown" THEN "unknown" ELSE "failed"]
  /\ Conclude("write-failed", "apply.write_rejected", performed, performed, 0, outcome')
  /\ UNCHANGED performed

(* The run ends at a PUT that is not confirmed. *)
EndAtPut(class) ==
  /\ outcome' = [outcome EXCEPT ![Current] = IF class = "unknown" THEN "unknown" ELSE "failed"]
  /\ IF class = "unknown"
     THEN Conclude("indeterminate", "apply.write_outcome_unknown", performed, Current, 1, outcome')
     ELSE Conclude("write-failed",
                   IF class = "failed_auth" THEN "apply.write_auth_failed"
                                            ELSE "apply.write_rejected",
                   performed, Current, 0, outcome')
  /\ UNCHANGED performed

(* 200 or 201. *)
PutConfirmed ==
  /\ pc = "write" /\ Storable(Writing)
  /\ Store /\ Invoked /\ Landed
  /\ performed' = Current
  /\ outcome' = [outcome EXCEPT ![Current] = "succeeded"]
  /\ IF Current = Last
     THEN Conclude("applied", None, Current, Current, 0, outcome')
     ELSE UNCHANGED <<pc, result>>
  /\ UNCHANGED <<jobVars, edits, late, delayed, readVars, runs, earlier>>

(* No token, or a 4xx: nothing was stored. *)
PutRefused ==
  /\ pc = "write"
  /\ \E answer \in {"no token", "4xx"} : EndAtPut(Classify(answer))
  /\ Invoked
  /\ UNCHANGED <<jobVars, serviceVars, readVars, runs, landed, earlier>>

(* A timeout, a transport error, a 5xx, a redirect: the PUT was processed, was *)
(* lost, or is still on its way.                                               *)
PutUnanswered ==
  /\ pc = "write"
  /\ \/ Storable(Writing) /\ Store /\ Landed /\ UNCHANGED delayed
     \/ UNCHANGED <<catalog, landed, delayed>>
     \/ /\ delayed' = delayed \union
                        {[run |-> runs, index |-> Current, payload |-> Payload(Writing)]}
        /\ UNCHANGED <<catalog, landed>>
  /\ EndAtPut(Classify("none"))
  /\ Invoked
  /\ UNCHANGED <<jobVars, edits, late, readVars, runs, earlier>>

-----------------------------------------------------------------------------
(* The environment. *)

DelayedArrives(w) ==
  /\ w \in delayed
  /\ delayed' = delayed \ {w}
  /\ LET id == Ops[w.index].id IN
     IF Storable(id)
     THEN /\ Changes(id, w.payload)
          /\ landed' = IF w.run = runs THEN landed \union {w.index} ELSE landed
     ELSE UNCHANGED <<catalog, late, landed>>
  /\ UNCHANGED <<jobVars, edits, readVars, runs, pc, applyVars, result, initiated, earlier>>

DelayedLost(w) ==
  /\ w \in delayed
  /\ delayed' = delayed \ {w}
  /\ UNCHANGED <<jobVars, catalog, edits, late, readVars, runs, pc, applyVars, result,
                 historyVars>>

EditByOthers(id) ==
  /\ Edit(id)
  /\ pc \notin Final \/ runs < MaxRuns
  /\ UNCHANGED <<jobVars, delayed, runs, pc, applyVars, result, historyVars>>

Crash ==
  /\ pc \notin Final
  /\ pc' = "crashed"
  /\ UNCHANGED <<jobVars, serviceVars, readVars, runs, applyVars, result, historyVars>>

(* The same plan is executed again, in either mode: nothing is kept. *)
Rerun ==
  /\ pc \in Final /\ runs < MaxRuns
  /\ runs' = runs + 1 /\ mode' \in Mode /\ pc' = "start"
  /\ phase' = "idle" /\ requested' = {} /\ ahead' = {} /\ names' = {}
  /\ captured' = [id \in Id |-> Missing] /\ late' = {}
  /\ performed' = 0 /\ outcome' = AllNotRun /\ result' = None
  /\ initiated' = {} /\ landed' = {} /\ earlier' = earlier \union landed
  /\ UNCHANGED <<plan, version, endpoint, catalog, edits, delayed>>

Init ==
  /\ \E s \in Scenarios :
       plan = s.plan /\ version = s.plan.version /\ endpoint = s.endpoint /\ catalog = s.catalog
  /\ mode \in Mode
  /\ edits = 0 /\ late = {} /\ delayed = {} /\ runs = 1 /\ pc = "start"
  /\ phase = "idle" /\ requested = {} /\ ahead = {} /\ names = {}
  /\ captured = [id \in Id |-> Missing]
  /\ performed = 0 /\ outcome = AllNotRun /\ result = None
  /\ initiated = {} /\ landed = {} /\ earlier = {}

ApplyIntents == Start \/ PutConfirmed \/ PutRefused \/ PutUnanswered

(* _execute_governance_plan_v1, _v2. *)
Executor ==
  Admission \/ CaptureGoesOn \/ CaptureFailed \/ DetectStale \/ DryRunReady \/ ApplyIntents

Environment ==
  \/ \E w \in delayed : DelayedArrives(w) \/ DelayedLost(w)
  \/ \E id \in Id : EditByOthers(id)
  \/ Crash
  \/ Rerun

Next == Executor \/ Environment

Spec == Init /\ [][Next]_vars

(* Every request ends, by an answer or by the client's timeout. *)
FairSpec == Spec /\ WF_vars(Executor)

-----------------------------------------------------------------------------
(* Properties. *)

(* A capture tells what the account held when each resource was looked at: only *)
(* what changed after that, what a page passed over because others removed      *)
(* something listed before it, or a scan of such a data source may differ.      *)
CaptureIsView ==
  pc = "capture" /\ phase = "captured" =>
    \A id \in Id :
      \/ id \in late \/ (id \in Scan /\ Parent[id] \in late)
      \/ captured[id] = View(version, catalog)[id]

(* Every result passes its own validation: no run loses the account of its *)
(* writes to an exception raised while finalising it.                      *)
FinalizeNeverRaises == pc # "escaped"

(* Fail closed: a PUT is sent only in apply mode, for a valid and ready plan, on *)
(* the planned endpoint, after a complete capture that equals the planned state. *)
WritesOnlyWhatWasPlanned ==
  initiated # {} =>
    /\ mode = "apply" /\ ValidPlan(plan) /\ plan.eligibility = "ready"
    /\ endpoint = plan.target
    /\ phase = "captured" /\ captured = plan.remote

(* The result tells the truth about the account: what succeeded changed it, what *)
(* failed or was not run did not and never will; every PUT is counted; only an   *)
(* unknown one may still be processed.                                           *)
HonestResult ==
  result # None =>
    /\ result.attempted = Cardinality(initiated)
    /\ \A i \in Positions :
         /\ result.ops[i] = "succeeded" => i \in landed
         /\ result.ops[i] \in {"failed", "not-run"} =>
              /\ i \notin landed
              /\ \A w \in delayed : w.run = runs => w.index # i

(* Without edits of others, executing a plan again after any of its operations *)
(* took effect, by a crash, a timeout or a lost answer, writes nothing.        *)
RetryNeverRewrites == initiated # {} /\ edits = 0 => earlier = {}

(* Without edits of others, the account after an applied result is what was asked *)
(* for: comparing it again with the configuration finds nothing to do.            *)
AppliedMeansDesired ==
  result # None /\ result.status = "applied" /\ edits = 0 =>
    \A id \in Id :
      ChangeSet(version, plan.desired, View(version, catalog))[id].outcome
        \in {"no-op", "remote-only", "none"}

(* A PUT of this run that the service stores while the client waits. *)
StoresNow == pc = "write" /\ landed' # landed

(* A full replacement loses the edits of others only when they were made after   *)
(* the capture looked at that resource, or when a page passed over it or over    *)
(* its data source: what it overwrites is otherwise what the plan was made from. *)
(* This holds too for a scan whose data source was absent or of another kind at  *)
(* the capture, so that the scan was never looked at.                            *)
OverwritesOnlyLateEdits ==
  [][StoresNow => Writing \in late \/ catalog[Writing] = plan.remote[Writing]]_vars

(* Every execution that is not killed ends, with a verdict or an error: the *)
(* capture of an account that others edit does not go on for ever.          *)
EveryRunEnds == pc = "start" ~> pc \in Final

Ledger == INSTANCE ApplyLedger WITH
  ledger <- outcome,
  verdict <- IF pc = "done" THEN result.status
             ELSE IF pc \in Final THEN "none" ELSE "running"

(* Seen from its outcomes and its verdict alone, every step of the executor is a *)
(* step of the ledger the Unified Catalog executor keeps too.                    *)
KeepsLedger == Ledger!Spec
=============================================================================
