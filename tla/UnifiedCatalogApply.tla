------------------------- MODULE UnifiedCatalogApply -------------------------
(***************************************************************************)
(* execute_governance_plan_v3: the executor of a plan/v3 against the       *)
(* Unified Catalog.  It checks the plan and its paired remote-state        *)
(* artifact, captures the catalog anew and refuses a stale plan, reads and *)
(* checks every planned resource, and only then writes, one operation at a *)
(* time, with a read before and a read after every write.                  *)
(*                                                                         *)
(* The catalog is shared: others edit it between any two requests, a       *)
(* request that timed out may still be processed later, and the process    *)
(* may be killed and the same plan executed again.                         *)
(***************************************************************************)
EXTENDS ExecutionResult

CONSTANTS
  Domain, Product, Term,   \* resource ids, by type
  Target,        \* target contexts: surface, tenant and endpoint
  Key,           \* values of the fields the final check compares
  Soft,          \* values of the managed fields it does not compare (audience, owners, ...)
  Deferred,      \* values of the preserved, fingerprinted fields
  Missing,       \* no such resource
  Unread,        \* not captured
  NoLink,        \* no parentId
  Unmanaged,     \* a soft field the desired configuration does not own
  NewSoft,       \* the soft value the service gives when a create names none
  NoDeferred,    \* no preserved field is set, as in a new resource
  Scenarios,     \* initial situations: [job, catalog]
  MaxEdits,      \* bound on the edits of others
  MaxRuns        \* bound on the executions of the plan

Id == Domain \union Product \union Term
Type == {"businessDomain", "dataProduct", "glossaryTerm"}
TypeOf(id) ==
  IF id \in Domain THEN "businessDomain"
  ELSE IF id \in Product THEN "dataProduct" ELSE "glossaryTerm"

(* "link" is parentId for a domain or a term, domain for a data product. *)
Link == Id \union {NoLink}
Resource == [key : Key, soft : Soft, deferred : Deferred, link : Link]
Desired == [key : Key, soft : Soft \union {Unmanaged}, link : Link]
Operation == [id : Id, action : {"create", "replace"}]

Catalog == [Id -> Resource \union {Missing}]
Capture == [Id -> Resource \union {Missing, Unread}]

(* What materialStateIdentity identifies: a captured catalog of a target. *)
Material == [target : Target, catalog : Capture]

(* A plan document, the remote-state artifact given with it, and the client. *)
Plan == [valid : BOOLEAN, eligible : BOOLEAN, target : Target, remote : Material,
         ops : Seq(Operation), desired : [Id -> Desired]]
Artifact == [valid : BOOLEAN, material : Material, scope : SUBSET Type]
Client == [bound : BOOLEAN, target : Target, endpoint : Target]
Job == [plan : Plan, artifact : Artifact, client : Client]

ASSUME ValueAssumption ==
  /\ Missing \notin Resource /\ Unread \notin Resource /\ Unread # Missing
  /\ Unmanaged \notin Soft /\ NoLink \notin Id
  /\ NewSoft \in Soft /\ NoDeferred \in Deferred
  /\ None \notin Target /\ None \notin Material

(* No reference of the catalog an execution meets is dangling. *)
ASSUME ScenarioAssumption ==
  \A s \in Scenarios :
    /\ s.job \in Job /\ s.catalog \in Catalog
    /\ \A id \in Id :
         s.catalog[id] # Missing /\ s.catalog[id].link # NoLink =>
           s.catalog[s.catalog[id].link] # Missing

(* A resource is what the configuration asks for. *)
Meets(resource, want) ==
  /\ resource.key = want.key /\ resource.link = want.link
  /\ resource.soft = want.soft \/ want.soft = Unmanaged

HasIn(p, id) == p.remote.catalog[id] \notin {Missing, Unread}
CreatedIn(p, n) == {p.ops[j].id : j \in {k \in 1..n : p.ops[k].action = "create"}}

(* Ids are those of one type.  The builder (GovernancePlanner) plans creates of what  *)
(* the remote state does not have and replaces of what it has and differs.  Only the  *)
(* diff of products finds a difference in optional fields the configuration does not  *)
(* own, which the payload keeps: such a replace changes nothing.  A link to what the  *)
(* plan creates comes after the create, and a replace links to nothing that is        *)
(* neither there nor created.  A create may: the executor checks it.                  *)
ASSUME PlanAssumption ==
  /\ Domain \intersect Product = {}
  /\ \A s \in Scenarios : LET p == s.job.plan IN
       \A i \in DOMAIN p.ops :
         LET id == p.ops[i].id
             link == p.desired[id].link
         IN  /\ p.ops[i].action = "create" => ~HasIn(p, id)
             /\ p.ops[i].action = "replace" =>
                  /\ HasIn(p, id)
                  /\ Meets(p.remote.catalog[id], p.desired[id]) =>
                       id \in Product /\ p.desired[id].soft = Unmanaged
                  /\ link = NoLink \/ HasIn(p, link) \/ link \in CreatedIn(p, i - 1)
             /\ link \in CreatedIn(p, Len(p.ops)) => link \in CreatedIn(p, i - 1)

ASSUME BoundAssumption == MaxEdits \in Nat /\ MaxRuns \in Nat

VARIABLES
  job,        \* the plan, the artifact and the client of this execution
  mode,       \* dry-run or apply
  catalog,    \* the resources the service holds
  delayed,    \* writes sent, not answered, and not yet processed
  edits,      \* edits others have made
  runs,       \* executions started
  pc,         \* where the executor is
  captured,   \* resource types the fresh capture has listed to the end
  fresh,      \* what it read of them
  checked,    \* operations that passed the preflight
  records,    \* the preflight GET of every replace operation
  seen,       \* the final GET before the current write
  performed,  \* writesPerformed
  outcome,    \* op_results: the status of every operation
  result,     \* the result document, None before there is one
  initiated,  \* history: operations whose write this run invoked
  response,   \* history: how the service answered the last write
  landed,     \* history: operations this run's writes changed the catalog with
  earlier     \* history: operations that had changed it when this run started

inputVars == <<job, mode>>
serviceVars == <<catalog, delayed>>
environmentVars == <<edits, runs>>
captureVars == <<captured, fresh>>
preflightVars == <<checked, records>>
applyVars == <<seen, performed, outcome>>
historyVars == <<initiated, response, landed, earlier>>
vars == <<inputVars, serviceVars, environmentVars, pc, captureVars, preflightVars,
          applyVars, result, historyVars>>

-----------------------------------------------------------------------------
(* The plan, as the executor reads it. *)

plan == job.plan
artifact == job.artifact
client == job.client
Ops == plan.ops
Last == Len(Ops)
Positions == DOMAIN Ops
Want(id) == plan.desired[id]
Creates == {Ops[i].id : i \in {j \in Positions : Ops[j].action = "create"}}

AllNotRun == [i \in Positions |-> "not-run"]
NoRecords == [i \in Positions |-> Missing]

Final == {"rejected", "done", "escaped", "crashed"}
Place == Final \union {"start", "capture", "preflight", "check", "write", "verify"}

(* _finalize_result_v3: build the document, validate it, return it or raise. *)
Document(status, code, target, observed, confirmed, attempted, unknown, ops) ==
  [status |-> status, code |-> code, mode |-> mode,
   plannedTarget |-> plan.target, executionTarget |-> target,
   plannedRemote |-> plan.remote, observed |-> observed,
   performed |-> confirmed, attempted |-> attempted, unknown |-> unknown, ops |-> ops]

Report(document) ==
  /\ result' = document
  /\ pc' = IF ValidResult(document) THEN "done" ELSE "escaped"

(* A refusal before the first write. *)
Refuse(status, code, target, observed) ==
  /\ Report(Document(status, code, target, observed, 0, 0, 0, AllNotRun))
  /\ UNCHANGED <<inputVars, serviceVars, environmentVars, captureVars, preflightVars,
                 applyVars, historyVars>>

FailBeforeWrite(code) == Refuse("failed-before-write", code, client.target, None)

-----------------------------------------------------------------------------
(* Admission: decided from the inputs alone. *)

PlanReady == plan.valid /\ plan.eligible

(* The artifact is the one the plan was made from. *)
Paired ==
  /\ artifact.valid
  /\ artifact.material = plan.remote
  /\ artifact.material.target = plan.target

(* _revalidate_plan_v3 raises: no result. *)
RejectPlan ==
  /\ pc = "start" /\ ~plan.valid
  /\ pc' = "rejected"
  /\ UNCHANGED <<inputVars, serviceVars, environmentVars, captureVars, preflightVars,
                 applyVars, result, historyVars>>

RefuseBlocked ==
  /\ pc = "start" /\ plan.valid /\ ~plan.eligible
  /\ Refuse("blocked", "apply.plan_blocked", None, None)

RefuseArtifact ==
  /\ pc = "start" /\ PlanReady /\ ~Paired
  /\ Refuse("failed-before-write",
            IF artifact.valid THEN "apply.remote_state_identity_mismatch"
                              ELSE "apply.invalid_remote_state",
            plan.target, None)

RefuseUnbound ==
  /\ pc = "start" /\ PlanReady /\ Paired /\ ~client.bound
  /\ Refuse("failed-before-write", "apply.tenant_binding_unsupported", None, None)

RefuseWrongTarget ==
  /\ pc = "start" /\ PlanReady /\ Paired /\ client.bound /\ client.target # plan.target
  /\ Refuse("wrong-target", "apply.wrong_target", client.target, None)

Admit ==
  /\ pc = "start" /\ PlanReady /\ Paired /\ client.bound /\ client.target = plan.target
  /\ pc' = "capture"
  /\ UNCHANGED <<inputVars, serviceVars, environmentVars, captureVars, preflightVars,
                 applyVars, result, historyVars>>

-----------------------------------------------------------------------------
(* The fresh capture: the types the artifact covers, each listed page by page, *)
(* so that neither the whole nor one listing is a snapshot of the catalog.     *)

Wanted == {"businessDomain"} \union artifact.scope

Rank(t) == CASE t = "businessDomain" -> 1 [] t = "dataProduct" -> 2 [] OTHER -> 3

Listing(t) ==
  /\ pc = "capture"
  /\ t \in Wanted \ captured
  /\ \A u \in Wanted \ captured : Rank(t) <= Rank(u)

(* A page of the listing shows the resource, or passes the place it would have. *)
(* The resources of one page are steps with nobody's between them.              *)
ReadListed(id) ==
  /\ Listing(TypeOf(id)) /\ fresh[id] = Unread
  /\ fresh' = [fresh EXCEPT ![id] = catalog[id]]
  /\ UNCHANGED <<inputVars, serviceVars, environmentVars, pc, captured, preflightVars,
                 applyVars, result, historyVars>>

(* The page without a nextLink has been read. *)
EndListing(t) ==
  /\ Listing(t)
  /\ \A id \in Id : TypeOf(id) = t => fresh[id] # Unread
  /\ captured' = captured \union {t}
  /\ UNCHANGED <<inputVars, serviceVars, environmentVars, pc, fresh, preflightVars,
                 applyVars, result, historyVars>>

Enumerate == (\E id \in Id : ReadListed(id)) \/ (\E t \in Type : EndListing(t))

CaptureFails ==
  /\ pc = "capture" /\ captured # Wanted
  /\ \E code \in {"apply.authentication_failed", "apply.remote_state_failed",
                  "apply.remote_read_failed"} : FailBeforeWrite(code)

(* Mutant: the capture claims the target of the credentials. *)
ObservedByCredential == [target |-> client.target, catalog |-> fresh]

(* The capture's target is the client's endpoint, not the provider's. *)
Observed == [target |-> client.endpoint, catalog |-> fresh]

(* Mutant: only the resources every capture has are compared. *)
StaleDomains == \E id \in Domain : fresh[id] # plan.remote.catalog[id]

Stale == Observed # plan.remote

DetectStale ==
  /\ pc = "capture" /\ captured = Wanted /\ Stale
  /\ Refuse("stale", "apply.stale_plan", client.target, Observed)

AcceptCapture ==
  /\ pc = "capture" /\ captured = Wanted /\ ~Stale
  /\ pc' = "preflight"
  /\ UNCHANGED <<inputVars, serviceVars, environmentVars, captureVars, preflightVars,
                 applyVars, result, historyVars>>

-----------------------------------------------------------------------------
(* Preflight: every operation in sequence, before any write. *)

Found(id) == fresh[id] \notin {Missing, Unread}
FreshDeferred(id) == IF Found(id) THEN fresh[id].deferred ELSE NoDeferred

(* Mutant: a domain may be moved to the root. *)
UnsupportedWithoutRoot(op) ==
  \/ TypeOf(op.id) = "businessDomain" /\ op.action = "create"
  \/ /\ TypeOf(op.id) = "dataProduct" /\ op.action = "replace"
     /\ Found(op.id) /\ fresh[op.id].link # Want(op.id).link

(* validate_operation_capability.  A root domain has no parentId among its *)
(* normalised properties, so no replace of a domain to the root is capable. *)
Unsupported(op) ==
  LET link == Want(op.id).link IN
  \/ TypeOf(op.id) = "businessDomain" /\ (op.action = "create" \/ link = NoLink)
  \/ /\ TypeOf(op.id) = "glossaryTerm" /\ op.action = "replace"
     /\ link = NoLink /\ Found(op.id) /\ fresh[op.id].link # NoLink
  \/ /\ TypeOf(op.id) = "dataProduct" /\ op.action = "create"
     /\ link \in Domain \intersect Creates
  \/ /\ TypeOf(op.id) = "dataProduct" /\ op.action = "replace"
     /\ Found(op.id) /\ fresh[op.id].link # link

(* A targeted GET agrees with the action: 404 for a create, 200 for a replace. *)
Exists(id) == catalog[id] # Missing
AsExpected(op) == (op.action = "replace") <=> Exists(op.id)

(* bind_deferred_value_identities of what a GET returns now. *)
Bound(op) == op.action = "replace" => catalog[op.id].deferred = FreshDeferred(op.id)

Checking == Ops[checked + 1]
Preflighting == pc = "preflight" /\ checked < Last

PreflightUnsupported ==
  /\ Preflighting
  /\ Unsupported(Checking)
  /\ FailBeforeWrite("apply.payload_semantics_unverified")

PreflightReadFails ==
  /\ Preflighting /\ ~Unsupported(Checking)
  /\ \E code \in {"apply.authentication_failed", "apply.remote_read_failed"} :
       FailBeforeWrite(code)

PreflightDisagrees ==
  /\ Preflighting /\ ~Unsupported(Checking)
  /\ ~(AsExpected(Checking) /\ Bound(Checking))
  /\ FailBeforeWrite("apply.payload_preflight_failed")

PreflightPasses ==
  /\ Preflighting /\ ~Unsupported(Checking)
  /\ AsExpected(Checking) /\ Bound(Checking)
  /\ checked' = checked + 1
  /\ records' = [records EXCEPT ![checked + 1] = catalog[Checking.id]]
  /\ UNCHANGED <<inputVars, serviceVars, environmentVars, pc, captureVars, applyVars,
                 result, historyVars>>

(* check_plan_dependencies, against a state that already holds every create. *)
DependencyMissing(op) ==
  /\ op.action = "create"
  /\ \/ TypeOf(op.id) = "dataProduct"
     \/ TypeOf(op.id) = "glossaryTerm" /\ Want(op.id).link # NoLink
  /\ ~(Found(Want(op.id).link) \/ Want(op.id).link \in Creates)

(* materialize_mutation_intents_v3 refuses to clear the parent a term has now. *)
ParentCleared(i) ==
  /\ Ops[i].action = "replace" /\ TypeOf(Ops[i].id) = "glossaryTerm"
  /\ Want(Ops[i].id).link = NoLink /\ records[i].link # NoLink

Preflighted == pc = "preflight" /\ checked = Last
Sound == \A i \in Positions : ~DependencyMissing(Ops[i]) /\ ~ParentCleared(i)

MaterializeFails ==
  /\ Preflighted /\ ~Sound
  /\ FailBeforeWrite(IF \E i \in Positions : DependencyMissing(Ops[i])
                     THEN "apply.payload_preflight_failed"
                     ELSE "apply.payload_semantics_unverified")

DryRunReady ==
  /\ Preflighted /\ Sound /\ mode = "dry-run"
  /\ Refuse("dry-run-ready", None, client.target, Observed)

-----------------------------------------------------------------------------
(* _apply_intents_v3: final GET, write and verifying GET, per operation. *)

Conclude(status, code, confirmed, attempted, unknown, ops) ==
  Report(Document(status, code, client.target, Observed, confirmed, attempted, unknown, ops))

Current == performed + 1
Writing == Ops[Current]

Start ==
  /\ Preflighted /\ Sound /\ mode = "apply"
  /\ IF Last = 0 THEN Conclude("applied", None, 0, 0, 0, outcome)
                 ELSE pc' = "check" /\ UNCHANGED result
  /\ UNCHANGED <<inputVars, serviceVars, environmentVars, captureVars, preflightVars,
                 applyVars, historyVars>>

(* Mutant: the final check compares the link only. *)
UndriftedLink(op) == op.action = "replace" => catalog[op.id].link = records[Current].link

(* _second_pre_write_check: the fields compared with the preflight GET are the *)
(* key fields and the link; the deferred ones by fingerprint; soft ones not.   *)
Undrifted(op) ==
  op.action = "replace" =>
    /\ Bound(op)
    /\ catalog[op.id].deferred = records[Current].deferred
    /\ catalog[op.id].key = records[Current].key
    /\ catalog[op.id].link = records[Current].link

CheckPasses ==
  /\ pc = "check"
  /\ AsExpected(Writing) /\ Undrifted(Writing)
  /\ seen' = catalog[Writing.id]
  /\ pc' = "write"
  /\ UNCHANGED <<inputVars, serviceVars, environmentVars, captureVars, preflightVars,
                 performed, outcome, result, historyVars>>

(* Mutant: a run that stops at a check is always partial. *)
StopAlwaysPartial(before, after) ==
  /\ Conclude("partial", after, performed, performed, 0, outcome)
  /\ UNCHANGED <<inputVars, serviceVars, environmentVars, captureVars, preflightVars,
                 applyVars, historyVars>>

(* A read that fails or disagrees ends the run: partial after a write, *)
(* otherwise failed-before-write under the code of the first-write case. *)
StopAtCheck(before, after) ==
  /\ IF performed > 0
     THEN Conclude("partial", after, performed, performed, 0, outcome)
     ELSE Report(Document("failed-before-write", before, client.target, None, 0, 0, 0, outcome))
  /\ UNCHANGED <<inputVars, serviceVars, environmentVars, captureVars, preflightVars,
                 applyVars, historyVars>>

CheckDisagrees ==
  /\ pc = "check"
  /\ ~(AsExpected(Writing) /\ Undrifted(Writing))
  /\ StopAtCheck("apply.payload_preflight_failed", "apply.pre_write_stale_after_writes")

CheckUnauthorized ==
  /\ pc = "check"
  /\ StopAtCheck("apply.authentication_failed", "apply.pre_write_auth_failed_after_writes")

CheckReadFails ==
  /\ pc = "check"
  /\ StopAtCheck("apply.remote_read_failed", "apply.pre_write_read_failed_after_writes")

(* The GET of a resource to replace returns a body the normalisers refuse.  Neither *)
(* bind_deferred_value_identities nor the final check catches the RemoteStateError: *)
(* it leaves the executor, which builds no result, not even a partial one.          *)
NormaliserRaises ==
  /\ \/ /\ Preflighting /\ ~Unsupported(Checking)
        /\ Checking.action = "replace" /\ Exists(Checking.id)
     \/ /\ pc = "check"
        /\ Writing.action = "replace" /\ Exists(Writing.id)
  /\ pc' = "escaped"
  /\ UNCHANGED <<inputVars, serviceVars, environmentVars, captureVars, preflightVars,
                 applyVars, result, historyVars>>

(* Mutant: a managed field is forgotten. *)
SoftForgotten(id, base) == base

(* The resource a write stores: desired fields over a new resource, or over *)
(* the preflight GET of the one replaced.                                   *)
SoftOver(id, base) == IF Want(id).soft = Unmanaged THEN base ELSE Want(id).soft

CreatePayload(id) ==
  [key |-> Want(id).key, soft |-> SoftOver(id, NewSoft),
   deferred |-> NoDeferred, link |-> Want(id).link]

ReplacePayload(i, id) ==
  [key |-> Want(id).key, soft |-> SoftOver(id, records[i].soft),
   deferred |-> records[i].deferred,
   link |-> IF Want(id).link # NoLink THEN Want(id).link ELSE
            IF TypeOf(id) = "glossaryTerm" THEN records[i].link ELSE NoLink]

Payload(i) ==
  IF Ops[i].action = "create" THEN CreatePayload(Ops[i].id)
                              ELSE ReplacePayload(i, Ops[i].id)

(* The service: POST needs a free id, PUT an existing resource. *)
Stored(i, payload) == [catalog EXCEPT ![Ops[i].id] = payload]

(* 200 for a PUT, 201 for a POST. *)
WriteConfirmed ==
  /\ pc = "write" /\ AsExpected(Writing)
  /\ catalog' = Stored(Current, Payload(Current))
  /\ landed' = landed \union {Current}
  /\ initiated' = initiated \union {Current}
  /\ response' = "confirmed"
  /\ pc' = "verify"
  /\ UNCHANGED <<inputVars, delayed, environmentVars, captureVars, preflightVars,
                 applyVars, result, earlier>>

(* Mutant: whatever is not confirmed counts as rejected. *)
ClassifyRejected(answer) ==
  IF answer \in {"no token", "401/403"} THEN "failed_auth" ELSE "failed_rejected"

(* The classes _invoke_write_v3 makes of an answer. *)
Classify(answer) ==
  CASE answer \in {"no token", "401/403"} -> "failed_auth"
    [] answer = "other 4xx"               -> "failed_rejected"
    [] OTHER                              -> "unknown"

(* Mutant: after an operation that is not confirmed, the next one is tried. *)
SkipOperation(class) ==
  /\ outcome' = [outcome EXCEPT ![Current] = IF class = "unknown" THEN "unknown" ELSE "failed"]
  /\ IF Current = Last
     THEN Conclude("indeterminate", "apply.write_outcome_unknown", performed, Current, 1, outcome')
          /\ UNCHANGED performed
     ELSE pc' = "check" /\ performed' = Current /\ UNCHANGED result

(* Mutant: a write without an answer is retried. *)
RetryWrite(class) ==
  /\ pc' = "check"
  /\ UNCHANGED <<performed, outcome, result>>

(* The run ends at an operation that is not confirmed. *)
EndAtWrite(class) ==
  /\ outcome' = [outcome EXCEPT ![Current] = IF class = "unknown" THEN "unknown" ELSE "failed"]
  /\ IF class = "unknown"
     THEN Conclude("indeterminate", "apply.write_outcome_unknown", performed, Current, 1, outcome')
     ELSE Conclude("write-failed",
                   IF class = "failed_auth" THEN "apply.write_auth_failed"
                                            ELSE "apply.write_rejected",
                   performed, Current, 0, outcome')
  /\ UNCHANGED performed

(* No token, 401 or 403; another 4xx: nothing was stored. *)
WriteRefused ==
  /\ pc = "write"
  /\ \E answer \in {"no token", "401/403", "other 4xx"} :
       response' = answer /\ EndAtWrite(Classify(answer))
  /\ initiated' = initiated \union {Current}
  /\ UNCHANGED <<inputVars, serviceVars, environmentVars, captureVars, preflightVars,
                 seen, landed, earlier>>

(* A timeout, a transport error, a 5xx, an unexpected 2xx or 3xx: the write *)
(* was processed, was lost, or is still on its way.                         *)
WriteUnanswered ==
  /\ pc = "write"
  /\ \/ /\ AsExpected(Writing)
        /\ catalog' = Stored(Current, Payload(Current))
        /\ landed' = landed \union {Current}
        /\ UNCHANGED delayed
     \/ UNCHANGED <<catalog, landed, delayed>>
     \/ /\ delayed' = delayed \union
                        {[run |-> runs, index |-> Current, payload |-> Payload(Current)]}
        /\ UNCHANGED <<catalog, landed>>
  /\ response' = "unknown"
  /\ EndAtWrite(Classify("unknown"))
  /\ initiated' = initiated \union {Current}
  /\ UNCHANGED <<inputVars, environmentVars, captureVars, preflightVars, seen, earlier>>

(* _post_write_verify_v3: a GET must return the resource. *)
VerifySucceeds ==
  /\ pc = "verify" /\ Exists(Writing.id)
  /\ performed' = Current
  /\ outcome' = [outcome EXCEPT ![Current] = "succeeded"]
  /\ IF Current = Last
     THEN Conclude("applied", None, Current, Current, 0, outcome')
     ELSE pc' = "check" /\ UNCHANGED result
  /\ UNCHANGED <<inputVars, serviceVars, environmentVars, captureVars, preflightVars, seen,
                 historyVars>>

VerifyFails ==
  /\ pc = "verify"
  /\ EndAtWrite("unknown")
  /\ UNCHANGED <<inputVars, serviceVars, environmentVars, captureVars, preflightVars,
                 seen, historyVars>>

-----------------------------------------------------------------------------
(* The environment. *)

(* A delayed write reaches the service, which stores or rejects it. *)
DelayedArrives(w) ==
  /\ w \in delayed
  /\ delayed' = delayed \ {w}
  /\ IF AsExpected(Ops[w.index])
     THEN /\ catalog' = Stored(w.index, w.payload)
          /\ landed' = IF w.run = runs THEN landed \union {w.index} ELSE landed
     ELSE UNCHANGED <<catalog, landed>>
  /\ UNCHANGED <<inputVars, environmentVars, pc, captureVars, preflightVars, applyVars,
                 result, initiated, response, earlier>>

DelayedLost(w) ==
  /\ w \in delayed
  /\ delayed' = delayed \ {w}
  /\ UNCHANGED <<inputVars, catalog, environmentVars, pc, captureVars, preflightVars,
                 applyVars, result, historyVars>>

(* What one edit in the portal can make of a resource: one field changed, the *)
(* resource deleted, or created.                                              *)
Links(id) ==
  CASE id \in Domain  -> (Domain \ {id}) \union {NoLink}
    [] id \in Product -> Domain
    [] OTHER          -> (Term \ {id}) \union {NoLink}

Edited(id) ==
  IF Exists(id)
  THEN {Missing} \union {[catalog[id] EXCEPT !.key = k] : k \in Key}
         \union {[catalog[id] EXCEPT !.soft = s] : s \in Soft}
         \union {[catalog[id] EXCEPT !.deferred = d] : d \in Deferred}
         \union {[catalog[id] EXCEPT !.link = l] : l \in Links(id)}
  ELSE {[key |-> k, soft |-> NewSoft, deferred |-> NoDeferred, link |-> l] :
          k \in Key, l \in Links(id)}

Edit(id) ==
  /\ edits < MaxEdits
  /\ pc \notin Final \/ runs < MaxRuns
  /\ \E r \in Edited(id) \ {catalog[id]} : catalog' = [catalog EXCEPT ![id] = r]
  /\ edits' = edits + 1
  /\ UNCHANGED <<inputVars, delayed, runs, pc, captureVars, preflightVars, applyVars,
                 result, historyVars>>

Crash ==
  /\ pc \notin Final
  /\ pc' = "crashed"
  /\ UNCHANGED <<inputVars, serviceVars, environmentVars, captureVars, preflightVars,
                 applyVars, result, historyVars>>

(* The same plan is executed again, in either mode: nothing is kept. *)
Rerun ==
  /\ pc \in Final /\ runs < MaxRuns
  /\ runs' = runs + 1
  /\ mode' \in Mode
  /\ pc' = "start"
  /\ captured' = {} /\ fresh' = [id \in Id |-> Unread]
  /\ checked' = 0 /\ records' = NoRecords
  /\ seen' = Missing /\ performed' = 0 /\ outcome' = AllNotRun
  /\ result' = None
  /\ initiated' = {} /\ response' = None
  /\ landed' = {} /\ earlier' = earlier \union landed
  /\ UNCHANGED <<job, serviceVars, edits>>

-----------------------------------------------------------------------------
Init ==
  /\ \E s \in Scenarios : job = s.job /\ catalog = s.catalog
  /\ mode \in Mode
  /\ delayed = {} /\ edits = 0 /\ runs = 1
  /\ pc = "start"
  /\ captured = {} /\ fresh = [id \in Id |-> Unread]
  /\ checked = 0 /\ records = NoRecords
  /\ seen = Missing /\ performed = 0 /\ outcome = AllNotRun
  /\ result = None
  /\ initiated = {} /\ response = None /\ landed = {} /\ earlier = {}

Admission ==
  RejectPlan \/ RefuseBlocked \/ RefuseArtifact \/ RefuseUnbound \/ RefuseWrongTarget \/ Admit

FreshCapture ==
  Enumerate \/ CaptureFails \/ DetectStale \/ AcceptCapture

Preflight ==
  \/ PreflightUnsupported \/ PreflightReadFails \/ PreflightDisagrees \/ PreflightPasses
  \/ MaterializeFails \/ DryRunReady

ApplyIntents ==
  \/ Start
  \/ CheckPasses \/ CheckDisagrees \/ CheckUnauthorized \/ CheckReadFails
  \/ WriteConfirmed \/ WriteRefused \/ WriteUnanswered
  \/ VerifySucceeds \/ VerifyFails

Executor == Admission \/ FreshCapture \/ Preflight \/ ApplyIntents \/ NormaliserRaises

Environment ==
  \/ \E w \in delayed : DelayedArrives(w) \/ DelayedLost(w)
  \/ \E id \in Id : Edit(id)
  \/ Crash
  \/ Rerun

Next == Executor \/ Environment

Spec == Init /\ [][Next]_vars

(* The executor is a sequential program whose every request ends, by an answer *)
(* or by the client's timeout, so it keeps taking its steps.                   *)
FairSpec == Spec /\ WF_vars(Executor)

-----------------------------------------------------------------------------
(* Properties. *)

Documents ==
  [status : Status, code : Code \union {None},
   mode : Mode, plannedTarget : Target, executionTarget : Target \union {None},
   plannedRemote : Material, observed : Material \union {None},
   performed : Nat, attempted : Nat, unknown : Nat,
   ops : [Positions -> OperationStatus]]

DelayedWrite == [run : Nat, index : Positions, payload : Resource]

(* The type invariant. *)
TypeOK ==
  /\ job \in Job /\ mode \in Mode
  /\ catalog \in Catalog /\ delayed \subseteq DelayedWrite
  /\ edits \in Nat /\ runs \in Nat
  /\ pc \in Place
  /\ captured \subseteq Type /\ fresh \in Capture
  /\ checked \in 0..Last /\ records \in [Positions -> Resource \union {Missing}]
  /\ seen \in Resource \union {Missing}
  /\ performed \in 0..Last
  /\ outcome \in [Positions -> OperationStatus]
  /\ result \in Documents \union {None}
  /\ initiated \subseteq Positions
  /\ response \in {None, "confirmed", "no token", "401/403", "other 4xx", "unknown"}
  /\ landed \subseteq Positions /\ earlier \subseteq Positions

(* Every document built passes its own validation.  An exception that takes the   *)
(* account of a run's writes with it can come only from the final GET of a         *)
(* resource to replace; every write invoked before it was confirmed and verified,  *)
(* has changed the catalog, and leaves nothing in flight.                          *)
WritesAreAccountedFor ==
  /\ result # None => ValidResult(result)
  /\ pc = "escaped" /\ initiated # {} =>
       /\ result = None
       /\ Current \in Positions /\ Writing.action = "replace"
       /\ initiated = 1..performed /\ initiated \subseteq landed
       /\ \A w \in delayed : w.run # runs

(* Fail closed: a write is invoked only in apply mode, for a ready plan, on the *)
(* planned target, when the whole fresh capture equals the state the plan was   *)
(* made from and every resource to replace has been read.                       *)
WritesOnlyAfterFullPreflight ==
  initiated # {} =>
    /\ mode = "apply" /\ PlanReady
    /\ client.endpoint = plan.target
    /\ fresh = plan.remote.catalog
    /\ \A i \in Positions : Ops[i].action = "replace" => records[i] \in Resource

(* Full-plan safety: when any write is invoked, no operation of the plan creates *)
(* a domain, clears a parent or moves a product to another domain, and every     *)
(* payload carries the link the configuration asks for.                          *)
NoUnverifiedSemantics ==
  initiated # {} =>
    \A i \in Positions :
      LET id == Ops[i].id
          before == fresh[id]
          after == Payload(i)
      IN  /\ Ops[i].action = "create" => id \notin Domain
          /\ after.link = Want(id).link
          /\ Found(id) /\ before.link # NoLink => after.link # NoLink
          /\ Found(id) /\ id \in Product => after.link = before.link

(* The result tells the truth about the service: a succeeded operation changed  *)
(* the catalog, a failed or not-run one did not and never will, no write goes   *)
(* uncounted; only an unknown one may still be processed.                       *)
HonestResult ==
  result # None =>
    /\ result.attempted = Cardinality(initiated)
    /\ \A i \in Positions :
         /\ result.ops[i] = "succeeded" => i \in landed
         /\ result.ops[i] \in {"failed", "not-run"} =>
              /\ i \notin landed
              /\ \A w \in delayed : w.run = runs => w.index # i

(* Writes are invoked in plan order, each at most once in a run, and none after *)
(* one whose outcome was not confirmed and verified.                            *)
WritesFormPlanPrefix ==
  /\ initiated \in {1..performed, 1..Current}
  /\ pc = "check" => initiated = 1..performed
  /\ 1..performed \subseteq landed

(* A replace that asks for nothing the planned state does not have. *)
Idle(i) ==
  Ops[i].action = "replace" /\ Meets(plan.remote.catalog[Ops[i].id], Want(Ops[i].id))

(* Without edits of others, executing a plan again after any of its operations that *)
(* asked for a change has taken effect, by a crash, a timeout or a lost answer,     *)
(* writes nothing: the staleness gate makes the executor safe to retry.  Only       *)
(* replaces that changed nothing leave the gate open, and are sent again.           *)
RetryNeverRewrites == initiated # {} /\ edits = 0 => \A i \in earlier : Idle(i)

(* Without edits of others, no parent or domain reference is ever left dangling, *)
(* even when a run stops after any of its writes or is repeated.                 *)
NoDanglingLink ==
  edits = 0 =>
    \A id \in Id : Exists(id) /\ catalog[id].link # NoLink => Exists(catalog[id].link)

(* Without edits of others, an applied result means that every planned resource *)
(* is what the configuration asks for.                                          *)
AppliedMeansDesired ==
  result # None /\ result.status = "applied" /\ edits = 0 =>
    \A i \in Positions :
      Exists(Ops[i].id) /\ Meets(catalog[Ops[i].id], Want(Ops[i].id))

(* A write that meets the resource the final GET returned. *)
Overwrites ==
  /\ WriteConfirmed \/ WriteUnanswered
  /\ Writing.action = "replace"
  /\ catalog[Writing.id] = seen

(* A replace never loses what someone else put into a preserved field, and what *)
(* it overwrites in a compared field is what the preflight read, unless the     *)
(* edit fell between the final GET and the write.                               *)
PreservesUnmanaged ==
  [][Overwrites =>
       /\ catalog[Writing.id] # catalog'[Writing.id] =>
            catalog'[Writing.id].deferred = catalog[Writing.id].deferred
       /\ catalog[Writing.id].key = records[Current].key
       /\ catalog[Writing.id].link = records[Current].link]_vars

(* The README's account of the race it leaves: only an edit between the final GET *)
(* and the write is overwritten, so what a write meets, when it is what the final *)
(* GET returned, is what the plan was made from.                                  *)
OnlyTheFinalWindowIsOpen ==
  [][Overwrites => catalog[Writing.id] = plan.remote.catalog[Writing.id]]_vars

(* The README's account of write outcomes: "HTTP 200/201 -> confirmed write". *)
ConfirmedWritesAreCounted ==
  response = "confirmed" /\ result # None => Current \notin With(result.ops, "unknown")

(* Every execution that is not killed ends with a verdict. *)
EveryRunEnds == pc = "start" ~> pc \in Final

(* The executor keeps the abstract promise. *)
Ledger == INSTANCE ApplyLedger WITH
  ledger <- outcome,
  verdict <- IF pc = "done" THEN result.status
             ELSE IF pc \in Final THEN "none" ELSE "running"

(* Seen from its outcomes and its verdict alone, every step of the executor is a *)
(* step of the ledger: operations in order, none after one that did not succeed, *)
(* and the status reported is the one the outcomes justify.                      *)
KeepsLedger == Ledger!Spec
=============================================================================
