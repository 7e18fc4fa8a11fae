---------------------------- MODULE ScanningPlanner ----------------------------
(***************************************************************************)
(* build_governance_plan (plan/v1, data sources only) and                  *)
(* build_governance_plan_v2: the configuration is validated again, the     *)
(* remote state is validated, both are compared, the changes become        *)
(* operations, and the finished document must pass the validation every    *)
(* plan is loaded with.                                                    *)
(***************************************************************************)
EXTENDS ScanningDiff

CONSTANTS
  None,
  Inputs   \* what a builder may be called with

(* A configuration lists its resources; a remote state is "sealed" when its *)
(* identity is that of its contents.                                        *)
Resource == [id : Id, desired : Desired]
Input == [builder : {1, 2}, api : {1, 2}, resources : Seq(Resource),
          remote : RemoteState, sealed : BOOLEAN]

(* The failure there is before one is raised is no error code. *)
ASSUME NoneAssumption == None # "plan.invalid_schema"

(* A rule set names rules, a scan a rule set; a remote resource is held in the *)
(* ways of its type.                                                           *)
ASSUME InputAssumption ==
  \A i \in Inputs :
    /\ i \in Input
    /\ i.builder = 1 => \A id \in Id \ DataSource : i.remote[id] = Missing
    /\ i.api = 1 => \A n \in DOMAIN i.resources : i.resources[n].id \in DataSource
    /\ \A n \in DOMAIN i.resources :
         i.resources[n].desired.uses \subseteq UsableBy(i.resources[n].id)
    /\ \A id \in Id : i.remote[id] \in Interpreted => i.remote[id].holds \subseteq HoldsOf(id)

VARIABLES
  input,     \* the configuration and the remote state
  pc,        \* where the builder is
  items,     \* the change set
  document,  \* the plan document
  failure    \* the code of the error raised

vars == <<input, pc, items, document, failure>>

Listed == {input.resources[n].id : n \in DOMAIN input.resources}

(* _duplicate_resource_identity_diagnostics. *)
UniqueIdentities(resources) ==
  \A m, n \in DOMAIN resources : m # n => resources[m].id # resources[n].id

(* desired_state_from_config. *)
DesiredState(resources) ==
  [id \in Id |->
     IF \E n \in DOMAIN resources : resources[n].id = id
     THEN resources[CHOOSE n \in DOMAIN resources :
                      resources[n].id = id /\ \A m \in DOMAIN resources :
                        resources[m].id = id => m <= n].desired
     ELSE Absent]

desired == DesiredState(input.resources)
remote == input.remote

Fail(code) ==
  /\ pc' = "failed" /\ failure' = code
  /\ UNCHANGED <<input, items, document>>

(* The v1 builder takes a configuration/v1 of data sources. *)
NeedsV2 == input.builder = 1 /\ input.api = 2

RejectVersion ==
  /\ pc = "start" /\ NeedsV2
  /\ Fail("plan.requires_v2_builder")

RejectConfiguration ==
  /\ pc = "start" /\ ~NeedsV2 /\ ~UniqueIdentities(input.resources)
  /\ Fail("plan.invalid_configuration_input")

RejectRemoteState ==
  /\ pc = "start" /\ ~NeedsV2 /\ UniqueIdentities(input.resources) /\ ~input.sealed
  /\ Fail("plan.inconsistent_remote_identity")

CompareStates ==
  /\ pc = "start" /\ ~NeedsV2 /\ UniqueIdentities(input.resources) /\ input.sealed
  /\ items' = ChangeSet(input.builder, desired, remote)
  /\ pc' = "compared"
  /\ UNCHANGED <<input, document, failure>>

Assemble ==
  /\ pc = "compared"
  /\ document' = Document(input.builder, None, desired, remote, items)
  /\ pc' = "assembled"
  /\ UNCHANGED <<input, items, failure>>

SelfValidate ==
  /\ pc = "assembled" /\ ValidPlan(document)
  /\ pc' = "planned"
  /\ UNCHANGED <<input, items, document, failure>>

FailSelfValidation ==
  /\ pc = "assembled" /\ ~ValidPlan(document)
  /\ Fail("plan.invalid_schema")

Init ==
  /\ input \in Inputs /\ pc = "start"
  /\ items = [id \in Id |-> Item("none", {})] /\ document = None /\ failure = None

Next ==
  \/ RejectVersion \/ RejectConfiguration \/ RejectRemoteState
  \/ CompareStates \/ Assemble \/ SelfValidate \/ FailSelfValidation

Spec == Init /\ [][Next]_vars

-----------------------------------------------------------------------------
(* What the operations make of the remote state when all are carried out. *)

Written(id) == [place |-> desired[id].place, body |-> desired[id].body,
                uses |-> desired[id].uses, holds |-> {}]

Targets == {document.ops[i].id : i \in DOMAIN document.ops}
Outcomes == [id \in Id |-> IF id \in Targets THEN Written(id) ELSE remote[id]]

Position(id) == CHOOSE i \in DOMAIN document.ops : document.ops[i].id = id

(* What an operation needs to find: the data source of a scan, and what it uses. *)
Needs(id) == (IF id \in Scan THEN {Parent[id]} ELSE {}) \union desired[id].uses

(* Properties. *)

(* What no plan document is valid over: a resource of an empty kind, or of one that *)
(* another type is interpreted with (the validator takes such a kind for supported), *)
(* and a configured classification rule whose remote namesake is of another kind.    *)
Unplannable ==
  \/ \E id \in Id : remote[id] = MisplacedKind
  \/ \E id \in Rule : desired[id] # Absent /\ remote[id] \in ForeignKind

(* Comparing, ordering and validating agree on everything else: the document of a *)
(* plan fails its own validation over these, wanted or not, and over these alone. *)
OnlyForeignKindsFailValidation ==
  /\ failure = "plan.invalid_schema" => Unplannable
  /\ pc = "planned" => ~Unplannable

(* diff_desired_vs_remote says "uninterpreted/unsupported kind -> blocked", and the *)
(* diff's tests expect it of a system rule: a blocked plan, not an error.           *)
DiffsBecomePlans == failure # "plan.invalid_schema"

(* A plan that may be executed writes nothing Purview owns, nothing on the move, *)
(* nothing with settings a full replacement would lose, nothing of a kind the    *)
(* tool does not interpret, and moves nothing to another collection.             *)
ReadyPlansTouchOwnResourcesOnly ==
  pc = "planned" /\ document.eligibility = "ready" =>
    \A id \in Targets :
      remote[id] # Missing =>
        /\ remote[id] \notin Uninterpreted /\ remote[id].holds = {}
        /\ id \in DataSource \union Scan => remote[id].place = desired[id].place

(* Carrying out a ready plan leaves every configured resource as configured, and *)
(* planning again from there finds nothing to do and nothing blocked.            *)
ReadyPlansConverge ==
  pc = "planned" /\ document.eligibility = "ready" =>
    LET again == Document(input.builder, None, desired, Outcomes,
                          ChangeSet(input.builder, desired, Outcomes))
    IN  /\ ValidPlan(again) /\ again.ops = <<>> /\ again.eligibility = "ready"
        /\ \A n \in DOMAIN input.resources :
             LET r == input.resources[n] IN
             /\ Outcomes[r.id].body = r.desired.body
             /\ r.id \in RuleSet \union Scan => Outcomes[r.id].uses = r.desired.uses
        /\ \A id \in Id \ Listed : Outcomes[id] = remote[id]

(* An operation comes after every operation on a resource it needs. *)
NeedsComeFirst ==
  pc = "planned" =>
    \A id \in Targets : \A need \in Needs(id) \intersect Targets :
      Position(need) < Position(id)

(* A scan is created only where the scans of its data source were looked up: the *)
(* capture skips those of a data source of another kind, and such a data source  *)
(* blocks the plan.                                                              *)
CreatesWereLookedFor ==
  pc = "planned" /\ document.eligibility = "ready" =>
    \A id \in Targets \intersect Scan : remote[Parent[id]] \notin Uninterpreted
=============================================================================
