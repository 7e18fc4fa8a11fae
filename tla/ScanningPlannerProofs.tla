------------------------- MODULE ScanningPlannerProofs -------------------------
(***************************************************************************)
(* Theorems about the planner of v1 and v2, for every configuration and    *)
(* every remote state: comparing, ordering and validating agree, and what  *)
(* a ready plan does.                                                      *)
(***************************************************************************)
EXTENDS ScanningPlanner, ScanningDiffProofs

-----------------------------------------------------------------------------
(* The inductive invariant: what the builder has made so far of its input. *)

Admitted == ~NeedsV2 /\ UniqueIdentities(input.resources)

Compared == items = ChangeSet(input.builder, desired, remote)
Assembled == document = Document(input.builder, None, desired, remote, items)

BInv ==
  /\ input \in Inputs
  /\ pc \in {"start", "compared", "assembled", "planned", "failed"}
  /\ pc \in {"compared", "assembled", "planned"} => Admitted /\ Compared
  /\ pc \in {"assembled", "planned"} => Assembled
  /\ pc = "planned" => ValidPlan(document)
  /\ failure = "plan.invalid_schema" => Admitted /\ Compared /\ Assembled /\ ~ValidPlan(document)

LEMMA BuildInv == Spec => []BInv
<1>1. ASSUME Init PROVE BInv
  <2>1. pc = "start" /\ input \in Inputs /\ failure = None
    BY <1>1 DEF Init
  <2>2. failure # "plan.invalid_schema"
    BY <2>1, NoneAssumption
  <2> QED BY <2>1, <2>2 DEF BInv
<1>2. ASSUME BInv, [Next]_vars PROVE BInv'
  <2>1. CASE UNCHANGED vars
    BY <1>2, <2>1 DEF BInv, Admitted, NeedsV2, Compared, Assembled, desired, remote, vars
  <2>2. ASSUME NEW code, Fail(code),
               code = "plan.invalid_schema" => Admitted /\ Compared /\ Assembled /\ ~ValidPlan(document)
        PROVE  BInv'
    BY <1>2, <2>2 DEF BInv, Fail, Admitted, NeedsV2, Compared, Assembled, desired, remote
  <2>3. CASE RejectVersion \/ RejectConfiguration \/ RejectRemoteState
    BY <2>2, <2>3 DEF RejectVersion, RejectConfiguration, RejectRemoteState
  <2>4. CASE FailSelfValidation
    BY <1>2, <2>2, <2>4 DEF FailSelfValidation, BInv
  <2>5. CASE CompareStates
    BY <1>2, <2>5
    DEF CompareStates, BInv, Admitted, NeedsV2, Compared, Assembled, desired, remote
  <2>6. CASE Assemble
    BY <1>2, <2>6 DEF Assemble, BInv, Admitted, NeedsV2, Compared, Assembled, desired, remote
  <2>7. CASE SelfValidate
    BY <1>2, <2>7 DEF SelfValidate, BInv, Admitted, NeedsV2, Compared, Assembled, desired, remote
  <2> QED BY <1>2, <2>1, <2>3, <2>4, <2>5, <2>6, <2>7 DEF Next
<1> QED BY <1>1, <1>2, PTL DEF Spec

-----------------------------------------------------------------------------
(* What the builder is called with. *)

LEMMA DesiredOf ==
  ASSUME input \in Inputs, Admitted
  PROVE  /\ input.builder \in {1, 2} /\ remote \in RemoteState /\ desired \in Configuration
         /\ \A n \in DOMAIN input.resources :
              /\ input.resources[n].id \in Id /\ input.resources[n].desired \in Desired
              /\ desired[input.resources[n].id] = input.resources[n].desired
         /\ \A id \in Id \ Listed : desired[id] = Absent
         /\ \A id \in Id : desired[id] # Absent => desired[id].uses \subseteq UsableBy(id)
         /\ input.builder = 1 => \A id \in Id \ DataSource : desired[id] = Absent
         /\ \A id \in Id : remote[id] \in Interpreted => remote[id].holds \subseteq HoldsOf(id)
<1> DEFINE rs == input.resources
<1>1. /\ input \in Input
      /\ input.api = 1 => \A n \in DOMAIN rs : rs[n].id \in DataSource
      /\ \A n \in DOMAIN rs : rs[n].desired.uses \subseteq UsableBy(rs[n].id)
      /\ \A id \in Id : remote[id] \in Interpreted => remote[id].holds \subseteq HoldsOf(id)
  BY InputAssumption DEF remote
<1>2. /\ input.builder \in {1, 2} /\ input.api \in {1, 2} /\ remote \in RemoteState
      /\ rs \in Seq(Resource)
  BY <1>1 DEF Input, remote
<1>3. DOMAIN rs = 1..Len(rs) /\ Len(rs) \in Nat /\ \A n \in DOMAIN rs : rs[n] \in Resource
  BY <1>2, LenProperties, ElementOfSeq
<1>4. \A n \in DOMAIN rs : rs[n].id \in Id /\ rs[n].desired \in Desired
  BY <1>3 DEF Resource
<1>5. \A m, n \in DOMAIN rs : rs[m].id = rs[n].id => m = n
  BY DEF Admitted, UniqueIdentities
<1>6. ASSUME NEW n \in DOMAIN rs
      PROVE  desired[rs[n].id] = rs[n].desired
  <2> DEFINE id == rs[n].id
             chosen == CHOOSE k \in DOMAIN rs :
                         rs[k].id = id /\ \A m \in DOMAIN rs : rs[m].id = id => m <= k
  <2>1. \E k \in DOMAIN rs : rs[k].id = id /\ \A m \in DOMAIN rs : rs[m].id = id => m <= k
    <3>1. \A m \in DOMAIN rs : rs[m].id = id => m <= n
      BY <1>3, <1>5, <1>6
    <3> QED BY <3>1
  <2>2. chosen \in DOMAIN rs /\ rs[chosen].id = id
    BY <2>1
  <2>3. chosen = n
    <3> HIDE DEF chosen
    <3> QED BY <1>5, <2>2
  <2>4. desired[id] = rs[chosen].desired
    BY <1>4, <1>6 DEF desired, DesiredState
  <2> QED BY <2>3, <2>4
<1>7. \A id \in Id \ Listed : desired[id] = Absent
  BY DEF desired, DesiredState, Listed
<1>8. \A id \in Id : id \in Listed => \E n \in DOMAIN rs : rs[n].id = id
  BY DEF Listed
<1>9. \A id \in Id : desired[id] \in Desired \union {Absent}
  BY <1>4, <1>6, <1>7, <1>8
<1>10. desired \in Configuration
  <2>1. desired = [id \in Id |-> desired[id]]
    BY DEF desired, DesiredState
  <2> QED BY <1>9, <2>1 DEF Configuration
<1>11. \A id \in Id : desired[id] # Absent => desired[id].uses \subseteq UsableBy(id)
  BY <1>1, <1>6, <1>7, <1>8
<1>12. ASSUME input.builder = 1, NEW id \in Id \ DataSource
       PROVE  desired[id] = Absent
  <2>1. input.api = 1
    BY <1>2, <1>12 DEF Admitted, NeedsV2
  <2>2. id \notin Listed
    BY <1>1, <1>8, <1>12, <2>1
  <2> QED BY <1>7, <2>2
<1> QED BY <1>1, <1>2, <1>4, <1>6, <1>7, <1>10, <1>11, <1>12

(* The plan that was made. *)
LEMMA PlanMade ==
  ASSUME BInv, pc = "planned"
  PROVE  /\ input \in Inputs /\ Admitted /\ items = ChangeSet(input.builder, desired, remote)
         /\ document.ops = Operations(items) /\ document.eligibility = Eligibility(items)
         /\ Targets = ActingIds(items)
         /\ document.eligibility = "ready" =>
              \A id \in Id : items[id].outcome # "blocked"
<1>1. /\ input \in Inputs /\ Admitted /\ items = ChangeSet(input.builder, desired, remote)
      /\ document = Document(input.builder, None, desired, remote, items)
  BY DEF BInv, Compared, Assembled
<1>2. document.ops = Operations(items) /\ document.eligibility = Eligibility(items)
  BY <1>1 DEF Document
<1>3. Targets = ActingIds(items)
  <2>1. /\ \A i \in DOMAIN document.ops : document.ops[i].id \in ActingIds(items)
        /\ \A id \in ActingIds(items) : \E i \in DOMAIN document.ops : document.ops[i].id = id
    BY <1>2, OperationsAre
  <2> QED BY <2>1 DEF Targets
<1> QED BY <1>1, <1>2, <1>3, EligibilityOutcome

-----------------------------------------------------------------------------
(* What the invariant says of the planner. *)

(* The reasons given for an unplannable resource do not pass the validation. *)
LEMMA UnplannableFails ==
  ASSUME NEW d \in Desired \union {Absent}, NEW id \in Id, NEW r \in ForeignKind,
         r = MisplacedKind \/ (id \in Rule /\ d # Absent)
  PROVE  ~ShapedReasons(id, d, Diff(id, d, r))
<1>1. Diff(id, d, r) = UninterpretedKind(id, d, r)
  BY DiffArms DEF Remote, Uninterpreted
<1>2. CASE r = MisplacedKind
  <2>1. Met("remote_state.unsupported_kind", r) \in Diff(id, d, r).reasons
    BY <1>1 DEF UninterpretedKind, Item
  <2>2. ~ReasonShape(Met("remote_state.unsupported_kind", r))
    BY <1>2 DEF ReasonShape, Met
  <2> QED BY <2>1, <2>2 DEF ShapedReasons
<1>3. CASE id \in Rule /\ d # Absent
  <2>0. SoughtKind(id) = "Custom"
    <3>1. id \in Rule /\ id \notin Scan
      BY <1>3, IdAssumption
    <3> QED BY <3>1 DEF SoughtKind
  <2>1. Reason("kind.changed", "Custom") \in Diff(id, d, r).reasons
    BY <1>1, <1>3, <2>0 DEF UninterpretedKind, Item
  <2>2. ~ReasonShape(Reason("kind.changed", "Custom"))
    BY DEF ReasonShape, Reason
  <2> QED BY <2>1, <2>2 DEF ShapedReasons
<1> QED BY <1>2, <1>3

(* Comparing, ordering and validating agree: build_governance_plan and        *)
(* build_governance_plan_v2 refuse their own document over a resource of a    *)
(* kind another type is interpreted with, over a configured classification    *)
(* rule whose remote namesake is of another kind, and over nothing else.      *)
THEOREM OwnPlansAreValid == Spec => []OnlyForeignKindsFailValidation
<1>1. ASSUME BInv, failure = "plan.invalid_schema",
             ~Unplannable
      PROVE  FALSE
  <2>1. /\ input \in Inputs /\ Admitted /\ ~ValidPlan(document)
        /\ document = Document(input.builder, None, desired, remote,
                               ChangeSet(input.builder, desired, remote))
    BY <1>1 DEF BInv, Compared, Assembled
  <2>2. ValidPlan(Document(input.builder, None, desired, remote,
                           ChangeSet(input.builder, desired, remote)))
    <3>1. /\ input.builder \in {1, 2} /\ remote \in RemoteState /\ desired \in Configuration
          /\ input.builder = 1 => \A id \in Id \ DataSource : desired[id] = Absent
          /\ \A id \in Id : remote[id] \in Interpreted => remote[id].holds \subseteq HoldsOf(id)
      BY <2>1, DesiredOf
    <3>2. /\ \A id \in Rule : desired[id] = Absent \/ remote[id] \notin ForeignKind
          /\ \A id \in Id : remote[id] # MisplacedKind
      BY <1>1 DEF Unplannable
    <3> QED BY <3>1, <3>2, DocumentIsValid
  <2> QED BY <2>1, <2>2
<1>2. ASSUME BInv, pc = "planned", Unplannable
      PROVE  FALSE
  <2>1. /\ input \in Inputs /\ Admitted /\ ValidPlan(document)
        /\ document = Document(input.builder, None, desired, remote,
                               ChangeSet(input.builder, desired, remote))
    BY <1>2 DEF BInv, Compared, Assembled
  <2>2. input.builder \in {1, 2} /\ remote \in RemoteState /\ desired \in Configuration
    BY <2>1, DesiredOf
  <2>3. PICK id \in Id : /\ remote[id] \in ForeignKind
                         /\ remote[id] = MisplacedKind \/ (id \in Rule /\ desired[id] # Absent)
    BY <1>2 DEF Unplannable, ForeignKind, Id
  <2>4. input.builder = 2 \/ id \in DataSource
    <3>1. input.builder = 1 => \A other \in Id \ DataSource : remote[other] = Missing
      BY <2>1, InputAssumption DEF remote
    <3> QED BY <2>2, <2>3, <3>1, MarkerAssumption DEF Uninterpreted
  <2>5. ChangeSet(input.builder, desired, remote)[id] = Diff(id, desired[id], remote[id])
    BY <2>2, <2>4, ItemOf
  <2>6. ~ShapedReasons(id, desired[id], ChangeSet(input.builder, desired, remote)[id])
    BY <2>2, <2>3, <2>5, UnplannableFails DEF Configuration
  <2>7. /\ document.version = input.builder /\ document.desired = desired
        /\ document.items = ChangeSet(input.builder, desired, remote)
    BY <2>1 DEF Document
  <2> QED BY <2>1, <2>2, <2>4, <2>6, <2>7 DEF ValidPlan, ValidPlanV1, ValidPlanV2
<1>3. BInv => OnlyForeignKindsFailValidation
  BY <1>1, <1>2 DEF OnlyForeignKindsFailValidation
<1> QED BY <1>3, BuildInv, PTL

(* A ready plan writes nothing Purview owns or moves, nothing the tool does  *)
(* not interpret and nothing in another collection: the outcomes of          *)
(* diff_desired_vs_remote and the eligibility of the plan.                   *)
THEOREM ReadyPlansAreOwn == Spec => []ReadyPlansTouchOwnResourcesOnly
<1>1. ASSUME BInv, pc = "planned", document.eligibility = "ready", NEW id \in Targets,
             remote[id] # Missing
      PROVE  /\ remote[id] \notin Uninterpreted /\ remote[id].holds = {}
             /\ id \in DataSource \union Scan => remote[id].place = desired[id].place
  <2>1. /\ input \in Inputs /\ Admitted /\ items = ChangeSet(input.builder, desired, remote)
        /\ id \in ActingIds(items)
    BY <1>1, PlanMade
  <2>2. input.builder \in {1, 2} /\ remote \in RemoteState /\ desired \in Configuration
    BY <2>1, DesiredOf
  <2>3. /\ id \in Id /\ desired[id] \in Desired /\ remote[id] \notin Uninterpreted
        /\ Diff(id, desired[id], remote[id]).outcome \in Acting
    BY <2>1, <2>2, ActingAreWanted DEF ActingIds
  <2>4. remote[id] \in Interpreted /\ remote[id] \in Remote /\ desired[id] # Absent
    BY <1>1, <2>2, <2>3, MarkerAssumption DEF RemoteState, Remote
  <2>5. Compare(id, desired[id], remote[id]).outcome # "blocked"
    BY <2>3, <2>4, DiffArms DEF Acting
  <2> QED BY <2>3, <2>4, <2>5, ReplacedIsOwned
<1>2. BInv => ReadyPlansTouchOwnResourcesOnly
  BY <1>1 DEF ReadyPlansTouchOwnResourcesOnly
<1> QED BY <1>2, BuildInv, PTL

(* A ready plan, carried out, leaves every configured resource as configured *)
(* and nothing to plan: every field diff_desired_vs_remote compares is one   *)
(* the operations write.                                                     *)
THEOREM ReadyPlansSettle == Spec => []ReadyPlansConverge
<1>1. ASSUME BInv, pc = "planned", document.eligibility = "ready"
      PROVE  LET again == Document(input.builder, None, desired, Outcomes,
                                   ChangeSet(input.builder, desired, Outcomes))
             IN  /\ ValidPlan(again) /\ again.ops = <<>> /\ again.eligibility = "ready"
                 /\ \A n \in DOMAIN input.resources :
                      LET r == input.resources[n] IN
                      /\ Outcomes[r.id].body = r.desired.body
                      /\ r.id \in RuleSet \union Scan => Outcomes[r.id].uses = r.desired.uses
                 /\ \A id \in Id \ Listed : Outcomes[id] = remote[id]
  <2> DEFINE v == input.builder
             next == ChangeSet(v, desired, Outcomes)
             again == Document(v, None, desired, Outcomes, next)
  <2>1. /\ input \in Inputs /\ Admitted /\ items = ChangeSet(v, desired, remote)
        /\ Targets = ActingIds(items) /\ \A id \in Id : items[id].outcome # "blocked"
    BY <1>1, PlanMade
  <2>2. /\ v \in {1, 2} /\ remote \in RemoteState /\ desired \in Configuration
        /\ \A n \in DOMAIN input.resources :
             /\ input.resources[n].id \in Id /\ input.resources[n].desired \in Desired
             /\ desired[input.resources[n].id] = input.resources[n].desired
        /\ \A id \in Id \ Listed : desired[id] = Absent
        /\ v = 1 => \A id \in Id \ DataSource : desired[id] = Absent
        /\ \A id \in Id : remote[id] \in Interpreted => remote[id].holds \subseteq HoldsOf(id)
    BY <2>1, DesiredOf
  <2>3. Outcomes = CarriedOutOn(ChangeSet(v, desired, remote), desired, remote)
    BY <2>1 DEF Outcomes, CarriedOutOn, Written, Stored
  <2>4. /\ Outcomes \in RemoteState
        /\ \A id \in Id : Outcomes[id] \in Interpreted =>
             Outcomes[id].holds = {} \/ Outcomes[id] = remote[id]
        /\ \A id \in Id : (v = 2 \/ id \in DataSource) => Outcomes[id] \notin Uninterpreted
        /\ \A id \in Id :
             /\ next[id].outcome \in {"no-op", "remote-only", "none"}
             /\ (v = 2 \/ id \in DataSource) /\ desired[id] # Absent =>
                  /\ Outcomes[id].body = desired[id].body
                  /\ id \in RuleSet \union Scan => Outcomes[id].uses = desired[id].uses
    BY <2>1, <2>2, <2>3, CarryingOutSettles
  <2> HIDE DEF v, next
  <2>5. ValidPlan(again)
    <3>1. \A id \in Id : Outcomes[id] \in Interpreted => Outcomes[id].holds \subseteq HoldsOf(id)
      BY <2>2, <2>4
    <3>2. /\ \A id \in Rule : desired[id] = Absent \/ Outcomes[id] \notin ForeignKind
          /\ \A id \in Id : (v = 2 \/ id \in DataSource) => Outcomes[id] # MisplacedKind
      BY <2>2, <2>4, IdAssumption DEF Id, Uninterpreted, ForeignKind
    <3> QED BY <2>2, <2>4, <3>1, <3>2, DocumentIsValid DEF next
  <2>6. again.ops = Operations(next) /\ again.eligibility = Eligibility(next)
    BY DEF Document
  <2>7. ActingIds(next) = {} /\ Eligibility(next) = "ready"
    BY <2>4, EligibilityOutcome DEF ActingIds, Acting
  <2>8. again.ops = <<>> /\ again.eligibility = "ready"
    BY <2>6, <2>7, NoOperations
  <2>9. ASSUME NEW n \in DOMAIN input.resources
        PROVE  /\ Outcomes[input.resources[n].id].body = input.resources[n].desired.body
               /\ input.resources[n].id \in RuleSet \union Scan =>
                    Outcomes[input.resources[n].id].uses = input.resources[n].desired.uses
    <3>1. desired[input.resources[n].id] # Absent /\ input.resources[n].id \in Id
      BY <2>2, MarkerAssumption
    <3>2. v = 2 \/ input.resources[n].id \in DataSource
      BY <2>2, <3>1
    <3> QED BY <2>2, <2>4, <3>1, <3>2
  <2>10. ASSUME NEW id \in Id \ Listed PROVE Outcomes[id] = remote[id]
    <3>1. id \notin Targets
      BY <2>1, <2>2, ActingAreWanted, MarkerAssumption
    <3> QED BY <3>1 DEF Outcomes
  <2> QED BY <2>5, <2>8, <2>9, <2>10 DEF v, next, again
<1>2. BInv => ReadyPlansConverge
  BY <1>1 DEF ReadyPlansConverge
<1> QED BY <1>2, BuildInv, PTL

(* An operation comes after every operation on a resource it needs: the order *)
(* of types puts data sources and rules before rule sets, and those before    *)
(* scans.                                                                     *)
THEOREM NeedsAreOrdered == Spec => []NeedsComeFirst
<1>1. ASSUME BInv, pc = "planned", NEW id \in Targets, NEW need \in Needs(id) \intersect Targets
      PROVE  Position(need) < Position(id)
  <2> DEFINE ops == document.ops
  <2>1. /\ input \in Inputs /\ Admitted /\ items = ChangeSet(input.builder, desired, remote)
        /\ ops = Operations(items) /\ Targets = ActingIds(items)
    BY <1>1, PlanMade
  <2>2. /\ input.builder \in {1, 2} /\ remote \in RemoteState /\ desired \in Configuration
        /\ \A other \in Id : desired[other] # Absent => desired[other].uses \subseteq UsableBy(other)
    BY <2>1, DesiredOf
  <2>3. id \in Id /\ desired[id] # Absent
    BY <2>1, <2>2, ActingAreWanted, MarkerAssumption
  <2>4. Before(need, id)
    <3>1. CASE id \in Scan
      <4>1. need \in DataSource \union RuleSet
        BY <2>2, <2>3, <3>1, IdAssumption DEF Needs, UsableBy
      <4>2. need \notin Scan /\ need \notin Rule
        BY <4>1, IdAssumption
      <4> QED BY <3>1, <4>1, <4>2, IdAssumption DEF Before, TypeOf, TypeRank
    <3>2. CASE id \in RuleSet
      <4>1. need \in Rule
        BY <2>2, <2>3, <3>2, IdAssumption DEF Needs, UsableBy
      <4> QED BY <3>2, <4>1, IdAssumption DEF Before, TypeOf, TypeRank
    <3>3. CASE id \notin Scan \union RuleSet
      <4>1. UsableBy(id) = {}
        BY <3>3 DEF UsableBy
      <4> QED BY <2>2, <2>3, <3>3, <4>1 DEF Needs
    <3> QED BY <3>1, <3>2, <3>3
  <2>5. /\ DOMAIN ops = 1..Len(ops)
        /\ \A other \in ActingIds(items) : \E i \in DOMAIN ops : ops[i].id = other
        /\ \A i, j \in DOMAIN ops : Before(ops[i].id, ops[j].id) <=> i < j
    BY <2>1, OperationsAre
  <2>6. \A other \in Targets : Position(other) \in DOMAIN ops /\ ops[Position(other)].id = other
    BY <2>1, <2>5 DEF Position
  <2> QED BY <2>4, <2>5, <2>6
<1>2. BInv => NeedsComeFirst
  BY <1>1 DEF NeedsComeFirst
<1> QED BY <1>2, BuildInv, PTL

(* A ready plan creates a scan only where the scans of its data source were  *)
(* looked up: capture_remote_state_v2 skips those of a data source of another *)
(* kind, and such a data source blocks the plan.                              *)
THEOREM CreatesAreInformed == Spec => []CreatesWereLookedFor
<1>1. ASSUME BInv, pc = "planned", document.eligibility = "ready", NEW id \in Targets \intersect Scan
      PROVE  remote[Parent[id]] \notin Uninterpreted
  <2>1. /\ input \in Inputs /\ Admitted /\ items = ChangeSet(input.builder, desired, remote)
        /\ \A other \in Id : items[other].outcome # "blocked"
    BY <1>1, PlanMade
  <2>2. input.builder \in {1, 2} /\ remote \in RemoteState /\ desired \in Configuration
    BY <2>1, DesiredOf
  <2>3. Parent[id] \in DataSource /\ Parent[id] \in Id
    BY <1>1, IdAssumption DEF Id
  <2>4. Diff(Parent[id], desired[Parent[id]], remote[Parent[id]]).outcome # "blocked"
    BY <2>1, <2>2, <2>3, ItemOf
  <2>5. desired[Parent[id]] \in Desired \union {Absent} /\ remote[Parent[id]] \in Remote
    BY <2>2, <2>3 DEF Configuration, RemoteState, Remote
  <2> QED BY <2>3, <2>4, <2>5, DiffOutcome
<1>2. BInv => CreatesWereLookedFor
  BY <1>1 DEF CreatesWereLookedFor
<1> QED BY <1>2, BuildInv, PTL
=============================================================================
