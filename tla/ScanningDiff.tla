----------------------------- MODULE ScanningDiff -----------------------------
(***************************************************************************)
(* The resources of the Scanning data plane, the comparison of a           *)
(* configuration with a captured remote state, and what a plan document    *)
(* (plan/v1, plan/v2) must satisfy to be written, loaded or executed.      *)
(*                                                                         *)
(* Identities are natural numbers, ordered within a type as the code       *)
(* orders names; that of a scan includes its data source (Parent).         *)
(***************************************************************************)
EXTENDS Naturals, Sequences, FiniteSets, Functions

CONSTANTS
  DataSource, Rule, RuleSet, Scan,   \* identities, by type
  Parent,    \* the data source of a scan
  Place,     \* collections (data sources and scans belong to one)
  Body,      \* values of the fields a replace may change
  Absent,    \* not in the configuration
  Missing,   \* not in the remote state
  UnsupportedKind,   \* in it, but of a kind no resource is interpreted with
  MisplacedKind,     \* in it, but of a kind only another type is interpreted with, or empty
  UnsupportedType,   \* in it, but a rule set of a type not interpreted
  NoAfter    \* a reason without an "after" value

Id == DataSource \union Rule \union RuleSet \union Scan
TypeOf(id) ==
  IF id \in DataSource THEN "dataSource"
  ELSE IF id \in Rule THEN "classificationRule"
  ELSE IF id \in RuleSet THEN "scanRuleSet" ELSE "scan"

(* "uses" holds the custom rules a rule set includes, or the custom rule set of *)
(* a scan.                                                                      *)
Desired == [place : Place, body : Body, uses : SUBSET (Rule \union RuleSet)]

(* What makes a remote resource one the tool must not write: it is created by *)
(* Purview, its collection is moving, or it has settings the tool cannot keep. *)
Hold == {"remote.creation_type_auto", "remote.collection_moving",
         "remote.unsupported_configurable_field"}
HoldsOf(id) ==
  CASE id \in DataSource -> {"remote.creation_type_auto", "remote.collection_moving"}
    [] id \in Scan       -> {"remote.creation_type_auto",
                             "remote.unsupported_configurable_field"}
    [] OTHER             -> {"remote.unsupported_configurable_field"}

Interpreted == [place : Place, body : Body, uses : SUBSET (Rule \union RuleSet),
                holds : SUBSET Hold]

(* A resource of a kind outside the supported slice, an "AzureStorageMsi" data *)
(* source included; a rule set also of a type outside it.                      *)
ForeignKind == {UnsupportedKind, MisplacedKind}
Uninterpreted == ForeignKind \union {UnsupportedType}

Configuration == [Id -> Desired \union {Absent}]
RemoteState ==
  {remote \in [Id -> Interpreted \union Uninterpreted \union {Missing}] :
     \A id \in Id \ RuleSet : remote[id] # UnsupportedType}

UsableBy(id) ==
  CASE id \in RuleSet -> Rule
    [] id \in Scan    -> RuleSet
    [] OTHER          -> {}

ASSUME IdAssumption ==
  /\ Id \subseteq Nat /\ IsFiniteSet(Id)
  /\ DataSource \intersect (Rule \union RuleSet \union Scan) = {}
  /\ Rule \intersect (RuleSet \union Scan) = {} /\ RuleSet \intersect Scan = {}
  /\ Parent \in [Scan -> DataSource]

ASSUME MarkerAssumption ==
  /\ Absent \notin Desired
  /\ Missing \notin Interpreted \union Uninterpreted
  /\ Uninterpreted \intersect Interpreted = {}
  /\ UnsupportedKind # MisplacedKind /\ UnsupportedType \notin ForeignKind
  /\ NoAfter \notin Place \union Body

-----------------------------------------------------------------------------
(* The comparison: an outcome and its reasons for every identity. *)

Acting == {"create", "replace"}
Outcome == Acting \union {"no-op", "remote-only", "blocked", "none"}

Reason(code, after) == [code |-> code, after |-> after]
Met(code, before) == [code |-> code, before |-> before]
Item(outcome, reasons) == [outcome |-> outcome, reasons |-> reasons]

(* The kind the configuration asks for. *)
SoughtKind(id) ==
  CASE id \in Rule -> "Custom" [] id \in Scan -> "AzureStorageMsi" [] OTHER -> "AzureStorage"

(* Mutant: a collection that is moving does not hold a data source. *)
HeldUnlessMoving(r) ==
  {Reason(h, NoAfter) : h \in r.holds \ {"remote.collection_moving"}}

(* Ownership, moving state and unsupported settings. *)
Held(r) == {Reason(h, NoAfter) : h \in r.holds}

(* A different collection cannot be written, only reported. *)
Relocated(d, r) ==
  IF d.place = r.place THEN {}
  ELSE {Reason("properties.collection.referenceName.changed", d.place)}

Altered(d, r) == IF d.body = r.body THEN {} ELSE {Reason("settings.changed", d.body)}
Rewired(d, r) == IF d.uses = r.uses THEN {} ELSE {Reason("uses.changed", NoAfter)}

Judged(blocking, material) ==
  Item(IF blocking # {} THEN "blocked" ELSE IF material # {} THEN "replace" ELSE "no-op",
       blocking \union material)

CompareDataSource(d, r) == Judged(Held(r) \union Relocated(d, r), Altered(d, r))
CompareRule(d, r) == Judged(Held(r), Altered(d, r))

(* Mutant: the rules a rule set includes are not compared. *)
RuleSetBodyOnly(d, r) == Judged(Held(r), Altered(d, r))

CompareRuleSet(d, r) == Judged(Held(r), Altered(d, r) \union Rewired(d, r))
CompareScan(d, r) ==
  Judged(Held(r) \union Relocated(d, r), Altered(d, r) \union Rewired(d, r))

Compare(id, d, r) ==
  CASE id \in DataSource -> CompareDataSource(d, r)
    [] id \in Rule       -> CompareRule(d, r)
    [] id \in RuleSet    -> CompareRuleSet(d, r)
    [] OTHER             -> CompareScan(d, r)

(* A kind outside the slice blocks, wanted or not; so does a rule set type. *)
UninterpretedKind(id, d, kind) ==
  Item("blocked", {Met("remote_state.unsupported_kind", kind),
                   IF d = Absent THEN Reason("remote.absent_desired", NoAfter)
                   ELSE Reason("kind.changed", SoughtKind(id))})

UninterpretedType(d) ==
  Item("blocked", {Met("remote_state.unsupported_scan_ruleset_type", UnsupportedType),
                   IF d = Absent THEN Reason("remote.absent_desired", NoAfter)
                   ELSE Reason("scanRulesetType.changed", "Custom")})

RemoteOnly(r) == Item("remote-only", Held(r) \union {Reason("remote.absent_desired", NoAfter)})
Create == Item("create", {Reason("desired.absent_remote", NoAfter)})

Diff(id, d, r) ==
  CASE r \in ForeignKind                     -> UninterpretedKind(id, d, r)
    [] r = UnsupportedType                   -> UninterpretedType(d)
    [] r = Missing /\ d = Absent             -> Item("none", {})
    [] r = Missing /\ d # Absent             -> Create
    [] r \in Interpreted /\ d = Absent       -> RemoteOnly(r)
    [] r \in Interpreted /\ d # Absent       -> Compare(id, d, r)

DiffDataSources(desired, remote) == [id \in DataSource |-> Diff(id, desired[id], remote[id])]
DiffRules(desired, remote) == [id \in Rule |-> Diff(id, desired[id], remote[id])]
DiffRuleSets(desired, remote) == [id \in RuleSet |-> Diff(id, desired[id], remote[id])]
DiffScans(desired, remote) == [id \in Scan |-> Diff(id, desired[id], remote[id])]

(* diff_desired_vs_remote: a remote state/v1 holds data sources only. *)
ChangeSet(version, desired, remote) ==
  [id \in Id |->
     IF id \in DataSource THEN DiffDataSources(desired, remote)[id]
     ELSE IF version = 1 THEN Item("none", {})
     ELSE IF id \in Rule THEN DiffRules(desired, remote)[id]
     ELSE IF id \in RuleSet THEN DiffRuleSets(desired, remote)[id]
     ELSE DiffScans(desired, remote)[id]]

-----------------------------------------------------------------------------
(* The operations, in order: by type, then data source and name. *)

(* Mutant: the rank of a type is that of its name. *)
AlphabeticalRank(type) ==
  CASE type = "classificationRule" -> 0 [] type = "dataSource" -> 1
    [] type = "scan" -> 2 [] OTHER -> 3

TypeRank(type) ==
  CASE type = "dataSource" -> 0 [] type = "classificationRule" -> 1
    [] type = "scanRuleSet" -> 2 [] OTHER -> 3

Before(a, b) ==
  \/ TypeRank(TypeOf(a)) < TypeRank(TypeOf(b))
  \/ TypeOf(a) = TypeOf(b) /\ a < b

(* The create and replace items, and their place in the order. *)
ActingIds(items) == {id \in Id : items[id].outcome \in Acting}
Rank(ids, id) == 1 + Cardinality({other \in ids : Before(other, id)})

Operations(items) ==
  LET acting == ActingIds(items)
      ranked(i) == CHOOSE id \in acting : Rank(acting, id) = i
  IN  [i \in 1..Cardinality(acting) |->
         [id |-> ranked(i), action |-> items[ranked(i)].outcome]]

(* Mutant: what is not configured blocks nothing. *)
ConfiguredBlocks(items) ==
  IF \E id \in Id : /\ items[id].outcome = "blocked"
                    /\ \A r \in items[id].reasons : r.code # "remote.absent_desired"
  THEN "blocked" ELSE "ready"

Eligibility(items) ==
  IF \E id \in Id : items[id].outcome = "blocked" THEN "blocked" ELSE "ready"

(* The document of a plan; "sealed" when its identities match its contents. *)
Document(version, target, desired, remote, items) ==
  [version |-> version, target |-> target, desired |-> desired, remote |-> remote,
   items |-> items, ops |-> Operations(items), eligibility |-> Eligibility(items),
   sealed |-> TRUE]

-----------------------------------------------------------------------------
(* Validation of a plan document. *)

OwnershipCodes == {"remote.creation_type_auto", "remote.collection_moving"}
ReplaceCodes == {"settings.changed", "uses.changed", "scanRulesetType.changed"}
BlockingCodes ==
  Hold \union
    {"remote_state.unsupported_kind", "remote_state.unsupported_scan_ruleset_type",
     "properties.collection.referenceName.changed", "kind.changed"}

Codes(item) == {r.code : r \in item.reasons}

(* Mutant: scans are left out of the kinds a plan may ask for. *)
DataSourceReasonShape(r) ==
  /\ r.code = "kind.changed" => r.after \in {"AzureStorage"}
  /\ r.code = "remote_state.unsupported_kind" => r.before # MisplacedKind

(* _validate_reason_shape: a kind is unsupported when no type has it. *)
ReasonShape(r) ==
  /\ r.code = "kind.changed" => r.after \in {"AzureStorage", "AzureStorageMsi"}
  /\ r.code = "remote_state.unsupported_kind" => r.before # MisplacedKind

(* _bind_reason_after_to_desired: what a reason announces is what is configured. *)
BoundToDesired(id, d, r) ==
  /\ r.code = "kind.changed" => r.after = SoughtKind(id)
  /\ r.code = "properties.collection.referenceName.changed" => r.after = d.place
  /\ r.code = "settings.changed" /\ id \in DataSource \union Scan => r.after = d.body

(* _validate_outcome_reasons_v2, outcome by outcome. *)
CreateReasons(d, item) == d # Absent /\ Codes(item) = {"desired.absent_remote"}
ReplaceReasons(id, d, item) ==
  /\ d # Absent /\ Codes(item) # {}
  /\ Codes(item) \subseteq (IF id \in DataSource THEN {"settings.changed"} ELSE ReplaceCodes)
RemoteOnlyReasons(d, item) ==
  /\ d = Absent /\ "remote.absent_desired" \in Codes(item)
  /\ Codes(item) \subseteq Hold \union {"remote.absent_desired"}

OutcomeReasons(id, d, item) ==
  CASE item.outcome = "create"      -> CreateReasons(d, item)
    [] item.outcome = "replace"     -> ReplaceReasons(id, d, item)
    [] item.outcome = "no-op"       -> d # Absent /\ item.reasons = {}
    [] item.outcome = "remote-only" -> RemoteOnlyReasons(d, item)
    [] item.outcome = "blocked"     -> Codes(item) \intersect BlockingCodes # {}
    [] OTHER                        -> item.reasons = {}

(* plan/v1 fixes the reasons of a blocked item too. *)
UnsupportedPair(d, item) ==
  Codes(item) = {"remote_state.unsupported_kind",
                 IF d = Absent THEN "remote.absent_desired" ELSE "kind.changed"}

SupportedBlocked(d, item) ==
  LET core == OwnershipCodes \union {"properties.collection.referenceName.changed"} IN
  /\ d # Absent
  /\ Codes(item) \subseteq core \union {"settings.changed"}
  /\ Codes(item) \intersect core # {}

OutcomeReasonsV1(id, d, item) ==
  /\ OutcomeReasons(id, d, item)
  /\ item.outcome = "blocked" =>
       IF "remote_state.unsupported_kind" \in Codes(item) THEN UnsupportedPair(d, item)
       ELSE SupportedBlocked(d, item)

ShapedReasons(id, d, item) ==
  \A r \in item.reasons : ReasonShape(r) /\ (d # Absent => BoundToDesired(id, d, r))

(* The order, the endpoints and the identities of a document; "sealed" when they hold. *)
Sealed(doc) == doc.sealed

(* Every configured resource is in the change set. *)
Accounted(doc) == \A id \in Id : doc.desired[id] # Absent => doc.items[id].outcome # "none"

(* The operations are exactly the create and replace items, in order. *)
OperationsMatch(doc) ==
  /\ doc.ops = Operations(doc.items)
  /\ \A i \in DOMAIN doc.ops : doc.desired[doc.ops[i].id] # Absent

EligibilityMatches(doc) == doc.eligibility = Eligibility(doc.items)

(* plan/v1 knows data sources only. *)
MembersV1(doc) ==
  /\ \A id \in Id \ DataSource : doc.desired[id] = Absent /\ doc.items[id].outcome = "none"
  /\ Accounted(doc)

ValidPlanV1(doc) ==
  /\ Sealed(doc) /\ MembersV1(doc)
  /\ \A id \in DataSource :
       /\ ShapedReasons(id, doc.desired[id], doc.items[id])
       /\ OutcomeReasonsV1(id, doc.desired[id], doc.items[id])
  /\ OperationsMatch(doc) /\ EligibilityMatches(doc)

ValidPlanV2(doc) ==
  /\ Sealed(doc) /\ Accounted(doc)
  /\ \A id \in Id :
       /\ ShapedReasons(id, doc.desired[id], doc.items[id])
       /\ OutcomeReasons(id, doc.desired[id], doc.items[id])
  /\ OperationsMatch(doc) /\ EligibilityMatches(doc)

(* validate_plan_document_semantics. *)
ValidPlan(doc) == IF doc.version = 1 THEN ValidPlanV1(doc) ELSE ValidPlanV2(doc)
=============================================================================
