--------------------------- MODULE GovernancePlanner ---------------------------
(***************************************************************************)
(* build_governance_plan_v3: the desired configuration is compared with    *)
(* the captured remote state, changes whose domain or parent cannot be     *)
(* relied on are blocked, the limits of the resulting hierarchy are        *)
(* checked, the remaining changes are put in order, and the finished       *)
(* document must pass the validation every plan is loaded with.            *)
(*                                                                         *)
(* Ids are natural numbers, ordered as the code orders UUID strings.       *)
(***************************************************************************)
EXTENDS Naturals, Sequences, FiniteSets

CONSTANTS
  Domain, Product, Term,   \* resource ids, by type
  Key,             \* values of the fields always managed
  Soft,            \* values of the fields a configuration may leave unmanaged
  Unmanaged,       \* such a field is not configured
  Unset,           \* the remote resource has no such field
  NoLink,          \* no parentId; a domain has no domain, a product no parent
  Missing,         \* not in the remote state
  Uninterpreted,   \* in the remote state, but not understood
  Absent,          \* not in the configuration
  None,
  MaxDomains,      \* MAX_BUSINESS_DOMAINS
  MaxDepth,        \* MAX_HIERARCHY_DEPTH
  Inputs           \* what a planner may be called with

Id == Domain \union Product \union Term
Type == {"businessDomain", "dataProduct", "glossaryTerm"}
TypeOf(id) ==
  IF id \in Domain THEN "businessDomain"
  ELSE IF id \in Product THEN "dataProduct" ELSE "glossaryTerm"

Link == Id \union {NoLink}

Desired == [key : Key, soft : Soft \union {Unmanaged}, domain : Link, parent : Link]

(* "locked" is a PUBLISHED or EXPIRED status, "unsupported" a field the tool *)
(* would have to manage and cannot.                                          *)
Remote == [key : Key, soft : Soft \union {Unset}, domain : Link, parent : Link,
           locked : BOOLEAN, unsupported : BOOLEAN]

(* Where the links of a resource may point.  The code looks an id up among those *)
(* of the wanted type: one of another type is to it an id that is nowhere.       *)
DomainLinks(id) == IF id \in Domain THEN {NoLink} ELSE Domain
ParentLinks(id) ==
  {NoLink} \union {p \in Domain \union Term : TypeOf(p) = TypeOf(id)}

Linked(id, r) == r.domain \in DomainLinks(id) /\ r.parent \in ParentLinks(id)

(* "strays" counts uninterpreted domains without a readable id. *)
Input ==
  {i \in [desired : [Id -> Desired \union {Absent}],
          remote : [Id -> Remote \union {Missing, Uninterpreted}],
          scope : SUBSET Type, strays : Nat, sameTenant : BOOLEAN] :
     \A id \in Id :
       /\ i.desired[id] # Absent => Linked(id, i.desired[id])
       /\ i.remote[id] \notin {Missing, Uninterpreted} => Linked(id, i.remote[id])}

ASSUME IdAssumption ==
  /\ Id \subseteq Nat /\ IsFiniteSet(Id)
  /\ Domain \intersect Product = {} /\ Domain \intersect Term = {}
  /\ Product \intersect Term = {}

ASSUME MarkerAssumption ==
  /\ NoLink \notin Id /\ Absent \notin Desired
  /\ {Missing, Uninterpreted} \intersect (Desired \union Remote) = {} /\ Missing # Uninterpreted
  /\ None \notin {"plan.business_domain_count_exceeded", "plan.hierarchy_ambiguous",
                  "plan.hierarchy_cycle", "plan.hierarchy_depth_exceeded"}

ASSUME LimitAssumption == MaxDomains \in Nat /\ MaxDepth \in Nat

ASSUME InputAssumption == Inputs \subseteq Input

VARIABLES
  input,       \* the configuration and the remote state
  pc,          \* where the builder is
  changes,     \* the change set: an outcome for every id
  section,     \* the part of the operations being written
  remaining,   \* ids this pass over the section has still to visit
  later,       \* ids it has put off
  progressed,  \* whether it has placed any
  ops,         \* the operations
  failure      \* the code of the error raised

inputVars == <<input, failure>>
orderVars == <<section, remaining, later, progressed, ops>>
plannerVars == <<input, pc, changes, orderVars, failure>>

-----------------------------------------------------------------------------
desired == input.desired
remote == input.remote
Configured(id) == desired[id] # Absent
Interpreted(id) == remote[id] \notin {Missing, Uninterpreted}

(* The ids met going up from x by the parent map "up"; NoLink above the top. *)
Climb(up, x) ==
  LET climb[n \in Nat] ==
        IF n = 0 THEN x
        ELSE LET below == climb[n - 1] IN
             IF below \in DOMAIN up THEN up[below] ELSE NoLink
  IN climb

ReachesTop(up, x, steps) == \E n \in 1..steps : Climb(up, x)[n] = NoLink
Cyclic(up) == \E x \in DOMAIN up : ~ReachesTop(up, x, Cardinality(DOMAIN up) + 1)

-----------------------------------------------------------------------------
(* The configuration is validated again before planning.  Parents that are not *)
(* configured end a climb here.                                                *)

Within(ids) ==
  [id \in {i \in ids : Configured(i)} |->
     LET parent == desired[id].parent IN
     IF parent \in ids /\ Configured(parent) THEN parent ELSE NoLink]

ValidConfiguration ==
  /\ \A d \in DOMAIN Within(Domain) : ReachesTop(Within(Domain), d, MaxDepth)
  /\ ~Cyclic(Within(Domain)) /\ ~Cyclic(Within(Term))
  /\ \A d, e \in DOMAIN Within(Domain) : d # e => desired[d].key # desired[e].key
  /\ Cardinality(DOMAIN Within(Domain)) <= MaxDomains
  /\ \A t \in DOMAIN Within(Term) :
       Within(Term)[t] # NoLink => desired[t].domain = desired[Within(Term)[t]].domain

-----------------------------------------------------------------------------
(* The diff: an outcome for every configured or remote resource. *)

Acting == {"create", "replace"}
Outcome == Acting \union {"none", "no-op", "remote-only", "blocked"}

(* Mutant: what the configuration does not manage is compared like the rest. *)
SoftDiffersAlways(id) == desired[id].soft # remote[id].soft

(* An unmanaged field of a domain or a term is not compared; of a data product *)
(* it is compared with "not set".                                              *)
SoftDiffers(id) ==
  IF desired[id].soft = Unmanaged THEN id \in Product /\ remote[id].soft # Unset
                                  ELSE desired[id].soft # remote[id].soft

Moved(id) == desired[id].domain # remote[id].domain

Changed(id) ==
  \/ desired[id].key # remote[id].key \/ SoftDiffers(id)
  \/ Moved(id) \/ desired[id].parent # remote[id].parent

(* _compare_matched: a replace that moves a product or a term to another domain, *)
(* or meets a status it must not touch, is blocked.                              *)
Irreplaceable(id) ==
  \/ remote[id].unsupported
  \/ Changed(id) /\ id \notin Domain /\ (Moved(id) \/ remote[id].locked)

Matched(id) ==
  IF Irreplaceable(id) THEN "blocked" ELSE IF Changed(id) THEN "replace" ELSE "no-op"

NameTaken(id) ==
  id \in Domain /\ \E d \in Domain : Interpreted(d) /\ remote[d].key = desired[id].key

Diff(id) ==
  CASE remote[id] = Uninterpreted                  -> "blocked"
    [] remote[id] = Missing /\ ~Configured(id)     -> "none"
    [] remote[id] = Missing /\ Configured(id)      ->
         IF NameTaken(id) THEN "blocked" ELSE "create"
    [] Interpreted(id) /\ ~Configured(id)          -> "remote-only"
    [] OTHER                                       -> Matched(id)

(* Changes of a type the capture did not enumerate are blocked. *)
Captured(id) == TypeOf(id) \in input.scope \union {"businessDomain"}

Compared(id) == IF Diff(id) \in Acting /\ ~Captured(id) THEN "blocked" ELSE Diff(id)

Fail(code) ==
  /\ pc' = "failed" /\ failure' = code
  /\ UNCHANGED <<input, changes, orderVars>>

RejectConfiguration ==
  /\ pc = "start" /\ ~ValidConfiguration
  /\ Fail("plan.invalid_configuration_input")

RejectTarget ==
  /\ pc = "start" /\ ValidConfiguration /\ ~input.sameTenant
  /\ Fail("plan.target_mismatch")

Compare ==
  /\ pc = "start" /\ ValidConfiguration /\ input.sameTenant
  /\ changes' = [id \in Id |-> Compared(id)]
  /\ pc' = "dependencies"
  /\ UNCHANGED <<inputVars, orderVars>>

-----------------------------------------------------------------------------
(* Dependencies: a product or a term needs its domain, a term its parent. *)

(* Mutant: whatever is not uninterpreted will do as a domain. *)
AvailableUnlessUninterpreted(id) == remote[id] # Uninterpreted

(* _resolve_domain, _resolve_glossary_term_parent: satisfied or about to be. *)
Available(id) == Interpreted(id) \/ changes[id] = "create"

(* The terms as they will be, with their parents and domains. *)
ResultingTerms == {t \in Term : Configured(t) \/ Interpreted(t)}
Resulting(t) == IF Configured(t) THEN desired[t] ELSE remote[t]
TermParent == [t \in ResultingTerms |-> Resulting(t).parent]

(* Mutant: only the parent itself is looked at. *)
SoundParent(t) ==
  LET parent == desired[t].parent IN
  parent # NoLink => parent \in ResultingTerms /\ Resulting(parent).domain = desired[t].domain

(* _validate_desired_term_hierarchy: up to the root, through known terms of one domain. *)
SoundAncestry(t) ==
  \E n \in 1..Cardinality(ResultingTerms) + 1 :
    /\ Climb(TermParent, t)[n] = NoLink
    /\ \A i \in 0..(n - 1) : Climb(TermParent, t)[i] \in ResultingTerms
    /\ \A i \in 0..(n - 1) :
         Resulting(Climb(TermParent, t)[i]).domain = desired[t].domain

(* Mutant: only what is created must find its parent. *)
DependenciesHoldForCreates(id) ==
  /\ id \notin Domain => Available(desired[id].domain)
  /\ id \in Term /\ changes[id] = "create" =>
       /\ desired[id].parent # NoLink => Available(desired[id].parent)
       /\ SoundAncestry(id)

DependenciesHold(id) ==
  /\ id \notin Domain => Available(desired[id].domain)
  /\ id \in Term =>
       /\ desired[id].parent # NoLink => Available(desired[id].parent)
       /\ SoundAncestry(id)

EnforceDependencies ==
  /\ pc = "dependencies"
  /\ changes' = [id \in Id |-> IF changes[id] \in Acting /\ ~DependenciesHold(id)
                               THEN "blocked" ELSE changes[id]]
  /\ pc' = "limits"
  /\ UNCHANGED <<inputVars, orderVars>>

-----------------------------------------------------------------------------
(* The limits of the resulting domain hierarchy. *)

Known(d) == Configured(d) \/ remote[d] # Missing
KnownDomains == {d \in Domain : Known(d)}
DomainParent ==
  [d \in {e \in Domain : Configured(e) \/ Interpreted(e)} |->
     IF Configured(d) THEN desired[d].parent ELSE remote[d].parent]

TooDeep == \E d \in DOMAIN DomainParent : ~ReachesTop(DomainParent, d, MaxDepth)
Orphaned ==
  \E d \in DOMAIN DomainParent : DomainParent[d] \notin KnownDomains \union {NoLink}
CountExceeded ==
  Cardinality({d \in Domain : remote[d] # Missing}) + input.strays
    + Cardinality({d \in Domain : changes[d] = "create"}) > MaxDomains

(* The first limit that is exceeded, None if none is. *)
LimitFailure ==
  CASE CountExceeded                                           -> "plan.business_domain_count_exceeded"
    [] ~CountExceeded /\ Orphaned                              -> "plan.hierarchy_ambiguous"
    [] ~CountExceeded /\ ~Orphaned /\ Cyclic(DomainParent)     -> "plan.hierarchy_cycle"
    [] ~CountExceeded /\ ~Orphaned /\ ~Cyclic(DomainParent) /\ TooDeep
                                                               -> "plan.hierarchy_depth_exceeded"
    [] OTHER                                                   -> None

ExceedLimit ==
  /\ pc = "limits" /\ LimitFailure # None
  /\ Fail(LimitFailure)

-----------------------------------------------------------------------------
(* The operations: by type, creates before replaces, each part by id, except *)
(* that creates are visited repeatedly until each follows its parent.        *)

Section(type, action) == [type |-> type, action |-> action]
Sections ==
  <<Section("businessDomain", "create"), Section("businessDomain", "replace"),
    Section("dataProduct", "create"), Section("dataProduct", "replace"),
    Section("glossaryTerm", "create"), Section("glossaryTerm", "replace")>>

Members(n) ==
  {id \in Id : TypeOf(id) = Sections[n].type /\ changes[id] = Sections[n].action}

Placed == {ops[i].id : i \in DOMAIN ops}

(* Mutant: a parent that is configured is taken for placed. *)
CanPlaceConfigured(id) ==
  desired[id].parent \in Members(section) => Configured(desired[id].parent)

(* Mutant: a parent must have been created by this plan. *)
CanPlaceCreated(id) == desired[id].parent # NoLink => desired[id].parent \in Placed

CanPlace(id) == desired[id].parent \in Members(section) => desired[id].parent \in Placed

StartOrder ==
  /\ pc = "limits" /\ LimitFailure = None
  /\ pc' = "order"
  /\ section' = 1 /\ remaining' = Members(1)
  /\ UNCHANGED <<inputVars, changes, later, progressed, ops>>

Visiting(id) ==
  /\ pc = "order" /\ id \in remaining
  /\ \A other \in remaining : id <= other

Place(id) ==
  /\ Visiting(id)
  /\ Sections[section].action = "create" => CanPlace(id)
  /\ ops' = Append(ops, [id |-> id, action |-> Sections[section].action])
  /\ remaining' = remaining \ {id}
  /\ progressed' = TRUE
  /\ UNCHANGED <<inputVars, pc, changes, section, later>>

PutOff(id) ==
  /\ Visiting(id)
  /\ Sections[section].action = "create" /\ ~CanPlace(id)
  /\ remaining' = remaining \ {id}
  /\ later' = later \union {id}
  /\ UNCHANGED <<inputVars, pc, changes, section, progressed, ops>>

NextPass ==
  /\ pc = "order" /\ remaining = {} /\ later # {}
  /\ IF progressed
     THEN /\ remaining' = later /\ later' = {} /\ progressed' = FALSE
          /\ UNCHANGED <<inputVars, pc, changes, section, ops>>
     ELSE Fail("plan.hierarchy_cycle")

NextSection ==
  /\ pc = "order" /\ remaining = {} /\ later = {} /\ section < Len(Sections)
  /\ section' = section + 1 /\ remaining' = Members(section + 1) /\ progressed' = FALSE
  /\ UNCHANGED <<inputVars, pc, changes, later, ops>>

FinishOrder ==
  /\ pc = "order" /\ remaining = {} /\ later = {} /\ section = Len(Sections)
  /\ pc' = "check"
  /\ UNCHANGED <<inputVars, changes, orderVars>>

-----------------------------------------------------------------------------
(* The finished document must pass validate_plan_document_semantics_v3: the   *)
(* operations are those of the change set, sorted by type, action and id, and *)
(* in the order the validator derives anew.  Sorted operations agree with it  *)
(* exactly when no create precedes the create of its parent.                  *)

SectionOf(op) ==
  CHOOSE n \in DOMAIN Sections : Sections[n] = Section(TypeOf(op.id), op.action)

InOrder(a, b) ==
  \/ SectionOf(a) < SectionOf(b)
  \/ SectionOf(a) = SectionOf(b) /\ a.id <= b.id

Sorted == \A i, j \in DOMAIN ops : i < j => InOrder(ops[i], ops[j])

ParentsFirst ==
  \A j \in DOMAIN ops :
    LET parent == desired[ops[j].id].parent IN
    ops[j].action = "create" /\ parent \in Id /\ changes[parent] = "create" =>
      \E i \in 1..(j - 1) : ops[i].id = parent

Mapped ==
  /\ {ops[i] : i \in DOMAIN ops} =
       {[id |-> id, action |-> changes[id]] : id \in {i \in Id : changes[i] \in Acting}}
  /\ Len(ops) = Cardinality(Placed)

WellFormed == Sorted /\ Mapped /\ ParentsFirst

Finish ==
  /\ pc = "check"
  /\ IF WellFormed
     THEN pc' = "planned" /\ UNCHANGED <<inputVars, changes, orderVars>>
     ELSE Fail("plan.invalid_schema")

Eligible == \A id \in Id : changes[id] # "blocked"

-----------------------------------------------------------------------------
Unplanned == [id \in Id |-> "none"]

PlannerInit ==
  /\ input \in Inputs
  /\ pc = "start" /\ failure = None
  /\ changes = Unplanned
  /\ section = 0 /\ remaining = {} /\ later = {} /\ progressed = FALSE /\ ops = <<>>

PlannerNext ==
  \/ RejectConfiguration \/ RejectTarget \/ Compare
  \/ EnforceDependencies
  \/ ExceedLimit \/ StartOrder
  \/ \E id \in Id : Place(id) \/ PutOff(id)
  \/ NextPass \/ NextSection \/ FinishOrder
  \/ Finish

PlannerSpec == PlannerInit /\ [][PlannerNext]_plannerVars

-----------------------------------------------------------------------------
(* Properties. *)

Operation == [id : Id, action : Acting]
Failures ==
  {None, "plan.invalid_configuration_input", "plan.target_mismatch",
   "plan.business_domain_count_exceeded", "plan.hierarchy_ambiguous",
   "plan.hierarchy_cycle", "plan.hierarchy_depth_exceeded", "plan.invalid_schema"}

(* The type invariant. *)
PlannerTypeOK ==
  /\ input \in Input
  /\ pc \in {"start", "dependencies", "limits", "order", "check", "planned", "failed"}
  /\ changes \in [Id -> Outcome]
  /\ section \in 0..6
  /\ remaining \subseteq Id /\ later \subseteq Id /\ progressed \in BOOLEAN
  /\ ops \in Seq(Operation)
  /\ failure \in Failures

(* The passes of _topological_create_order never emit a create before the create *)
(* of its parent, whatever the ids and the number of passes.                     *)
ParentsPlacedFirst == ParentsFirst

(* A validated configuration cannot bring the ordering to a pass that places *)
(* nothing: its "parent cycle" error is unreachable.                         *)
OrderingNeverStuck == failure = "plan.hierarchy_cycle" => section = 0

(* A resource an operation links to exists remotely or is created earlier. *)
ResolvedAt(link, i) ==
  \/ link = NoLink
  \/ link \in Id /\ remote[link] # Missing
  \/ \E j \in 1..(i - 1) : ops[j] = [id |-> link, action |-> "create"]

(* Carried out in order, a ready plan never writes a reference to a resource *)
(* that is not there yet, and so none after any of its prefixes either.      *)
PlansResolveInOrder ==
  pc = "planned" /\ Eligible =>
    \A i \in DOMAIN ops :
      /\ ResolvedAt(desired[ops[i].id].domain, i)
      /\ ResolvedAt(desired[ops[i].id].parent, i)

(* What the catalog holds once the operations have been carried out. *)
After(id) == IF id \in Placed THEN desired[id] ELSE remote[id]
ParentsAfter(ids) ==
  [id \in {i \in ids : After(i) \notin {Missing, Uninterpreted}} |-> After(id).parent]

(* A ready plan leaves trees behind: every parent is there, the domains are no deeper *)
(* and no more than the limits, and a written term has ancestors of its own domain    *)
(* only, whether they are configured, only remote, or created by the same plan.       *)
PlansKeepHierarchy ==
  pc = "planned" /\ Eligible =>
    /\ \A d \in Domain : After(d) # Missing => ReachesTop(ParentsAfter(Domain), d, MaxDepth)
    /\ \A d \in DOMAIN ParentsAfter(Domain) :
         After(d).parent # NoLink => After(After(d).parent) # Missing
    /\ Cardinality({d \in Domain : After(d) # Missing}) + input.strays <= MaxDomains
    /\ \A t \in Placed \intersect Term :
         /\ ReachesTop(ParentsAfter(Term), t, Cardinality(Term))
         /\ \A n \in 0..Cardinality(Term) :
              LET above == Climb(ParentsAfter(Term), t)[n] IN
              above # NoLink => /\ above \in DOMAIN ParentsAfter(Term)
                                /\ After(above).domain = After(t).domain

(* The documented order of writes, "parent before child", can be planned for every *)
(* valid configuration: no plan is lost to the builder's own validation.           *)
PlansPassTheirOwnValidation == failure # "plan.invalid_schema"
=============================================================================
