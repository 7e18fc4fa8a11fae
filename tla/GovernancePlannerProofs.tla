------------------------ MODULE GovernancePlannerProofs ------------------------
(***************************************************************************)
(* Theorems about the planner, for every set of ids, every limit and every *)
(* input: its type invariant, that no create precedes the create of its    *)
(* parent, that its ordering always ends, and that a ready plan, carried   *)
(* out in order, never refers to what is not there and leaves trees.       *)
(***************************************************************************)
EXTENDS GovernancePlanner, FiniteSetTheorems, SequenceTheorems, WellFoundedInduction, TLAPS

-----------------------------------------------------------------------------
(* Climbing along parents. *)

(* Every set of natural numbers that is not empty has a least element. *)
LEMMA LeastNatural ==
  ASSUME NEW S, S \subseteq Nat, S # {}
  PROVE  \E x \in S : \A y \in S : x <= y
<1> DEFINE R == {p \in Nat \X Nat : p[1] < p[2]}
<1>1. IsWellFoundedOn(R, Nat)
  BY NatLessThanWellFounded DEF OpToRel
<1> HIDE DEF R
<1>2. PICK x \in S : \A y \in S : ~(<<y, x>> \in R)
  BY <1>1, WFMin
<1>3. ASSUME NEW y \in S PROVE x <= y
  <2>1. <<y, x>> \in Nat \X Nat
    OBVIOUS
  <2>2. ~(<<y, x>>[1] < <<y, x>>[2])
    BY <1>2, <2>1 DEF R
  <2> QED BY <2>2
<1> QED BY <1>3

(* A set of natural numbers that holds zero and with each number the next holds all. *)
LEMMA AllNaturals ==
  ASSUME NEW S, 0 \in S, \A n \in Nat : n \in S => n + 1 \in S
  PROVE  Nat \subseteq S
<1> SUFFICES ASSUME Nat \ S # {} PROVE FALSE
  OBVIOUS
<1>1. PICK n \in Nat \ S : \A m \in Nat \ S : n <= m
  BY LeastNatural
<1>2. n # 0 /\ n - 1 \in Nat
  BY <1>1
<1>3. n - 1 \in S
  BY <1>1, <1>2
<1> QED BY <1>1, <1>2, <1>3

(* A climb starts where it is told to and goes up step by step. *)
LEMMA ClimbFacts ==
  ASSUME NEW up, NEW x
  PROVE  /\ Climb(up, x)[0] = x
         /\ \A n \in Nat :
              Climb(up, x)[n + 1] =
                IF Climb(up, x)[n] \in DOMAIN up THEN up[Climb(up, x)[n]] ELSE NoLink
<1> DEFINE V == {x, NoLink} \union {up[y] : y \in DOMAIN up}
           Above(v) == IF v \in DOMAIN up THEN up[v] ELSE NoLink
           Climbs(g, n) == /\ g \in [0..n -> V] /\ g[0] = x
                           /\ \A i \in 1..n : g[i] = Above(g[i - 1])
           S == {n \in Nat : \E g : Climbs(g, n)}
<1>1. \A v : Above(v) \in V
  OBVIOUS
<1>2. x \in V
  OBVIOUS
<1> HIDE DEF V, Above
<1>3. 0 \in S
  <2>1. Climbs([i \in 0..0 |-> x], 0)
    BY <1>2
  <2> QED BY <2>1
<1>4. ASSUME NEW n \in Nat, n \in S PROVE n + 1 \in S
  <2>1. PICK g : Climbs(g, n)
    BY <1>4
  <2> DEFINE h == [i \in 0..(n + 1) |-> IF i \in 0..n THEN g[i] ELSE Above(g[n])]
  <2>2. Climbs(h, n + 1)
    <3>1. h \in [0..(n + 1) -> V] /\ h[0] = x
      BY <1>1, <2>1
    <3>2. ASSUME NEW i \in 1..(n + 1) PROVE h[i] = Above(h[i - 1])
      BY <2>1, <3>2
    <3> QED BY <3>1, <3>2
  <2> HIDE DEF Climbs, h
  <2> QED BY <2>2
<1>5. \A n \in Nat : \E g : Climbs(g, n)
  <2> HIDE DEF Climbs
  <2>1. Nat \subseteq S
    <3> HIDE DEF S
    <3> QED BY <1>3, <1>4, AllNaturals
  <2> QED BY <2>1
<1>6. ASSUME NEW n \in Nat, NEW m \in Nat, NEW g, NEW h, Climbs(g, n), Climbs(h, m)
      PROVE  \A i \in Nat : i <= n /\ i <= m => g[i] = h[i]
  <2> DEFINE T == {i \in Nat : i <= n /\ i <= m => g[i] = h[i]}
  <2>1. 0 \in T
    BY <1>6
  <2>2. ASSUME NEW i \in Nat, i \in T PROVE i + 1 \in T
    <3> SUFFICES ASSUME i + 1 <= n, i + 1 <= m PROVE g[i + 1] = h[i + 1]
      OBVIOUS
    <3>1. i + 1 \in 1..n /\ i + 1 \in 1..m /\ (i + 1) - 1 = i
      OBVIOUS
    <3>2. g[i + 1] = Above(g[i]) /\ h[i + 1] = Above(h[i])
      BY <1>6, <3>1
    <3> QED BY <2>2, <3>2
  <2>3. Nat \subseteq T
    <3> HIDE DEF T
    <3> QED BY <2>1, <2>2, AllNaturals
  <2> QED BY <2>3
<1> DEFINE Of(n) == CHOOSE g : Climbs(g, n)
           f == [n \in Nat |-> Of(n)[n]]
<1>7. ASSUME NEW n \in Nat PROVE Climbs(Of(n), n)
  <2> HIDE DEF Climbs
  <2> QED BY <1>5
<1>8. f[0] = x
  <2>1. Climbs(Of(0), 0)
    BY <1>7
  <2>2. Of(0)[0] = x
    <3> HIDE DEF Of
    <3> QED BY <2>1
  <2> QED BY <2>2
<1>9. ASSUME NEW n \in Nat PROVE f[n + 1] = Above(f[n])
  <2> HIDE DEF Of, Climbs
  <2>1. Climbs(Of(n), n) /\ Climbs(Of(n + 1), n + 1)
    BY <1>7
  <2>2. f[n] = Of(n)[n] /\ f[n + 1] = Of(n + 1)[n + 1]
    OBVIOUS
  <2> HIDE DEF f
  <2>3. Of(n + 1)[n] = Of(n)[n]
    BY <1>6, <2>1
  <2>4. n + 1 \in 1..(n + 1) /\ (n + 1) - 1 = n
    OBVIOUS
  <2>5. Of(n + 1)[n + 1] = Above(Of(n + 1)[n])
    BY <2>1, <2>4 DEF Climbs
  <2> QED BY <2>2, <2>3, <2>5
<1>10. f = [n \in Nat |-> IF n = 0 THEN x ELSE Above(f[n - 1])]
  <2>1. DOMAIN f = Nat /\ f = [n \in Nat |-> f[n]]
    OBVIOUS
  <2> HIDE DEF f
  <2>2. ASSUME NEW n \in Nat PROVE f[n] = IF n = 0 THEN x ELSE Above(f[n - 1])
    <3>1. CASE n = 0
      BY <1>8, <3>1
    <3>2. CASE n # 0
      <4>1. n - 1 \in Nat /\ (n - 1) + 1 = n
        BY <3>2
      <4> QED BY <1>9, <3>2, <4>1
    <3> QED BY <3>1, <3>2
  <2> QED BY <2>1, <2>2
<1> HIDE DEF f
<1> DEFINE c == Climb(up, x)
<1>11. c = [n \in Nat |-> IF n = 0 THEN x ELSE Above(c[n - 1])]
  BY <1>10 DEF Climb, Above
<1> HIDE DEF c
<1>12. c[0] = x
  BY <1>11
<1>13. ASSUME NEW n \in Nat PROVE c[n + 1] = Above(c[n])
  BY <1>11
<1> QED BY <1>12, <1>13 DEF c, Above

-----------------------------------------------------------------------------
(* The inductive invariant, in parts. *)

Unstarted == pc \in {"start", "dependencies", "limits"} => ops = <<>> /\ later = {}

Underway ==
  pc = "order" =>
    section \in 1..6 /\ remaining \subseteq Members(section) /\ later \subseteq Members(section)

(* A missing resource that is configured was not overlooked by the diff. *)
Grounded ==
  pc \notin {"start", "failed"} =>
    \A id \in Id :
      /\ changes[id] \in Acting => Configured(id)
      /\ Configured(id) /\ remote[id] = Missing => changes[id] \in {"create", "blocked"}

(* What an operation links to, unless it was blocked itself after the test. *)
Reliable(id) == id \in Id /\ (remote[id] # Missing \/ changes[id] \in {"create", "blocked"})

Supported ==
  pc \notin {"start", "dependencies", "failed"} =>
    \A id \in Id : changes[id] \in Acting =>
      /\ id \notin Domain => Reliable(desired[id].domain)
      /\ id \in Term /\ desired[id].parent # NoLink => Reliable(desired[id].parent)

ParentsKnown == pc \in {"order", "check", "planned"} => ~Orphaned

Checked == pc = "planned" => WellFormed

PlannerInv ==
  /\ PlannerTypeOK
  /\ Unstarted /\ Underway
  /\ ParentsFirst
  /\ Grounded /\ Supported /\ ParentsKnown /\ Checked

-----------------------------------------------------------------------------
(* What the input is made of. *)

(* A configured resource is well formed and links to ids of the right type. *)
LEMMA DesiredFacts ==
  ASSUME input \in Input, NEW id \in Id, Configured(id)
  PROVE  desired[id] \in Desired /\ Linked(id, desired[id])
<1>1. desired \in [Id -> Desired \union {Absent}]
  BY DEF Input, desired
<1>2. QED
  BY <1>1 DEF Input, desired, Configured

(* Every parent has the type of its child, and a product has none. *)
LEMMA ParentFacts ==
  ASSUME NEW id \in Id, NEW parent \in ParentLinks(id), parent # NoLink
  PROVE  /\ parent \in Id /\ TypeOf(parent) = TypeOf(id)
         /\ id \notin Product
         /\ id \in Domain => parent \in Domain
  BY IdAssumption DEF ParentLinks, Id, TypeOf

-----------------------------------------------------------------------------
(* The operators of the planner. *)

(* The outcome of a comparison. *)
LEMMA ComparedFacts ==
  ASSUME input \in Input, NEW id \in Id
  PROVE  /\ Compared(id) \in Outcome
         /\ Compared(id) \in Acting => Configured(id)
         /\ Configured(id) /\ remote[id] = Missing => Compared(id) \in {"create", "blocked"}
<1>1. /\ Matched(id) \in {"blocked", "replace", "no-op"}
  BY DEF Matched
<1>2. CASE remote[id] = Uninterpreted
  <2>1. Diff(id) = "blocked"
    BY <1>2, MarkerAssumption DEF Diff, Interpreted
  <2>2. QED
    BY <1>2, <2>1, MarkerAssumption DEF Compared, Outcome, Acting
<1>3. CASE remote[id] = Missing
  <2>1. CASE Configured(id)
    <3>1. Diff(id) \in {"create", "blocked"}
      BY <1>3, <2>1, MarkerAssumption DEF Diff, Interpreted
    <3>2. QED
      BY <1>3, <2>1, <3>1 DEF Compared, Outcome, Acting
  <2>2. CASE ~Configured(id)
    <3>1. Diff(id) = "none"
      BY <1>3, <2>2, MarkerAssumption DEF Diff, Interpreted
    <3>2. QED
      BY <1>3, <2>2, <3>1 DEF Compared, Outcome, Acting
  <2>3. QED
    BY <2>1, <2>2
<1>4. CASE Interpreted(id)
  <2>1. CASE Configured(id)
    <3>1. Diff(id) = Matched(id)
      BY <1>4, <2>1 DEF Diff, Interpreted
    <3>2. QED
      BY <1>1, <1>4, <2>1, <3>1 DEF Compared, Outcome, Acting, Interpreted
  <2>2. CASE ~Configured(id)
    <3>1. Diff(id) = "remote-only"
      BY <1>4, <2>2 DEF Diff, Interpreted
    <3>2. QED
      BY <1>4, <2>2, <3>1 DEF Compared, Outcome, Acting, Interpreted
  <2>3. QED
    BY <2>1, <2>2
<1>5. QED
  BY <1>2, <1>3, <1>4 DEF Interpreted

(* Only a hierarchy without dangling parents passes the limits. *)
LEMMA LimitFacts ==
  /\ LimitFailure \in Failures
  /\ LimitFailure = None => ~Orphaned
<1>1. CASE CountExceeded
  BY <1>1, MarkerAssumption DEF LimitFailure, Failures
<1>2. CASE ~CountExceeded /\ Orphaned
  BY <1>2, MarkerAssumption DEF LimitFailure, Failures
<1>3. CASE ~CountExceeded /\ ~Orphaned
  BY <1>3 DEF LimitFailure, Failures
<1>4. QED
  BY <1>1, <1>2, <1>3

(* The sections of the operations. *)
LEMMA SectionFacts ==
  /\ Len(Sections) = 6
  /\ \A n \in 1..6 : /\ Sections[n].action = IF n \in {1, 3, 5} THEN "create" ELSE "replace"
                     /\ Sections[n].type = IF n \in {1, 2} THEN "businessDomain"
                                           ELSE IF n \in {3, 4} THEN "dataProduct"
                                           ELSE "glossaryTerm"
  BY DEF Sections, Section

(* The section of an operation: by type, creates first. *)
LEMMA SectionOfFacts ==
  ASSUME NEW op \in Operation
  PROVE  SectionOf(op) =
           (IF op.id \in Domain THEN 1 ELSE IF op.id \in Product THEN 3 ELSE 5)
             + (IF op.action = "create" THEN 0 ELSE 1)
<1> DEFINE N == (IF op.id \in Domain THEN 1 ELSE IF op.id \in Product THEN 3 ELSE 5)
                  + (IF op.action = "create" THEN 0 ELSE 1)
<1>1. op.action \in {"create", "replace"} /\ DOMAIN Sections = 1..6
  BY DEF Operation, Acting, Sections
<1>2. N \in 1..6
  OBVIOUS
<1>3. Sections[N] = Section(TypeOf(op.id), op.action)
  BY <1>1 DEF Sections, Section, TypeOf
<1>4. ASSUME NEW n \in 1..6, Sections[n] = Section(TypeOf(op.id), op.action)
      PROVE  n = N
  <2>1. Sections[n].type = TypeOf(op.id) /\ Sections[n].action = op.action
    BY <1>4 DEF Section
  <2>2. QED
    BY <1>1, <2>1, SectionFacts DEF TypeOf
<1>5. QED
  BY <1>1, <1>2, <1>3, <1>4 DEF SectionOf
-----------------------------------------------------------------------------
(* The type invariant. *)

LEMMA TypeInit == PlannerInit => PlannerTypeOK
<1> SUFFICES ASSUME PlannerInit PROVE PlannerTypeOK
  OBVIOUS
<1>1. input \in Input
  BY InputAssumption DEF PlannerInit
<1>2. changes \in [Id -> Outcome]
  BY DEF PlannerInit, Unplanned, Outcome
<1>3. ops \in Seq(Operation)
  BY DEF PlannerInit
<1>4. failure \in Failures /\ section \in 0..6
  <2>1. failure = None /\ section = 0
    BY DEF PlannerInit
  <2>2. QED
    BY <2>1 DEF Failures
<1>5. remaining \subseteq Id /\ later \subseteq Id
  BY DEF PlannerInit
<1>6. progressed \in BOOLEAN
  BY Zenon DEF PlannerInit
<1>7. QED
  BY <1>1, <1>2, <1>3, <1>4, <1>5, <1>6 DEF PlannerInit, PlannerTypeOK

LEMMA TypeStep == PlannerTypeOK /\ Underway /\ [PlannerNext]_plannerVars => PlannerTypeOK'
<1> SUFFICES ASSUME PlannerTypeOK, Underway, [PlannerNext]_plannerVars PROVE PlannerTypeOK'
  OBVIOUS
<1> USE DEF inputVars, orderVars
<1>1. CASE RejectConfiguration
  BY <1>1 DEF RejectConfiguration, Fail, PlannerTypeOK, Failures
<1>2. CASE RejectTarget
  BY <1>2 DEF RejectTarget, Fail, PlannerTypeOK, Failures
<1>3. CASE Compare
  <2>1. changes' \in [Id -> Outcome]
    <3>1. \A id \in Id : Compared(id) \in Outcome
      BY ComparedFacts DEF PlannerTypeOK
    <3>2. QED
      BY <1>3, <3>1 DEF Compare
  <2>2. QED
    BY <1>3, <2>1 DEF Compare, PlannerTypeOK
<1>4. CASE EnforceDependencies
  <2>1. changes' \in [Id -> Outcome]
    BY <1>4 DEF EnforceDependencies, PlannerTypeOK, Outcome
  <2>2. QED
    BY <1>4, <2>1 DEF EnforceDependencies, PlannerTypeOK
<1>5. CASE ExceedLimit
  BY <1>5, LimitFacts DEF ExceedLimit, Fail, PlannerTypeOK
<1>6. CASE StartOrder
  BY <1>6 DEF StartOrder, Members, PlannerTypeOK
<1>7. ASSUME NEW id \in Id, Place(id) PROVE PlannerTypeOK'
  <2>1. section \in 1..6
    BY <1>7 DEF Place, Visiting, Underway
  <2>2. Sections[section].action \in Acting
    BY <2>1, SectionFacts DEF Acting
  <2>3. [id |-> id, action |-> Sections[section].action] \in Operation
    BY <2>2 DEF Operation
  <2>4. ops' \in Seq(Operation)
    BY <1>7, <2>3, AppendProperties DEF Place, PlannerTypeOK
  <2>5. QED
    BY <1>7, <2>4 DEF Place, PlannerTypeOK
<1>8. ASSUME NEW id \in Id, PutOff(id) PROVE PlannerTypeOK'
  BY <1>8 DEF PutOff, PlannerTypeOK
<1>9. CASE NextPass
  BY <1>9 DEF NextPass, Fail, PlannerTypeOK, Failures
<1>10. CASE NextSection
  <2>1. section + 1 \in 0..6
    BY <1>10, SectionFacts DEF NextSection, PlannerTypeOK
  <2>2. QED
    BY <1>10, <2>1 DEF NextSection, Members, PlannerTypeOK
<1>11. CASE FinishOrder
  BY <1>11 DEF FinishOrder, PlannerTypeOK
<1>12. CASE Finish
  BY <1>12 DEF Finish, Fail, PlannerTypeOK, Failures
<1>13. CASE UNCHANGED plannerVars
  BY <1>13 DEF plannerVars, PlannerTypeOK
<1>14. QED
  BY <1>1, <1>2, <1>3, <1>4, <1>5, <1>6, <1>7, <1>8, <1>9, <1>10, <1>11, <1>12, <1>13
  DEF PlannerNext

-----------------------------------------------------------------------------
(* The order of the operations. *)

(* Nothing is written before the order is begun, and a section stays within its members. *)
LEMMA OrderStep ==
  PlannerTypeOK /\ Unstarted /\ Underway /\ [PlannerNext]_plannerVars => Unstarted' /\ Underway'
<1> SUFFICES ASSUME PlannerTypeOK, Unstarted, Underway, [PlannerNext]_plannerVars
             PROVE  Unstarted' /\ Underway'
  OBVIOUS
<1> USE DEF inputVars, orderVars
<1>1. CASE RejectConfiguration \/ RejectTarget \/ ExceedLimit
  BY <1>1 DEF RejectConfiguration, RejectTarget, ExceedLimit, Fail, Unstarted, Underway
<1>2. CASE Compare \/ EnforceDependencies
  BY <1>2 DEF Compare, EnforceDependencies, Unstarted, Underway
<1>3. CASE StartOrder
  BY <1>3 DEF StartOrder, Unstarted, Underway, Members
<1>4. ASSUME NEW id \in Id, Place(id) \/ PutOff(id) PROVE Unstarted' /\ Underway'
  BY <1>4 DEF Place, PutOff, Visiting, Unstarted, Underway, Members
<1>5. CASE NextPass
  BY <1>5 DEF NextPass, Fail, Unstarted, Underway, Members
<1>6. CASE NextSection
  <2>1. section \in 1..6 /\ section + 1 \in 1..6
    BY <1>6, SectionFacts DEF NextSection, Underway
  <2>2. QED
    BY <1>6, <2>1 DEF NextSection, Unstarted, Underway, Members
<1>7. CASE FinishOrder \/ Finish
  BY <1>7 DEF FinishOrder, Finish, Fail, Unstarted, Underway
<1>8. CASE UNCHANGED plannerVars
  BY <1>8 DEF plannerVars, Unstarted, Underway, Members
<1>9. QED
  BY <1>1, <1>2, <1>3, <1>4, <1>5, <1>6, <1>7, <1>8 DEF PlannerNext

(* Placing a resource keeps every create behind the create of its parent. *)
LEMMA PlaceKeepsParentsFirst ==
  ASSUME PlannerTypeOK, Underway, ParentsFirst, Grounded, NEW id \in Id, Place(id)
  PROVE  ParentsFirst'
<1> DEFINE op == [id |-> id, action |-> Sections[section].action]
<1>1. /\ ops \in Seq(Operation) /\ Len(ops) \in Nat
      /\ section \in 1..6 /\ id \in Members(section)
      /\ op \in Operation
      /\ ops' = Append(ops, op) /\ input' = input /\ changes' = changes
  <2>1. section \in 1..6 /\ id \in Members(section)
    BY DEF Place, Visiting, Underway
  <2>2. op \in Operation
    BY <2>1, SectionFacts DEF Operation, Acting
  <2>3. ops \in Seq(Operation) /\ Len(ops) \in Nat
    BY LenProperties DEF PlannerTypeOK
  <2>4. QED
    BY <2>1, <2>2, <2>3 DEF Place, inputVars
<1>2. /\ DOMAIN ops = 1..Len(ops) /\ DOMAIN ops' = 1..(Len(ops) + 1)
      /\ \A i \in 1..Len(ops) : ops'[i] = ops[i]
      /\ ops'[Len(ops) + 1] = op
  <2> HIDE DEF op
  <2>1. QED
    BY <1>1, AppendProperties, LenProperties
<1>3. desired' = desired
  BY <1>1 DEF desired
<1>4. SUFFICES ASSUME NEW j \in 1..(Len(ops) + 1), ops'[j].action = "create",
                      desired[ops'[j].id].parent \in Id,
                      changes[desired[ops'[j].id].parent] = "create"
               PROVE  \E i \in 1..(j - 1) : ops'[i].id = desired[ops'[j].id].parent
  BY <1>1, <1>2, <1>3 DEF ParentsFirst
<1>5. CASE j \in 1..Len(ops)
  <2>1. PICK i \in 1..(j - 1) : ops[i].id = desired[ops[j].id].parent
    BY <1>2, <1>4, <1>5 DEF ParentsFirst
  <2>2. i \in 1..Len(ops)
    BY <1>1, <1>5, <2>1
  <2>3. QED
    BY <1>2, <1>5, <2>1, <2>2
<1>6. CASE j = Len(ops) + 1
  <2> DEFINE parent == desired[id].parent
  <2>1. ops'[j].id = id /\ Sections[section].action = "create"
    BY <1>2, <1>4, <1>6
  <2>2. Configured(id)
    BY <1>1, <2>1 DEF Grounded, Members, Acting, Place, Visiting
  <2>3. parent \in ParentLinks(id) /\ parent # NoLink
    BY <1>4, <2>1, <2>2, DesiredFacts, MarkerAssumption DEF Linked, PlannerTypeOK
  <2>4. TypeOf(parent) = TypeOf(id)
    BY <2>3, ParentFacts
  <2>5. parent \in Members(section)
    BY <1>1, <1>4, <2>1, <2>4 DEF Members
  <2>6. parent \in Placed
    BY <2>1, <2>5 DEF Place, CanPlace
  <2>7. PICK i \in 1..Len(ops) : ops[i].id = parent
    BY <1>2, <2>6 DEF Placed
  <2>8. i \in 1..(j - 1)
    BY <1>1, <1>6, <2>7
  <2>9. QED
    BY <1>2, <2>1, <2>7, <2>8
<1>7. QED
  BY <1>1, <1>4, <1>5, <1>6

LEMMA ParentsFirstStep ==
  /\ PlannerTypeOK /\ Unstarted /\ Underway /\ ParentsFirst /\ Grounded
  /\ [PlannerNext]_plannerVars
  => ParentsFirst'
<1> SUFFICES ASSUME PlannerTypeOK, Unstarted, Underway, ParentsFirst, Grounded,
                    [PlannerNext]_plannerVars
             PROVE  ParentsFirst'
  OBVIOUS
<1>1. CASE Compare \/ EnforceDependencies
  <2>1. ops' = <<>>
    BY <1>1 DEF Compare, EnforceDependencies, Unstarted, orderVars
  <2>2. DOMAIN ops' = {}
    BY <2>1
  <2>3. QED
    BY <2>2 DEF ParentsFirst
<1>2. ASSUME NEW id \in Id, Place(id) PROVE ParentsFirst'
  BY <1>2, PlaceKeepsParentsFirst
<1>3. CASE UNCHANGED <<input, changes, ops>>
  BY <1>3 DEF ParentsFirst, desired
<1>4. ASSUME ~Compare, ~EnforceDependencies, \A id \in Id : ~Place(id)
      PROVE  UNCHANGED <<input, changes, ops>>
  BY <1>4 DEF PlannerNext, plannerVars, inputVars, orderVars, RejectConfiguration, RejectTarget,
              ExceedLimit, StartOrder, PutOff, NextPass, NextSection, FinishOrder, Finish, Fail
<1>5. QED
  BY <1>1, <1>2, <1>3, <1>4

-----------------------------------------------------------------------------
(* What the operations rest on. *)

(* Every step but the comparison and the enforcement keeps input and outcomes. *)
LEMMA OutcomesKept ==
  ASSUME [PlannerNext]_plannerVars, ~Compare, ~EnforceDependencies
  PROVE  UNCHANGED <<input, changes>>
  BY DEF PlannerNext, plannerVars, inputVars, orderVars, RejectConfiguration, RejectTarget,
         ExceedLimit, StartOrder, Place, PutOff, NextPass, NextSection, FinishOrder, Finish, Fail

LEMMA GroundedStep ==
  /\ PlannerTypeOK /\ Grounded /\ Supported
  /\ [PlannerNext]_plannerVars
  => Grounded' /\ Supported'
<1> SUFFICES ASSUME PlannerTypeOK, Grounded, Supported, [PlannerNext]_plannerVars
             PROVE  Grounded' /\ Supported'
  OBVIOUS
<1>1. CASE Compare
  <2>1. pc' = "dependencies" /\ input' = input /\ changes' = [id \in Id |-> Compared(id)]
    BY <1>1 DEF Compare, inputVars
  <2>2. Supported'
    BY <2>1 DEF Supported
  <2>3. \A id \in Id : /\ Compared(id) \in Acting => Configured(id)
                       /\ Configured(id) /\ remote[id] = Missing =>
                            Compared(id) \in {"create", "blocked"}
    BY ComparedFacts DEF PlannerTypeOK
  <2>4. Grounded'
    BY <2>1, <2>3 DEF Grounded, Configured, desired, remote
  <2>5. QED
    BY <2>2, <2>4
<1>2. CASE EnforceDependencies
  <2>1. /\ pc = "dependencies" /\ pc' = "limits" /\ input' = input
        /\ changes' = [id \in Id |-> IF changes[id] \in Acting /\ ~DependenciesHold(id)
                                     THEN "blocked" ELSE changes[id]]
    BY <1>2 DEF EnforceDependencies, inputVars
  <2>2. \A id \in Id : changes'[id] \in {changes[id], "blocked"}
    BY <2>1
  <2>3. \A id \in Id : changes'[id] \in Acting => changes'[id] = changes[id] /\ DependenciesHold(id)
    BY <2>1 DEF Acting
  <2>4. Grounded'
    BY <2>1, <2>2, <2>3 DEF Grounded, Configured, desired, remote, Acting
  <2>5. ASSUME NEW link \in Id, Available(link) PROVE Reliable(link)'
    <3>1. changes[link] = "create" => changes'[link] \in {"create", "blocked"}
      BY <2>2
    <3>2. QED
      BY <2>1, <2>5, <3>1 DEF Available, Interpreted, Reliable, remote
  <2>6. ASSUME NEW id \in Id, changes'[id] \in Acting
        PROVE  /\ id \notin Domain => Reliable(desired[id].domain)'
               /\ id \in Term /\ desired[id].parent # NoLink => Reliable(desired[id].parent)'
    <3>1. Configured(id) /\ DependenciesHold(id)
      BY <2>1, <2>3, <2>6 DEF Grounded
    <3>2. /\ desired[id].domain \in DomainLinks(id)
          /\ desired[id].parent \in ParentLinks(id)
      BY <3>1, DesiredFacts DEF Linked, PlannerTypeOK
    <3>3. desired' = desired
      BY <2>1 DEF desired
    <3>4. CASE id \notin Domain
      <4>1. desired[id].domain \in Id /\ Available(desired[id].domain)
        BY <3>1, <3>2, <3>4 DEF DomainLinks, DependenciesHold, Id
      <4>2. Reliable(desired[id].domain)'
        BY <2>5, <3>3, <4>1
      <4>3. CASE id \in Term /\ desired[id].parent # NoLink
        <5>1. desired[id].parent \in Id /\ Available(desired[id].parent)
          BY <3>1, <3>2, <4>3, ParentFacts DEF DependenciesHold
        <5>2. Reliable(desired[id].parent)'
          BY <2>5, <3>3, <5>1
        <5>3. QED
          BY <4>2, <5>2
      <4>4. QED
        BY <3>3, <4>2, <4>3
    <3>5. CASE id \in Domain
      BY <3>5, IdAssumption
    <3>6. QED
      BY <3>4, <3>5
  <2>7. Supported'
    <3>1. desired' = desired
      BY <2>1 DEF desired
    <3>2. QED
      BY <2>1, <2>6, <3>1 DEF Supported
  <2>8. QED
    BY <2>4, <2>7
<1>3. CASE ~Compare /\ ~EnforceDependencies
  <2>1. input' = input /\ changes' = changes
    BY <1>3, OutcomesKept
  <2>2. /\ pc' \notin {"start", "failed"} => pc \notin {"start", "failed"}
        /\ pc' \notin {"start", "dependencies", "failed"} =>
             pc \notin {"start", "dependencies", "failed"}
    BY <1>3 DEF PlannerNext, plannerVars, inputVars, orderVars, RejectConfiguration, RejectTarget,
         ExceedLimit, StartOrder, Place, PutOff, Visiting, NextPass, NextSection, FinishOrder,
         Finish, Fail
  <2>3. QED
    BY <2>1, <2>2 DEF Grounded, Supported, Reliable, Configured, desired, remote
<1>4. QED
  BY <1>1, <1>2, <1>3

(* The order is begun within the limits, and only well-formed operations are planned. *)
LEMMA CheckedStep ==
  ParentsKnown /\ Checked /\ [PlannerNext]_plannerVars => ParentsKnown' /\ Checked'
<1> SUFFICES ASSUME ParentsKnown, Checked, [PlannerNext]_plannerVars
             PROVE  ParentsKnown' /\ Checked'
  OBVIOUS
<1>1. CASE pc' \notin {"order", "check", "planned"}
  BY <1>1 DEF ParentsKnown, Checked
<1>2. CASE pc' \in {"order", "check", "planned"}
  <2>1. ~Compare /\ ~EnforceDependencies
    BY <1>2 DEF Compare, EnforceDependencies
  <2>2. input' = input /\ changes' = changes
    BY <2>1, OutcomesKept
  <2>3. StartOrder \/ pc \in {"order", "check", "planned"}
    BY <1>2, <2>1
    DEF PlannerNext, plannerVars, inputVars, orderVars, RejectConfiguration, RejectTarget,
        ExceedLimit, Place, PutOff, Visiting, NextPass, NextSection, FinishOrder, Finish, Fail
  <2>4. ~Orphaned
    BY <2>3, LimitFacts DEF StartOrder, ParentsKnown
  <2>5. ~Orphaned'
    BY <2>2, <2>4
    DEF Orphaned, DomainParent, KnownDomains, Known, Configured, Interpreted, desired, remote
  <2>6. pc' = "planned" => WellFormed /\ ops' = ops
    BY <2>1, <2>3
    DEF PlannerNext, plannerVars, inputVars, orderVars, RejectConfiguration, RejectTarget,
        ExceedLimit, StartOrder, Place, PutOff, Visiting, NextPass, NextSection, FinishOrder,
        Finish, Fail, Checked
  <2>7. pc' = "planned" => WellFormed'
    BY <2>2, <2>6
    DEF WellFormed, Sorted, Mapped, ParentsFirst, InOrder, SectionOf, Placed, desired
  <2>8. QED
    BY <2>5, <2>7 DEF ParentsKnown, Checked
<1>3. QED
  BY <1>1, <1>2

-----------------------------------------------------------------------------
LEMMA InvInit == PlannerInit => PlannerInv
<1> SUFFICES ASSUME PlannerInit PROVE PlannerInv
  OBVIOUS
<1>1. PlannerTypeOK
  BY TypeInit
<1>2. pc = "start" /\ ops = <<>> /\ later = {}
  BY DEF PlannerInit
<1>3. ParentsFirst
  <2>1. DOMAIN ops = {}
    BY <1>2
  <2>2. QED
    BY <2>1 DEF ParentsFirst
<1>4. QED
  BY <1>1, <1>2, <1>3
  DEF PlannerInv, Unstarted, Underway, Grounded, Supported, ParentsKnown, Checked

LEMMA InvStep == PlannerInv /\ [PlannerNext]_plannerVars => PlannerInv'
  BY TypeStep, OrderStep, ParentsFirstStep, GroundedStep, CheckedStep DEF PlannerInv

LEMMA Invariant == PlannerSpec => []PlannerInv
  BY InvInit, InvStep, PTL DEF PlannerSpec

-----------------------------------------------------------------------------
(* What a ready plan rests on. *)

(* The operations of a ready plan are exactly the changes, each in its section. *)
LEMMA PlannedFacts ==
  ASSUME PlannerInv, pc = "planned", Eligible, NEW i \in DOMAIN ops
  PROVE  /\ i \in Nat /\ ops[i] \in Operation
         /\ changes[ops[i].id] = ops[i].action
         /\ Configured(ops[i].id)
         /\ desired[ops[i].id] \in Desired
         /\ Linked(ops[i].id, desired[ops[i].id])
<1>1. ops \in Seq(Operation) /\ WellFormed
  BY DEF PlannerInv, PlannerTypeOK, Checked
<1>2. i \in Nat /\ ops[i] \in Operation
  BY <1>1, ElementOfSeq, LenProperties
<1>3. ops[i] \in {[id |-> id, action |-> changes[id]] : id \in {j \in Id : changes[j] \in Acting}}
  BY <1>1 DEF WellFormed, Mapped
<1>4. changes[ops[i].id] = ops[i].action /\ changes[ops[i].id] \in Acting
  BY <1>3
<1>5. Configured(ops[i].id)
  BY <1>2, <1>4 DEF PlannerInv, Grounded, Operation
<1>6. QED
  BY <1>2, <1>4, <1>5, DesiredFacts DEF PlannerInv, PlannerTypeOK, Operation

(* What an operation relies on is there, or created by another operation. *)
LEMMA CreatedSomewhere ==
  ASSUME PlannerInv, pc = "planned", Eligible, NEW link \in Id, Reliable(link)
  PROVE  \/ remote[link] # Missing
         \/ \E j \in DOMAIN ops : ops[j] = [id |-> link, action |-> "create"]
<1>1. SUFFICES ASSUME remote[link] = Missing
               PROVE  \E j \in DOMAIN ops : ops[j] = [id |-> link, action |-> "create"]
  OBVIOUS
<1>2. changes[link] = "create"
  BY <1>1 DEF Reliable, Eligible
<1>3. [id |-> link, action |-> changes[link]] \in {ops[j] : j \in DOMAIN ops}
  BY <1>2 DEF PlannerInv, Checked, WellFormed, Mapped, Acting
<1>4. QED
  BY <1>2, <1>3

(* Operations of an earlier section come earlier. *)
LEMMA EarlierSection ==
  ASSUME PlannerInv, pc = "planned", Eligible, NEW i \in DOMAIN ops, NEW j \in DOMAIN ops,
         SectionOf(ops[j]) < SectionOf(ops[i])
  PROVE  j \in 1..(i - 1)
<1>1. ops \in Seq(Operation) /\ Sorted
  BY DEF PlannerInv, PlannerTypeOK, Checked, WellFormed
<1>2. DOMAIN ops = 1..Len(ops) /\ Len(ops) \in Nat
  BY <1>1, LenProperties
<1>3. SectionOf(ops[i]) \in Nat /\ SectionOf(ops[j]) \in Nat
  BY PlannedFacts, SectionOfFacts
<1>4. ~(i < j)
  BY <1>1, <1>3 DEF Sorted, InOrder
<1>5. i # j
  BY <1>3
<1>6. QED
  BY <1>2, <1>4, <1>5

(* The domain of a product or a term. *)
LEMMA DomainResolved ==
  ASSUME PlannerInv, pc = "planned", Eligible, NEW i \in DOMAIN ops
  PROVE  ResolvedAt(desired[ops[i].id].domain, i)
<1> DEFINE id == ops[i].id
           link == desired[id].domain
<1>1. id \in Id /\ changes[id] \in Acting /\ link \in DomainLinks(id)
  BY PlannedFacts DEF Operation, Linked
<1>2. CASE id \in Domain
  BY <1>1, <1>2 DEF DomainLinks, ResolvedAt
<1>3. CASE id \notin Domain
  <2>1. link \in Domain /\ link \in Id
    BY <1>1, <1>3 DEF DomainLinks, Id
  <2>2. Reliable(link)
    BY <1>1, <1>3 DEF PlannerInv, Supported
  <2>3. CASE remote[link] # Missing
    BY <2>1, <2>3 DEF ResolvedAt
  <2>4. CASE remote[link] = Missing
    <3>1. PICK j \in DOMAIN ops : ops[j] = [id |-> link, action |-> "create"]
      BY <2>1, <2>2, <2>4, CreatedSomewhere
    <3>2. SectionOf(ops[j]) = 1
      <4>1. ops[j] \in Operation /\ ops[j].id \in Domain /\ ops[j].action = "create"
        BY <2>1, <3>1, PlannedFacts
      <4>2. QED
        BY <4>1, SectionOfFacts
    <3>3. SectionOf(ops[i]) > 1
      <4>1. ops[i] \in Operation /\ ops[i].id \notin Domain
        BY <1>3, PlannedFacts
      <4>2. QED
        BY <4>1, SectionOfFacts
    <3>4. SectionOf(ops[j]) < SectionOf(ops[i])
      <4>1. ops[i] \in Operation
        BY PlannedFacts
      <4>2. SectionOf(ops[i]) \in Nat
        BY <4>1, SectionOfFacts
      <4>3. QED
        BY <3>2, <3>3, <4>2
    <3>5. QED
      BY <3>1, <3>4, EarlierSection DEF ResolvedAt
  <2>5. QED
    BY <2>3, <2>4
<1>4. QED
  BY <1>2, <1>3

(* The parent of a domain or a term. *)
LEMMA ParentResolved ==
  ASSUME PlannerInv, pc = "planned", Eligible, NEW i \in DOMAIN ops
  PROVE  ResolvedAt(desired[ops[i].id].parent, i)
<1> DEFINE id == ops[i].id
           link == desired[id].parent
<1>1. /\ id \in Id /\ Configured(id) /\ link \in ParentLinks(id)
      /\ ops[i] \in Operation /\ changes[id] = ops[i].action /\ changes[id] \in Acting
  BY PlannedFacts DEF Operation, Linked
<1>2. CASE link = NoLink
  BY <1>2 DEF ResolvedAt
<1>3. CASE link # NoLink
  <2>1. link \in Id /\ TypeOf(link) = TypeOf(id) /\ id \notin Product
    BY <1>1, <1>3, ParentFacts
  <2>2. Reliable(link)
    <3>1. CASE id \in Term
      BY <1>1, <1>3, <3>1 DEF PlannerInv, Supported
    <3>2. CASE id \in Domain
      <4>1. ~Orphaned
        BY DEF PlannerInv, ParentsKnown
      <4>2. DomainParent[id] = link /\ id \in DOMAIN DomainParent
        BY <1>1, <3>2 DEF DomainParent
      <4>3. link \in KnownDomains
        BY <1>3, <4>1, <4>2 DEF Orphaned
      <4>4. remote[link] # Missing \/ Configured(link)
        BY <4>3 DEF KnownDomains, Known
      <4>5. QED
        BY <2>1, <4>4 DEF Reliable, PlannerInv, Grounded
    <3>3. QED
      BY <1>1, <2>1, <3>1, <3>2 DEF Id
  <2>3. CASE remote[link] # Missing
    BY <2>1, <2>3 DEF ResolvedAt
  <2>4. CASE remote[link] = Missing
    <3>1. PICK j \in DOMAIN ops : ops[j] = [id |-> link, action |-> "create"]
      BY <2>1, <2>2, <2>4, CreatedSomewhere
    <3>2. ops[j].id = link /\ ops[j].action = "create" /\ changes[link] = "create"
      BY <3>1, PlannedFacts
    <3>3. CASE ops[i].action = "create"
      <4>1. PICK k \in 1..(i - 1) : ops[k].id = link
        BY <1>1, <2>1, <3>2, <3>3 DEF PlannerInv, ParentsFirst
      <4>2. k \in DOMAIN ops
        <5>1. DOMAIN ops = 1..Len(ops) /\ Len(ops) \in Nat
          BY LenProperties DEF PlannerInv, PlannerTypeOK
        <5>2. QED
          BY <4>1, <5>1
      <4>3. ops[k] \in Operation /\ ops[k].action = "create"
        BY <3>2, <4>1, <4>2, PlannedFacts
      <4>4. ops[k] = [id |-> link, action |-> "create"]
        BY <4>1, <4>3 DEF Operation
      <4>5. QED
        BY <4>1, <4>4 DEF ResolvedAt
    <3>4. CASE ops[i].action # "create"
      <4>1. ops[j] \in Operation
        BY PlannedFacts
      <4>2. link \in Domain <=> id \in Domain
        BY <1>1, <2>1 DEF TypeOf, Id
      <4>3. link \in Product <=> id \in Product
        BY <1>1, <2>1, <4>2, IdAssumption DEF TypeOf, Id
      <4>4. SectionOf(ops[j]) < SectionOf(ops[i])
        BY <1>1, <3>2, <3>4, <4>1, <4>2, <4>3, SectionOfFacts
      <4>5. QED
        BY <3>1, <4>4, EarlierSection DEF ResolvedAt
    <3>5. QED
      BY <3>3, <3>4
  <2>5. QED
    BY <2>3, <2>4
<1>4. QED
  BY <1>2, <1>3

-----------------------------------------------------------------------------
(* The theorems. *)

(* Outcomes, operations and failures stay what they are typed to be, whatever the *)
(* configuration and the remote state: the builder raises no code but its own.    *)
THEOREM PlannerTypeCorrect == PlannerSpec => []PlannerTypeOK
<1>1. PlannerInv => PlannerTypeOK
  BY DEF PlannerInv
<1>2. QED
  BY <1>1, Invariant, PTL

(* _topological_create_order emits every create behind the create of its parent, *)
(* for any number of resources and however their ids compare.                    *)
THEOREM CreatesFollowTheirParents == PlannerSpec => []ParentsPlacedFirst
<1>1. PlannerInv => ParentsPlacedFirst
  BY DEF PlannerInv, ParentsPlacedFirst
<1>2. QED
  BY <1>1, Invariant, PTL

(* Whatever a ready plan of build_governance_plan_v3 links to exists remotely or is *)
(* created by an earlier operation of the plan.                                     *)
THEOREM ReadyPlansResolve == PlannerSpec => []PlansResolveInOrder
<1>1. PlannerInv => PlansResolveInOrder
  BY DomainResolved, ParentResolved DEF PlansResolveInOrder
<1>2. QED
  BY <1>1, Invariant, PTL

-----------------------------------------------------------------------------
(* What else a later stage takes from an earlier one. *)

Validated == pc \notin {"start", "failed"} => ValidConfiguration

WithinLimits == pc \in {"order", "check", "planned"} => LimitFailure = None

Unordered ==
  /\ failure # None => pc = "failed"
  /\ pc \in {"start", "dependencies", "limits"} =>
       section = 0 /\ remaining = {} /\ later = {} /\ ~progressed

(* A pass has placed, put off or still to visit every member of its section; if it *)
(* has placed none, what it has put off still waits for its parent.                *)
InPass ==
  pc = "order" =>
    /\ Members(section) \subseteq Placed \union remaining \union later
    /\ ~progressed => \A id \in later : Sections[section].action = "create" /\ ~CanPlace(id)

OInv == PlannerInv /\ Validated /\ Unordered /\ InPass /\ OrderingNeverStuck

(* Parents that are all configured and all put off would be a cycle of the *)
(* configuration, which its validation excludes.                           *)
LEMMA NoClosedSet ==
  ASSUME input \in Input, ValidConfiguration, NEW ids \in {Domain, Term},
         NEW L \in SUBSET ids, L # {}, \A id \in L : Configured(id) /\ desired[id].parent \in L
  PROVE  FALSE
<1> DEFINE up == Within(ids)
<1>1. L \subseteq DOMAIN up /\ \A id \in L : up[id] \in L
  BY DEF Within
<1>2. NoLink \notin L
  BY MarkerAssumption DEF Id
<1>3. ~Cyclic(up)
  BY DEF ValidConfiguration
<1> HIDE DEF up
<1>4. PICK x \in L : TRUE
  OBVIOUS
<1>5. PICK n \in 1..Cardinality(DOMAIN up) + 1 : Climb(up, x)[n] = NoLink
  BY <1>1, <1>3, <1>4 DEF Cyclic, ReachesTop
<1> DEFINE S == {m \in Nat : Climb(up, x)[m] \in L}
<1>6. 0 \in S
  BY <1>4, ClimbFacts
<1>7. ASSUME NEW m \in Nat, m \in S PROVE m + 1 \in S
  BY <1>1, <1>7, ClimbFacts
<1>8. Nat \subseteq S
  <2> HIDE DEF S
  <2> QED BY <1>6, <1>7, AllNaturals
<1>9. n \in Nat
  BY <1>5
<1> QED BY <1>2, <1>5, <1>8, <1>9

LEMMA PassesProgress ==
  ASSUME OInv, NextPass
  PROVE  progressed
<1> SUFFICES ASSUME ~progressed PROVE FALSE
  OBVIOUS
<1>1. /\ pc = "order" /\ remaining = {} /\ later # {} /\ section \in 1..6
      /\ later \subseteq Members(section) /\ Members(section) \subseteq Placed \union later
      /\ \A id \in later : Sections[section].action = "create" /\ ~CanPlace(id)
  BY DEF NextPass, OInv, InPass, PlannerInv, Underway
<1>2. \A id \in later : desired[id].parent \in later
  BY <1>1 DEF CanPlace
<1>3. \A id \in later : id \in Id /\ Configured(id)
  BY <1>1 DEF OInv, PlannerInv, Grounded, Members, Acting
<1>4. ValidConfiguration /\ input \in Input
  BY <1>1 DEF OInv, PlannerInv, PlannerTypeOK, Validated
<1>5. \A id \in later : desired[id].parent \in ParentLinks(id)
  BY <1>3, <1>4, DesiredFacts DEF Linked
<1>6. \A id \in later : id \notin Product
  BY <1>2, <1>3, <1>5, ParentFacts, MarkerAssumption
<1>7. section \in {1, 5}
  <2>1. PICK id \in later : TRUE
    BY <1>1
  <2>2. TypeOf(id) = Sections[section].type /\ Sections[section].action = "create"
    BY <1>1, <2>1 DEF Members
  <2>3. TypeOf(id) # "dataProduct"
    BY <1>3, <1>6, <2>1, IdAssumption DEF TypeOf
  <2> QED BY <1>1, <2>2, <2>3, SectionFacts
<1>8. CASE section = 1
  <2>1. later \subseteq Domain
    BY <1>1, <1>3, <1>8, SectionFacts DEF Members, TypeOf
  <2> QED BY <1>1, <1>2, <1>3, <1>4, <2>1, NoClosedSet
<1>9. CASE section = 5
  <2>1. later \subseteq Term
    BY <1>1, <1>3, <1>9, SectionFacts DEF Members, TypeOf, Id
  <2> QED BY <1>1, <1>2, <1>3, <1>4, <2>1, NoClosedSet
<1> QED BY <1>7, <1>8, <1>9

(* Every step but the comparison and the enforcement keeps what the outcomes say. *)
LEMMA SameConfiguration ==
  ASSUME input' = input
  PROVE  ValidConfiguration' <=> ValidConfiguration
<1>1. desired' = desired /\ \A ids : Within(ids)' = Within(ids)
  BY DEF desired, Within, Configured
<1> QED BY <1>1 DEF ValidConfiguration, Cyclic, ReachesTop

LEMMA InputKept ==
  [PlannerNext]_plannerVars => input' = input
BY DEF PlannerNext, plannerVars, inputVars, orderVars, RejectConfiguration, RejectTarget, Compare,
       EnforceDependencies, ExceedLimit, StartOrder, Place, PutOff, NextPass, NextSection,
       FinishOrder, Finish, Fail

LEMMA ValidatedStep ==
  Validated /\ [PlannerNext]_plannerVars => Validated'
<1> SUFFICES ASSUME Validated, [PlannerNext]_plannerVars PROVE Validated'
  OBVIOUS
<1>1. CASE pc' \in {"start", "failed"}
  BY <1>1 DEF Validated
<1>2. CASE pc' \notin {"start", "failed"}
  <2>1. ValidConfiguration
    BY <1>2 DEF Validated, PlannerNext, plannerVars, inputVars, orderVars, RejectConfiguration,
       RejectTarget, Compare, EnforceDependencies, ExceedLimit, StartOrder, Place, PutOff, Visiting,
       NextPass, NextSection, FinishOrder, Finish, Fail
  <2> QED BY <2>1, InputKept, SameConfiguration DEF Validated
<1> QED BY <1>1, <1>2

LEMMA UnorderedStep ==
  PlannerTypeOK /\ Unordered /\ [PlannerNext]_plannerVars => Unordered'
<1> SUFFICES ASSUME PlannerTypeOK, Unordered, [PlannerNext]_plannerVars PROVE Unordered'
  OBVIOUS
<1>1. (pc' = "failed" \/ failure' = failure) /\ (pc = "failed" => UNCHANGED plannerVars)
  BY DEF PlannerNext, plannerVars, inputVars, orderVars, RejectConfiguration,
     RejectTarget, Compare, EnforceDependencies, ExceedLimit, StartOrder, Place, PutOff, Visiting,
     NextPass, NextSection, FinishOrder, Finish, Fail
<1>2. failure' # None => pc' = "failed"
  BY <1>1 DEF Unordered, plannerVars, inputVars
<1>3. ASSUME pc' \in {"start", "dependencies", "limits"}
      PROVE  UNCHANGED orderVars /\ pc \in {"start", "dependencies", "limits"}
  BY <1>3 DEF PlannerNext, plannerVars, inputVars, RejectConfiguration,
     RejectTarget, Compare, EnforceDependencies, ExceedLimit, StartOrder, Place, PutOff, Visiting,
     NextPass, NextSection, FinishOrder, Finish, Fail
<1> QED BY <1>2, <1>3 DEF Unordered, orderVars

(* What has been placed, after a placement. *)
LEMMA PlacedAfter ==
  ASSUME PlannerTypeOK, Underway, NEW id \in Id, Place(id)
  PROVE  Placed' = Placed \union {id}
<1> DEFINE op == [id |-> id, action |-> Sections[section].action]
<1>1. /\ ops \in Seq(Operation) /\ op \in Operation /\ ops' = Append(ops, op)
  <2>1. section \in 1..6
    BY DEF Place, Visiting, Underway
  <2>2. op \in Operation
    BY <2>1, SectionFacts DEF Operation, Acting
  <2> QED BY <2>2 DEF Place, PlannerTypeOK
<1>2. op.id = id
  OBVIOUS
<1> HIDE DEF op
<1>3. /\ DOMAIN ops = 1..Len(ops) /\ DOMAIN ops' = 1..(Len(ops) + 1) /\ Len(ops) \in Nat
      /\ \A i \in 1..Len(ops) : ops'[i] = ops[i]
      /\ ops'[Len(ops) + 1] = op
  BY <1>1, AppendProperties, LenProperties
<1>4. ASSUME NEW x \in Placed' PROVE x \in Placed \union {id}
  BY <1>2, <1>3, <1>4 DEF Placed
<1>5. ASSUME NEW x \in Placed \union {id} PROVE x \in Placed'
  <2>1. CASE x \in Placed
    BY <1>3, <2>1 DEF Placed
  <2>2. CASE x = id
    BY <1>2, <1>3, <2>2 DEF Placed
  <2> QED BY <1>5, <2>1, <2>2
<1> QED BY <1>4, <1>5

LEMMA InPassStep ==
  PlannerInv /\ Unordered /\ InPass /\ [PlannerNext]_plannerVars => InPass'
<1> SUFFICES ASSUME PlannerInv, Unordered, InPass, [PlannerNext]_plannerVars, pc' = "order"
             PROVE  InPass'
  BY DEF InPass
<1> USE DEF inputVars, orderVars
<1>1. input' = input /\ changes' = changes
  <2>1. ~Compare /\ ~EnforceDependencies
    BY DEF Compare, EnforceDependencies
  <2> QED BY <2>1, OutcomesKept
<1>2. \A n : Members(n)' = Members(n)
  BY <1>1 DEF Members
<1>3. CASE StartOrder
  <2>1. section' = 1 /\ remaining' = Members(1) /\ later' = {}
    BY <1>3 DEF StartOrder, Unordered
  <2>2. Members(section)' = Members(1)
    BY <1>1, <2>1 DEF Members
  <2> QED BY <2>1, <2>2 DEF InPass
<1>4. ASSUME NEW id \in Id, Place(id) PROVE InPass'
  <2>1. /\ pc = "order" /\ section' = section /\ later' = later /\ progressed' = TRUE
        /\ remaining' = remaining \ {id}
    BY <1>4 DEF Place, Visiting
  <2>2. Placed' = Placed \union {id}
    BY <1>4, PlacedAfter DEF PlannerInv
  <2>3. Members(section)' = Members(section)
    BY <1>1, <2>1 DEF Members
  <2> QED BY <2>1, <2>2, <2>3 DEF InPass
<1>5. ASSUME NEW id \in Id, PutOff(id) PROVE InPass'
  <2>1. /\ pc = "order" /\ UNCHANGED <<section, ops, progressed>>
        /\ later' = later \union {id} /\ remaining' = remaining \ {id}
        /\ Sections[section].action = "create" /\ ~CanPlace(id)
    BY <1>5 DEF PutOff, Visiting
  <2>2. Placed' = Placed /\ Members(section)' = Members(section) /\ desired' = desired
    BY <1>1, <2>1 DEF Placed, Members, desired
  <2>3. \A other : CanPlace(other)' <=> CanPlace(other)
    BY <2>2 DEF CanPlace
  <2> QED BY <2>1, <2>2, <2>3 DEF InPass
<1>6. CASE NextPass
  <2>1. pc = "order" /\ remaining' = later /\ later' = {} /\ UNCHANGED <<section, ops>> /\ remaining = {}
    BY <1>6 DEF NextPass, Fail
  <2>2. Placed' = Placed /\ Members(section)' = Members(section)
    BY <1>1, <2>1 DEF Placed, Members
  <2> QED BY <2>1, <2>2 DEF InPass
<1>7. CASE NextSection
  <2>1. remaining' = Members(section + 1) /\ later' = {} /\ section' = section + 1
    BY <1>7 DEF NextSection
  <2>2. Members(section)' = Members(section + 1)
    BY <1>1, <2>1 DEF Members
  <2> QED BY <2>1, <2>2 DEF InPass
<1>8. CASE UNCHANGED plannerVars
  BY <1>8 DEF plannerVars, InPass, Members, Placed, CanPlace, desired
<1>9. StartOrder \/ (\E id \in Id : Place(id) \/ PutOff(id)) \/ NextPass \/ NextSection
        \/ UNCHANGED plannerVars
  BY DEF PlannerNext, RejectConfiguration, RejectTarget, Compare, EnforceDependencies, ExceedLimit,
     FinishOrder, Finish, Fail
<1> QED BY <1>3, <1>4, <1>5, <1>6, <1>7, <1>8, <1>9

LEMMA NeverStuckStep ==
  OInv /\ [PlannerNext]_plannerVars => OrderingNeverStuck'
<1> SUFFICES ASSUME OInv, [PlannerNext]_plannerVars, failure' = "plan.hierarchy_cycle"
             PROVE  section' = 0
  BY DEF OrderingNeverStuck
<1>1. CASE failure = "plan.hierarchy_cycle"
  <2>1. pc = "failed" /\ section = 0
    BY <1>1, MarkerAssumption DEF OInv, Unordered, OrderingNeverStuck
  <2>2. UNCHANGED plannerVars
    BY <2>1 DEF PlannerNext, plannerVars, RejectConfiguration, RejectTarget, Compare,
       EnforceDependencies, ExceedLimit, StartOrder, Place, PutOff, Visiting, NextPass, NextSection,
       FinishOrder, Finish
  <2> QED BY <2>1, <2>2 DEF plannerVars, orderVars
<1>2. CASE failure # "plan.hierarchy_cycle"
  <2>1. ExceedLimit \/ NextPass
    BY <1>2 DEF PlannerNext, plannerVars, inputVars, RejectConfiguration, RejectTarget, Compare,
       EnforceDependencies, StartOrder, Place, PutOff, NextSection, FinishOrder, Finish, Fail
  <2>2. CASE ExceedLimit
    BY <2>2 DEF ExceedLimit, Fail, OInv, Unordered, orderVars
  <2>3. CASE NextPass
    <3>1. progressed
      BY <2>3, PassesProgress
    <3> QED BY <1>2, <2>3, <3>1 DEF NextPass, inputVars
  <2> QED BY <2>1, <2>2, <2>3
<1> QED BY <1>1, <1>2

LEMMA OrderInvariant == PlannerSpec => []OInv
<1>1. PlannerInit => OInv
  <2> SUFFICES ASSUME PlannerInit PROVE OInv
    OBVIOUS
  <2>1. pc = "start" /\ failure = None /\ section = 0 /\ remaining = {} /\ later = {} /\ ~progressed
    BY Zenon DEF PlannerInit
  <2> QED BY <2>1, InvInit DEF OInv, Validated, Unordered, InPass, OrderingNeverStuck
<1>2. OInv /\ [PlannerNext]_plannerVars => OInv'
  BY InvStep, ValidatedStep, UnorderedStep, InPassStep, NeverStuckStep DEF OInv, PlannerInv
<1> QED BY <1>1, <1>2, PTL DEF PlannerSpec

(* _topological_create_order never comes to a pass that places nothing: its error, a *)
(* cycle of parents, is one the validation of the configuration excludes.            *)
THEOREM OrderingAlwaysEnds == PlannerSpec => []OrderingNeverStuck
<1>1. OInv => OrderingNeverStuck
  BY DEF OInv
<1> QED BY <1>1, OrderInvariant, PTL

-----------------------------------------------------------------------------
(* What the outcomes of a plan say of its resources. *)

(* An outcome that is not blocked was decided by the two sides alone. *)
Decided(id) ==
  changes[id] # "blocked" =>
    /\ remote[id] # Uninterpreted
    /\ changes[id] = "create" <=> Configured(id) /\ remote[id] = Missing
    /\ changes[id] = "replace" => Configured(id) /\ Interpreted(id)
    /\ Configured(id) /\ Interpreted(id) =>
         /\ ~remote[id].unsupported
         /\ changes[id] = IF Changed(id) THEN "replace" ELSE "no-op"
         /\ id \notin Domain => ~Moved(id)

AllDecided == pc \notin {"start", "failed"} => \A id \in Id : Decided(id)

(* A term is written only under ancestors of its own domain. *)
Ancestral ==
  pc \notin {"start", "dependencies", "failed"} =>
    \A t \in Term : changes[t] \in Acting => SoundAncestry(t)

HInv == OInv /\ WithinLimits /\ AllDecided /\ Ancestral

LEMMA ComparedIsDecided ==
  ASSUME input \in Input, NEW id \in Id
  PROVE  Compared(id) # "blocked" =>
           /\ remote[id] # Uninterpreted
           /\ Compared(id) = "create" <=> Configured(id) /\ remote[id] = Missing
           /\ Compared(id) = "replace" => Configured(id) /\ Interpreted(id)
           /\ Configured(id) /\ Interpreted(id) =>
                /\ ~remote[id].unsupported
                /\ Compared(id) = IF Changed(id) THEN "replace" ELSE "no-op"
                /\ id \notin Domain => ~Moved(id)
<1> SUFFICES ASSUME Compared(id) # "blocked"
             PROVE  /\ remote[id] # Uninterpreted
                    /\ Compared(id) = "create" <=> Configured(id) /\ remote[id] = Missing
                    /\ Compared(id) = "replace" => Configured(id) /\ Interpreted(id)
                    /\ Configured(id) /\ Interpreted(id) =>
                         /\ ~remote[id].unsupported
                         /\ Compared(id) = IF Changed(id) THEN "replace" ELSE "no-op"
                         /\ id \notin Domain => ~Moved(id)
  OBVIOUS
<1>1. Compared(id) = Diff(id)
  BY DEF Compared
<1>2. CASE remote[id] = Uninterpreted
  <2>1. Diff(id) = "blocked"
    BY <1>2, MarkerAssumption DEF Diff, Interpreted
  <2> QED BY <1>1, <2>1
<1>3. CASE remote[id] = Missing
  <2>1. CASE Configured(id)
    <3>1. Diff(id) = "create"
      BY <1>1, <1>3, <2>1, MarkerAssumption DEF Diff, Interpreted
    <3> QED BY <1>1, <1>3, <2>1, <3>1, MarkerAssumption DEF Interpreted
  <2>2. CASE ~Configured(id)
    <3>1. Diff(id) = "none"
      BY <1>3, <2>2, MarkerAssumption DEF Diff, Interpreted
    <3> QED BY <1>1, <1>3, <2>2, <3>1, MarkerAssumption DEF Interpreted
  <2> QED BY <2>1, <2>2
<1>4. CASE Interpreted(id) /\ Configured(id)
  <2>1. Diff(id) = Matched(id)
    BY <1>4 DEF Diff, Interpreted
  <2>2. ~Irreplaceable(id) /\ Matched(id) = IF Changed(id) THEN "replace" ELSE "no-op"
    BY <1>1, <2>1 DEF Matched
  <2>3. ~remote[id].unsupported /\ (id \notin Domain => ~Moved(id))
    BY <2>2 DEF Irreplaceable, Changed
  <2>4. remote[id] # Missing /\ remote[id] # Uninterpreted
    BY <1>4 DEF Interpreted
  <2> QED BY <1>1, <1>4, <2>1, <2>2, <2>3, <2>4
<1>5. CASE Interpreted(id) /\ ~Configured(id)
  <2>1. Diff(id) = "remote-only"
    BY <1>5 DEF Diff, Interpreted
  <2> QED BY <1>1, <1>5, <2>1 DEF Interpreted
<1> QED BY <1>2, <1>3, <1>4, <1>5 DEF Interpreted

(* What is said of the two sides does not change while they do not. *)
LEMMA SameSides ==
  ASSUME input' = input
  PROVE  /\ desired' = desired /\ remote' = remote
         /\ \A id : /\ Configured(id)' <=> Configured(id)
                    /\ Interpreted(id)' <=> Interpreted(id)
                    /\ Moved(id)' <=> Moved(id)
                    /\ Changed(id)' <=> Changed(id)
BY DEF desired, remote, Configured, Interpreted, Moved, Changed, SoftDiffers

LEMMA SameTerms ==
  ASSUME input' = input
  PROVE  \A t : SoundAncestry(t)' <=> SoundAncestry(t)
<1>1. /\ desired' = desired /\ ResultingTerms' = ResultingTerms
      /\ \A t : Resulting(t)' = Resulting(t)
  BY SameSides DEF ResultingTerms, Resulting
<1>2. TermParent' = TermParent
  BY <1>1 DEF TermParent
<1> QED BY <1>1, <1>2 DEF SoundAncestry

LEMMA SameLimits ==
  ASSUME input' = input, changes' = changes
  PROVE  LimitFailure' = LimitFailure
<1>1. DomainParent' = DomainParent /\ KnownDomains' = KnownDomains
  BY SameSides DEF DomainParent, KnownDomains, Known
<1>2. /\ CountExceeded' <=> CountExceeded
      /\ Orphaned' <=> Orphaned
      /\ Cyclic(DomainParent)' <=> Cyclic(DomainParent)
      /\ TooDeep' <=> TooDeep
  BY <1>1, SameSides DEF CountExceeded, Orphaned, Cyclic, TooDeep, ReachesTop
<1> QED BY <1>2 DEF LimitFailure

LEMMA WithinLimitsStep ==
  WithinLimits /\ [PlannerNext]_plannerVars => WithinLimits'
<1> SUFFICES ASSUME WithinLimits, [PlannerNext]_plannerVars, pc' \in {"order", "check", "planned"}
             PROVE  LimitFailure' = None
  BY DEF WithinLimits
<1>1. ~Compare /\ ~EnforceDependencies
  BY DEF Compare, EnforceDependencies
<1>2. LimitFailure = None
  BY <1>1 DEF WithinLimits, PlannerNext, plannerVars, inputVars, orderVars, RejectConfiguration,
     RejectTarget, ExceedLimit, StartOrder, Place, PutOff, Visiting, NextPass, NextSection,
     FinishOrder, Finish, Fail
<1> QED BY <1>1, <1>2, OutcomesKept, SameLimits

LEMMA DecidedStep ==
  PlannerTypeOK /\ AllDecided /\ [PlannerNext]_plannerVars => AllDecided'
<1> SUFFICES ASSUME PlannerTypeOK, AllDecided, [PlannerNext]_plannerVars,
                    pc' \notin {"start", "failed"}, NEW id \in Id
             PROVE  Decided(id)'
  BY DEF AllDecided
<1>1. input' = input
  BY InputKept
<1>2. CASE Compare
  <2>1. changes'[id] = Compared(id)
    BY <1>2 DEF Compare
  <2> QED BY <1>1, <2>1, ComparedIsDecided, SameSides DEF Decided, PlannerTypeOK
<1>3. CASE EnforceDependencies
  <2>1. changes'[id] \in {changes[id], "blocked"} /\ Decided(id)
    BY <1>3 DEF EnforceDependencies, AllDecided
  <2> QED BY <1>1, <2>1, SameSides DEF Decided
<1>4. CASE ~Compare /\ ~EnforceDependencies
  <2>1. changes' = changes
    BY <1>4, OutcomesKept
  <2>2. Decided(id)
    BY <1>4 DEF AllDecided, PlannerNext, plannerVars, inputVars, orderVars, RejectConfiguration,
     RejectTarget, ExceedLimit, StartOrder, Place, PutOff, Visiting, NextPass, NextSection,
     FinishOrder, Finish, Fail
  <2> QED BY <1>1, <2>1, <2>2, SameSides DEF Decided
<1> QED BY <1>2, <1>3, <1>4

LEMMA AncestralStep ==
  PlannerTypeOK /\ Ancestral /\ [PlannerNext]_plannerVars => Ancestral'
<1> SUFFICES ASSUME PlannerTypeOK, Ancestral, [PlannerNext]_plannerVars,
                    pc' \notin {"start", "dependencies", "failed"}, NEW t \in Term,
                    changes'[t] \in Acting
             PROVE  SoundAncestry(t)'
  BY DEF Ancestral
<1>1. input' = input /\ ~Compare
  BY InputKept DEF Compare
<1>2. SoundAncestry(t)
  <2>1. CASE EnforceDependencies
    <3>1. t \in Id
      BY DEF Id
    <3>2. DependenciesHold(t)
      BY <2>1, <3>1 DEF EnforceDependencies, Acting
    <3> QED BY <3>2 DEF DependenciesHold
  <2>2. CASE ~EnforceDependencies
    <3>1. changes' = changes
      BY <1>1, <2>2, OutcomesKept
    <3>2. pc \notin {"start", "dependencies", "failed"}
      BY <1>1, <2>2 DEF PlannerNext, plannerVars, inputVars, orderVars, RejectConfiguration,
       RejectTarget, ExceedLimit, StartOrder, Place, PutOff, Visiting, NextPass, NextSection,
       FinishOrder, Finish, Fail
    <3> QED BY <3>1, <3>2 DEF Ancestral
  <2> QED BY <2>1, <2>2
<1> QED BY <1>1, <1>2, SameTerms

LEMMA HInvStep == HInv /\ [PlannerNext]_plannerVars => HInv'
BY InvStep, ValidatedStep, UnorderedStep, InPassStep, NeverStuckStep, WithinLimitsStep,
   DecidedStep, AncestralStep
DEF HInv, OInv, PlannerInv

LEMMA OutcomeInvariant == PlannerSpec => []HInv
<1>1. PlannerInit => WithinLimits /\ AllDecided /\ Ancestral
  BY DEF PlannerInit, WithinLimits, AllDecided, Ancestral
<1>2. HInv /\ [PlannerNext]_plannerVars => HInv'
  BY HInvStep
<1>3. OInv /\ WithinLimits /\ AllDecided /\ Ancestral => HInv
  BY DEF HInv
<1>4. PlannerSpec => PlannerInit /\ [][PlannerNext]_plannerVars
  BY DEF PlannerSpec
<1> QED BY <1>1, <1>2, <1>3, <1>4, OrderInvariant, PTL

-----------------------------------------------------------------------------
(* The hierarchy a ready plan leaves behind. *)

(* Above the top there is nothing. *)
LEMMA TopIsTop ==
  ASSUME NEW up, NEW x, NoLink \notin DOMAIN up, NEW n \in Nat, Climb(up, x)[n] = NoLink,
         NEW m \in Nat, n <= m
  PROVE  Climb(up, x)[m] = NoLink
<1> DEFINE S == {k \in Nat : Climb(up, x)[n + k] = NoLink}
<1>1. 0 \in S
  OBVIOUS
<1>2. ASSUME NEW k \in Nat, k \in S PROVE k + 1 \in S
  <2>1. n + k \in Nat /\ n + (k + 1) = (n + k) + 1
    OBVIOUS
  <2>2. Climb(up, x)[(n + k) + 1] = NoLink
    BY <1>2, <2>1, ClimbFacts
  <2> QED BY <2>1, <2>2
<1>3. Nat \subseteq S
  <2> HIDE DEF S
  <2> QED BY <1>1, <1>2, AllNaturals
<1>4. m - n \in Nat /\ n + (m - n) = m
  OBVIOUS
<1> QED BY <1>3, <1>4

(* A climb that meets an id twice goes round from there. *)
LEMMA ClimbRepeats ==
  ASSUME NEW up, NEW x, NEW i \in Nat, NEW j \in Nat, Climb(up, x)[i] = Climb(up, x)[j],
         NEW k \in Nat
  PROVE  Climb(up, x)[i + k] = Climb(up, x)[j + k]
<1> DEFINE S == {n \in Nat : Climb(up, x)[i + n] = Climb(up, x)[j + n]}
<1>1. 0 \in S
  OBVIOUS
<1>2. ASSUME NEW n \in Nat, n \in S PROVE n + 1 \in S
  <2>1. /\ i + n \in Nat /\ i + (n + 1) = (i + n) + 1
        /\ j + n \in Nat /\ j + (n + 1) = (j + n) + 1
    OBVIOUS
  <2>2. Climb(up, x)[(i + n) + 1] = Climb(up, x)[(j + n) + 1]
    BY <1>2, <2>1, ClimbFacts
  <2> QED BY <2>1, <2>2
<1>3. Nat \subseteq S
  <2> HIDE DEF S
  <2> QED BY <1>1, <1>2, AllNaturals
<1> QED BY <1>3

(* A climb through a finite set that reaches the top takes no more steps than the *)
(* set has members.                                                               *)
LEMMA ShortClimb ==
  ASSUME NEW up, NEW D, IsFiniteSet(D), NoLink \notin D, NEW x, NEW n \in Nat,
         Climb(up, x)[n] = NoLink, \A i \in 0..(n - 1) : Climb(up, x)[i] \in D, n # 0
  PROVE  ReachesTop(up, x, Cardinality(D))
<1> DEFINE c == Climb(up, x)
           S == {m \in Nat : c[m] = NoLink}
<1>1. PICK m \in S : \A k \in S : m <= k
  <2>1. S \subseteq Nat /\ S # {}
    OBVIOUS
  <2> HIDE DEF S
  <2> QED BY <2>1, LeastNatural
<1>2. m \in Nat /\ c[m] = NoLink /\ m <= n /\ m # 0
  <2>1. c[0] \in D
    OBVIOUS
  <2> QED BY <1>1, <2>1
<1>3. \A i \in 0..(m - 1) : c[i] \in D /\ i \in Nat
  BY <1>2
<1>4. Cardinality(D) \in Nat
  BY FS_CardinalityType
<1>5. m <= Cardinality(D)
  <2> SUFFICES ASSUME Cardinality(D) < m PROVE FALSE
    BY <1>2, <1>4
  <2> DEFINE f == [i \in 0..(m - 1) |-> c[i]]
  <2>1. f \in [0..(m - 1) -> D]
    BY <1>3
  <2>2. IsFiniteSet(0..(m - 1)) /\ Cardinality(0..(m - 1)) = m
    <3> HIDE DEF c, S, f
    <3>1. 0 \in Int /\ m - 1 \in Int /\ ~(0 > m - 1) /\ (m - 1) - 0 + 1 = m
      BY <1>2
    <3>2. /\ IsFiniteSet(0..(m - 1))
          /\ Cardinality(0..(m - 1)) = IF 0 > m - 1 THEN 0 ELSE (m - 1) - 0 + 1
      BY <3>1, FS_Interval
    <3> QED BY <3>1, <3>2
  <2> HIDE DEF f
  <2>3. PICK i \in 0..(m - 1), j \in 0..(m - 1) : i # j /\ f[i] = f[j]
    BY <2>1, <2>2, FS_PigeonHole
  <2>4. c[i] = c[j] /\ i \in Nat /\ j \in Nat
    BY <2>3 DEF f
  <2> HIDE DEF c
  <2>5. \A k \in Nat : c[i + k] = c[j + k]
    BY <2>4, ClimbRepeats DEF c
  <2>6. CASE i < j
    <3>1. m - j \in Nat /\ j + (m - j) = m /\ i + (m - j) \in Nat /\ i + (m - j) < m
      BY <1>2, <2>4, <2>6
    <3>2. c[i + (m - j)] = NoLink
      BY <1>2, <2>5, <3>1
    <3> QED BY <1>1, <1>2, <3>1, <3>2
  <2>7. CASE j < i
    <3>1. m - i \in Nat /\ i + (m - i) = m /\ j + (m - i) \in Nat /\ j + (m - i) < m
      BY <1>2, <2>4, <2>7
    <3>2. c[j + (m - i)] = NoLink
      BY <1>2, <2>5, <3>1
    <3> QED BY <1>1, <1>2, <3>1, <3>2
  <2> QED BY <2>3, <2>4, <2>6, <2>7
<1> QED BY <1>2, <1>4, <1>5 DEF ReachesTop

(* The limits, taken apart. *)
LEMMA NoLimitExceeded ==
  ASSUME LimitFailure = None
  PROVE  ~CountExceeded /\ ~Orphaned /\ ~Cyclic(DomainParent) /\ ~TooDeep
<1>1. CASE CountExceeded
  BY <1>1, MarkerAssumption DEF LimitFailure
<1>2. CASE ~CountExceeded /\ Orphaned
  BY <1>2, MarkerAssumption DEF LimitFailure
<1>3. CASE ~CountExceeded /\ ~Orphaned /\ Cyclic(DomainParent)
  BY <1>3, MarkerAssumption DEF LimitFailure
<1>4. CASE ~CountExceeded /\ ~Orphaned /\ ~Cyclic(DomainParent) /\ TooDeep
  BY <1>4, MarkerAssumption DEF LimitFailure
<1> QED BY <1>1, <1>2, <1>3, <1>4

(* What is configured is as configured after a ready plan, as far as links go; the *)
(* rest is as it was.                                                              *)
LEMMA AfterFacts ==
  ASSUME HInv, pc = "planned", Eligible, NEW id \in Id
  PROVE  /\ id \in Placed <=> changes[id] \in Acting
         /\ Configured(id) =>
              /\ After(id) \notin {Missing, Uninterpreted}
              /\ After(id).parent = desired[id].parent
              /\ id \notin Domain => After(id).domain = desired[id].domain
         /\ ~Configured(id) => After(id) = remote[id]
         /\ After(id) # Uninterpreted
         /\ id \in Placed => After(id) = desired[id]
<1>1. PlannerInv /\ Decided(id) /\ changes[id] # "blocked"
  BY DEF HInv, OInv, AllDecided, Eligible
<1>2. id \in Placed <=> changes[id] \in Acting
  <2>1. {ops[i] : i \in DOMAIN ops} =
          {[id |-> x, action |-> changes[x]] : x \in {y \in Id : changes[y] \in Acting}}
    BY <1>1 DEF PlannerInv, Checked, WellFormed, Mapped
  <2>2. ASSUME id \in Placed PROVE changes[id] \in Acting
    <3>1. PICK i \in DOMAIN ops : ops[i].id = id
      BY <2>2 DEF Placed
    <3>2. ops[i] \in {[id |-> x, action |-> changes[x]] : x \in {y \in Id : changes[y] \in Acting}}
      BY <2>1
    <3> QED BY <3>1, <3>2
  <2>3. ASSUME changes[id] \in Acting PROVE id \in Placed
    <3>1. [id |-> id, action |-> changes[id]] \in {ops[i] : i \in DOMAIN ops}
      BY <2>1, <2>3
    <3> QED BY <3>1 DEF Placed
  <2> QED BY <2>2, <2>3
<1>3. changes[id] \in Acting => Configured(id)
  BY <1>1 DEF PlannerInv, Grounded
<1>4. CASE ~Configured(id)
  <2>1. After(id) = remote[id]
    BY <1>2, <1>3, <1>4 DEF After
  <2> QED BY <1>1, <1>2, <1>3, <1>4, <2>1 DEF Decided
<1>5. CASE Configured(id)
  <2>1. desired[id] \in Desired
    BY <1>1, <1>5, DesiredFacts DEF PlannerInv, PlannerTypeOK
  <2>2. desired[id] \notin {Missing, Uninterpreted}
    BY <2>1, MarkerAssumption
  <2>3. CASE id \in Placed
    <3>1. After(id) = desired[id]
      BY <2>3 DEF After
    <3> QED BY <1>2, <1>5, <2>2, <3>1
  <2>4. CASE id \notin Placed
    <3>1. After(id) = remote[id]
      BY <2>4 DEF After
    <3>2. changes[id] \notin Acting
      BY <1>2, <2>4
    <3>3. Interpreted(id)
      BY <1>1, <1>5, <3>2 DEF Decided, Interpreted, Acting
    <3>4. ~Changed(id)
      BY <1>1, <1>5, <3>2, <3>3 DEF Decided, Acting
    <3> QED BY <1>2, <1>5, <2>4, <3>1, <3>3, <3>4 DEF Changed, Moved, Interpreted
  <2> QED BY <2>3, <2>4
<1> QED BY <1>4, <1>5

LEMMA DomainsAfter ==
  ASSUME HInv, pc = "planned", Eligible
  PROVE  ParentsAfter(Domain) = DomainParent
<1>1. \A d \in Domain : d \in Id
  BY DEF Id
<1>2. \A d \in Domain : After(d) \notin {Missing, Uninterpreted} <=> Configured(d) \/ Interpreted(d)
  BY <1>1, AfterFacts DEF Interpreted
<1>3. \A d \in Domain : Configured(d) \/ Interpreted(d) =>
        After(d).parent = IF Configured(d) THEN desired[d].parent ELSE remote[d].parent
  BY <1>1, AfterFacts
<1> QED BY <1>2, <1>3 DEF ParentsAfter, DomainParent

LEMMA TermsAfter ==
  ASSUME HInv, pc = "planned", Eligible
  PROVE  /\ ParentsAfter(Term) = TermParent
         /\ \A t \in ResultingTerms : After(t).domain = Resulting(t).domain
<1>1. \A t \in Term : t \in Id /\ t \notin Domain
  BY IdAssumption DEF Id
<1>2. \A t \in Term : After(t) \notin {Missing, Uninterpreted} <=> Configured(t) \/ Interpreted(t)
  BY <1>1, AfterFacts DEF Interpreted
<1>3. \A t \in Term : Configured(t) \/ Interpreted(t) =>
        After(t).parent = Resulting(t).parent /\ After(t).domain = Resulting(t).domain
  BY <1>1, AfterFacts DEF Resulting
<1> QED BY <1>2, <1>3 DEF ParentsAfter, TermParent, ResultingTerms

(* The ancestors of a term that is written. *)
LEMMA AncestorsAfter ==
  ASSUME HInv, pc = "planned", Eligible, NEW t \in Placed \intersect Term
  PROVE  /\ ReachesTop(ParentsAfter(Term), t, Cardinality(Term))
         /\ \A n \in 0..Cardinality(Term) :
              LET above == Climb(ParentsAfter(Term), t)[n] IN
              above # NoLink => /\ above \in DOMAIN ParentsAfter(Term)
                                /\ After(above).domain = After(t).domain
<1> DEFINE c == Climb(TermParent, t)
<1>1. t \in Id /\ changes[t] \in Acting /\ After(t) = desired[t]
  BY AfterFacts DEF Id
<1>2. PICK n \in 1..Cardinality(ResultingTerms) + 1 :
        /\ c[n] = NoLink
        /\ \A i \in 0..(n - 1) : c[i] \in ResultingTerms
        /\ \A i \in 0..(n - 1) : Resulting(c[i]).domain = desired[t].domain
  BY <1>1 DEF HInv, Ancestral, SoundAncestry
<1>3. n \in Nat /\ n # 0
  BY <1>2
<1>4. IsFiniteSet(Term) /\ Cardinality(Term) \in Nat
  <2>1. Term \in SUBSET Id
    BY DEF Id
  <2> QED BY <2>1, IdAssumption, FS_Subset, FS_CardinalityType
<1>5. /\ IsFiniteSet(ResultingTerms) /\ NoLink \notin ResultingTerms
      /\ Cardinality(ResultingTerms) \in Nat /\ Cardinality(ResultingTerms) <= Cardinality(Term)
  <2>1. ResultingTerms \in SUBSET Term
    BY DEF ResultingTerms
  <2> QED BY <1>4, <2>1, FS_Subset, FS_CardinalityType, MarkerAssumption DEF Id
<1>6. ReachesTop(TermParent, t, Cardinality(ResultingTerms))
  BY <1>2, <1>3, <1>5, ShortClimb
<1>7. ReachesTop(TermParent, t, Cardinality(Term))
  BY <1>4, <1>5, <1>6 DEF ReachesTop
<1>8. ASSUME NEW m \in 0..Cardinality(Term), c[m] # NoLink
      PROVE  c[m] \in DOMAIN TermParent /\ After(c[m]).domain = After(t).domain
  <2>1. m \in Nat /\ DOMAIN TermParent = ResultingTerms
    BY <1>4 DEF TermParent
  <2>2. m < n
    BY <1>2, <1>3, <1>5, <1>8, <2>1, TopIsTop
  <2>3. c[m] \in ResultingTerms /\ Resulting(c[m]).domain = desired[t].domain
    BY <1>2, <1>3, <2>1, <2>2
  <2> QED BY <1>1, <2>1, <2>3, TermsAfter
<1> QED BY <1>7, <1>8, TermsAfter

(* The domains a ready plan leaves are those there are and those it creates. *)
LEMMA DomainsCounted ==
  ASSUME HInv, pc = "planned", Eligible
  PROVE  Cardinality({d \in Domain : After(d) # Missing}) + input.strays <= MaxDomains
<1> DEFINE Had == {d \in Domain : remote[d] # Missing}
           New == {d \in Domain : changes[d] = "create"}
<1>1. ~CountExceeded
  BY NoLimitExceeded DEF HInv, WithinLimits
<1>2. IsFiniteSet(Domain)
  <2>1. Domain \in SUBSET Id
    BY DEF Id
  <2> QED BY <2>1, IdAssumption, FS_Subset
<1>3. /\ IsFiniteSet(Had) /\ IsFiniteSet(New) /\ Cardinality(Had) \in Nat /\ Cardinality(New) \in Nat
  <2>1. Had \in SUBSET Domain /\ New \in SUBSET Domain
    OBVIOUS
  <2> QED BY <1>2, <2>1, FS_Subset, FS_CardinalityType
<1>4. \A d \in Domain : d \in Id /\ Decided(d) /\ changes[d] # "blocked"
  BY DEF Id, HInv, AllDecided, Eligible
<1>5. Had \intersect New = {}
  BY <1>4 DEF Decided
<1>6. {d \in Domain : After(d) # Missing} = Had \union New
  <2>1. ASSUME NEW d \in Domain PROVE After(d) # Missing <=> d \in Had \union New
    <3>1. CASE Configured(d)
      BY <1>4, <3>1, AfterFacts DEF Decided
    <3>2. CASE ~Configured(d)
      BY <1>4, <3>2, AfterFacts DEF Decided
    <3> QED BY <3>1, <3>2
  <2> QED BY <2>1
<1>7. Cardinality(Had \union New) = Cardinality(Had) + Cardinality(New)
  <2>1. Cardinality(Had \intersect New) = 0
    BY <1>5, FS_EmptySet
  <2>2. Cardinality(Had \union New) = Cardinality(Had) + Cardinality(New) - Cardinality(Had \intersect New)
    <3> HIDE DEF Had, New
    <3> QED BY <1>3, FS_Union
  <2> QED BY <1>3, <2>1, <2>2
<1>8. input.strays \in Nat
  BY DEF HInv, OInv, PlannerInv, PlannerTypeOK, Input
<1>9. ~(Cardinality(Had) + input.strays + Cardinality(New) > MaxDomains)
  BY <1>1 DEF CountExceeded
<1> DEFINE a == Cardinality(Had)
           b == Cardinality(New)
           s == input.strays
<1>10. a \in Nat /\ b \in Nat /\ s \in Nat /\ ~(a + s + b > MaxDomains)
  BY <1>3, <1>8, <1>9
<1>11. Cardinality({d \in Domain : After(d) # Missing}) = a + b
  BY <1>6, <1>7
<1> HIDE DEF a, b, s
<1>12. a + b + s <= MaxDomains
  BY <1>10, LimitAssumption
<1>13. (a + b) + input.strays <= MaxDomains
  BY <1>12 DEF s
<1> QED BY <1>11, <1>13

LEMMA HierarchyKept == HInv => PlansKeepHierarchy
<1>1. ASSUME HInv, pc = "planned", Eligible
      PROVE  /\ \A d \in Domain : After(d) # Missing => ReachesTop(ParentsAfter(Domain), d, MaxDepth)
             /\ \A d \in DOMAIN ParentsAfter(Domain) :
                  After(d).parent # NoLink => After(After(d).parent) # Missing
  <2>1. ~Orphaned /\ ~TooDeep
    BY <1>1, NoLimitExceeded DEF HInv, WithinLimits
  <2>2. ParentsAfter(Domain) = DomainParent
    BY <1>1, DomainsAfter
  <2>3. ASSUME NEW d \in Domain, After(d) # Missing
        PROVE  ReachesTop(ParentsAfter(Domain), d, MaxDepth)
    <3>1. d \in DOMAIN ParentsAfter(Domain)
      BY <1>1, <2>3, AfterFacts DEF ParentsAfter, Id
    <3> QED BY <2>1, <2>2, <3>1 DEF TooDeep
  <2>4. ASSUME NEW d \in DOMAIN ParentsAfter(Domain), After(d).parent # NoLink
        PROVE  After(After(d).parent) # Missing
    <3>1. ParentsAfter(Domain)[d] = After(d).parent
      BY DEF ParentsAfter
    <3>2. After(d).parent \in KnownDomains
      BY <2>1, <2>2, <2>4, <3>1 DEF Orphaned
    <3> QED BY <1>1, <3>2, AfterFacts DEF KnownDomains, Known, Id
  <2> QED BY <2>3, <2>4
<1> QED BY <1>1, DomainsCounted, AncestorsAfter DEF PlansKeepHierarchy

(* A ready plan of build_governance_plan_v3 leaves trees behind, for every number of *)
(* resources: every parent is there, the domains are within the limits of depth and  *)
(* number, and the ancestors of a term that is written are of its domain.            *)
THEOREM ReadyPlansKeepHierarchy == PlannerSpec => []PlansKeepHierarchy
  BY HierarchyKept, OutcomeInvariant, PTL
=============================================================================
