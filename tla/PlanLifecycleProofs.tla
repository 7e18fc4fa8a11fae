-------------------------- MODULE PlanLifecycleProofs --------------------------
(***************************************************************************)
(* Theorems about plans that are carried out, however often an execution   *)
(* ends early and the catalog is planned anew, for every set of ids and    *)
(* every input: no reference in the catalog dangles meanwhile, every later *)
(* plan is as sound as the first, and it is what the last one left.        *)
(***************************************************************************)
EXTENDS PlanLifecycle, GovernancePlannerProofs

-----------------------------------------------------------------------------
(* The inductive invariant. *)

Carrying == pc \in {"applying", "refused"}

(* What the resource with this id would have as its parent and domain. *)
Placement(id) ==
  /\ remote[id] \notin {Missing, Uninterpreted}
  /\ remote[id].domain = desired[id].domain /\ remote[id].parent = desired[id].parent

(* What a parent is written with, or already has, is the domain of the term under it. *)
UnderOwnDomain(t) ==
  LET parent == desired[t].parent IN
  parent \in Term =>
    /\ Configured(parent) => desired[parent].domain = desired[t].domain
    /\ Interpreted(parent) => remote[parent].domain = desired[t].domain

(* A plan that is being carried out: what was true of it when it was accepted, with *)
(* the operations carried out so far in place.                                      *)
InHand ==
  pc = "applying" =>
    /\ input \in Input /\ failure = None
    /\ ops \in Seq(Operation) /\ done \in 0..Len(ops)
    /\ \A i \in DOMAIN ops :
         /\ Configured(ops[i].id) /\ (ops[i].action = "replace" => Interpreted(ops[i].id))
         /\ ResolvedAt(desired[ops[i].id].domain, i) /\ ResolvedAt(desired[ops[i].id].parent, i)
         /\ ops[i].id \in Term => UnderOwnDomain(ops[i].id)
    /\ \A i \in 1..done : Placement(ops[i].id)

LInv == (~Carrying => HInv) /\ InHand

-----------------------------------------------------------------------------
(* A plan begins. *)

(* Where plan create begins, at first and again. *)
Beginning ==
  /\ input \in Input
  /\ pc = "start" /\ failure = None
  /\ changes = Unplanned
  /\ section = 0 /\ remaining = {} /\ later = {} /\ progressed = FALSE /\ ops = <<>>

LEMMA BeginsWell == Beginning => HInv
<1> SUFFICES ASSUME Beginning PROVE HInv
  OBVIOUS
<1>1. PlannerTypeOK
  <2>1. changes \in [Id -> Outcome]
    BY DEF Beginning, Unplanned, Outcome
  <2>2. failure \in Failures /\ section \in 0..6
    <3>1. failure = None /\ section = 0
      BY DEF Beginning
    <3> QED BY <3>1 DEF Failures
  <2>3. progressed \in BOOLEAN
    BY Zenon DEF Beginning
  <2>4. ops \in Seq(Operation)
    BY DEF Beginning
  <2> QED BY <2>1, <2>2, <2>3, <2>4 DEF PlannerTypeOK, Beginning
<1>2. pc = "start" /\ ops = <<>> /\ later = {} /\ remaining = {} /\ section = 0 /\ failure = None
  BY DEF Beginning
<1>3. ~progressed
  BY Zenon DEF Beginning
<1>4. ParentsFirst
  <2>1. DOMAIN ops = {}
    BY <1>2
  <2> QED BY <2>1 DEF ParentsFirst
<1>5. PlannerInv
  BY <1>1, <1>2, <1>4
  DEF PlannerInv, Unstarted, Underway, Grounded, Supported, ParentsKnown, Checked
<1> QED BY <1>2, <1>3, <1>5
    DEF HInv, OInv, Validated, Unordered, InPass, OrderingNeverStuck, WithinLimits, AllDecided,
        Ancestral

LEMMA LifecycleInit == Init => LInv
<1> SUFFICES ASSUME Init PROVE LInv
  OBVIOUS
<1>1. Beginning
  BY InputAssumption DEF Init, PlannerInit, Beginning
<1>2. pc = "start"
  BY <1>1 DEF Beginning
<1> QED BY <1>1, <1>2, BeginsWell DEF LInv, InHand

(* An execution that has ended, early or not, leaves a catalog to plan for anew. *)
LEMMA BeginsAgain ==
  ASSUME LInv, pc = "applying", PlanAgain
  PROVE  LInv'
<1>1. Beginning'
  BY DEF LInv, InHand, PlanAgain, Beginning, inputVars, Unplanned
<1>2. Beginning' => HInv'
  BY BeginsWell, PTL
<1>3. pc' = "start"
  BY DEF PlanAgain
<1> QED BY <1>1, <1>2, <1>3 DEF LInv, InHand

-----------------------------------------------------------------------------
(* A plan is accepted. *)

LEMMA SoundParents ==
  ASSUME HInv, pc = "planned", Eligible, NEW t \in Term, changes[t] \in Acting
  PROVE  UnderOwnDomain(t)
<1> SUFFICES ASSUME NEW parent \in Term, desired[t].parent = parent
             PROVE  /\ Configured(parent) => desired[parent].domain = desired[t].domain
                    /\ Interpreted(parent) => remote[parent].domain = desired[t].domain
  BY DEF UnderOwnDomain
<1>1. PICK n \in 1..Cardinality(ResultingTerms) + 1 :
        /\ Climb(TermParent, t)[n] = NoLink
        /\ \A i \in 0..(n - 1) : Climb(TermParent, t)[i] \in ResultingTerms
        /\ \A i \in 0..(n - 1) : Resulting(Climb(TermParent, t)[i]).domain = desired[t].domain
  BY DEF HInv, Ancestral, SoundAncestry
<1>2. t \in Id /\ parent \in Id /\ parent # NoLink /\ Configured(t)
  BY MarkerAssumption DEF Id, HInv, OInv, PlannerInv, Grounded
<1>3. Climb(TermParent, t)[1] = parent
  <2>1. t \in DOMAIN TermParent /\ TermParent[t] = parent
    BY <1>2 DEF TermParent, ResultingTerms, Resulting
  <2>2. Climb(TermParent, t)[0] = t /\ Climb(TermParent, t)[0 + 1] = TermParent[t]
    BY <2>1, ClimbFacts
  <2> QED BY <2>1, <2>2
<1>4. 1 \in 0..(n - 1)
  BY <1>1, <1>2, <1>3
<1>5. Resulting(parent).domain = desired[t].domain
  BY <1>1, <1>3, <1>4
<1>6. Decided(parent) /\ changes[parent] # "blocked" /\ parent \notin Domain
  BY <1>2, IdAssumption DEF HInv, AllDecided, Eligible
<1>7. Configured(parent) /\ Interpreted(parent) => ~Moved(parent)
  BY <1>6 DEF Decided
<1> QED BY <1>5, <1>7 DEF Resulting, Moved

LEMMA ApplyStep ==
  ASSUME LInv, Apply
  PROVE  LInv'
<1>1. HInv /\ pc = "planned" /\ Eligible /\ pc' = "applying" /\ done' = 0
  BY DEF LInv, Carrying, Apply, Ready
<1>2. UNCHANGED <<input, failure, changes, ops>>
  BY DEF Apply, inputVars, orderVars
<1>3. input \in Input /\ ops \in Seq(Operation) /\ failure = None
  BY <1>1 DEF HInv, OInv, PlannerInv, PlannerTypeOK, Unordered
<1>4. ASSUME NEW i \in DOMAIN ops
      PROVE  /\ Configured(ops[i].id) /\ (ops[i].action = "replace" => Interpreted(ops[i].id))
             /\ ResolvedAt(desired[ops[i].id].domain, i)
             /\ ResolvedAt(desired[ops[i].id].parent, i)
             /\ ops[i].id \in Term => UnderOwnDomain(ops[i].id)
  <2>1. PlannerInv
    BY <1>1 DEF HInv, OInv
  <2>2. /\ Configured(ops[i].id) /\ changes[ops[i].id] = ops[i].action /\ ops[i] \in Operation
    BY <1>1, <2>1, PlannedFacts
  <2>3. changes[ops[i].id] \in Acting
    BY <2>2 DEF Operation
  <2>4. PlansResolveInOrder
    BY <2>1, DomainResolved, ParentResolved DEF PlansResolveInOrder
  <2>5. ops[i].action = "replace" => Interpreted(ops[i].id)
    BY <1>1, <2>2 DEF HInv, AllDecided, Decided, Eligible, Operation
  <2> QED BY <1>1, <2>2, <2>3, <2>4, <2>5, SoundParents DEF PlansResolveInOrder
<1>5. Len(ops) \in Nat /\ 0 \in 0..Len(ops) /\ 1..0 = {}
  BY <1>3, LenProperties
<1> QED BY <1>1, <1>2, <1>3, <1>4, <1>5
    DEF LInv, Carrying, InHand, Configured, Interpreted, desired, remote, ResolvedAt, UnderOwnDomain,
        Placement

-----------------------------------------------------------------------------
(* An operation is carried out. *)

(* What the service holds after a write is a resource, placed as wanted. *)
LEMMA WrittenFacts ==
  ASSUME LInv, pc = "applying", NEW i \in DOMAIN ops, NEW r \in Written(ops[i])
  PROVE  /\ r \in Remote /\ Linked(ops[i].id, r)
         /\ r.domain = desired[ops[i].id].domain /\ r.parent = desired[ops[i].id].parent
         /\ r.key = desired[ops[i].id].key
         /\ desired[ops[i].id].soft # Unmanaged => r.soft = desired[ops[i].id].soft
         /\ r.unsupported => Interpreted(ops[i].id) /\ remote[ops[i].id].unsupported
<1> DEFINE id == ops[i].id
           want == desired[id]
<1>1. /\ input \in Input /\ id \in Id /\ Configured(id) /\ ops[i].action \in Acting
      /\ (ops[i].action = "replace" => Interpreted(id))
  <2>1. /\ input \in Input /\ ops \in Seq(Operation) /\ Configured(id)
        /\ (ops[i].action = "replace" => Interpreted(id))
    BY DEF LInv, InHand
  <2>2. ops[i] \in Operation
    BY <2>1, ElementOfSeq
  <2> QED BY <2>1, <2>2 DEF Operation
<1>2. want \in Desired /\ Linked(id, want)
  BY <1>1, DesiredFacts
<1>3. ASSUME NEW base \in Soft \union {Unset}
      PROVE  /\ SoftWritten(id, base) \in Soft \union {Unset}
             /\ want.soft # Unmanaged => SoftWritten(id, base) = want.soft
  BY <1>2 DEF SoftWritten, Desired
<1>4. CASE ops[i].action = "create"
  <2>1. PICK given \in Soft \union {Unset} :
          r = [key |-> want.key, soft |-> SoftWritten(id, given), domain |-> want.domain,
               parent |-> want.parent, locked |-> FALSE, unsupported |-> FALSE]
    BY <1>4 DEF Written
  <2>2. /\ SoftWritten(id, given) \in Soft \union {Unset}
        /\ want.soft # Unmanaged => SoftWritten(id, given) = want.soft
    BY <1>3
  <2> QED BY <1>2, <2>1, <2>2 DEF Remote, Desired, Linked
<1>5. CASE ops[i].action = "replace"
  <2>1. remote[id] \in Remote
    BY <1>1, <1>5 DEF Input, Interpreted, remote
  <2>2. r = [remote[id] EXCEPT !.key = want.key, !.parent = want.parent, !.domain = want.domain,
                               !.soft = SoftWritten(id, remote[id].soft)]
    BY <1>5 DEF Written
  <2>3. /\ SoftWritten(id, remote[id].soft) \in Soft \union {Unset}
        /\ want.soft # Unmanaged => SoftWritten(id, remote[id].soft) = want.soft
    BY <1>3, <2>1 DEF Remote
  <2> QED BY <1>1, <1>2, <1>5, <2>1, <2>2, <2>3 DEF Remote, Desired, Linked
<1> QED BY <1>1, <1>4, <1>5 DEF Acting

(* What changes when an operation is carried out: the resource with its id. *)
LEMMA CarryOutFacts ==
  ASSUME LInv, CarryOut
  PROVE  LET id == ops[done + 1].id IN
         \E r \in Remote :
           /\ r.domain = desired[id].domain /\ r.parent = desired[id].parent
           /\ r.key = desired[id].key /\ (desired[id].soft # Unmanaged => r.soft = desired[id].soft)
           /\ r.unsupported => Interpreted(id) /\ remote[id].unsupported
           /\ r \notin {Missing, Uninterpreted}
           /\ input' \in Input /\ desired' = desired /\ input'.sameTenant = input.sameTenant
           /\ input'.scope = input.scope /\ input'.strays = input.strays
           /\ \A j \in Id : remote'[j] = IF j = id THEN r ELSE remote[j]
<1>1. /\ pc = "applying" /\ pc' = "applying" /\ done' = done + 1 /\ done \in 0..Len(ops)
      /\ input \in Input /\ ops \in Seq(Operation) /\ failure = None /\ done < Len(ops)
      /\ ops' = ops /\ failure' = failure
  BY DEF CarryOut, LInv, InHand, orderVars
<1> DEFINE k == done + 1
           id == ops[k].id
<1>2. k \in DOMAIN ops /\ k \in 1..Len(ops) /\ Len(ops) \in Nat /\ DOMAIN ops = 1..Len(ops)
  BY <1>1, LenProperties
<1>3. PICK r \in Written(ops[k]) : input' = [input EXCEPT !.remote[id] = r]
  BY DEF CarryOut
<1>4. id \in Id
  <2>1. ops[k] \in Operation
    BY <1>1, <1>2, ElementOfSeq
  <2> QED BY <2>1 DEF Operation
<1>5. /\ r \in Remote /\ Linked(id, r)
      /\ r.domain = desired[id].domain /\ r.parent = desired[id].parent
      /\ r.key = desired[id].key /\ (desired[id].soft # Unmanaged => r.soft = desired[id].soft)
      /\ r.unsupported => Interpreted(id) /\ remote[id].unsupported
  BY <1>1, <1>2, WrittenFacts
<1> HIDE DEF id
<1>6. /\ input' \in Input /\ desired' = desired /\ remote' = [remote EXCEPT ![id] = r]
      /\ input'.sameTenant = input.sameTenant /\ input'.scope = input.scope
      /\ input'.strays = input.strays
  <2>1. /\ input' = [input EXCEPT !.remote = [input.remote EXCEPT ![id] = r]]
    BY <1>3
  <2>2. [input.remote EXCEPT ![id] = r] \in [Id -> Remote \union {Missing, Uninterpreted}]
    BY <1>1, <1>4, <1>5 DEF Input
  <2>3. /\ input'.desired = input.desired /\ input'.remote = [input.remote EXCEPT ![id] = r]
        /\ input'.sameTenant = input.sameTenant /\ input'.scope = input.scope
        /\ input'.strays = input.strays
    BY <1>1, <2>1 DEF Input
  <2>4. \A j \in Id :
          input'.remote[j] \notin {Missing, Uninterpreted} => Linked(j, input'.remote[j])
    BY <1>1, <1>4, <1>5, <2>2, <2>3 DEF Input
  <2> QED BY <1>1, <2>1, <2>2, <2>3, <2>4 DEF Input, desired, remote
<1>7. r \notin {Missing, Uninterpreted}
  BY <1>5, MarkerAssumption
<1>8. \A j \in Id : remote'[j] = IF j = id THEN r ELSE remote[j]
  BY <1>1, <1>6 DEF Input, remote
<1> QED BY <1>5, <1>6, <1>7, <1>8 DEF id

LEMMA CarryOutStep ==
  ASSUME LInv, CarryOut
  PROVE  LInv'
<1>1. /\ pc = "applying" /\ pc' = "applying" /\ done' = done + 1 /\ done \in 0..Len(ops)
      /\ input \in Input /\ ops \in Seq(Operation) /\ failure = None /\ done < Len(ops)
      /\ ops' = ops /\ failure' = failure
  BY DEF CarryOut, LInv, InHand, orderVars
<1> DEFINE k == done + 1
           id == ops[k].id
<1>2. k \in DOMAIN ops /\ k \in 1..Len(ops) /\ Len(ops) \in Nat /\ DOMAIN ops = 1..Len(ops)
  BY <1>1, LenProperties
<1>3. PICK r \in Remote :
        /\ r.domain = desired[id].domain /\ r.parent = desired[id].parent
        /\ r \notin {Missing, Uninterpreted}
        /\ input' \in Input /\ desired' = desired
        /\ \A j \in Id : remote'[j] = IF j = id THEN r ELSE remote[j]
  BY CarryOutFacts
<1>4. id \in Id
  <2>1. ops[k] \in Operation
    BY <1>1, <1>2, ElementOfSeq
  <2> QED BY <2>1 DEF Operation
<1> HIDE DEF id
<1>5. ASSUME NEW j \in Id
      PROVE  /\ Configured(j)' <=> Configured(j)
             /\ Interpreted(j) => Interpreted(j)'
             /\ remote[j] # Missing => remote'[j] # Missing
  BY <1>3 DEF Configured, Interpreted
<1>6. ASSUME NEW i \in DOMAIN ops
       PROVE  /\ ops[i].id \in Id /\ Configured(ops[i].id)
              /\ (ops[i].action = "replace" => Interpreted(ops[i].id))
              /\ ResolvedAt(desired[ops[i].id].domain, i)
              /\ ResolvedAt(desired[ops[i].id].parent, i)
              /\ ops[i].id \in Term => UnderOwnDomain(ops[i].id)
  <2>1. ops[i] \in Operation
    BY <1>1, ElementOfSeq
  <2> QED BY <1>1, <2>1 DEF LInv, InHand, Operation
<1>7. ASSUME NEW i \in DOMAIN ops, NEW link, ResolvedAt(link, i)
       PROVE  ResolvedAt(link, i)'
  BY <1>1, <1>5, <1>7 DEF ResolvedAt
<1>8. ASSUME NEW t \in Term, UnderOwnDomain(t)
       PROVE  UnderOwnDomain(t)'
  <2> SUFFICES ASSUME NEW parent \in Term, desired[t].parent = parent
               PROVE  /\ Configured(parent)' => desired'[parent].domain = desired'[t].domain
                      /\ Interpreted(parent)' => remote'[parent].domain = desired'[t].domain
    BY <1>3 DEF UnderOwnDomain
  <2>1. parent \in Id /\ (Configured(parent) => desired[parent].domain = desired[t].domain)
    BY <1>8 DEF UnderOwnDomain, Id
  <2>2. CASE parent = id
    BY <1>2, <1>3, <1>5, <1>6, <2>1, <2>2 DEF id
  <2>3. CASE parent # id
    BY <1>3, <1>5, <1>8, <2>1, <2>3 DEF UnderOwnDomain, Interpreted
  <2> QED BY <2>2, <2>3
<1>9. ASSUME NEW i \in 1..(done + 1) PROVE Placement(ops[i].id)'
  <2>1. i \in DOMAIN ops /\ ops[i].id \in Id
    BY <1>1, <1>2, <1>6
  <2>2. CASE ops[i].id = id
    BY <1>4, <1>3, <1>1, <2>2 DEF Placement
  <2>3. CASE ops[i].id # id
    <3>1. i \in 1..done
      BY <1>1, <2>3 DEF id
    <3>2. Placement(ops[i].id)
      BY <1>1, <3>1 DEF LInv, InHand
    <3> QED BY <1>1, <1>3, <2>1, <2>3, <3>2 DEF Placement
  <2> QED BY <2>2, <2>3
<1>10. done' \in 0..Len(ops')
  BY <1>1, <1>2
<1> QED
  <2>1. \A i \in DOMAIN ops :
          /\ Configured(ops[i].id)' /\ (ops[i].action = "replace" => Interpreted(ops[i].id)')
          /\ ResolvedAt(desired[ops[i].id].domain, i)'
          /\ ResolvedAt(desired[ops[i].id].parent, i)'
          /\ ops[i].id \in Term => UnderOwnDomain(ops[i].id)'
    BY <1>1, <1>3, <1>5, <1>6, <1>7, <1>8
  <2> QED BY <1>1, <1>3, <1>9, <1>10, <2>1 DEF LInv, Carrying, InHand

-----------------------------------------------------------------------------
LEMMA LifecycleStep == LInv /\ [Next]_vars => LInv'
<1> SUFFICES ASSUME LInv, [Next]_vars PROVE LInv'
  OBVIOUS
<1>1. CASE Plan
  <2>1. HInv
    <3>1. pc \notin {"applying", "refused"}
      BY <1>1 DEF Plan, PlannerNext, RejectConfiguration, RejectTarget, Compare,
         EnforceDependencies, ExceedLimit, StartOrder, Place, PutOff, Visiting, NextPass,
         NextSection, FinishOrder, Finish
    <3> QED BY <3>1 DEF LInv, Carrying
  <2>2. HInv'
    BY <1>1, <2>1, HInvStep DEF Plan
  <2>3. pc' # "applying"
    BY <2>2 DEF HInv, OInv, PlannerInv, PlannerTypeOK
  <2> QED BY <2>2, <2>3 DEF LInv, InHand
<1>2. CASE Refuse
  BY <1>2 DEF Refuse, LInv, Carrying, InHand
<1>3. CASE Apply
  BY <1>3, ApplyStep
<1>4. CASE CarryOut
  BY <1>4, CarryOutStep
<1>5. CASE Complete \/ Interrupt
  BY <1>5, BeginsAgain DEF Complete, Interrupt
<1>6. CASE UNCHANGED vars
  <2>1. UNCHANGED <<plannerVars, done>>
    BY <1>6 DEF vars, lifecycleVars
  <2>2. UNCHANGED plannerVars => (HInv => HInv')
    BY HInvStep
  <2>3. InHand'
    BY <2>1 DEF LInv, InHand, plannerVars, inputVars, orderVars, Configured, Interpreted, desired,
       remote, ResolvedAt, UnderOwnDomain, Placement
  <2>4. Carrying' <=> Carrying
    BY <2>1 DEF Carrying, plannerVars
  <2> QED BY <2>1, <2>2, <2>3, <2>4 DEF LInv
<1> QED BY <1>1, <1>2, <1>3, <1>4, <1>5, <1>6 DEF Next

LEMMA LifecycleInvariant == Spec => []LInv
  BY LifecycleInit, LifecycleStep, PTL DEF Spec

-----------------------------------------------------------------------------
(* The theorems. *)

(* Every plan that build_governance_plan_v3 makes in the life of a configuration, from a  *)
(* catalog that any part of any earlier plan has been written to, resolves in order and   *)
(* keeps the hierarchy.                                                                   *)
THEOREM EveryPlanIsSound == Spec => [](PlansResolveInOrder /\ PlansKeepHierarchy)
<1>1. LInv => PlansResolveInOrder /\ PlansKeepHierarchy
  <2> SUFFICES ASSUME LInv PROVE PlansResolveInOrder /\ PlansKeepHierarchy
    OBVIOUS
  <2>1. CASE pc = "planned"
    <3>1. HInv
      BY <2>1 DEF LInv, Carrying
    <3> QED BY <3>1, HierarchyKept, DomainResolved, ParentResolved
            DEF HInv, OInv, PlansResolveInOrder
  <2>2. CASE pc # "planned"
    BY <2>2 DEF PlansResolveInOrder, PlansKeepHierarchy
  <2> QED BY <2>1, <2>2
<1> QED BY <1>1, LifecycleInvariant, PTL

(* After every operation the executor has carried out, and so wherever it stops, what has *)
(* been written links to resources that are there, and a term is in its parent's domain.  *)
THEOREM NothingDangles == Spec => []CatalogStaysLinked
<1>1. LInv => CatalogStaysLinked
  <2> SUFFICES ASSUME LInv, pc = "applying", NEW i \in 1..done
               PROVE  LET written == remote[ops[i].id] IN
                      /\ \A link \in {written.domain, written.parent} :
                           link # NoLink => remote[link] # Missing
                      /\ ops[i].id \in Term /\ written.parent \in Term
                           /\ Interpreted(written.parent) =>
                           remote[written.parent].domain = written.domain
    BY DEF CatalogStaysLinked
  <2>1. /\ i \in DOMAIN ops /\ \A j \in 1..(i - 1) : j \in 1..done
        /\ \A j \in 1..done : Placement(ops[j].id)
        /\ ResolvedAt(desired[ops[i].id].domain, i) /\ ResolvedAt(desired[ops[i].id].parent, i)
        /\ ops[i].id \in Term => UnderOwnDomain(ops[i].id)
    <3>1. ops \in Seq(Operation) /\ done \in 0..Len(ops)
      BY DEF LInv, InHand
    <3>2. i \in DOMAIN ops /\ \A j \in 1..(i - 1) : j \in 1..done
      BY <3>1, LenProperties
    <3> QED BY <3>2 DEF LInv, InHand
  <2>2. /\ remote[ops[i].id].domain = desired[ops[i].id].domain
        /\ remote[ops[i].id].parent = desired[ops[i].id].parent
    BY <2>1 DEF Placement
  <2>3. ASSUME NEW link, ResolvedAt(link, i), link # NoLink
        PROVE  remote[link] # Missing
    BY <2>1, <2>3 DEF ResolvedAt, Placement
  <2> QED BY <2>1, <2>2, <2>3 DEF UnderOwnDomain
<1> QED BY <1>1, LifecycleInvariant, PTL

-----------------------------------------------------------------------------
(* What is left of a plan, and what makes planning anew come to the same.          *)
(*                                                                                 *)
(* "changes" is not known to a later plan; "Compared" is what it will find instead. *)

(* A domain or a parent the executor has written or will have written in time. *)
Reachable(id) == Interpreted(id) \/ Compared(id) = "create"

(* The limits, given that no domain is to be created. *)
LimitsKept ==
  /\ ~Orphaned /\ ~Cyclic(DomainParent) /\ ~TooDeep
  /\ Cardinality({d \in Domain : remote[d] # Missing}) + input.strays <= MaxDomains

(* Operation i of a plan stands where it should among those that follow the first n. *)
Due(s, n, i) ==
  LET id == s[i].id IN
  /\ Configured(id) /\ Compared(id) = s[i].action /\ ~Unsupported(s[i])
  /\ id \notin Domain => Reachable(desired[id].domain)
  /\ id \in Term =>
       /\ desired[id].parent # NoLink => Reachable(desired[id].parent)
       /\ SoundAncestry(id)
  /\ s[i].action = "create" /\ desired[id].parent \in Id /\ Compared(desired[id].parent) = "create" =>
       \E j \in (n + 1)..(i - 1) : s[j].id = desired[id].parent
  /\ \A j \in (n + 1)..(i - 1) : InOrder(s[j], s[i]) /\ s[j].id # id

Quiet(id) == Compared(id) \in {"none", "no-op", "remote-only"}

(* Once the first n of these operations are carried out, the others are the plan. *)
Left(s, n) ==
  /\ input \in Input /\ ValidConfiguration /\ input.sameTenant /\ LimitsKept
  /\ \A id \in Product : Configured(id) => desired[id].soft # Unmanaged
  /\ s \in Seq(Operation) /\ n \in 0..Len(s)
  /\ \A i \in (n + 1)..Len(s) : Due(s, n, i)
  /\ \A id \in Id : Quiet(id) \/ \E i \in (n + 1)..Len(s) : s[i].id = id

(* The planner has found no change but those the comparison shows. *)
Faithful ==
  ~Carrying /\ pc \notin {"start", "failed"} =>
    input.sameTenant /\ \A id \in Id : changes[id] \in {Compared(id), "blocked"}

Exact == changes = [id \in Id |-> Compared(id)]

(* The operations written so far are the first of what was left, and the ids to visit *)
(* are those of the same section among the others.                                    *)
Repeated ==
  /\ later = {} /\ Len(ops) <= Len(rest) /\ \A i \in 1..Len(ops) : ops[i] = rest[i]
  /\ remaining =
       {rest[i].id : i \in {j \in (Len(ops) + 1)..Len(rest) : SectionOf(rest[j]) = section}}
  /\ \A i \in 1..Len(rest) : IF i <= Len(ops) THEN SectionOf(rest[i]) <= section
                                              ELSE SectionOf(rest[i]) >= section

Resumed ==
  rest # None =>
    /\ pc \notin {"failed", "refused"}
    /\ pc # "applying" => Left(rest, 0)
    /\ pc \notin {"start", "applying"} => Exact
    /\ pc = "order" => Repeated
    /\ pc \in {"check", "planned"} => ops = rest

MInv ==
  /\ LInv /\ Faithful /\ Resumed
  /\ pc = "applying" => Eligible /\ Left(ops, done)

LEMMA SameComparison ==
  ASSUME input' = input
  PROVE  \A id : Compared(id)' = Compared(id)
<1>1. /\ desired' = desired /\ remote' = remote /\ input'.scope = input.scope
      /\ \A id : /\ Configured(id)' <=> Configured(id)
                 /\ Interpreted(id)' <=> Interpreted(id)
                 /\ Changed(id)' <=> Changed(id)
                 /\ Moved(id)' <=> Moved(id)
  BY SameSides
<1>2. \A id : NameTaken(id)' <=> NameTaken(id)
  BY <1>1 DEF NameTaken
<1>3. \A id : Matched(id)' = Matched(id)
  BY <1>1 DEF Matched, Irreplaceable
<1>4. \A id : Diff(id)' = Diff(id)
  BY <1>1, <1>2, <1>3 DEF Diff
<1>5. \A id : Captured(id)' <=> Captured(id)
  BY <1>1 DEF Captured
<1> QED BY <1>4, <1>5 DEF Compared

LEMMA SameLeft ==
  ASSUME input' = input, NEW s, NEW n, Left(s, n)
  PROVE  Left(s, n)'
<1>1. /\ desired' = desired /\ remote' = remote /\ input'.sameTenant = input.sameTenant
      /\ input'.strays = input.strays
      /\ \A id : /\ Configured(id)' <=> Configured(id)
                 /\ Interpreted(id)' <=> Interpreted(id)
                 /\ Compared(id)' = Compared(id)
                 /\ SoundAncestry(id)' <=> SoundAncestry(id)
  BY SameSides, SameComparison, SameTerms
<1>2. /\ \A op : Unsupported(op)' <=> Unsupported(op)
      /\ \A id : Reachable(id)' <=> Reachable(id)
      /\ \A id : Quiet(id)' <=> Quiet(id)
  BY <1>1 DEF Unsupported, Reachable, Quiet
<1>3. \A i : Due(s, n, i)' <=> Due(s, n, i)
  BY <1>1, <1>2 DEF Due
<1>4. LimitsKept' <=> LimitsKept
  <2>1. DomainParent' = DomainParent /\ KnownDomains' = KnownDomains
    BY <1>1 DEF DomainParent, KnownDomains, Known
  <2> QED BY <1>1, <2>1 DEF LimitsKept, Orphaned, Cyclic, TooDeep, ReachesTop
<1>5. ValidConfiguration'
  BY SameConfiguration DEF Left
<1> QED BY <1>1, <1>2, <1>3, <1>4, <1>5 DEF Left

LEMMA FaithfulStep == LInv /\ Faithful /\ [Next]_vars => Faithful'
<1> SUFFICES ASSUME LInv, Faithful, [Next]_vars, ~Carrying', pc' \notin {"start", "failed"}
             PROVE  input'.sameTenant /\ \A id \in Id : changes'[id] \in {Compared(id)', "blocked"}
  BY DEF Faithful
<1>1. [PlannerNext]_plannerVars
  BY DEF Next, Plan, Refuse, Apply, Complete, Interrupt, PlanAgain, CarryOut, vars, Carrying
<1>2. input' = input /\ \A id : Compared(id)' = Compared(id)
  BY <1>1, InputKept, SameComparison
<1>3. CASE Compare
  BY <1>2, <1>3 DEF Compare
<1>4. CASE EnforceDependencies
  BY <1>2, <1>4 DEF EnforceDependencies, Faithful, Carrying
<1>5. CASE ~Compare /\ ~EnforceDependencies
  <2>1. changes' = changes
    BY <1>1, <1>5, OutcomesKept
  <2>2. pc \notin {"start", "failed"} /\ ~Carrying
    BY <1>1, <1>5 DEF PlannerNext, plannerVars, inputVars, orderVars, RejectConfiguration,
       RejectTarget, ExceedLimit, StartOrder, Place, PutOff, Visiting, NextPass, NextSection,
       FinishOrder, Finish, Fail, Carrying
  <2> QED BY <1>2, <2>1, <2>2 DEF Faithful
<1> QED BY <1>3, <1>4, <1>5

-----------------------------------------------------------------------------
(* A plan that is accepted is all that is left. *)

(* An approved configuration gives the optional fields of every product. *)
ProductsManaged ==
  \A d \in Approved : \A id \in Product : d[id] # Absent => d[id].soft # Unmanaged

(* No two operations of a plan are of the same resource. *)
LEMMA OncePerResource ==
  ASSUME ops \in Seq(Operation), Mapped, NEW i \in DOMAIN ops, NEW j \in DOMAIN ops, i # j
  PROVE  ops[i].id # ops[j].id
<1> DEFINE f == [k \in DOMAIN ops |-> ops[k].id]
<1>1. DOMAIN ops = 1..Len(ops) /\ Len(ops) \in Nat
  BY LenProperties
<1>2. IsFiniteSet(DOMAIN ops) /\ Cardinality(DOMAIN ops) = Len(ops)
  <2>1. 1 \in Int /\ Len(ops) \in Int
    BY <1>1
  <2>2. /\ IsFiniteSet(1..Len(ops))
        /\ Cardinality(1..Len(ops)) = IF 1 > Len(ops) THEN 0 ELSE Len(ops) - 1 + 1
    BY <2>1, FS_Interval
  <2> QED BY <1>1, <2>2
<1>3. f \in Surjection(DOMAIN ops, Placed)
  BY DEF Surjection, Placed
<1>4. Cardinality(Placed) = Cardinality(DOMAIN ops)
  BY <1>2 DEF Mapped
<1>5. f \in Injection(DOMAIN ops, Placed)
  <2> HIDE DEF f
  <2> QED BY <1>2, <1>3, <1>4, FS_Surjection
<1> QED BY <1>5 DEF Injection, IsInjective

LEMMA AcceptedIsLeft ==
  ASSUME LInv, Faithful, ProductsManaged, Ready, \A i \in DOMAIN ops : ~Unsupported(ops[i])
  PROVE  Left(ops, 0)
<1>1. pc = "planned" /\ Eligible /\ HInv /\ PlannerInv
  BY DEF Ready, LInv, Carrying, HInv, OInv
<1>2. /\ input \in Input /\ ops \in Seq(Operation) /\ WellFormed /\ ValidConfiguration
      /\ DOMAIN ops = 1..Len(ops) /\ Len(ops) \in Nat /\ changes \in [Id -> Outcome]
  BY <1>1, LenProperties DEF PlannerInv, PlannerTypeOK, Checked, HInv, OInv, Validated
<1>3. input.sameTenant /\ \A id \in Id : changes[id] = Compared(id) /\ changes[id] # "blocked"
  BY <1>1 DEF Faithful, Carrying, Eligible
<1>4. LimitsKept
  <2>1. ~CountExceeded /\ ~Orphaned /\ ~Cyclic(DomainParent) /\ ~TooDeep
    BY <1>1, NoLimitExceeded DEF HInv, WithinLimits
  <2> DEFINE a == Cardinality({d \in Domain : remote[d] # Missing})
             b == Cardinality({d \in Domain : changes[d] = "create"})
             s == input.strays
  <2>2. a \in Nat /\ b \in Nat /\ s \in Nat
    <3>1. Domain \in SUBSET Id
      BY DEF Id
    <3>2. IsFiniteSet(Domain)
      BY <3>1, IdAssumption, FS_Subset
    <3>3. a \in Nat /\ b \in Nat
      <4>1. /\ {d \in Domain : remote[d] # Missing} \in SUBSET Domain
            /\ {d \in Domain : changes[d] = "create"} \in SUBSET Domain
        OBVIOUS
      <4> QED BY <3>2, <4>1, FS_Subset, FS_CardinalityType
    <3> QED BY <1>2, <3>3 DEF Input
  <2>3. ~(a + s + b > MaxDomains)
    BY <2>1 DEF CountExceeded
  <2> HIDE DEF a, b, s
  <2>4. a + s <= MaxDomains
    BY <2>2, <2>3, LimitAssumption
  <2> QED BY <2>1, <2>4 DEF LimitsKept, a, s
<1>5. \A id \in Product : Configured(id) => desired[id].soft # Unmanaged
  BY DEF Ready, ProductsManaged, Configured
<1>6. ASSUME NEW i \in 1..Len(ops) PROVE Due(ops, 0, i)
  <2> DEFINE id == ops[i].id
  <2>1. /\ i \in DOMAIN ops /\ ops[i] \in Operation /\ changes[id] = ops[i].action /\ Configured(id)
        /\ Linked(id, desired[id])
    BY <1>1, <1>2, PlannedFacts
  <2>2. id \in Id /\ changes[id] \in Acting
    BY <2>1 DEF Operation
  <2>3. ASSUME NEW link \in Id, Reliable(link) PROVE Reachable(link)
    BY <1>1, <1>3, <2>3 DEF Reliable, Reachable, HInv, AllDecided, Decided, Interpreted
  <2>4. /\ id \notin Domain => Reachable(desired[id].domain)
        /\ id \in Term /\ desired[id].parent # NoLink => Reachable(desired[id].parent)
    BY <1>1, <2>2, <2>3 DEF PlannerInv, Supported, Reliable
  <2>5. id \in Term => SoundAncestry(id)
    BY <1>1, <2>2 DEF HInv, Ancestral
  <2>6. /\ ops[i].action = "create" /\ desired[id].parent \in Id
             /\ Compared(desired[id].parent) = "create"
        => \E j \in (0 + 1)..(i - 1) : ops[j].id = desired[id].parent
    BY <1>2, <1>3, <2>1 DEF WellFormed, ParentsFirst
  <2>7. ASSUME NEW j \in (0 + 1)..(i - 1) PROVE InOrder(ops[j], ops[i]) /\ ops[j].id # id
    <3>1. j \in DOMAIN ops /\ j < i
      BY <1>2
    <3> QED BY <1>2, <2>1, <3>1, OncePerResource DEF WellFormed, Sorted
  <2> QED BY <1>3, <2>1, <2>2, <2>4, <2>5, <2>6, <2>7 DEF Due
<1>7. ASSUME NEW id \in Id PROVE Quiet(id) \/ \E i \in 1..Len(ops) : ops[i].id = id
  <2>1. CASE changes[id] \in Acting
    <3>1. [id |-> id, action |-> changes[id]] \in {ops[i] : i \in DOMAIN ops}
      BY <1>2, <2>1 DEF WellFormed, Mapped
    <3> QED BY <1>2, <3>1
  <2>2. CASE changes[id] \notin Acting
    BY <1>2, <1>3, <2>2 DEF Outcome, Quiet
  <2> QED BY <2>1, <2>2
<1> QED BY <1>2, <1>3, <1>4, <1>5, <1>6, <1>7 DEF Left

-----------------------------------------------------------------------------
(* An operation is carried out: the others are left. *)

(* What has been written compares as wanted; nothing else compares otherwise than before. *)
LEMMA WrittenIsSettled ==
  ASSUME LInv, CarryOut, Left(ops, done)
  PROVE  \E id \in Id :
           /\ id = ops[done + 1].id /\ Compared(id)' = "no-op"
           /\ \A j \in Id : j # id => Compared(j)' = Compared(j)
<1>1. /\ input \in Input /\ ops \in Seq(Operation) /\ done \in 0..Len(ops) /\ done < Len(ops)
      /\ Len(ops) \in Nat
  BY LenProperties DEF CarryOut, LInv, InHand
<1> DEFINE k == done + 1
<1>2. k \in 1..Len(ops) /\ k \in (done + 1)..Len(ops)
  BY <1>1
<1>3. ops[k] \in Operation /\ Due(ops, done, k)
  BY <1>1, <1>2, ElementOfSeq DEF Left
<1>4. PICK id \in Id : id = ops[k].id
  BY <1>3 DEF Operation
<1>5. /\ id \in Id /\ ops[k].action \in Acting /\ Configured(id) /\ Compared(id) = ops[k].action
      /\ ~Unsupported(ops[k])
  BY <1>4, <1>3 DEF Due, Operation
<1>6. PICK r \in Remote :
        /\ r.domain = desired[id].domain /\ r.parent = desired[id].parent
        /\ r.key = desired[id].key /\ (desired[id].soft # Unmanaged => r.soft = desired[id].soft)
        /\ (r.unsupported => Interpreted(id) /\ remote[id].unsupported)
        /\ r \notin {Missing, Uninterpreted}
        /\ desired' = desired /\ input'.scope = input.scope
        /\ \A j \in Id : remote'[j] = IF j = id THEN r ELSE remote[j]
  BY <1>4, CarryOutFacts
<1> HIDE DEF k
<1>7. \A j \in Id : Captured(j)' <=> Captured(j)
  BY <1>6 DEF Captured
<1>8. Compared(id)' = "no-op"
  <2>1. remote'[id] = r /\ Interpreted(id)' /\ Configured(id)'
    BY <1>5, <1>6 DEF Interpreted, Configured
  <2>2. ~Changed(id)'
    <3>1. ~SoftDiffers(id)'
      BY <1>5, <1>6, <2>1 DEF SoftDiffers, Left, Configured
    <3> QED BY <1>6, <2>1, <3>1 DEF Changed, Moved
  <2>3. ~r.unsupported
    <3> SUFFICES ASSUME Interpreted(id), remote[id].unsupported PROVE FALSE
      BY <1>6
    <3>1. Diff(id) = "blocked"
      BY <1>5 DEF Diff, Interpreted, Matched, Irreplaceable
    <3> QED BY <1>5, <3>1 DEF Compared, Acting
  <2>4. Matched(id)' = "no-op"
    BY <2>1, <2>2, <2>3 DEF Matched, Irreplaceable
  <2>5. Diff(id)' = "no-op"
    BY <1>6, <2>1, <2>4 DEF Diff, Interpreted, Configured
  <2> QED BY <2>5 DEF Compared, Acting
<1>9. ASSUME NEW j \in Id, j # id
      PROVE  Compared(j)' = Compared(j)
  <2>1. /\ remote'[j] = remote[j] /\ desired'[j] = desired[j]
        /\ (Configured(j)' <=> Configured(j)) /\ (Interpreted(j)' <=> Interpreted(j))
    BY <1>6, <1>9 DEF Configured, Interpreted
  <2>2. Matched(j)' = Matched(j)
    BY <2>1 DEF Matched, Irreplaceable, Changed, SoftDiffers, Moved
  <2>3. CASE remote[j] = Missing /\ Configured(j) /\ j \in Domain
    <3>1. Compared(j) \in {"create", "blocked"}
      BY <1>1, <2>3, ComparedFacts
    <3>2. ~Quiet(j)
      BY <3>1 DEF Quiet
    <3>3. PICK i \in (done + 1)..Len(ops) : ops[i].id = j
      BY <3>2 DEF Left
    <3>4. Due(ops, done, i)
      BY DEF Left
    <3>5. ops[i] \in Operation
      BY <1>1, ElementOfSeq
    <3>6. ops[i].action = "create" /\ TypeOf(ops[i].id) = "businessDomain"
      BY <2>3, <3>1, <3>3, <3>4, <3>5 DEF Due, Operation, Acting, TypeOf
    <3> QED BY <3>4, <3>6 DEF Due, Unsupported
  <2>4. CASE j \notin Domain
    <3>1. ~NameTaken(j) /\ ~NameTaken(j)'
      BY <2>4 DEF NameTaken
    <3>2. Diff(j)' = Diff(j)
      BY <2>1, <2>2, <3>1 DEF Diff
    <3> QED BY <1>7, <3>2 DEF Compared
  <2>5. CASE ~(remote[j] = Missing /\ Configured(j))
    <3>1. Diff(j)' = Diff(j)
      BY <2>1, <2>2, <2>5 DEF Diff
    <3> QED BY <1>7, <3>1 DEF Compared
  <2> QED BY <2>3, <2>4, <2>5
<1> QED BY <1>4, <1>8, <1>9 DEF k

LEMMA CarryOutLeft ==
  ASSUME LInv, CarryOut, Left(ops, done)
  PROVE  Left(ops, done)'
<1>1. /\ ops' = ops /\ done' = done + 1 /\ done \in 0..Len(ops) /\ done < Len(ops)
      /\ input \in Input /\ ops \in Seq(Operation) /\ Len(ops) \in Nat /\ done + 1 \in 1..Len(ops)
  BY LenProperties DEF CarryOut, LInv, InHand, orderVars
<1>2. PICK id \in Id :
        /\ id = ops[done + 1].id /\ Compared(id)' = "no-op"
        /\ \A j \in Id : j # id => Compared(j)' = Compared(j)
  BY WrittenIsSettled
<1>3. PICK r \in Remote :
        /\ r \notin {Missing, Uninterpreted}
        /\ input' \in Input /\ desired' = desired /\ input'.sameTenant = input.sameTenant
        /\ input'.strays = input.strays
        /\ \A j \in Id : remote'[j] = IF j = id THEN r ELSE remote[j]
  BY <1>2, CarryOutFacts
<1>4. /\ Configured(id) /\ (ops[done + 1].action = "replace" => Interpreted(id))
      /\ ~Unsupported(ops[done + 1]) /\ ops[done + 1] \in Operation
  <2>1. Due(ops, done, done + 1)
    BY <1>1 DEF Left
  <2>2. done + 1 \in DOMAIN ops
    BY <1>1, LenProperties
  <2>3. pc = "applying"
    BY DEF CarryOut
  <2> QED BY <1>1, <1>2, <2>1, <2>2, <2>3, ElementOfSeq DEF LInv, InHand, Due
<1>5. ASSUME NEW j \in Id
      PROVE  /\ Configured(j)' <=> Configured(j)
             /\ Interpreted(j) => Interpreted(j)'
             /\ Reachable(j) => Reachable(j)'
             /\ j # id => (Interpreted(j)' <=> Interpreted(j)) /\ remote'[j] = remote[j]
  <2>1. /\ Configured(j)' <=> Configured(j)
        /\ Interpreted(j) => Interpreted(j)'
        /\ j = id => Interpreted(j)'
        /\ j # id => (Interpreted(j)' <=> Interpreted(j)) /\ remote'[j] = remote[j]
    BY <1>3 DEF Configured, Interpreted
  <2> QED BY <1>2, <2>1 DEF Reachable
<1>6. \A t : SoundAncestry(t)' <=> SoundAncestry(t)
  <2>1. ResultingTerms' = ResultingTerms
    BY <1>4, <1>5 DEF ResultingTerms, Id
  <2>2. \A t \in Term : Resulting(t)' = Resulting(t)
    BY <1>3, <1>4, <1>5 DEF Resulting, Id
  <2>3. TermParent' = TermParent
    BY <2>1, <2>2 DEF TermParent, ResultingTerms
  <2>4. \A t \in ResultingTerms : Resulting(t)' = Resulting(t)
    BY <2>2 DEF ResultingTerms
  <2> QED BY <1>3, <2>1, <2>3, <2>4 DEF SoundAncestry
<1>7. LimitsKept'
  <2>1. \A d \in Domain : /\ Interpreted(d)' <=> Interpreted(d)
                          /\ remote'[d] # Missing <=> remote[d] # Missing
                          /\ ~Configured(d) => remote'[d] = remote[d]
    <3> SUFFICES ASSUME NEW d \in Domain, d = id PROVE Interpreted(id)
      BY <1>3, <1>4, <1>5 DEF Id, Interpreted
    <3>1. TypeOf(ops[done + 1].id) = "businessDomain"
      BY <1>2 DEF TypeOf
    <3>2. ops[done + 1].action # "create"
      BY <1>4, <3>1 DEF Unsupported
    <3> QED BY <1>4, <3>2 DEF Operation, Acting
  <2>2. \A d \in Domain : Configured(d)' <=> Configured(d)
    BY <1>5 DEF Id
  <2>3. DomainParent' = DomainParent /\ KnownDomains' = KnownDomains
    BY <1>3, <2>1, <2>2 DEF DomainParent, KnownDomains, Known
  <2>4. {d \in Domain : remote[d] # Missing}' = {d \in Domain : remote[d] # Missing}
    BY <2>1
  <2> QED BY <1>3, <2>3, <2>4 DEF Left, LimitsKept, Orphaned, Cyclic, TooDeep, ReachesTop
<1>8. ValidConfiguration'
  <2>1. \A ids : Within(ids)' = Within(ids)
    BY <1>3 DEF Within, Configured
  <2> QED BY <1>3, <2>1 DEF Left, ValidConfiguration, ReachesTop, Cyclic
<1>9. ASSUME NEW i \in (done + 2)..Len(ops)
      PROVE  Due(ops, done, i)'
  <2>1. Due(ops, done, i) /\ ops[i] \in Operation
    BY <1>1, ElementOfSeq DEF Left
  <2>2. PICK x \in Id : x = ops[i].id
    BY <2>1 DEF Operation
  <2>3. x # id
    BY <1>1, <1>2, <2>1, <2>2 DEF Due
  <2>4. Configured(x)' /\ Compared(x)' = ops[i].action
    BY <1>2, <1>5, <2>1, <2>2, <2>3 DEF Due
  <2>5. ~Unsupported(ops[i])'
    BY <1>1, <1>3, <1>5, <2>1, <2>2, <2>3 DEF Due, Unsupported
  <2>6. /\ x \notin Domain => Reachable(desired[x].domain)'
        /\ x \in Term => /\ desired[x].parent # NoLink => Reachable(desired[x].parent)'
                         /\ SoundAncestry(x)'
    <3>1. Linked(x, desired[x])
      BY <1>1, <2>1, <2>2, DesiredFacts DEF Due
    <3>2. /\ x \notin Domain => desired[x].domain \in Id
          /\ desired[x].parent # NoLink => desired[x].parent \in Id
      BY <3>1, ParentFacts DEF Linked, DomainLinks, Id
    <3>3. /\ x \notin Domain => Reachable(desired[x].domain)
          /\ x \in Term => /\ desired[x].parent # NoLink => Reachable(desired[x].parent)
                           /\ SoundAncestry(x)
      BY <2>1, <2>2 DEF Due
    <3> QED BY <1>3, <1>5, <1>6, <3>2, <3>3
  <2>7. ASSUME ops[i].action = "create", NEW parent \in Id, parent = desired[x].parent,
               Compared(parent)' = "create"
        PROVE  \E j \in (done + 2)..(i - 1) : ops[j].id = parent
    <3>1. parent # id /\ Compared(parent) = "create"
      BY <1>2, <2>7
    <3>2. PICK j \in (done + 1)..(i - 1) : ops[j].id = parent
      BY <2>1, <2>2, <2>7, <3>1 DEF Due
    <3>3. j # done + 1
      BY <1>2, <3>1, <3>2
    <3> QED BY <1>1, <3>2, <3>3
  <2>8. \A j \in (done + 2)..(i - 1) : InOrder(ops[j], ops[i]) /\ ops[j].id # x
    BY <1>1, <2>1, <2>2 DEF Due
  <2>9. (done + 1) + 1 = done + 2
    BY <1>1
  <2> QED BY <1>1, <1>3, <2>2, <2>4, <2>5, <2>6, <2>7, <2>8, <2>9 DEF Due
<1>10. ASSUME NEW j \in Id
       PROVE  Quiet(j)' \/ \E i \in (done + 2)..Len(ops) : ops[i].id = j
  <2>1. CASE j = id
    BY <1>2, <2>1 DEF Quiet
  <2>2. CASE j # id /\ Quiet(j)
    BY <1>2, <2>2 DEF Quiet
  <2>3. CASE j # id /\ ~Quiet(j)
    <3>1. PICK i \in (done + 1)..Len(ops) : ops[i].id = j
      BY <2>3 DEF Left
    <3>2. i # done + 1
      BY <1>2, <2>3, <3>1
    <3> QED BY <1>1, <3>1, <3>2
  <2> QED BY <2>1, <2>2, <2>3
<1>11. /\ done' \in 0..Len(ops) /\ done' + 1 = done + 2
       /\ \A p \in Product : Configured(p)' => desired'[p].soft # Unmanaged
  BY <1>1, <1>3, <1>5 DEF Left, Id
<1> QED BY <1>1, <1>3, <1>7, <1>8, <1>9, <1>10, <1>11 DEF Left

-----------------------------------------------------------------------------
(* The catalog is planned for anew: what is left is found again. *)

LEMMA LeftAlone ==
  ASSUME NEW s, NEW n, Left(s, n)
  PROVE  Left(SubSeq(s, n + 1, Len(s)), 0)
<1> DEFINE t == SubSeq(s, n + 1, Len(s))
<1>1. s \in Seq(Operation) /\ Len(s) \in Nat /\ n \in 0..Len(s)
  BY LenProperties DEF Left
<1>2. /\ t \in Seq(Operation) /\ Len(t) = Len(s) - n
      /\ \A i \in 1..Len(t) : t[i] = s[n + i]
  <2>1. \A i \in (n + 1)..Len(s) : s[i] \in Operation
    BY <1>1, ElementOfSeq
  <2>2. n + 1 \in Int /\ Len(s) \in Int
    BY <1>1
  <2>3. /\ t \in Seq(Operation)
        /\ Len(t) = IF n + 1 <= Len(s) THEN Len(s) - (n + 1) + 1 ELSE 0
        /\ \A i \in 1..(Len(s) - (n + 1) + 1) : t[i] = s[(n + 1) + i - 1]
    BY <2>1, <2>2, SubSeqProperties
  <2> HIDE DEF t
  <2>4. Len(t) = Len(s) - n
    <3>1. Len(t) = IF n + 1 <= Len(s) THEN Len(s) - (n + 1) + 1 ELSE 0
      BY <2>3
    <3> QED BY <1>1, <3>1
  <2>5. ASSUME NEW i \in 1..Len(t) PROVE t[i] = s[n + i]
    <3>1. i \in 1..(Len(s) - (n + 1) + 1) /\ (n + 1) + i - 1 = n + i
      BY <1>1, <2>4
    <3> QED BY <2>3, <3>1
  <2> QED BY <2>3, <2>4, <2>5
<1> HIDE DEF t
<1>3. ASSUME NEW i \in 1..Len(t) PROVE Due(t, 0, i)
  <2>1. /\ n + i \in (n + 1)..Len(s) /\ t[i] = s[n + i] /\ Due(s, n, n + i)
    BY <1>1, <1>2 DEF Left
  <2>2. \A j \in (n + 1)..((n + i) - 1) : j - n \in (0 + 1)..(i - 1) /\ t[j - n] = s[j]
    BY <1>1, <1>2
  <2>3. \A j \in (0 + 1)..(i - 1) : n + j \in (n + 1)..((n + i) - 1) /\ t[j] = s[n + j]
    BY <1>1, <1>2
  <2>4. PICK x : x = t[i].id
    OBVIOUS
  <2>5. /\ Configured(x) /\ Compared(x) = t[i].action /\ ~Unsupported(t[i])
        /\ x \notin Domain => Reachable(desired[x].domain)
        /\ x \in Term => /\ desired[x].parent # NoLink => Reachable(desired[x].parent)
                         /\ SoundAncestry(x)
    BY <2>1, <2>4 DEF Due
  <2>6. /\ s[n + i].action = "create" /\ desired[s[n + i].id].parent \in Id
             /\ Compared(desired[s[n + i].id].parent) = "create"
        => \E j \in (n + 1)..((n + i) - 1) : s[j].id = desired[s[n + i].id].parent
    BY <2>1 DEF Due
  <2>7. /\ t[i].action = "create" /\ desired[x].parent \in Id /\ Compared(desired[x].parent) = "create"
        => \E j \in (0 + 1)..(i - 1) : t[j].id = desired[x].parent
    BY <2>1, <2>2, <2>4, <2>6
  <2>8. \A j \in (n + 1)..((n + i) - 1) : InOrder(s[j], s[n + i]) /\ s[j].id # s[n + i].id
    BY <2>1 DEF Due
  <2>9. ASSUME NEW j \in (0 + 1)..(i - 1) PROVE InOrder(t[j], t[i]) /\ t[j].id # x
    BY <2>1, <2>3, <2>4, <2>8
  <2> QED BY <2>4, <2>5, <2>7, <2>9 DEF Due
<1>4. ASSUME NEW id \in Id PROVE Quiet(id) \/ \E i \in 1..Len(t) : t[i].id = id
  <2> SUFFICES ASSUME NEW j \in (n + 1)..Len(s), s[j].id = id
               PROVE  \E i \in 1..Len(t) : t[i].id = id
    BY DEF Left
  <2>1. j - n \in 1..Len(t) /\ n + (j - n) = j
    BY <1>1, <1>2
  <2> QED BY <1>2, <2>1
<1>5. 0 \in 0..Len(t) /\ 0 + 1 = 1
  BY <1>1, <1>2
<1> QED BY <1>2, <1>3, <1>4, <1>5 DEF Left, t

LEMMA LeftAgain ==
  ASSUME Left(ops, done), PlanAgain
  PROVE  Left(rest, 0)'
<1>1. PICK s : s = SubSeq(ops, done + 1, Len(ops))
  OBVIOUS
<1>2. input' = input /\ rest' = s
  BY <1>1 DEF PlanAgain, inputVars
<1>3. Left(s, 0)
  BY <1>1, LeftAlone
<1>4. Left(s, 0)'
  BY <1>2, <1>3, SameLeft
<1> QED BY <1>2, <1>4

LEMMA StillLeft ==
  ASSUME input' = input, rest' = rest, Left(rest, 0)
  PROVE  Left(rest, 0)'
<1>1. PICK s : s = rest
  OBVIOUS
<1>2. Left(s, 0)'
  BY <1>1, SameLeft
<1> QED BY <1>1, <1>2

LEMMA SectionIs ==
  ASSUME NEW op \in Operation, NEW n \in 1..6
  PROVE  /\ SectionOf(op) \in 1..6
         /\ SectionOf(op) = n <=> TypeOf(op.id) = Sections[n].type /\ op.action = Sections[n].action
<1>1. op.id \in Id /\ op.action \in Acting
  BY DEF Operation
<1>2. SectionOf(op) =
        (IF op.id \in Domain THEN 1 ELSE IF op.id \in Product THEN 3 ELSE 5)
          + (IF op.action = "create" THEN 0 ELSE 1)
  BY SectionOfFacts
<1>3. /\ Sections[n].action = IF n \in {1, 3, 5} THEN "create" ELSE "replace"
      /\ Sections[n].type = IF n \in {1, 2} THEN "businessDomain"
                            ELSE IF n \in {3, 4} THEN "dataProduct" ELSE "glossaryTerm"
  BY SectionFacts
<1>4. n \in {1, 2, 3, 4, 5, 6}
  OBVIOUS
<1> QED BY <1>1, <1>2, <1>3, <1>4 DEF Acting, TypeOf

(* What is due, seen from an exact change set. *)
LEMMA LeftFacts ==
  ASSUME Left(rest, 0)
  PROVE  /\ rest \in Seq(Operation) /\ Len(rest) \in Nat
         /\ \A i \in 1..Len(rest) : rest[i] \in Operation /\ Due(rest, 0, i)
         /\ \A i \in 1..Len(rest) : \A j \in 1..Len(rest) :
              i < j => InOrder(rest[i], rest[j]) /\ rest[i].id # rest[j].id
         /\ \A id \in Id : Compared(id) \in Acting <=> \E i \in 1..Len(rest) : rest[i].id = id
<1>1. rest \in Seq(Operation) /\ Len(rest) \in Nat /\ 0 + 1 = 1
  BY LenProperties DEF Left
<1>2. \A i \in 1..Len(rest) : rest[i] \in Operation /\ Due(rest, 0, i)
  BY <1>1, ElementOfSeq DEF Left
<1>3. ASSUME NEW i \in 1..Len(rest), NEW j \in 1..Len(rest), i < j
      PROVE  InOrder(rest[i], rest[j]) /\ rest[i].id # rest[j].id
  <2>1. i \in (0 + 1)..(j - 1)
    BY <1>1, <1>3
  <2> QED BY <1>2, <2>1 DEF Due
<1>4. ASSUME NEW id \in Id
      PROVE  Compared(id) \in Acting <=> \E i \in 1..Len(rest) : rest[i].id = id
  <2>1. ASSUME NEW i \in 1..Len(rest), rest[i].id = id PROVE Compared(id) \in Acting
    BY <1>2, <2>1 DEF Due, Operation
  <2>2. Compared(id) \in Acting => ~Quiet(id)
    BY DEF Acting, Quiet
  <2> QED BY <1>1, <2>1, <2>2 DEF Left
<1> QED BY <1>1, <1>2, <1>3, <1>4

LEMMA MembersLeft ==
  ASSUME Left(rest, 0), Exact, NEW n \in 1..6
  PROVE  Members(n) = {rest[i].id : i \in {j \in 1..Len(rest) : SectionOf(rest[j]) = n}}
<1>1. \A id \in Id : changes[id] = Compared(id)
  BY DEF Exact
<1>2. Sections[n].action \in Acting
  BY SectionFacts DEF Acting
<1>3. ASSUME NEW i \in 1..Len(rest)
      PROVE  /\ rest[i] \in Operation /\ rest[i].id \in Id
             /\ Compared(rest[i].id) = rest[i].action
             /\ SectionOf(rest[i]) = n <=>
                  TypeOf(rest[i].id) = Sections[n].type /\ rest[i].action = Sections[n].action
  BY LeftFacts, SectionIs DEF Due, Operation
<1>4. ASSUME NEW id \in Members(n)
      PROVE  \E i \in 1..Len(rest) : SectionOf(rest[i]) = n /\ rest[i].id = id
  <2>1. id \in Id /\ TypeOf(id) = Sections[n].type /\ Compared(id) = Sections[n].action
    BY <1>1 DEF Members
  <2>2. PICK i \in 1..Len(rest) : rest[i].id = id
    BY <1>2, <2>1, LeftFacts
  <2> QED BY <1>3, <2>1, <2>2
<1>5. ASSUME NEW i \in 1..Len(rest), SectionOf(rest[i]) = n
      PROVE  rest[i].id \in Members(n)
  BY <1>1, <1>3, <1>5 DEF Members
<1> QED BY <1>4, <1>5

(* The next id to visit is that of the first operation not yet written. *)
LEMMA NextIsLeft ==
  ASSUME Left(rest, 0), Repeated, ops \in Seq(Operation), section \in 1..6,
         NEW id \in Id, Visiting(id)
  PROVE  /\ Len(ops) + 1 \in 1..Len(rest)
         /\ rest[Len(ops) + 1] = [id |-> id, action |-> Sections[section].action]
         /\ SectionOf(rest[Len(ops) + 1]) = section
<1> DEFINE k == Len(ops)
<1>1. /\ k \in Nat /\ Len(rest) \in Nat
      /\ \A i \in 1..Len(rest) : SectionOf(rest[i]) \in 1..6 /\ rest[i].id \in Id
  BY LenProperties, LeftFacts, SectionIs DEF Operation
<1>2. PICK m \in (k + 1)..Len(rest) : rest[m].id = id /\ SectionOf(rest[m]) = section
  BY DEF Repeated, Visiting
<1>3. k + 1 \in 1..Len(rest) /\ m \in 1..Len(rest)
  BY <1>1, <1>2
<1>4. k + 1 = m
  <2> SUFFICES ASSUME k + 1 < m PROVE FALSE
    BY <1>1, <1>2
  <2>1. InOrder(rest[k + 1], rest[m]) /\ rest[k + 1].id # id
    BY <1>2, <1>3, LeftFacts
  <2>2. SectionOf(rest[k + 1]) >= section
    BY <1>1, <1>3 DEF Repeated
  <2>3. SectionOf(rest[k + 1]) = section /\ rest[k + 1].id <= id
    BY <1>1, <1>2, <1>3, <2>1, <2>2 DEF InOrder
  <2>4. rest[k + 1].id \in remaining
    <3>1. k + 1 \in (k + 1)..Len(rest)
      BY <1>1, <1>3
    <3> QED BY <2>3, <3>1 DEF Repeated
  <2>5. id <= rest[k + 1].id
    BY <2>4 DEF Visiting
  <2>6. PICK x \in Nat : x = rest[k + 1].id
    BY <1>1, <1>3, IdAssumption
  <2>7. id \in Nat /\ x <= id /\ id <= x /\ x # id
    BY <2>1, <2>3, <2>5, <2>6, IdAssumption
  <2> QED BY <2>7
<1>5. rest[m] \in Operation /\ rest[m].action = Sections[section].action
  BY <1>2, <1>3, LeftFacts, SectionIs
<1>6. rest[m] = [id |-> id, action |-> Sections[section].action]
  BY <1>2, <1>5 DEF Operation
<1> QED BY <1>2, <1>3, <1>4, <1>6

LEMMA LimitsHold ==
  ASSUME Left(rest, 0), Exact
  PROVE  LimitFailure = None
<1>1. LimitsKept /\ input \in Input
  BY DEF Left
<1>2. {d \in Domain : changes[d] = "create"} = {}
  <2> SUFFICES ASSUME NEW d \in Domain, changes[d] = "create" PROVE FALSE
    OBVIOUS
  <2>1. d \in Id /\ Compared(d) = "create"
    BY DEF Exact, Id
  <2>2. PICK i \in 1..Len(rest) : rest[i].id = d
    BY <2>1, LeftFacts DEF Acting
  <2>3. ~Unsupported(rest[i]) /\ rest[i].action = "create" /\ TypeOf(rest[i].id) = "businessDomain"
    BY <2>1, <2>2, LeftFacts DEF Due, TypeOf
  <2> QED BY <2>3 DEF Unsupported
<1>3. ~CountExceeded
  <2>1. Cardinality({d \in Domain : changes[d] = "create"}) = 0
    BY <1>2, FS_EmptySet
  <2> DEFINE a == Cardinality({d \in Domain : remote[d] # Missing})
             s == input.strays
  <2>2. a \in Nat /\ s \in Nat
    <3>1. Domain \in SUBSET Id /\ {d \in Domain : remote[d] # Missing} \in SUBSET Domain
      BY DEF Id
    <3>2. a \in Nat
      BY <3>1, IdAssumption, FS_Subset, FS_CardinalityType
    <3> QED BY <1>1, <3>2 DEF Input
  <2>3. a + s <= MaxDomains
    BY <1>1 DEF LimitsKept
  <2> HIDE DEF a, s
  <2>4. ~(a + s + 0 > MaxDomains)
    BY <2>2, <2>3, LimitAssumption
  <2> QED BY <2>1, <2>4 DEF CountExceeded, a, s
<1> QED BY <1>1, <1>3 DEF LimitsKept, LimitFailure

LEMMA DependenciesLeft ==
  ASSUME Left(rest, 0), Exact, NEW id \in Id, changes[id] \in Acting
  PROVE  DependenciesHold(id)
<1>1. PICK i \in 1..Len(rest) : rest[i].id = id
  BY LeftFacts DEF Exact
<1>2. Due(rest, 0, i) /\ input \in Input
  BY LeftFacts DEF Left
<1>3. Linked(id, desired[id])
  BY <1>1, <1>2, DesiredFacts DEF Due
<1>4. /\ id \notin Domain => desired[id].domain \in Id
      /\ desired[id].parent # NoLink => desired[id].parent \in Id
  BY <1>3, ParentFacts DEF Linked, DomainLinks, Id
<1>5. \A link \in Id : Reachable(link) => Available(link)
  BY DEF Reachable, Available, Exact
<1> QED BY <1>1, <1>2, <1>4, <1>5 DEF Due, DependenciesHold

(* What was left passes the validation of the finished document. *)
LEMMA LeftIsWellFormed ==
  ASSUME Left(rest, 0), Exact, ops = rest, ParentsFirst
  PROVE  WellFormed
<1>1. /\ ops \in Seq(Operation) /\ Len(ops) \in Nat /\ DOMAIN ops = 1..Len(ops)
      /\ \A i \in 1..Len(ops) : ops[i] \in Operation /\ Due(rest, 0, i)
      /\ \A i \in 1..Len(ops) : \A j \in 1..Len(ops) :
           i < j => InOrder(ops[i], ops[j]) /\ ops[i].id # ops[j].id
      /\ \A id \in Id : Compared(id) \in Acting <=> \E i \in 1..Len(ops) : ops[i].id = id
  BY LeftFacts, LenProperties
<1>2. Sorted
  BY <1>1 DEF Sorted
<1>3. \A i \in 1..Len(ops) :
        /\ ops[i].id \in Id /\ changes[ops[i].id] \in Acting
        /\ ops[i] = [id |-> ops[i].id, action |-> changes[ops[i].id]]
  <2> SUFFICES ASSUME NEW i \in 1..Len(ops)
               PROVE  /\ ops[i].id \in Id /\ changes[ops[i].id] \in Acting
                      /\ ops[i] = [id |-> ops[i].id, action |-> changes[ops[i].id]]
    OBVIOUS
  <2>1. ops[i] \in Operation /\ changes[ops[i].id] = ops[i].action
    BY <1>1 DEF Due, Exact, Operation
  <2> QED BY <2>1 DEF Operation
<1>4. {ops[i] : i \in DOMAIN ops} =
        {[id |-> id, action |-> changes[id]] : id \in {i \in Id : changes[i] \in Acting}}
  <2>1. ASSUME NEW i \in DOMAIN ops
        PROVE  ops[i] \in
                 {[id |-> id, action |-> changes[id]] : id \in {j \in Id : changes[j] \in Acting}}
    BY <1>1, <1>3
  <2>2. ASSUME NEW id \in Id, changes[id] \in Acting
        PROVE  [id |-> id, action |-> changes[id]] \in {ops[i] : i \in DOMAIN ops}
    <3>1. PICK i \in 1..Len(ops) : ops[i].id = id
      BY <1>1, <2>2 DEF Exact
    <3>2. ops[i] = [id |-> id, action |-> changes[id]]
      BY <1>3, <3>1
    <3> QED BY <1>1, <3>2
  <2> QED BY <2>1, <2>2
<1>5. Len(ops) = Cardinality(Placed)
  <2> DEFINE f == [k \in 1..Len(ops) |-> ops[k].id]
  <2>1. f \in Bijection(1..Len(ops), Placed)
    <3>1. f \in [1..Len(ops) -> Placed] /\ \A p \in Placed : \E k \in 1..Len(ops) : f[k] = p
      BY <1>1 DEF Placed
    <3>2. ASSUME NEW i \in 1..Len(ops), NEW j \in 1..Len(ops), i # j PROVE f[i] # f[j]
      <4>1. i < j \/ j < i
        BY <1>1, <3>2
      <4> QED BY <1>1, <4>1
    <3> HIDE DEF f
    <3> QED BY <3>1, <3>2 DEF Bijection, Injection, Surjection, IsInjective
  <2>2. IsFiniteSet(1..Len(ops)) /\ Cardinality(1..Len(ops)) = Len(ops)
    <3>1. 1 \in Int /\ Len(ops) \in Int
      BY <1>1
    <3>2. /\ IsFiniteSet(1..Len(ops))
          /\ Cardinality(1..Len(ops)) = IF 1 > Len(ops) THEN 0 ELSE Len(ops) - 1 + 1
      BY <3>1, FS_Interval
    <3> QED BY <1>1, <3>2
  <2>3. ExistsBijection(1..Len(ops), Placed)
    <3> HIDE DEF f
    <3> QED BY <2>1 DEF ExistsBijection
  <2> QED BY <2>2, <2>3, FS_Bijection
<1> QED BY <1>2, <1>4, <1>5 DEF WellFormed, Mapped

-----------------------------------------------------------------------------
(* The planner repeats what was left, step by step. *)

LEMMA PlaceRepeats ==
  ASSUME HInv, Left(rest, 0), Repeated, pc = "order", rest' = rest, NEW id \in Id, Place(id)
  PROVE  Repeated'
<1>1. ops \in Seq(Operation) /\ section \in 1..6
  BY DEF HInv, OInv, PlannerInv, PlannerTypeOK, Underway
<1> DEFINE k == Len(ops)
           op == [id |-> id, action |-> Sections[section].action]
<1>2. Visiting(id)
  BY DEF Place
<1>3. k + 1 \in 1..Len(rest) /\ rest[k + 1] = op /\ SectionOf(rest[k + 1]) = section
  BY <1>1, <1>2, NextIsLeft
<1>4. k \in Nat /\ Len(rest) \in Nat /\ op \in Operation
  BY <1>1, <1>3, LenProperties, LeftFacts
<1>5. /\ ops' = Append(ops, op) /\ remaining' = remaining \ {id} /\ section' = section
      /\ later' = {}
  BY DEF Place, Repeated
<1>6. Len(ops') = k + 1 /\ \A i \in 1..(k + 1) : ops'[i] = rest[i]
  <2>1. \A i \in 1..k : ops[i] = rest[i]
    BY DEF Repeated
  <2>2. /\ Len(Append(ops, op)) = k + 1 /\ Append(ops, op)[k + 1] = op
        /\ \A i \in 1..k : Append(ops, op)[i] = ops[i]
    BY <1>1, <1>4, AppendProperties
  <2> HIDE DEF op
  <2>3. \A i \in 1..(k + 1) : i = k + 1 \/ i \in 1..k
    BY <1>4
  <2> QED BY <1>3, <1>5, <2>1, <2>2, <2>3
<1>7. remaining' = {rest[i].id : i \in {j \in (k + 2)..Len(rest) : SectionOf(rest[j]) = section}}
  <2>1. remaining = {rest[i].id : i \in {j \in (k + 1)..Len(rest) : SectionOf(rest[j]) = section}}
    BY DEF Repeated
  <2>2. rest[k + 1].id = id
    BY <1>3
  <2>3. \A i \in (k + 2)..Len(rest) : rest[i].id # id
    BY <1>3, <1>4, <2>2, LeftFacts
  <2>4. \A i \in (k + 1)..Len(rest) : i = k + 1 \/ i \in (k + 2)..Len(rest)
    BY <1>4
  <2>5. (k + 2)..Len(rest) \subseteq (k + 1)..Len(rest)
    BY <1>4
  <2> HIDE DEF k, op
  <2> QED BY <1>5, <2>1, <2>2, <2>3, <2>4, <2>5
<1>8. \A i \in 1..Len(rest) : IF i <= k + 1 THEN SectionOf(rest[i]) <= section
                                            ELSE SectionOf(rest[i]) >= section
  <2> SUFFICES ASSUME NEW i \in 1..Len(rest)
               PROVE  IF i <= k + 1 THEN SectionOf(rest[i]) <= section
                                    ELSE SectionOf(rest[i]) >= section
    OBVIOUS
  <2>1. IF i <= k THEN SectionOf(rest[i]) <= section ELSE SectionOf(rest[i]) >= section
    BY DEF Repeated
  <2>2. i = k + 1 \/ (i <= k <=> i <= k + 1)
    BY <1>4
  <2> QED BY <1>1, <1>3, <1>4, <2>1, <2>2
<1>9. (k + 1) + 1 = k + 2 /\ k + 1 <= Len(rest)
  BY <1>3, <1>4
<1> HIDE DEF k, op
<1>10. Len(ops') <= Len(rest) /\ \A i \in 1..Len(ops') : ops'[i] = rest[i]
  BY <1>6, <1>9
<1>11. remaining' =
         {rest[i].id : i \in {j \in (Len(ops') + 1)..Len(rest) : SectionOf(rest[j]) = section}}
  BY <1>6, <1>7, <1>9
<1>12. \A i \in 1..Len(rest) : IF i <= Len(ops') THEN SectionOf(rest[i]) <= section
                                                 ELSE SectionOf(rest[i]) >= section
  BY <1>6, <1>8
<1> QED BY <1>5, <1>10, <1>11, <1>12 DEF Repeated

LEMMA NothingPutOff ==
  ASSUME HInv, Left(rest, 0), Exact, Repeated, pc = "order", NEW id \in Id, PutOff(id)
  PROVE  FALSE
<1>1. ops \in Seq(Operation) /\ section \in 1..6 /\ Len(ops) \in Nat /\ DOMAIN ops = 1..Len(ops)
  BY LenProperties DEF HInv, OInv, PlannerInv, PlannerTypeOK, Underway
<1> DEFINE k == Len(ops)
           parent == desired[id].parent
<1>2. Visiting(id) /\ Sections[section].action = "create" /\ parent \in Members(section)
      /\ parent \notin Placed
  BY DEF PutOff, CanPlace
<1>3. k + 1 \in 1..Len(rest) /\ rest[k + 1] = [id |-> id, action |-> "create"]
  BY <1>1, <1>2, NextIsLeft
<1>4. parent \in Id /\ Compared(parent) = "create"
  BY <1>2 DEF Members, Exact
<1>5. Due(rest, 0, k + 1)
  BY <1>3, LeftFacts
<1>6. PICK j \in (0 + 1)..((k + 1) - 1) : rest[j].id = parent
  BY <1>3, <1>4, <1>5 DEF Due
<1>7. j \in 1..Len(ops)
  BY <1>1
<1>8. ops[j] = rest[j]
  BY <1>7 DEF Repeated
<1> QED BY <1>1, <1>2, <1>6, <1>7, <1>8 DEF Placed

LEMMA SectionRepeats ==
  ASSUME HInv, Left(rest, 0), Exact, Repeated, pc = "order", NextSection,
         rest' = rest, input' = input, changes' = changes
  PROVE  Repeated'
<1>1. /\ section \in 1..6 /\ section + 1 \in 1..6 /\ Len(ops) \in Nat /\ Len(rest) \in Nat
  <2>1. section \in 1..6 /\ section < 6 /\ ops \in Seq(Operation)
    BY SectionFacts DEF HInv, OInv, PlannerInv, PlannerTypeOK, Underway, NextSection
  <2> QED BY <2>1, LenProperties, LeftFacts
<1>2. \A i \in 1..Len(rest) : SectionOf(rest[i]) \in 1..6
  BY <1>1, LeftFacts, SectionIs
<1>3. /\ remaining = {} /\ section' = section + 1 /\ remaining' = Members(section + 1)
      /\ ops' = ops /\ later' = {}
  BY DEF NextSection, Repeated
<1>4. \A i \in 1..Len(rest) : i > Len(ops) => SectionOf(rest[i]) # section
  <2> SUFFICES ASSUME NEW i \in 1..Len(rest), i > Len(ops), SectionOf(rest[i]) = section PROVE FALSE
    OBVIOUS
  <2>1. i \in (Len(ops) + 1)..Len(rest)
    BY <1>1
  <2>2. rest[i].id \in remaining
    BY <2>1 DEF Repeated
  <2> QED BY <1>3, <2>2
<1>5. \A i \in 1..Len(rest) : IF i <= Len(ops) THEN SectionOf(rest[i]) <= section
                                               ELSE SectionOf(rest[i]) >= section + 1
  BY <1>1, <1>2, <1>4 DEF Repeated
<1>6. \A i \in 1..Len(rest) : IF i <= Len(ops) THEN SectionOf(rest[i]) <= section + 1
                                               ELSE SectionOf(rest[i]) >= section + 1
  BY <1>1, <1>2, <1>5
<1>7. Members(section + 1) =
        {rest[i].id : i \in {j \in (Len(ops) + 1)..Len(rest) : SectionOf(rest[j]) = section + 1}}
  <2>1. Members(section + 1) =
          {rest[i].id : i \in {j \in 1..Len(rest) : SectionOf(rest[j]) = section + 1}}
    BY <1>1, MembersLeft
  <2>2. {j \in 1..Len(rest) : SectionOf(rest[j]) = section + 1} =
          {j \in (Len(ops) + 1)..Len(rest) : SectionOf(rest[j]) = section + 1}
    BY <1>1, <1>2, <1>5
  <2> QED BY <2>1, <2>2
<1> QED BY <1>3, <1>6, <1>7 DEF Repeated

LEMMA ResumedStep ==
  ASSUME LInv, Resumed, rest # None, Plan
  PROVE  Resumed'
<1>1. /\ pc \notin {"applying", "refused", "failed"} /\ HInv /\ rest' = rest
      /\ [PlannerNext]_plannerVars
  <2>1. pc \notin {"applying", "refused", "failed"}
    BY DEF Plan, PlannerNext, RejectConfiguration, RejectTarget, Compare, EnforceDependencies,
       ExceedLimit, StartOrder, Place, PutOff, Visiting, NextPass, NextSection, FinishOrder, Finish
  <2> QED BY <2>1 DEF LInv, Carrying, Plan, lifecycleVars
<1>2. /\ Left(rest, 0) /\ (pc # "start" => Exact) /\ (pc = "order" => Repeated)
      /\ pc \in {"check", "planned"} => ops = rest
  BY <1>1 DEF Resumed
<1>3. input' = input /\ Left(rest, 0)'
  BY <1>1, <1>2, InputKept, StillLeft
<1>4. \A id : Compared(id)' = Compared(id)
  BY <1>3, SameComparison
<1>5. ASSUME changes' = changes, Exact PROVE Exact'
  BY <1>4, <1>5 DEF Exact
<1>6. CASE RejectConfiguration \/ RejectTarget
  BY <1>2, <1>6 DEF Left, RejectConfiguration, RejectTarget
<1>7. CASE Compare
  <2>1. Exact'
    BY <1>4, <1>7 DEF Compare, Exact
  <2> QED BY <1>3, <1>7, <2>1 DEF Compare, Resumed
<1>8. CASE EnforceDependencies
  <2>1. Exact
    BY <1>2, <1>8 DEF EnforceDependencies
  <2>2. changes \in [Id -> Outcome]
    BY <1>1 DEF HInv, OInv, PlannerInv, PlannerTypeOK
  <2>3. changes' = changes
    BY <1>2, <1>8, <2>1, <2>2, DependenciesLeft DEF EnforceDependencies
  <2>4. Exact'
    BY <1>5, <2>1, <2>3
  <2> QED BY <1>3, <1>8, <2>4 DEF EnforceDependencies, Resumed
<1>9. CASE ExceedLimit
  BY <1>2, <1>9, LimitsHold DEF ExceedLimit
<1>10. CASE StartOrder
  <2>1. /\ Exact /\ ops = <<>> /\ later = {} /\ section' = 1 /\ remaining' = Members(1)
        /\ ops' = ops /\ later' = later /\ changes' = changes
    BY <1>1, <1>2, <1>10 DEF StartOrder, HInv, OInv, PlannerInv, Unstarted, inputVars
  <2>2. Len(ops) = 0 /\ Len(rest) \in Nat
    BY <2>1, <1>2, LeftFacts
  <2>3. Members(1) = {rest[i].id : i \in {j \in 1..Len(rest) : SectionOf(rest[j]) = 1}}
    BY <1>2, <2>1, MembersLeft
  <2>4. \A i \in 1..Len(rest) : SectionOf(rest[i]) >= 1 /\ ~(i <= 0)
    BY <1>2, <2>2, LeftFacts, SectionIs
  <2>5. Repeated'
    BY <1>1, <2>1, <2>2, <2>3, <2>4 DEF Repeated
  <2> QED BY <1>3, <1>5, <1>10, <2>1, <2>5 DEF StartOrder, Resumed
<1>11. ASSUME NEW id \in Id, Place(id) PROVE Resumed'
  <2>1. pc = "order" /\ pc' = "order" /\ changes' = changes
    BY <1>11 DEF Place, Visiting
  <2>2. Repeated'
    BY <1>1, <1>2, <1>11, <2>1, PlaceRepeats
  <2> QED BY <1>2, <1>3, <1>5, <2>1, <2>2 DEF Resumed
<1>12. ASSUME NEW id \in Id, PutOff(id) PROVE Resumed'
  BY <1>1, <1>2, <1>12, NothingPutOff DEF PutOff, Visiting
<1>13. CASE NextPass
  BY <1>2, <1>13 DEF NextPass, Repeated
<1>14. CASE NextSection
  <2>1. pc = "order" /\ pc' = "order" /\ changes' = changes
    BY <1>14 DEF NextSection
  <2>2. Repeated'
    BY <1>1, <1>2, <1>3, <1>14, <2>1, SectionRepeats
  <2> QED BY <1>2, <1>3, <1>5, <2>1, <2>2 DEF Resumed
<1>15. CASE FinishOrder
  <2>1. /\ pc = "order" /\ pc' = "check" /\ changes' = changes /\ ops' = ops
        /\ remaining = {} /\ section = 6
    BY <1>15, SectionFacts DEF FinishOrder, orderVars
  <2>2. ops \in Seq(Operation) /\ Len(ops) \in Nat /\ rest \in Seq(Operation) /\ Len(rest) \in Nat
    BY <1>1, <1>2, LeftFacts, LenProperties DEF HInv, OInv, PlannerInv, PlannerTypeOK
  <2>3. Repeated
    BY <1>2, <2>1
  <2>4. Len(ops) = Len(rest)
    <3> SUFFICES ASSUME Len(ops) < Len(rest) PROVE FALSE
      BY <2>2, <2>3 DEF Repeated
    <3>1. Len(rest) \in 1..Len(rest) /\ Len(rest) \in (Len(ops) + 1)..Len(rest)
      BY <2>2
    <3>2. SectionOf(rest[Len(rest)]) \in 1..6
      BY <1>2, <3>1, LeftFacts, SectionIs
    <3>3. SectionOf(rest[Len(rest)]) >= 6
      BY <2>1, <2>2, <2>3, <3>1 DEF Repeated
    <3>4. SectionOf(rest[Len(rest)]) = section
      BY <2>1, <3>2, <3>3
    <3>5. rest[Len(rest)].id \in remaining
      BY <2>3, <3>1, <3>4 DEF Repeated
    <3> QED BY <2>1, <3>5
  <2>5. ops = rest
    BY <2>2, <2>3, <2>4, SeqEqual DEF Repeated
  <2> QED BY <1>1, <1>2, <1>3, <1>5, <2>1, <2>5 DEF Resumed
<1>16. CASE Finish
  <2>1. pc = "check" /\ ops = rest /\ Exact
    BY <1>2, <1>16 DEF Finish
  <2>2. WellFormed
    BY <1>1, <1>2, <2>1, LeftIsWellFormed DEF HInv, OInv, PlannerInv
  <2>3. pc' = "planned" /\ changes' = changes /\ ops' = ops
    BY <1>16, <2>2 DEF Finish, orderVars
  <2> QED BY <1>1, <1>3, <1>5, <2>1, <2>3 DEF Resumed
<1> QED BY <1>6, <1>7, <1>8, <1>9, <1>10, <1>11, <1>12, <1>13, <1>14, <1>15, <1>16
        DEF Plan, PlannerNext

LEMMA ResumeInit == Init => MInv
<1> SUFFICES ASSUME Init PROVE MInv
  OBVIOUS
<1>1. pc = "start" /\ rest = None
  BY DEF Init, PlannerInit
<1> QED BY <1>1, LifecycleInit DEF MInv, Faithful, Resumed

LEMMA ResumeStep ==
  ASSUME ProductsManaged
  PROVE  MInv /\ [Next]_vars => MInv'
<1> SUFFICES ASSUME MInv, [Next]_vars PROVE MInv'
  OBVIOUS
<1>1. LInv' /\ Faithful' /\ LInv /\ Faithful /\ Resumed
  BY LifecycleStep, FaithfulStep DEF MInv
<1>2. CASE Plan
  <2>1. pc' # "applying"
    <3>1. pc \notin {"applying", "refused"}
      BY <1>2 DEF Plan, PlannerNext, RejectConfiguration, RejectTarget, Compare,
         EnforceDependencies, ExceedLimit, StartOrder, Place, PutOff, Visiting, NextPass,
         NextSection, FinishOrder, Finish
    <3>2. HInv'
      BY <1>1, <1>2, <3>1, HInvStep DEF LInv, Carrying, Plan
    <3> QED BY <3>2 DEF HInv, OInv, PlannerInv, PlannerTypeOK
  <2>2. rest' = rest
    BY <1>2 DEF Plan, lifecycleVars
  <2>3. Resumed'
    <3>1. CASE rest = None
      BY <2>2, <3>1 DEF Resumed
    <3>2. CASE rest # None
      BY <1>1, <1>2, <3>2, ResumedStep
    <3> QED BY <3>1, <3>2
  <2> QED BY <1>1, <2>1, <2>3 DEF MInv
<1>3. CASE Refuse
  <2>1. rest = None
    <3> SUFFICES ASSUME rest # None PROVE FALSE
      OBVIOUS
    <3>1. Left(rest, 0) /\ ops = rest
      BY <1>1, <1>3 DEF Refuse, Ready, Resumed
    <3>2. \A i \in DOMAIN ops : ~Unsupported(ops[i])
      <4>1. DOMAIN ops = 1..Len(rest)
        BY <3>1, LeftFacts, LenProperties
      <4> QED BY <3>1, <4>1, LeftFacts DEF Due
    <3> QED BY <1>3, <3>2 DEF Refuse
  <2>2. rest' = rest /\ pc' = "refused"
    BY <1>3 DEF Refuse, lifecycleVars
  <2> QED BY <1>1, <2>1, <2>2 DEF MInv, Resumed
<1>4. CASE Apply
  <2>1. Left(ops, 0) /\ Eligible
    BY <1>1, <1>4, AcceptedIsLeft DEF Apply, Ready
  <2>2. /\ input' = input /\ ops' = ops /\ changes' = changes /\ done' = 0 /\ rest' = rest
        /\ pc' = "applying"
    BY <1>4 DEF Apply, inputVars, orderVars
  <2>3. PICK s : s = ops
    OBVIOUS
  <2>4. Left(s, 0)'
    BY <2>1, <2>2, <2>3, SameLeft
  <2>5. Left(ops, done)'
    BY <2>2, <2>3, <2>4
  <2>6. Eligible'
    BY <2>1, <2>2 DEF Eligible
  <2> QED BY <1>1, <2>2, <2>5, <2>6 DEF MInv, Resumed
<1>5. CASE CarryOut
  <2>1. pc = "applying" /\ pc' = "applying" /\ changes' = changes /\ rest' = rest
    BY <1>5 DEF CarryOut
  <2>2. Left(ops, done)'
    BY <1>1, <1>5, <2>1, CarryOutLeft DEF MInv
  <2>3. Eligible'
    BY <2>1 DEF MInv, Eligible
  <2> QED BY <1>1, <2>1, <2>2, <2>3 DEF MInv, Resumed
<1>6. CASE Complete \/ Interrupt
  <2>1. pc = "applying" /\ PlanAgain /\ pc' = "start"
    BY <1>6 DEF Complete, Interrupt, PlanAgain
  <2>2. Left(rest, 0)'
    BY <2>1, LeftAgain DEF MInv
  <2> QED BY <1>1, <2>1, <2>2 DEF MInv, Resumed
<1>7. CASE UNCHANGED vars
  <2>1. /\ input' = input /\ pc' = pc /\ changes' = changes /\ section' = section
        /\ remaining' = remaining /\ later' = later /\ ops' = ops /\ done' = done /\ rest' = rest
    BY <1>7 DEF vars, plannerVars, orderVars, lifecycleVars
  <2>2. Left(rest, 0) => Left(rest, 0)'
    BY <2>1, StillLeft
  <2>3. Left(ops, done) => Left(ops, done)'
    <3>1. PICK s, n : s = ops /\ n = done
      OBVIOUS
    <3>2. Left(s, n) => Left(s, n)'
      BY <2>1, SameLeft
    <3> QED BY <2>1, <3>1, <3>2
  <2>4. Exact => Exact'
    BY <2>1, SameComparison DEF Exact
  <2>5. (Repeated => Repeated') /\ (Eligible => Eligible')
    BY <2>1 DEF Repeated, Eligible
  <2>6. Resumed'
    BY <1>1, <2>1, <2>2, <2>4, <2>5 DEF Resumed
  <2> QED BY <1>1, <2>1, <2>3, <2>5, <2>6 DEF MInv
<1> QED BY <1>2, <1>3, <1>4, <1>5, <1>6, <1>7 DEF Next

(* The fresh capture is all the memory a repeated execution needs: whatever part of a plan  *)
(* the executor has carried out, build_governance_plan_v3 then finds exactly the others, in *)
(* the same order.  A product whose optional fields the configuration leaves out is another *)
(* matter: its comparison expects them unset, and its payload leaves them as they are.      *)
THEOREM PlansResume ==
  ASSUME ProductsManaged
  PROVE  Spec => []ReplanIsTheRest
<1>1. MInv => ReplanIsTheRest
  <2> SUFFICES ASSUME MInv, rest # None, pc \in {"planned", "failed", "refused", "applying"}
               PROVE  pc \in {"planned", "applying"} /\ Eligible /\ (pc = "planned" => ops = rest)
    BY DEF ReplanIsTheRest
  <2>1. pc \in {"planned", "applying"} /\ (pc = "planned" => ops = rest /\ Exact /\ Left(rest, 0))
    BY DEF MInv, Resumed
  <2>2. CASE pc = "applying"
    BY <2>1, <2>2 DEF MInv
  <2>3. CASE pc = "planned"
    <3>1. \A id \in Id : Compared(id) # "blocked"
      <4> SUFFICES ASSUME NEW id \in Id, Compared(id) = "blocked" PROVE FALSE
        OBVIOUS
      <4>1. ~Quiet(id) /\ Compared(id) \notin Acting
        BY DEF Quiet, Acting
      <4>2. PICK i \in 1..Len(rest) : rest[i].id = id
        BY <2>1, <2>3, <4>1 DEF Left
      <4> QED BY <2>1, <2>3, <4>1, <4>2, LeftFacts
    <3> QED BY <2>1, <2>3, <3>1 DEF Exact, Eligible
  <2> QED BY <2>1, <2>2, <2>3
<1>2. MInv /\ [Next]_vars => MInv'
  BY ResumeStep
<1> QED BY <1>1, <1>2, ResumeInit, PTL DEF Spec
===============================================================================
