----------------------------- MODULE PlanLifecycle -----------------------------
(***************************************************************************)
(* The life of a configuration, as the reviewer workflow of the repository *)
(* runs it: plan create captures the catalog and builds a plan, apply      *)
(* carries it out, in order and perhaps not to its end, and plan create is *)
(* called again.  Nothing is kept between the two but the catalog.         *)
(*                                                                         *)
(* What happens between the requests of one execution is the subject of    *)
(* UnifiedCatalogApply; here nobody else edits the catalog, and an         *)
(* operation is carried out or not.                                        *)
(***************************************************************************)
EXTENDS GovernancePlanner

CONSTANTS
  Approved,           \* configurations whose plans the reviewer lets be applied
  MaxInterruptions    \* bound on the executions that end early

ASSUME LifecycleAssumption == MaxInterruptions \in Nat

VARIABLES
  done,           \* operations of the plan carried out
  rest,           \* history: what the last execution left, None before there is one
  interruptions   \* executions that ended early

lifecycleVars == <<done, rest, interruptions>>
vars == <<plannerVars, lifecycleVars>>

Plan == PlannerNext /\ UNCHANGED lifecycleVars

-----------------------------------------------------------------------------
(* The executor takes a ready plan whole or not at all: it creates no domain, and *)
(* no domain or term loses its parent.  That excludes a product in a new domain,  *)
(* and the planner has blocked every move of a product.                           *)
Unsupported(op) ==
  \/ TypeOf(op.id) = "businessDomain" /\ (op.action = "create" \/ desired[op.id].parent = NoLink)
  \/ /\ TypeOf(op.id) = "glossaryTerm" /\ op.action = "replace"
     /\ desired[op.id].parent = NoLink /\ remote[op.id].parent # NoLink

Ready == pc = "planned" /\ Eligible /\ ops # <<>> /\ desired \in Approved

Refuse ==
  /\ Ready /\ \E i \in DOMAIN ops : Unsupported(ops[i])
  /\ pc' = "refused"
  /\ UNCHANGED <<inputVars, changes, orderVars, lifecycleVars>>

Apply ==
  /\ Ready /\ \A i \in DOMAIN ops : ~Unsupported(ops[i])
  /\ pc' = "applying" /\ done' = 0
  /\ UNCHANGED <<inputVars, changes, orderVars, rest, interruptions>>

SoftWritten(id, base) == IF desired[id].soft = Unmanaged THEN base ELSE desired[id].soft

(* What the service then holds.  It may set a field a create does not name. *)
Written(op) ==
  LET want == desired[op.id] IN
  IF op.action = "create"
  THEN {[key |-> want.key, soft |-> SoftWritten(op.id, given), domain |-> want.domain,
         parent |-> want.parent, locked |-> FALSE, unsupported |-> FALSE] :
          given \in Soft \union {Unset}}
  ELSE {[remote[op.id] EXCEPT !.key = want.key, !.parent = want.parent,
                              !.domain = want.domain,
                              !.soft = SoftWritten(op.id, remote[op.id].soft)]}

CarryOut ==
  /\ pc = "applying" /\ done < Len(ops)
  /\ \E r \in Written(ops[done + 1]) : input' = [input EXCEPT !.remote[ops[done + 1].id] = r]
  /\ done' = done + 1
  /\ UNCHANGED <<pc, changes, orderVars, failure, rest, interruptions>>

-----------------------------------------------------------------------------
(* plan create, on a fresh capture. *)
PlanAgain ==
  /\ rest' = SubSeq(ops, done + 1, Len(ops))
  /\ pc' = "start"
  /\ changes' = Unplanned
  /\ section' = 0 /\ remaining' = {} /\ later' = {} /\ progressed' = FALSE /\ ops' = <<>>
  /\ done' = 0
  /\ UNCHANGED inputVars

Complete ==
  /\ pc = "applying" /\ done = Len(ops)
  /\ PlanAgain
  /\ UNCHANGED interruptions

Interrupt ==
  /\ pc = "applying" /\ done < Len(ops)
  /\ interruptions < MaxInterruptions /\ interruptions' = interruptions + 1
  /\ PlanAgain

-----------------------------------------------------------------------------
Init == PlannerInit /\ done = 0 /\ rest = None /\ interruptions = 0

Next == Plan \/ Refuse \/ Apply \/ CarryOut \/ Complete \/ Interrupt

Spec == Init /\ [][Next]_vars

-----------------------------------------------------------------------------
(* Properties. *)

(* A plan is resumable: after any of its operations, planning anew succeeds and *)
(* yields exactly those that are left, in the same order; after all, none.  So  *)
(* the fresh capture is all the memory that a repeated execution needs.         *)
ReplanIsTheRest ==
  rest # None /\ pc \in {"planned", "failed", "refused", "applying"} =>
    /\ pc \in {"planned", "applying"} /\ Eligible
    /\ pc = "planned" => ops = rest

(* While a plan is carried out, no reference in the catalog dangles that did not *)
(* dangle before, and no written term leaves the domain of its parent.           *)
CatalogStaysLinked ==
  pc = "applying" =>
    \A i \in 1..done :
      LET written == remote[ops[i].id] IN
      /\ \A link \in {written.domain, written.parent} :
           link # NoLink => remote[link] # Missing
      /\ ops[i].id \in Term /\ written.parent \in Term /\ Interpreted(written.parent) =>
           remote[written.parent].domain = written.domain

(* The documented end of the workflow: after a plan has been applied in full, the *)
(* next one has no operations ("converged empty ops").                            *)
AppliedPlansConverge == rest = <<>> /\ pc = "planned" => ops = <<>>
=============================================================================
