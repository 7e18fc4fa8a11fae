--------------------------- MODULE ExecutionResult ---------------------------
(***************************************************************************)
(* What a purview-execution-result/v3 document must satisfy.  The executor *)
(* validates every result it builds (_finalize_result_v3) and an invalid   *)
(* one raises out of the executor, after any write it already made.        *)
(*                                                                         *)
(* A result is a record: the planned and the execution target, the planned *)
(* and the observed remote state (identities are injective hashes, so they *)
(* are modelled by what they identify), the mode, the status, the three    *)
(* counters, the outcome of every operation and the failure code.          *)
(***************************************************************************)
EXTENDS Integers, Sequences, FiniteSets

CONSTANT None   \* JSON null

OperationStatus == {"not-run", "succeeded", "failed", "unknown"}

UntouchedStatus ==
  {"dry-run-ready", "blocked", "wrong-target", "stale", "failed-before-write"}

Status == UntouchedStatus \union {"applied", "partial", "write-failed", "indeterminate"}

Mode == {"dry-run", "apply"}

BeforeWriteCode ==
  {"apply.payload_preflight_failed", "apply.payload_semantics_unverified",
   "apply.authentication_failed", "apply.remote_read_failed",
   "apply.remote_state_failed", "apply.remote_state_identity_mismatch",
   "apply.invalid_remote_state", "apply.tenant_binding_unsupported"}

PartialCode ==
  {"apply.pre_write_stale_after_writes", "apply.pre_write_auth_failed_after_writes",
   "apply.pre_write_read_failed_after_writes"}

WriteCode ==
  {"apply.write_rejected", "apply.write_auth_failed",
   "apply.write_outcome_unknown", "apply.write_response_invalid"}

Code == {"apply.plan_blocked", "apply.wrong_target", "apply.stale_plan"}
          \union BeforeWriteCode \union PartialCode \union WriteCode

(* The failure codes a status may carry; None stands for "failure": null. *)
FailureCodes(status) ==
  CASE status \in {"dry-run-ready", "applied"} -> {None}
    [] status = "blocked"             -> {"apply.plan_blocked"}
    [] status = "wrong-target"        -> {"apply.wrong_target"}
    [] status = "stale"               -> {"apply.stale_plan"}
    [] status = "failed-before-write" -> BeforeWriteCode
    [] status = "partial"             -> PartialCode
    [] status = "write-failed"  -> {"apply.write_rejected", "apply.write_auth_failed"}
    [] status = "indeterminate" ->
         {"apply.write_outcome_unknown", "apply.write_response_invalid"}
    [] OTHER -> {}

(* The operations with a given outcome. *)
With(ops, outcome) == {i \in DOMAIN ops : ops[i] = outcome}

(* The outcome an operation just after the succeeded prefix must have. *)
BreakOutcome(status) ==
  CASE status = "write-failed"  -> "failed"
    [] status = "indeterminate" -> "unknown"
    [] OTHER                    -> "not-run"

(* Outcomes form a succeeded prefix, at most one failed or unknown, not-run *)
(* after it.                                                                *)
OutcomePattern(r) ==
  /\ r.status \in {"write-failed", "indeterminate"} => r.performed < Len(r.ops)
  /\ r.status = "applied" => r.performed = Len(r.ops)
  /\ r.status = "partial" => r.performed <= Len(r.ops)
  /\ \A i \in DOMAIN r.ops :
       r.ops[i] = CASE i <= r.performed     -> "succeeded"
                    [] i = r.performed + 1  -> BreakOutcome(r.status)
                    [] OTHER                -> "not-run"

Counters(r) ==
  /\ r.performed <= r.attempted
  /\ r.unknown <= r.attempted
  /\ r.performed = Cardinality(With(r.ops, "succeeded"))
  /\ r.unknown = Cardinality(With(r.ops, "unknown"))
  /\ r.status \in UntouchedStatus => r.attempted = 0
  /\ r.status \in {"applied", "partial"} => r.attempted = r.performed
  /\ r.status = "partial" => r.performed > 0
  /\ r.status \in {"write-failed", "indeterminate"} => r.attempted = r.performed + 1
  /\ r.unknown = IF r.status = "indeterminate" THEN 1 ELSE 0

(* The target an execution may record: none before it is bound, another one *)
(* only for wrong-target, the planned one from there on.                    *)
ExecutedOn(r) ==
  \/ r.status = "blocked" /\ r.executionTarget = None
  \/ r.status = "wrong-target" /\ r.executionTarget \notin {None, r.plannedTarget}
  \/ r.status \notin {"blocked", "wrong-target"} /\ r.executionTarget = r.plannedTarget
  \/ /\ r.status = "failed-before-write"
     /\ r.code = "apply.tenant_binding_unsupported"
     /\ r.executionTarget = None

(* Which stage of the executor may have recorded which target, observed *)
(* state and mode: the provenance matrix.                               *)
Provenance(r) ==
  /\ ExecutedOn(r)
  /\ r.status \in {"blocked", "wrong-target", "failed-before-write"} => r.observed = None
  /\ r.status = "stale" => r.observed \notin {None, r.plannedRemote}
  /\ r.status \in {"dry-run-ready", "applied", "partial", "write-failed", "indeterminate"}
       => r.observed = r.plannedRemote
  /\ r.status = "dry-run-ready" => r.mode = "dry-run"
  /\ r.status \in {"applied", "partial", "write-failed", "indeterminate"}
       => r.mode = "apply"

ValidResult(r) ==
  /\ r.status \in Status
  /\ r.mode \in Mode
  /\ r.code \in FailureCodes(r.status)
  /\ Counters(r)
  /\ OutcomePattern(r)
  /\ Provenance(r)
=============================================================================
