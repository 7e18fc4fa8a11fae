---------------------------- MODULE ScanningResult ----------------------------
(***************************************************************************)
(* What a purview-execution-result/v1 or /v2 document must satisfy: the    *)
(* executor validates every result it builds (_finalize_result_v1, _v2).   *)
(* There is no "partial": nothing is read between two writes, so a run     *)
(* never stops between them of its own accord.                             *)
(***************************************************************************)
EXTENDS ExecutionResult

ScanningStatus == UntouchedStatus \union {"applied", "write-failed", "indeterminate"}

BeforeFirstPutCode ==
  {"apply.payload_preflight_failed", "apply.authentication_failed",
   "apply.remote_read_failed", "apply.remote_state_failed"}

(* FAILURE_CODES_BY_STATUS. *)
CodesOf(status) ==
  CASE status = "failed-before-write" -> BeforeFirstPutCode
    [] status = "indeterminate"       -> {"apply.write_outcome_unknown"}
    [] OTHER                          -> FailureCodes(status)

(* The one pattern of outcomes a status allows. *)
StatusPattern(r) ==
  /\ r.status \in {"write-failed", "indeterminate"} =>
       r.attempted = r.performed + 1 /\ r.attempted <= Len(r.ops)
  /\ \A i \in DOMAIN r.ops :
       r.ops[i] = CASE r.status \in UntouchedStatus -> "not-run"
                    [] r.status = "applied"         -> "succeeded"
                    [] r.status \notin UntouchedStatus \union {"applied"} ->
                         (IF i <= r.performed THEN "succeeded"
                          ELSE IF i = r.performed + 1 THEN BreakOutcome(r.status) ELSE "not-run")

Counts(r) ==
  /\ r.performed <= r.attempted /\ r.unknown <= r.attempted
  /\ r.performed = Cardinality(With(r.ops, "succeeded"))
  /\ r.unknown = Cardinality(With(r.ops, "unknown"))

(* The provenance matrix: refusals, by how far the run came. *)
RefusedAt(r) ==
  /\ r.status \in UntouchedStatus => r.attempted = 0 /\ With(r.ops, "not-run") = DOMAIN r.ops
  /\ r.status = "blocked" => r.executionTarget = None /\ r.observed = None
  /\ r.status = "wrong-target" =>
       r.executionTarget \notin {None, r.plannedTarget} /\ r.observed = None
  /\ r.status \notin {"blocked", "wrong-target"} => r.executionTarget = r.plannedTarget
  /\ r.status = "failed-before-write" => r.observed = None
  /\ r.status = "stale" => r.observed \notin {None, r.plannedRemote}

(* The provenance matrix: runs that reached the planned state. *)
RanOn(r) ==
  /\ r.status \in {"dry-run-ready", "applied", "write-failed", "indeterminate"} =>
       r.observed = r.plannedRemote
  /\ r.status = "dry-run-ready" => r.mode = "dry-run"
  /\ r.status \in {"applied", "write-failed", "indeterminate"} => r.mode = "apply"
  /\ r.status = "applied" => r.attempted = r.performed /\ r.performed = Len(r.ops)
  /\ r.status \in {"write-failed", "indeterminate"} => r.attempted = r.performed + 1

(* validate_result_document_semantics, of a v1 or a v2 result. *)
ValidScanningResult(r) ==
  /\ r.status \in ScanningStatus /\ r.mode \in Mode
  /\ Counts(r) /\ StatusPattern(r)
  /\ r.code \in CodesOf(r.status)
  /\ RefusedAt(r) /\ RanOn(r)
=============================================================================
