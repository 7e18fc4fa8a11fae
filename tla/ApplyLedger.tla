----------------------------- MODULE ApplyLedger -----------------------------
(***************************************************************************)
(* What an executor promises, whatever the API: operations are carried out *)
(* in plan order, none after one that did not succeed, and the verdict     *)
(* tells from the ledger alone how far the execution came.                 *)
(***************************************************************************)
EXTENDS Integers, Sequences

VARIABLES
  ledger,   \* the outcome of every operation of the plan
  verdict   \* "running", "none" (no result), or the status reported

Untouched == \A i \in DOMAIN ledger : ledger[i] = "not-run"
Complete == \A i \in DOMAIN ledger : ledger[i] = "succeeded"

(* The operation whose turn it is: everything before it succeeded. *)
Turn(i) ==
  /\ ledger[i] = "not-run"
  /\ \A j \in DOMAIN ledger : j < i => ledger[j] = "succeeded"

Init == verdict = "running" /\ Untouched

(* Refused before any operation. *)
Decline ==
  /\ verdict = "running" /\ Untouched
  /\ verdict' \in {"dry-run-ready", "blocked", "wrong-target", "stale",
                   "failed-before-write"}
  /\ UNCHANGED ledger

Succeed(i) ==
  /\ verdict = "running" /\ Turn(i)
  /\ ledger' = [ledger EXCEPT ![i] = "succeeded"]
  /\ \/ verdict' = "running"
     \/ verdict' = "applied" /\ Complete'

Break(i) ==
  /\ verdict = "running" /\ Turn(i)
  /\ \/ ledger' = [ledger EXCEPT ![i] = "failed"] /\ verdict' = "write-failed"
     \/ ledger' = [ledger EXCEPT ![i] = "unknown"] /\ verdict' = "indeterminate"

(* Stopped between two operations. *)
Stop ==
  /\ verdict = "running" /\ ~Untouched /\ ~Complete
  /\ verdict' = "partial"
  /\ UNCHANGED ledger

(* A plan without operations is applied at once. *)
Finish ==
  /\ verdict = "running" /\ Complete
  /\ verdict' = "applied"
  /\ UNCHANGED ledger

(* No result: the input is rejected, or the process dies. *)
Abort ==
  /\ verdict = "running"
  /\ verdict' = "none"
  /\ UNCHANGED ledger

Restart ==
  /\ verdict # "running"
  /\ verdict' = "running"
  /\ ledger' = [i \in DOMAIN ledger |-> "not-run"]

Next ==
  \/ Decline \/ Stop \/ Finish \/ Abort \/ Restart
  \/ \E i \in DOMAIN ledger : Succeed(i) \/ Break(i)

Spec == Init /\ [][Next]_<<ledger, verdict>>
=============================================================================
