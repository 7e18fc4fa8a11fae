-------------------------- MODULE ScanningApplyProofs --------------------------
(***************************************************************************)
(* Theorems about the v1 and v2 executor, for every account, plan and      *)
(* bound: what it sends, and what it reports of it.                        *)
(***************************************************************************)
EXTENDS ScanningApply, ScanningDiffProofs, FiniteSetTheorems, SequenceTheorems, TLAPS

-----------------------------------------------------------------------------
(* The outcomes of a run: a succeeded prefix, one break, not-run after it. *)

Outcomes(n, k, break) ==
  [i \in 1..n |-> IF i <= k THEN "succeeded" ELSE IF i = k + 1 THEN break ELSE "not-run"]

LEMMA CountTo ==
  ASSUME NEW k \in Nat
  PROVE  Cardinality(1..k) = k
<1>1. Cardinality(1..k) = IF 1 > k THEN 0 ELSE k - 1 + 1
  BY FS_Interval
<1> QED BY <1>1

LEMMA OutcomesType ==
  ASSUME NEW n \in Nat, NEW k, NEW break \in {"not-run", "failed", "unknown"}
  PROVE  Len(Outcomes(n, k, break)) = n /\ Outcomes(n, k, break) \in [1..n -> OperationStatus]
<1>1. Outcomes(n, k, break) \in [1..n -> OperationStatus]
  BY DEF Outcomes, OperationStatus
<1> QED BY <1>1, SequenceOf

LEMMA CountOutcomes ==
  ASSUME NEW n \in Nat, NEW k \in 0..n, NEW break \in {"not-run", "failed", "unknown"},
         break # "not-run" => k < n
  PROVE  /\ Cardinality(With(Outcomes(n, k, break), "succeeded")) = k
         /\ Cardinality(With(Outcomes(n, k, break), "unknown"))
              = IF break = "unknown" THEN 1 ELSE 0
<1>1. With(Outcomes(n, k, break), "succeeded") = 1..k
  BY DEF With, Outcomes
<1>2. Cardinality(1..k) = k
  BY CountTo
<1>3. CASE break = "unknown"
  <2>1. With(Outcomes(n, k, break), "unknown") = {k + 1}
    BY <1>3 DEF With, Outcomes
  <2> QED BY <1>1, <1>2, <1>3, <2>1, FS_Singleton
<1>4. CASE break # "unknown"
  <2>1. With(Outcomes(n, k, break), "unknown") = {}
    BY <1>4 DEF With, Outcomes
  <2> QED BY <1>1, <1>2, <1>4, <2>1, FS_EmptySet
<1> QED BY <1>3, <1>4

-----------------------------------------------------------------------------
(* The inductive invariant. *)

DelayedPut == [run : Nat, index : Positions, payload : Interpreted]

Typed ==
  /\ mode \in Mode /\ catalog \in RemoteState /\ captured \in RemoteState
  /\ performed \in Nat /\ runs \in Nat
  /\ outcome \in [Positions -> OperationStatus]
  /\ delayed \subseteq DelayedPut
  /\ initiated \subseteq Positions /\ landed \subseteq Positions /\ earlier \subseteq Positions
  /\ pc \in Stage

Planned ==
  \E s \in Scenarios : plan = s.plan /\ version = s.plan.version /\ endpoint = s.endpoint

(* Behind the admission the plan has been checked and its payloads built. *)
Admitted ==
  pc \in {"capture", "write"} =>
    /\ ValidPlan(plan) /\ plan.eligibility = "ready" /\ endpoint = plan.target
    /\ \A i \in Positions : Want(Ops[i].id) # Absent

(* No PUT leaves before the capture is complete. *)
NothingWritten ==
  pc \in {"start", "capture"} =>
    performed = 0 /\ outcome = AllNotRun /\ initiated = {} /\ landed = {} /\ result = None

Underway ==
  pc = "write" =>
    /\ mode = "apply" /\ phase = "captured" /\ captured = plan.remote
    /\ performed < Last /\ result = None
    /\ outcome = Outcomes(Last, performed, "not-run")
    /\ initiated = 1..performed /\ landed = 1..performed

(* A PUT of this run can still be on its way only when the run has ended with it. *)
Late ==
  \A w \in delayed :
    w.run <= runs /\ (w.run = runs => pc \in Final /\ outcome[w.index] = "unknown")

(* The outcomes, and the result, tell what was sent and what the service did. *)
Account ==
  /\ result # None =>
       pc = "done" /\ result.ops = outcome /\ result.attempted = Cardinality(initiated)
  /\ \A i \in Positions :
       /\ outcome[i] = "succeeded" => i \in landed
       /\ outcome[i] \in {"failed", "not-run"} => i \notin landed

Reported == pc # "escaped" /\ (pc = "done" => result.status \in ScanningStatus)

Staged == Admitted /\ NothingWritten /\ Underway /\ WritesOnlyWhatWasPlanned
Told == Late /\ Account /\ Reported

IInv == Typed /\ Planned /\ Staged /\ Told

-----------------------------------------------------------------------------
(* What the inputs are. *)

LEMMA PlanFacts ==
  ASSUME Planned
  PROVE  /\ Ops \in Seq(Operation) /\ Positions = 1..Last /\ Last \in Nat
         /\ \A i \in Positions : Ops[i] \in Operation /\ Ops[i].id \in Id
         /\ plan.desired \in Configuration /\ plan.remote \in RemoteState
         /\ plan.target \in Target /\ endpoint \in Target
         /\ AllNotRun = Outcomes(Last, 0, "not-run")
         /\ AllNotRun \in [Positions -> OperationStatus]
<1>1. PICK s \in Scenarios : plan = s.plan /\ version = s.plan.version /\ endpoint = s.endpoint
  BY DEF Planned
<1>2. /\ plan.ops \in Seq(Operation) /\ plan.target \in Target /\ endpoint \in Target
      /\ plan.desired \in Configuration /\ plan.remote \in RemoteState
  BY <1>1, ScenarioAssumption
<1>3. /\ Ops \in Seq(Operation) /\ Positions = 1..Last /\ Last \in Nat
      /\ \A i \in Positions : Ops[i] \in Operation
  BY <1>2 DEF Ops, Positions, Last
<1>4. \A i \in Positions : Ops[i].id \in Id
  BY <1>3 DEF Operation
<1>5. AllNotRun \in [Positions -> OperationStatus]
  BY DEF AllNotRun, OperationStatus
<1>6. AllNotRun = Outcomes(Last, 0, "not-run")
  <2>1. \A i \in 1..Last : ~(i <= 0)
    BY <1>3
  <2> QED BY <1>3, <2>1 DEF AllNotRun, Outcomes
<1> QED BY <1>2, <1>3, <1>4, <1>5, <1>6

(* The plan never changes. *)
LEMMA SamePlan ==
  ASSUME UNCHANGED <<plan, version, endpoint>>
  PROVE  /\ Planned' = Planned /\ Ops' = Ops /\ Last' = Last /\ Positions' = Positions
         /\ AllNotRun' = AllNotRun /\ DelayedPut' = DelayedPut
BY DEF Planned, Ops, Last, Positions, AllNotRun, DelayedPut

(* While PUTs are sent there is a current one. *)
LEMMA CurrentFacts ==
  ASSUME IInv, pc = "write"
  PROVE  /\ Current = performed + 1 /\ performed \in Nat /\ Current \in Positions
         /\ performed \in 0..Last /\ Current \in 1..Last /\ performed < Last /\ Last \in Nat
         /\ Writing \in Id /\ Payload(Writing) \in Interpreted
<1>1. performed \in Nat /\ performed < Last /\ Last \in Nat /\ Positions = 1..Last
  BY PlanFacts DEF IInv, Typed, Staged, Underway
<1>2. Current = performed + 1 /\ Current \in Positions /\ Current \in 1..Last /\ performed \in 0..Last
  BY <1>1 DEF Current
<1>3. Writing \in Id
  BY <1>2, PlanFacts DEF IInv, Writing
<1>4. Want(Writing) \in Desired
  <2>1. Want(Writing) # Absent
    BY <1>2 DEF IInv, Staged, Admitted, Writing
  <2>2. plan.desired \in [Id -> Desired \union {Absent}]
    BY PlanFacts DEF IInv, Configuration
  <2> QED BY <1>3, <2>1, <2>2 DEF Want
<1>5. Payload(Writing) \in Interpreted
  BY <1>4 DEF Payload, Desired, Interpreted
<1> QED BY <1>1, <1>2, <1>3, <1>5

(* The outcomes an execution records next. *)
LEMMA RecordedOutcomes ==
  ASSUME IInv, pc = "write"
  PROVE  /\ outcome = Outcomes(Last, performed, "not-run")
         /\ \A break \in {"failed", "unknown"} :
              [outcome EXCEPT ![Current] = break] = Outcomes(Last, performed, break)
         /\ [outcome EXCEPT ![Current] = "succeeded"] = Outcomes(Last, Current, "not-run")
<1>1. /\ Current = performed + 1 /\ performed \in Nat /\ Current \in 1..Last /\ Last \in Nat
  BY CurrentFacts
<1>2. outcome = Outcomes(Last, performed, "not-run")
  BY DEF IInv, Staged, Underway
<1>3. ASSUME NEW break \in {"failed", "unknown"}
      PROVE  [outcome EXCEPT ![Current] = break] = Outcomes(Last, performed, break)
  <2>1. \A i \in 1..Last :
          (IF i = Current THEN break ELSE outcome[i])
            = IF i <= performed THEN "succeeded" ELSE
              IF i = performed + 1 THEN break ELSE "not-run"
    BY <1>1, <1>2 DEF Outcomes
  <2>2. [outcome EXCEPT ![Current] = break]
          = [i \in 1..Last |-> IF i = Current THEN break ELSE outcome[i]]
    BY <1>2 DEF Outcomes
  <2> QED BY <2>1, <2>2 DEF Outcomes
<1>4. [outcome EXCEPT ![Current] = "succeeded"] = Outcomes(Last, Current, "not-run")
  <2>1. \A i \in 1..Last :
          (IF i = Current THEN "succeeded" ELSE outcome[i])
            = IF i <= Current THEN "succeeded" ELSE
              IF i = Current + 1 THEN "not-run" ELSE "not-run"
    BY <1>1, <1>2 DEF Outcomes
  <2>2. [outcome EXCEPT ![Current] = "succeeded"]
          = [i \in 1..Last |-> IF i = Current THEN "succeeded" ELSE outcome[i]]
    BY <1>2 DEF Outcomes
  <2> QED BY <2>1, <2>2 DEF Outcomes
<1> QED BY <1>2, <1>3, <1>4

-----------------------------------------------------------------------------
(* Results that pass the validation. *)

LEMMA ValidRefusal ==
  ASSUME mode \in Mode, NEW status \in UntouchedStatus, NEW code \in CodesOf(status),
         NEW target, NEW observed,
         RefusedAt(Result(status, code, target, observed, 0, 0, 0, AllNotRun)),
         RanOn(Result(status, code, target, observed, 0, 0, 0, AllNotRun))
  PROVE  ValidScanningResult(Result(status, code, target, observed, 0, 0, 0, AllNotRun))
<1> DEFINE r == Result(status, code, target, observed, 0, 0, 0, AllNotRun)
<1>1. /\ r.status = status /\ r.code = code /\ r.mode = mode /\ r.ops = AllNotRun
      /\ r.performed = 0 /\ r.attempted = 0 /\ r.unknown = 0
  BY DEF Result
<1>2. With(r.ops, "succeeded") = {} /\ With(r.ops, "unknown") = {}
  BY <1>1 DEF With, AllNotRun
<1>3. Counts(r)
  BY <1>1, <1>2, FS_EmptySet DEF Counts
<1>4. StatusPattern(r)
  <2>1. \A i \in DOMAIN r.ops : r.ops[i] = "not-run"
    BY <1>1 DEF AllNotRun
  <2>2. /\ r.status \in UntouchedStatus
        /\ r.status \notin {"applied", "write-failed", "indeterminate"}
    BY <1>1 DEF UntouchedStatus
  <2>3. \A i \in DOMAIN r.ops :
          r.ops[i] = CASE r.status \in UntouchedStatus -> "not-run"
                       [] r.status = "applied"         -> "succeeded"
                       [] r.status \notin UntouchedStatus \union {"applied"} ->
                            (IF i <= r.performed THEN "succeeded"
                             ELSE IF i = r.performed + 1 THEN BreakOutcome(r.status)
                             ELSE "not-run")
    BY <2>1, <2>2
  <2> QED BY <2>2, <2>3 DEF StatusPattern
<1>5. r.status \in ScanningStatus
  BY <1>1 DEF ScanningStatus
<1> QED BY <1>1, <1>3, <1>4, <1>5 DEF ValidScanningResult

LEMMA ValidConclusion ==
  ASSUME IInv, mode = "apply", endpoint = plan.target, captured = plan.remote,
         NEW status \in {"applied", "write-failed", "indeterminate"},
         NEW code \in CodesOf(status), NEW k \in 0..Last,
         NEW break \in {"not-run", "failed", "unknown"}, break = BreakOutcome(status),
         break # "not-run" => k < Last, status = "applied" => k = Last
  PROVE  ValidScanningResult(Result(status, code, endpoint, captured, k,
                                    k + (IF break = "not-run" THEN 0 ELSE 1),
                                    IF break = "unknown" THEN 1 ELSE 0,
                                    Outcomes(Last, k, break)))
<1> DEFINE m == k + (IF break = "not-run" THEN 0 ELSE 1)
           u == IF break = "unknown" THEN 1 ELSE 0
           r == Result(status, code, endpoint, captured, k, m, u, Outcomes(Last, k, break))
<1>1. /\ r.status = status /\ r.code = code /\ r.mode = mode /\ r.ops = Outcomes(Last, k, break)
      /\ r.performed = k /\ r.attempted = m /\ r.unknown = u
      /\ r.executionTarget = endpoint /\ r.plannedTarget = plan.target
      /\ r.observed = captured /\ r.plannedRemote = plan.remote
  BY DEF Result
<1>2. Last \in Nat /\ k \in Nat
  BY PlanFacts DEF IInv
<1>3. /\ status \in {"write-failed", "indeterminate"} <=> break # "not-run"
      /\ status = "applied" <=> break = "not-run"
      /\ status = "indeterminate" <=> break = "unknown"
      /\ status \notin UntouchedStatus
  BY DEF BreakOutcome, UntouchedStatus
<1>4. Len(r.ops) = Last /\ DOMAIN r.ops = 1..Last
  BY <1>1, <1>2, OutcomesType
<1>5. Counts(r)
  <2>1. /\ Cardinality(With(r.ops, "succeeded")) = k
        /\ Cardinality(With(r.ops, "unknown")) = u
    BY <1>1, <1>2, CountOutcomes
  <2>2. k <= m /\ u <= m
    BY <1>2
  <2> QED BY <1>1, <2>1, <2>2 DEF Counts
<1>6. StatusPattern(r)
  <2>1. status \in {"write-failed", "indeterminate"} => m = k + 1 /\ m <= Last
    BY <1>2, <1>3
  <2>2. CASE status = "applied"
    <3>1. \A i \in 1..Last : r.ops[i] = "succeeded"
      BY <1>1, <1>2, <2>2 DEF Outcomes
    <3> QED BY <1>1, <1>3, <1>4, <2>2, <3>1 DEF StatusPattern
  <2>3. CASE status # "applied"
    <3>1. \A i \in 1..Last :
            r.ops[i] = IF i <= k THEN "succeeded" ELSE IF i = k + 1 THEN break ELSE "not-run"
      BY <1>1 DEF Outcomes
    <3> QED BY <1>1, <1>3, <1>4, <2>1, <2>3, <3>1 DEF StatusPattern
  <2> QED BY <2>2, <2>3
<1>7. RefusedAt(r)
  <2>1. status \notin {"blocked", "wrong-target", "failed-before-write", "stale"}
    BY <1>3 DEF UntouchedStatus
  <2> QED BY <1>1, <1>3, <2>1 DEF RefusedAt
<1>8. RanOn(r)
  <2>1. status = "applied" => m = k /\ k = Last
    BY <1>2, <1>3
  <2>2. status \in {"write-failed", "indeterminate"} => m = k + 1
    BY <1>2, <1>3
  <2> QED BY <1>1, <1>4, <2>1, <2>2 DEF RanOn
<1> QED BY <1>1, <1>5, <1>6, <1>7, <1>8 DEF ValidScanningResult, ScanningStatus, Mode

-----------------------------------------------------------------------------
(* The resources stay typed. *)

LEMMA ReadTypes ==
  ASSUME IInv, CaptureStep
  PROVE  captured' \in RemoteState /\ catalog' = catalog
<1>0. catalog \in RemoteState /\ captured \in RemoteState
  BY DEF IInv, Typed
<1>1. CASE ListPage
  <2>1. PICK found : captured' = [id \in Id |-> IF id \in found /\ RecordedFromList(id)
                                                THEN catalog[id] ELSE captured[id]]
    BY <1>1 DEF ListPage
  <2> QED BY <1>0, <1>1, <2>1 DEF ListPage, RemoteState
<1>2. CASE Read
  BY <1>0, <1>2 DEF Read, RemoteState
<1>3. CASE List \/ ListFails \/ ReadFails \/ Complete
  BY <1>0, <1>3 DEF List, ListFails, ReadFails, Complete
<1> QED BY <1>1, <1>2, <1>3 DEF CaptureStep

LEMMA ChangeTypes ==
  ASSUME IInv, NEW id \in Id, NEW r \in Interpreted \union ForeignKind \union {Missing},
         Changes(id, r)
  PROVE  catalog' \in RemoteState
<1>0. catalog \in RemoteState
  BY DEF IInv, Typed
<1>1. r # UnsupportedType
  BY MarkerAssumption DEF Uninterpreted
<1>2. Missing # UnsupportedType
  BY MarkerAssumption DEF Uninterpreted
<1> QED BY <1>0, <1>1, <1>2 DEF Changes, RemoteState, Uninterpreted

LEMMA EditTypes ==
  ASSUME IInv, NEW id \in Id, EditByOthers(id)
  PROVE  catalog' \in RemoteState
<1>1. PICK r \in Edited(id) : Changes(id, r)
  BY DEF EditByOthers, Edit
<1>2. r \in Interpreted \union ForeignKind \union {Missing}
  BY <1>1 DEF Edited, Interpreted
<1> QED BY <1>1, <1>2, ChangeTypes

LEMMA StoreTypes ==
  ASSUME IInv, pc = "write", Store
  PROVE  catalog' \in RemoteState
<1>1. catalog \in RemoteState /\ Writing \in Id /\ Payload(Writing) \in Interpreted
  BY CurrentFacts DEF IInv, Typed
<1>2. Payload(Writing) # UnsupportedType
  BY <1>1, MarkerAssumption DEF Uninterpreted
<1> QED BY <1>1, <1>2 DEF Store, RemoteState

-----------------------------------------------------------------------------
(* Every step keeps the invariant. *)

(* Steps that send nothing and report nothing. *)
LEMMA SilentInv ==
  ASSUME IInv, UNCHANGED <<jobVars, runs, applyVars, result, historyVars>>,
         delayed' \subseteq delayed, catalog' \in RemoteState, captured' \in RemoteState,
         pc' = pc \/ (pc \notin Final /\ pc' \in {"rejected", "crashed"}),
         pc \notin {"start", "capture"} => UNCHANGED <<phase, captured>>
  PROVE  IInv'
<1>1. /\ plan' = plan /\ version' = version /\ endpoint' = endpoint /\ mode' = mode
      /\ runs' = runs /\ performed' = performed /\ outcome' = outcome /\ result' = result
      /\ initiated' = initiated /\ landed' = landed /\ earlier' = earlier
  BY DEF jobVars, applyVars, historyVars
<1>2. /\ Planned' = Planned /\ Ops' = Ops /\ Last' = Last /\ Positions' = Positions
      /\ AllNotRun' = AllNotRun /\ DelayedPut' = DelayedPut
  BY <1>1, SamePlan
<1>3. Typed'
  BY <1>1, <1>2 DEF IInv, Typed, Stage, Final
<1>4. Admitted' /\ NothingWritten' /\ Underway'
  <2>1. Admitted'
    BY <1>1, <1>2 DEF IInv, Staged, Admitted, Want
  <2>2. NothingWritten'
    BY <1>1, <1>2 DEF IInv, Staged, NothingWritten
  <2>3. Underway'
    BY <1>1, <1>2 DEF IInv, Staged, Underway
  <2> QED BY <2>1, <2>2, <2>3
<1>5. WritesOnlyWhatWasPlanned'
  <2>1. initiated # {} => pc \notin {"start", "capture"}
    BY DEF IInv, Staged, NothingWritten
  <2> QED BY <1>1, <2>1 DEF IInv, Staged, WritesOnlyWhatWasPlanned
<1>6. Late'
  BY <1>1, <1>2 DEF IInv, Told, Late, Final
<1>7. Account'
  <2>1. result # None => pc = "done"
    BY DEF IInv, Told, Account
  <2> QED BY <1>1, <1>2, <2>1 DEF IInv, Told, Account, Final
<1>8. Reported'
  BY <1>1 DEF IInv, Told, Reported
<1> QED BY <1>2, <1>3, <1>4, <1>5, <1>6, <1>7, <1>8 DEF IInv, Staged, Told

(* A refusal. *)
LEMMA RefuseInv ==
  ASSUME IInv, pc \in {"start", "capture"}, NEW status \in UntouchedStatus,
         NEW code \in CodesOf(status), NEW target, NEW observed,
         RefusedAt(Result(status, code, target, observed, 0, 0, 0, AllNotRun)),
         RanOn(Result(status, code, target, observed, 0, 0, 0, AllNotRun)),
         Refuse(status, code, target, observed), UNCHANGED phase
  PROVE  IInv' /\ pc' = "done" /\ result'.status = status /\ outcome' = outcome
<1>1. /\ plan' = plan /\ version' = version /\ endpoint' = endpoint /\ mode' = mode
      /\ runs' = runs /\ performed' = performed /\ outcome' = outcome
      /\ initiated' = initiated /\ landed' = landed /\ earlier' = earlier
      /\ delayed' = delayed /\ catalog' = catalog /\ captured' = captured
      /\ result' = Result(status, code, target, observed, 0, 0, 0, AllNotRun)
  BY DEF Refuse, Report, jobVars, applyVars, historyVars, serviceVars
<1>2. /\ Planned' = Planned /\ Positions' = Positions /\ AllNotRun' = AllNotRun
      /\ DelayedPut' = DelayedPut
  BY <1>1, SamePlan
<1>3. pc' = "done"
  BY ValidRefusal DEF Refuse, Report, IInv, Typed
<1>4. outcome = AllNotRun /\ initiated = {} /\ landed = {}
  BY DEF IInv, Staged, NothingWritten
<1>5. result'.status = status /\ result'.ops = AllNotRun /\ result'.attempted = 0
  BY <1>1 DEF Result
<1>6. Typed'
  BY <1>1, <1>2, <1>3 DEF IInv, Typed, Stage, Final
<1>7. Staged'
  BY <1>1, <1>3, <1>4
  DEF Staged, Admitted, NothingWritten, Underway, WritesOnlyWhatWasPlanned
<1>8. Late'
  <2>1. \A w \in delayed : w.run <= runs /\ w.run # runs
    BY DEF IInv, Told, Late, Final
  <2> QED BY <1>1, <2>1 DEF Late
<1>9. Account'
  <2>1. Cardinality({}) = 0
    BY FS_EmptySet
  <2> QED BY <1>1, <1>2, <1>3, <1>4, <1>5, <2>1 DEF Account, AllNotRun
<1>10. Reported'
  BY <1>3, <1>5 DEF Reported, ScanningStatus
<1> QED BY <1>1, <1>2, <1>3, <1>5, <1>6, <1>7, <1>8, <1>9, <1>10 DEF IInv, Told

(* A report made while PUTs are sent. *)
LEMMA ConclusionInv ==
  ASSUME IInv, pc = "write" \/ (pc = "capture" /\ phase = "captured" /\ ~Stale /\ mode = "apply"),
         UNCHANGED <<jobVars, readVars, runs, earlier>>,
         NEW status \in {"applied", "write-failed", "indeterminate"},
         NEW code \in CodesOf(status), NEW k \in 0..Last,
         NEW break \in {"not-run", "failed", "unknown"}, break = BreakOutcome(status),
         break # "not-run" => k < Last, status = "applied" => k = Last,
         outcome' = Outcomes(Last, k, break),
         Conclude(status, code, k, k + (IF break = "not-run" THEN 0 ELSE 1),
                  IF break = "unknown" THEN 1 ELSE 0, outcome'),
         performed' \in Nat, catalog' \in RemoteState,
         initiated' = 1..(k + (IF break = "not-run" THEN 0 ELSE 1)),
         landed' \subseteq initiated', 1..k \subseteq landed',
         break = "failed" => landed' = 1..k,
         \A w \in delayed' : w \in delayed \/
           (break = "unknown" /\ \E payload \in Interpreted :
              w = [run |-> runs, index |-> k + 1, payload |-> payload])
  PROVE  IInv' /\ pc' = "done" /\ result'.status = status
<1> DEFINE m == k + (IF break = "not-run" THEN 0 ELSE 1)
           u == IF break = "unknown" THEN 1 ELSE 0
<1>1. /\ plan' = plan /\ version' = version /\ endpoint' = endpoint /\ mode' = mode
      /\ runs' = runs /\ earlier' = earlier /\ captured' = captured /\ phase' = phase
  BY DEF jobVars, readVars
<1>2. /\ Planned' = Planned /\ Positions' = Positions /\ AllNotRun' = AllNotRun
      /\ DelayedPut' = DelayedPut
  BY <1>1, SamePlan
<1>3. Last \in Nat /\ Positions = 1..Last /\ k \in Nat /\ m \in Nat /\ m <= Last
  BY PlanFacts DEF IInv
<1>4. /\ mode = "apply" /\ endpoint = plan.target /\ captured = plan.remote /\ phase = "captured"
      /\ ValidPlan(plan) /\ plan.eligibility = "ready"
  BY DEF IInv, Staged, Admitted, Underway, Stale
<1>5. ValidScanningResult(Result(status, code, endpoint, captured, k, m, u,
                                 Outcomes(Last, k, break)))
  BY <1>4, ValidConclusion
<1>6. pc' = "done" /\ result' = Result(status, code, endpoint, captured, k, m, u, outcome')
  BY <1>5 DEF Conclude, Report
<1>7. result'.status = status /\ result'.ops = outcome' /\ result'.attempted = m
  BY <1>6 DEF Result
<1>8. Typed'
  <2>1. outcome' \in [Positions -> OperationStatus]
    BY <1>3, OutcomesType
  <2>2. initiated' \subseteq Positions /\ landed' \subseteq Positions
    BY <1>3
  <2>3. delayed' \subseteq DelayedPut
    <3>1. break = "unknown" => k + 1 \in Positions
      BY <1>3
    <3>2. delayed \subseteq DelayedPut /\ runs \in Nat
      BY DEF IInv, Typed
    <3>3. \A w \in delayed' : w \in DelayedPut
      <4> SUFFICES ASSUME NEW w \in delayed', w \notin delayed PROVE w \in DelayedPut
        BY <3>2
      <4>1. PICK payload \in Interpreted :
              w = [run |-> runs, index |-> k + 1, payload |-> payload] /\ break = "unknown"
        OBVIOUS
      <4>2. k + 1 \in Positions /\ runs \in Nat
        BY <3>1, <3>2, <4>1
      <4> QED BY <4>1, <4>2 DEF DelayedPut
    <3> QED BY <3>3
  <2> QED BY <1>1, <1>2, <1>6, <2>1, <2>2, <2>3 DEF IInv, Typed, Stage, Final
<1>9. Staged'
  BY <1>1, <1>4, <1>6
  DEF Staged, Admitted, NothingWritten, Underway, WritesOnlyWhatWasPlanned
<1>10. Account'
  <2>1. Cardinality(initiated') = m
    BY <1>3, CountTo
  <2>2. \A i \in Positions : outcome'[i] = "succeeded" => i \in landed'
    BY <1>3 DEF Outcomes
  <2>3. \A i \in Positions : outcome'[i] \in {"failed", "not-run"} => i \notin landed'
    BY <1>3 DEF Outcomes
  <2> QED BY <1>2, <1>6, <1>7, <2>1, <2>2, <2>3 DEF Account
<1>11. Late'
  <2>1. \A w \in delayed : w.run # runs /\ w.run <= runs
    BY DEF IInv, Told, Late, Final
  <2>2. break = "unknown" => outcome'[k + 1] = "unknown"
    BY <1>3 DEF Outcomes
  <2>3. runs \in Nat
    BY DEF IInv, Typed
  <2> QED BY <1>1, <1>6, <2>1, <2>2, <2>3 DEF Late, Final
<1>12. Reported'
  BY <1>6, <1>7 DEF Reported, ScanningStatus
<1> QED BY <1>2, <1>6, <1>7, <1>8, <1>9, <1>10, <1>11, <1>12 DEF IInv, Told

-----------------------------------------------------------------------------
(* The actions, one by one. *)

LEMMA RefusedCodes ==
  /\ "apply.plan_blocked" \in CodesOf("blocked")
  /\ "apply.wrong_target" \in CodesOf("wrong-target")
  /\ "apply.stale_plan" \in CodesOf("stale")
  /\ None \in CodesOf("dry-run-ready") /\ None \in CodesOf("applied")
  /\ \A code \in BeforeFirstPutCode : code \in CodesOf("failed-before-write")
  /\ "apply.write_outcome_unknown" \in CodesOf("indeterminate")
  /\ "apply.write_rejected" \in CodesOf("write-failed")
  /\ "apply.write_auth_failed" \in CodesOf("write-failed")
BY DEF CodesOf, FailureCodes

(* What makes a refusal's provenance right. *)
LEMMA RefusalProvenance ==
  ASSUME NEW status \in UntouchedStatus, NEW code, NEW target, NEW observed,
         \/ status = "blocked" /\ target = None /\ observed = None
         \/ /\ status = "wrong-target" /\ target \notin {None, plan.target}
            /\ observed = None
         \/ status = "failed-before-write" /\ target = plan.target /\ observed = None
         \/ status = "stale" /\ target = plan.target /\ observed \notin {None, plan.remote}
         \/ /\ status = "dry-run-ready" /\ target = plan.target /\ observed = plan.remote
            /\ mode = "dry-run"
  PROVE  /\ RefusedAt(Result(status, code, target, observed, 0, 0, 0, AllNotRun))
         /\ RanOn(Result(status, code, target, observed, 0, 0, 0, AllNotRun))
<1> DEFINE r == Result(status, code, target, observed, 0, 0, 0, AllNotRun)
<1>1. /\ r.status = status /\ r.mode = mode /\ r.ops = AllNotRun
      /\ r.performed = 0 /\ r.attempted = 0 /\ r.executionTarget = target
      /\ r.plannedTarget = plan.target /\ r.observed = observed /\ r.plannedRemote = plan.remote
  BY DEF Result
<1>2. With(r.ops, "not-run") = DOMAIN r.ops
  BY <1>1 DEF With, AllNotRun
<1>3. RefusedAt(r)
  BY <1>1, <1>2 DEF RefusedAt
<1>4. RanOn(r)
  <2>1. r.status \notin {"applied", "write-failed", "indeterminate"}
    BY <1>1 DEF UntouchedStatus
  <2> QED BY <1>1, <2>1 DEF RanOn
<1> QED BY <1>3, <1>4

Refusing ==
  \/ RefuseBlocked \/ RefuseWrongTarget \/ (Materialize /\ ~Materializes)
  \/ CaptureFailed \/ DetectStale \/ DryRunReady

LEMMA RefusingInv ==
  ASSUME IInv, Refusing
  PROVE  /\ IInv' /\ pc' = "done" /\ result'.status \in UntouchedStatus /\ outcome' = outcome
         /\ pc \in {"start", "capture"}
<1>0. /\ endpoint \in Target /\ plan.target \in Target /\ None \notin Target
      /\ captured # None
  BY PlanFacts, ScenarioAssumption DEF IInv, Typed
<1>1. CASE RefuseBlocked
  <2>1. pc = "start" /\ Refuse("blocked", "apply.plan_blocked", None, None) /\ phase' = phase
    BY <1>1 DEF RefuseBlocked
  <2>2. "blocked" \in UntouchedStatus
    BY DEF UntouchedStatus
  <2> QED BY <2>1, <2>2, RefusedCodes, RefusalProvenance, RefuseInv
<1>2. CASE RefuseWrongTarget
  <2>1. /\ pc = "start" /\ Refuse("wrong-target", "apply.wrong_target", endpoint, None)
        /\ phase' = phase /\ endpoint # plan.target
    BY <1>2 DEF RefuseWrongTarget, Admissible
  <2>2. "wrong-target" \in UntouchedStatus
    BY DEF UntouchedStatus
  <2> QED BY <1>0, <2>1, <2>2, RefusedCodes, RefusalProvenance, RefuseInv
<1>3. CASE (Materialize /\ ~Materializes) \/ CaptureFailed
  <2>1. PICK code \in BeforeFirstPutCode : Refuse("failed-before-write", code, endpoint, None)
    BY <1>3 DEF Materialize, CaptureFailed, BeforeFirstPutCode
  <2>2. pc \in {"start", "capture"} /\ phase' = phase /\ endpoint = plan.target
    BY <1>3 DEF Materialize, CaptureFailed, Admissible, IInv, Staged, Admitted
  <2>3. "failed-before-write" \in UntouchedStatus
    BY DEF UntouchedStatus
  <2> QED BY <2>1, <2>2, <2>3, RefusedCodes, RefusalProvenance, RefuseInv
<1>4. CASE DetectStale
  <2>1. /\ pc = "capture" /\ Refuse("stale", "apply.stale_plan", endpoint, captured)
        /\ phase' = phase /\ captured # plan.remote /\ endpoint = plan.target
    BY <1>4 DEF DetectStale, Stale, IInv, Staged, Admitted
  <2>2. "stale" \in UntouchedStatus
    BY DEF UntouchedStatus
  <2> QED BY <1>0, <2>1, <2>2, RefusedCodes, RefusalProvenance, RefuseInv
<1>5. CASE DryRunReady
  <2>1. /\ pc = "capture" /\ Refuse("dry-run-ready", None, endpoint, captured)
        /\ phase' = phase /\ captured = plan.remote /\ endpoint = plan.target
        /\ mode = "dry-run"
    BY <1>5 DEF DryRunReady, Stale, IInv, Staged, Admitted
  <2>2. "dry-run-ready" \in UntouchedStatus
    BY DEF UntouchedStatus
  <2> QED BY <2>1, <2>2, RefusedCodes, RefusalProvenance, RefuseInv
<1> QED BY <1>1, <1>2, <1>3, <1>4, <1>5 DEF Refusing

LEMMA MaterializeInv ==
  ASSUME IInv, Materialize, Materializes
  PROVE  IInv' /\ pc' = "capture" /\ outcome' = outcome /\ pc = "start"
<1>1. /\ pc = "start" /\ pc' = "capture" /\ UNCHANGED <<jobVars, runs, applyVars, result>>
      /\ UNCHANGED historyVars /\ delayed' = delayed /\ catalog' = catalog
      /\ captured' = captured /\ ValidPlan(plan) /\ plan.eligibility = "ready"
      /\ endpoint = plan.target
  BY DEF Materialize, Admissible, serviceVars
<1>2. /\ plan' = plan /\ version' = version /\ endpoint' = endpoint /\ mode' = mode
      /\ runs' = runs /\ performed' = performed /\ outcome' = outcome /\ result' = result
      /\ initiated' = initiated /\ landed' = landed /\ earlier' = earlier
  BY <1>1 DEF jobVars, applyVars, historyVars
<1>3. /\ Planned' = Planned /\ Ops' = Ops /\ Last' = Last /\ Positions' = Positions
      /\ AllNotRun' = AllNotRun /\ DelayedPut' = DelayedPut
  BY <1>2, SamePlan
<1>4. Typed'
  BY <1>1, <1>2, <1>3 DEF IInv, Typed, Stage
<1>5. NothingWritten' /\ Underway' /\ WritesOnlyWhatWasPlanned'
  BY <1>1, <1>2, <1>3
  DEF IInv, Staged, NothingWritten, Underway, WritesOnlyWhatWasPlanned
<1>6. Admitted'
  BY <1>1, <1>2, <1>3 DEF Materializes, Admitted, Want
<1>7. Told'
  <2>1. result = None /\ pc \notin Final
    BY <1>1 DEF IInv, Staged, NothingWritten, Final
  <2> QED BY <1>1, <1>2, <1>3, <2>1 DEF IInv, Told, Late, Account, Reported, Final
<1> QED BY <1>1, <1>2, <1>3, <1>4, <1>5, <1>6, <1>7 DEF IInv, Staged

LEMMA StartInv ==
  ASSUME IInv, Start
  PROVE  /\ IInv' /\ outcome' = outcome /\ pc = "capture"
         /\ \/ Last = 0 /\ pc' = "done" /\ result'.status = "applied"
            \/ pc' = "write"
<1>1. /\ pc = "capture" /\ phase = "captured" /\ ~Stale /\ mode = "apply"
      /\ UNCHANGED <<jobVars, readVars, runs, applyVars, historyVars>>
      /\ delayed' = delayed /\ catalog' = catalog
  BY DEF Start, serviceVars
<1>2. /\ plan' = plan /\ version' = version /\ endpoint' = endpoint /\ mode' = mode
      /\ runs' = runs /\ performed' = performed /\ outcome' = outcome
      /\ captured' = captured /\ phase' = phase
      /\ initiated' = initiated /\ landed' = landed /\ earlier' = earlier
  BY <1>1 DEF jobVars, applyVars, historyVars, readVars
<1>3. performed = 0 /\ outcome = AllNotRun /\ initiated = {} /\ landed = {} /\ result = None
  BY <1>1 DEF IInv, Staged, NothingWritten
<1>4. Last \in Nat /\ AllNotRun = Outcomes(Last, 0, "not-run") /\ Positions = 1..Last
  BY PlanFacts DEF IInv
<1>5. CASE Last = 0
  <2>1. Conclude("applied", None, 0, 0, 0, outcome')
    BY <1>2, <1>5 DEF Start
  <2>2. "not-run" = BreakOutcome("applied")
    BY DEF BreakOutcome
  <2>3. initiated' = 1..0 /\ landed' = 1..0 /\ catalog' \in RemoteState /\ performed' \in Nat
    BY <1>1, <1>2, <1>3 DEF IInv, Typed
  <2>4. None \in CodesOf("applied")
    BY RefusedCodes
  <2> DEFINE break == "not-run"
  <2>5. /\ Conclude("applied", None, 0, 0 + (IF break = "not-run" THEN 0 ELSE 1),
                    IF break = "unknown" THEN 1 ELSE 0, outcome')
        /\ initiated' = 1..(0 + (IF break = "not-run" THEN 0 ELSE 1))
    BY <2>1, <2>3
  <2>6. UNCHANGED <<jobVars, readVars, runs, earlier>> /\ 0 \in 0..Last
    BY <1>1, <1>2, <1>4
  <2> QED BY <1>1, <1>2, <1>3, <1>4, <1>5, <2>2, <2>3, <2>4, <2>5, <2>6, ConclusionInv
<1>6. CASE Last # 0
  <2>1. pc' = "write" /\ result' = result
    BY <1>6 DEF Start
  <2>2. /\ Planned' = Planned /\ Ops' = Ops /\ Last' = Last /\ Positions' = Positions
        /\ AllNotRun' = AllNotRun /\ DelayedPut' = DelayedPut
    BY <1>2, SamePlan
  <2>3. Typed'
    BY <1>1, <1>2, <2>1, <2>2 DEF IInv, Typed, Stage
  <2>4. Admitted' /\ NothingWritten' /\ WritesOnlyWhatWasPlanned'
    BY <1>1, <1>2, <1>3, <2>1, <2>2
    DEF IInv, Staged, Admitted, NothingWritten, WritesOnlyWhatWasPlanned, Want
  <2>5. Underway'
    <3>1. 0 < Last /\ 1..0 = {}
      BY <1>4, <1>6
    <3> QED BY <1>1, <1>2, <1>3, <1>4, <2>1, <2>2, <3>1 DEF Underway, Stale
  <2>6. Told'
    <3>1. pc \notin Final
      BY <1>1 DEF Final
    <3> QED BY <1>1, <1>2, <1>3, <2>1, <2>2, <3>1 DEF IInv, Told, Late, Account, Reported
  <2> QED BY <1>1, <1>2, <2>1, <2>2, <2>3, <2>4, <2>5, <2>6 DEF IInv, Staged
<1> QED BY <1>5, <1>6

LEMMA ConfirmedInv ==
  ASSUME IInv, PutConfirmed
  PROVE  /\ IInv' /\ pc = "write" /\ outcome' = [outcome EXCEPT ![Current] = "succeeded"]
         /\ \/ Current = Last /\ pc' = "done" /\ result'.status = "applied"
            \/ pc' = "write"
<1>1. /\ pc = "write" /\ Store /\ initiated' = initiated \union {Current}
      /\ landed' = landed \union {Current} /\ performed' = Current
      /\ outcome' = [outcome EXCEPT ![Current] = "succeeded"]
      /\ UNCHANGED <<jobVars, delayed, readVars, runs, earlier>>
  BY DEF PutConfirmed, Invoked, Landed
<1>2. /\ plan' = plan /\ version' = version /\ endpoint' = endpoint /\ mode' = mode
      /\ runs' = runs /\ captured' = captured /\ phase' = phase /\ earlier' = earlier
      /\ delayed' = delayed
  BY <1>1 DEF jobVars, readVars
<1>3. /\ Current = performed + 1 /\ performed \in Nat /\ Current \in 1..Last /\ Last \in Nat
      /\ Current \in Positions
  BY <1>1, CurrentFacts
<1>4. outcome' = Outcomes(Last, Current, "not-run")
  BY <1>1, RecordedOutcomes
<1>5. catalog' \in RemoteState
  BY <1>1, StoreTypes
<1>6. initiated = 1..performed /\ landed = 1..performed
  BY <1>1 DEF IInv, Staged, Underway
<1>7. initiated' = 1..Current /\ landed' = 1..Current
  <2>1. 1..Current = (1..performed) \union {Current}
    BY <1>3
  <2> QED BY <1>1, <1>6, <2>1
<1>8. CASE Current = Last
  <2> DEFINE break == "not-run"
  <2>1. /\ Conclude("applied", None, Current, Current + (IF break = "not-run" THEN 0 ELSE 1),
                    IF break = "unknown" THEN 1 ELSE 0, outcome')
        /\ initiated' = 1..(Current + (IF break = "not-run" THEN 0 ELSE 1))
    <3>1. Current + 0 = Current
      BY <1>3
    <3> QED BY <1>7, <1>8, <3>1 DEF PutConfirmed
  <2>2. "not-run" = BreakOutcome("applied") /\ None \in CodesOf("applied")
    BY RefusedCodes DEF BreakOutcome
  <2>3. Current \in 0..Last /\ performed' \in Nat
    BY <1>1, <1>3
  <2> QED BY <1>1, <1>2, <1>4, <1>5, <1>7, <1>8, <2>1, <2>2, <2>3, ConclusionInv
<1>9. CASE Current # Last
  <2>1. pc' = pc /\ result' = result
    BY <1>9 DEF PutConfirmed
  <2>2. /\ Planned' = Planned /\ Ops' = Ops /\ Last' = Last /\ Positions' = Positions
        /\ AllNotRun' = AllNotRun /\ DelayedPut' = DelayedPut
    BY <1>2, SamePlan
  <2>3. Positions = 1..Last /\ Current < Last /\ Current \in Nat
    BY <1>3, <1>9, PlanFacts DEF IInv
  <2>4. Typed'
    <3>1. outcome' \in [Positions -> OperationStatus]
      BY <1>4, <2>3, <1>3, OutcomesType
    <3>2. initiated' \subseteq Positions /\ landed' \subseteq Positions
      BY <1>7, <2>3, <1>3
    <3> QED BY <1>1, <1>2, <1>5, <2>1, <2>2, <2>3, <3>1, <3>2 DEF IInv, Typed
  <2>5. Staged'
    BY <1>1, <1>2, <1>4, <1>7, <2>1, <2>2, <2>3
    DEF IInv, Staged, Admitted, NothingWritten, Underway, WritesOnlyWhatWasPlanned, Want
  <2>6. Late' /\ Reported'
    BY <1>1, <1>2, <2>1 DEF IInv, Told, Late, Reported, Final
  <2>7. Account'
    <3>1. result' = None
      BY <1>1, <2>1 DEF IInv, Staged, Underway
    <3>2. \A i \in 1..Last : outcome'[i] = "succeeded" => i \in 1..Current
      BY <1>3, <1>4 DEF Outcomes
    <3>3. \A i \in 1..Last : outcome'[i] \in {"failed", "not-run"} => i \notin 1..Current
      BY <1>3, <1>4 DEF Outcomes
    <3> QED BY <1>7, <2>2, <2>3, <3>1, <3>2, <3>3 DEF Account
  <2> QED BY <1>1, <2>1, <2>2, <2>4, <2>5, <2>6, <2>7 DEF IInv, Told
<1> QED BY <1>8, <1>9

Breaking == PutRefused \/ PutUnanswered

LEMMA BreakingInv ==
  ASSUME IInv, Breaking
  PROVE  /\ IInv' /\ pc = "write" /\ pc' = "done"
         /\ \/ result'.status = "write-failed" /\ outcome' = [outcome EXCEPT ![Current] = "failed"]
            \/ result'.status = "indeterminate"
               /\ outcome' = [outcome EXCEPT ![Current] = "unknown"]
<1>1. /\ pc = "write" /\ initiated' = initiated \union {Current}
      /\ UNCHANGED <<jobVars, readVars, runs, earlier>>
  BY DEF Breaking, PutRefused, PutUnanswered, Invoked
<1>2. /\ Current = performed + 1 /\ performed \in Nat /\ Current \in 1..Last /\ Last \in Nat
      /\ Writing \in Id /\ Payload(Writing) \in Interpreted
      /\ performed \in 0..Last /\ performed < Last
  BY <1>1, CurrentFacts
<1>3. initiated = 1..performed /\ landed = 1..performed
  BY <1>1 DEF IInv, Staged, Underway
<1>4. initiated' = 1..Current /\ 1..performed \subseteq 1..Current
  <2>1. 1..Current = (1..performed) \union {Current}
    BY <1>2
  <2> QED BY <1>1, <1>3, <2>1
<1>5. CASE PutRefused
  <2>1. PICK answer \in {"no token", "4xx"} : EndAtPut(Classify(answer))
    BY <1>5 DEF PutRefused
  <2>2. Classify(answer) \in {"failed_auth", "failed_rejected"} /\ Classify(answer) # "unknown"
    BY <2>1 DEF Classify
  <2>3. /\ landed' = 1..performed /\ delayed' = delayed /\ catalog' = catalog
        /\ performed' = performed /\ outcome' = [outcome EXCEPT ![Current] = "failed"]
    BY <1>3, <1>5, <2>1, <2>2 DEF PutRefused, serviceVars, EndAtPut
  <2>4. outcome' = Outcomes(Last, performed, "failed")
    BY <1>1, <2>3, RecordedOutcomes
  <2>5. PICK code \in CodesOf("write-failed") :
          Conclude("write-failed", code, performed, Current, 0, outcome')
    BY <2>1, <2>2, RefusedCodes DEF EndAtPut
  <2> DEFINE break == "failed"
  <2>6. /\ Conclude("write-failed", code, performed,
                    performed + (IF break = "not-run" THEN 0 ELSE 1),
                    IF break = "unknown" THEN 1 ELSE 0, outcome')
        /\ initiated' = 1..(performed + (IF break = "not-run" THEN 0 ELSE 1))
    BY <1>2, <1>4, <2>5
  <2>7. break = BreakOutcome("write-failed")
    BY DEF BreakOutcome
  <2>8. landed' \subseteq initiated' /\ performed' \in Nat /\ catalog' \in RemoteState
    <3>2. catalog \in RemoteState
      BY DEF IInv, Typed
    <3> QED BY <1>2, <1>4, <2>3, <3>2
  <2>9. IInv' /\ pc' = "done" /\ result'.status = "write-failed"
    BY <1>1, <1>2, <2>3, <2>4, <2>6, <2>7, <2>8, ConclusionInv
  <2> QED BY <1>1, <2>3, <2>9
<1>6. CASE PutUnanswered
  <2>1. EndAtPut("unknown")
    BY <1>6 DEF PutUnanswered, Classify
  <2>2. /\ performed' = performed /\ outcome' = [outcome EXCEPT ![Current] = "unknown"]
        /\ Conclude("indeterminate", "apply.write_outcome_unknown", performed, Current, 1, outcome')
    BY <2>1 DEF EndAtPut
  <2>3. outcome' = Outcomes(Last, performed, "unknown")
    BY <1>1, <2>2, RecordedOutcomes
  <2>4. landed' \subseteq initiated' /\ 1..performed \subseteq landed'
    BY <1>2, <1>3, <1>4, <1>6 DEF PutUnanswered, Landed
  <2>5. catalog' \in RemoteState
    BY <1>1, <1>6, StoreTypes DEF PutUnanswered, IInv, Typed
  <2>6. \A w \in delayed' : w \in delayed \/
          \E payload \in Interpreted :
             w = [run |-> runs, index |-> performed + 1, payload |-> payload]
    BY <1>2, <1>6 DEF PutUnanswered
  <2> DEFINE break == "unknown"
  <2>7. /\ Conclude("indeterminate", "apply.write_outcome_unknown", performed,
                    performed + (IF break = "not-run" THEN 0 ELSE 1),
                    IF break = "unknown" THEN 1 ELSE 0, outcome')
        /\ initiated' = 1..(performed + (IF break = "not-run" THEN 0 ELSE 1))
    BY <1>2, <1>4, <2>2
  <2>8. break = BreakOutcome("indeterminate")
    BY DEF BreakOutcome
  <2>9. IInv' /\ pc' = "done" /\ result'.status = "indeterminate"
    BY <1>1, <1>2, <2>2, <2>3, <2>4, <2>5, <2>6, <2>7, <2>8, RefusedCodes, ConclusionInv
  <2> QED BY <1>1, <2>2, <2>9
<1> QED BY <1>5, <1>6 DEF Breaking

(* Quiet steps: nothing of what an execution has recorded changes. *)
Quiet ==
  \/ RejectPlan \/ CaptureGoesOn \/ Crash \/ UNCHANGED vars
  \/ \E w \in delayed : DelayedLost(w)
  \/ \E id \in Id : EditByOthers(id)

LEMMA QuietInv ==
  ASSUME IInv, Quiet
  PROVE  /\ IInv' /\ outcome' = outcome /\ result' = result
         /\ \/ pc' = pc
            \/ pc \notin Final /\ pc' \in {"rejected", "crashed"}
<1>0. catalog \in RemoteState /\ captured \in RemoteState
  BY DEF IInv, Typed
<1>1. CASE RejectPlan \/ Crash
  <2>1. /\ UNCHANGED <<jobVars, runs, applyVars, result, historyVars>>
        /\ delayed' = delayed /\ catalog' = catalog /\ captured' = captured /\ phase' = phase
        /\ pc \notin Final /\ pc' \in {"rejected", "crashed"}
    BY <1>1 DEF RejectPlan, Crash, serviceVars, readVars, Final
  <2>2. outcome' = outcome
    BY <2>1 DEF applyVars
  <2> QED BY <1>0, <2>1, <2>2, SilentInv
<1>2. CASE CaptureGoesOn
  <2>1. /\ UNCHANGED <<jobVars, runs, applyVars, result, historyVars>>
        /\ delayed' = delayed /\ pc' = pc /\ pc = "capture" /\ CaptureStep
    BY <1>2 DEF CaptureGoesOn
  <2>2. captured' \in RemoteState /\ catalog' \in RemoteState
    BY <1>0, <2>1, ReadTypes
  <2>3. outcome' = outcome
    BY <2>1 DEF applyVars
  <2> QED BY <2>1, <2>2, <2>3, SilentInv
<1>3. CASE UNCHANGED vars
  <2>1. /\ UNCHANGED <<jobVars, runs, applyVars, result, historyVars>>
        /\ delayed' = delayed /\ catalog' = catalog /\ captured' = captured /\ phase' = phase
        /\ pc' = pc
    BY <1>3 DEF vars, serviceVars, readVars
  <2>2. outcome' = outcome
    BY <2>1 DEF applyVars
  <2> QED BY <1>0, <2>1, <2>2, SilentInv
<1>4. ASSUME NEW w \in delayed, DelayedLost(w)
      PROVE  /\ IInv' /\ outcome' = outcome /\ result' = result /\ pc' = pc
  <2>1. /\ UNCHANGED <<jobVars, runs, applyVars, result, historyVars>>
        /\ delayed' \subseteq delayed /\ catalog' = catalog /\ captured' = captured
        /\ phase' = phase /\ pc' = pc
    BY <1>4 DEF DelayedLost, readVars
  <2>2. outcome' = outcome
    BY <2>1 DEF applyVars
  <2> QED BY <1>0, <2>1, <2>2, SilentInv
<1>5. ASSUME NEW id \in Id, EditByOthers(id)
      PROVE  /\ IInv' /\ outcome' = outcome /\ result' = result /\ pc' = pc
  <2>1. /\ UNCHANGED <<jobVars, runs, applyVars, result, historyVars>>
        /\ delayed' = delayed /\ captured' = captured /\ phase' = phase /\ pc' = pc
    BY <1>5 DEF EditByOthers, Edit
  <2>2. catalog' \in RemoteState
    BY <1>5, EditTypes
  <2>3. outcome' = outcome
    BY <2>1 DEF applyVars
  <2> QED BY <1>0, <2>1, <2>2, <2>3, SilentInv
<1> QED BY <1>1, <1>2, <1>3, <1>4, <1>5 DEF Quiet

(* A PUT of this run processed late was recorded as unknown. *)
LEMMA DelayedInv ==
  ASSUME IInv, NEW w \in delayed, DelayedArrives(w)
  PROVE  IInv' /\ outcome' = outcome /\ result' = result /\ pc' = pc
<1>1. /\ UNCHANGED <<jobVars, readVars, runs, pc, applyVars, result, initiated, earlier>>
      /\ delayed' = delayed \ {w}
  BY DEF DelayedArrives
<1>2. /\ plan' = plan /\ version' = version /\ endpoint' = endpoint /\ mode' = mode
      /\ runs' = runs /\ performed' = performed /\ outcome' = outcome /\ result' = result
      /\ initiated' = initiated /\ earlier' = earlier /\ pc' = pc
      /\ captured' = captured /\ phase' = phase
  BY <1>1 DEF jobVars, applyVars, readVars
<1>3. /\ Planned' = Planned /\ Ops' = Ops /\ Last' = Last /\ Positions' = Positions
      /\ AllNotRun' = AllNotRun /\ DelayedPut' = DelayedPut
  BY <1>2, SamePlan
<1>4. w.index \in Positions /\ w.payload \in Interpreted /\ Ops[w.index].id \in Id
  <2>1. w \in DelayedPut
    BY DEF IInv, Typed
  <2>2. w.index \in Positions /\ w.payload \in Interpreted
    BY <2>1 DEF DelayedPut
  <2> QED BY <2>2, PlanFacts DEF IInv
<1>5. \/ landed' = landed
      \/ landed' = landed \union {w.index} /\ w.run = runs
  BY DEF DelayedArrives
<1>6. w.run = runs => pc \in Final /\ outcome[w.index] = "unknown"
  BY DEF IInv, Told, Late
<1>7. catalog' \in RemoteState
  <2>1. CASE Storable(Ops[w.index].id)
    <3>1. Changes(Ops[w.index].id, w.payload)
      BY <2>1 DEF DelayedArrives
    <3> QED BY <1>4, <3>1, ChangeTypes
  <2>2. CASE ~Storable(Ops[w.index].id)
    BY <2>2 DEF DelayedArrives, IInv, Typed
  <2> QED BY <2>1, <2>2
<1>8. Typed'
  <2>1. landed' \subseteq Positions /\ delayed' \subseteq delayed
    BY <1>1, <1>4, <1>5 DEF IInv, Typed
  <2> QED BY <1>2, <1>3, <1>7, <2>1 DEF IInv, Typed
<1>9. pc \in {"start", "capture", "write"} => landed' = landed
  BY <1>5, <1>6 DEF Final
<1>10. Staged'
  <2>1. Admitted'
    BY <1>2, <1>3 DEF IInv, Staged, Admitted, Want
  <2>2. NothingWritten'
    BY <1>2, <1>3, <1>9 DEF IInv, Staged, NothingWritten
  <2>3. Underway'
    BY <1>2, <1>3, <1>9 DEF IInv, Staged, Underway
  <2>4. WritesOnlyWhatWasPlanned'
    BY <1>2 DEF IInv, Staged, WritesOnlyWhatWasPlanned
  <2> QED BY <2>1, <2>2, <2>3, <2>4 DEF Staged
<1>11. Late'
  BY <1>1, <1>2 DEF IInv, Told, Late, Final
<1>12. Account'
  BY <1>2, <1>3, <1>5, <1>6 DEF IInv, Told, Account
<1>13. Reported'
  BY <1>2 DEF IInv, Told, Reported
<1> QED BY <1>2, <1>3, <1>8, <1>10, <1>11, <1>12, <1>13 DEF IInv, Told

LEMMA RerunInv ==
  ASSUME IInv, Rerun
  PROVE  IInv' /\ pc \in Final /\ pc' = "start" /\ outcome' = AllNotRun
<1>1. /\ pc \in Final /\ pc' = "start" /\ runs' = runs + 1 /\ mode' \in Mode
      /\ captured' = [id \in Id |-> Missing] /\ performed' = 0 /\ outcome' = AllNotRun
      /\ result' = None /\ initiated' = {} /\ landed' = {}
      /\ earlier' = earlier \union landed
      /\ UNCHANGED <<plan, version, endpoint, catalog, delayed>>
  BY DEF Rerun
<1>2. /\ Planned' = Planned /\ Ops' = Ops /\ Last' = Last /\ Positions' = Positions
      /\ AllNotRun' = AllNotRun /\ DelayedPut' = DelayedPut
  BY <1>1, SamePlan
<1>3. AllNotRun \in [Positions -> OperationStatus]
  BY PlanFacts DEF IInv
<1>4. captured' \in RemoteState
  <2>1. Missing # UnsupportedType
    BY MarkerAssumption DEF Uninterpreted
  <2> QED BY <1>1, <2>1 DEF RemoteState
<1>5. runs \in Nat /\ runs + 1 \in Nat
  BY DEF IInv, Typed
<1>6. Typed'
  BY <1>1, <1>2, <1>3, <1>4, <1>5 DEF IInv, Typed, Stage
<1>7. Staged'
  BY <1>1, <1>2
  DEF Staged, Admitted, NothingWritten, Underway, WritesOnlyWhatWasPlanned
<1>8. Late'
  <2>1. \A w \in delayed : w.run <= runs /\ w.run \in Nat
    BY DEF IInv, Told, Late, Typed, DelayedPut
  <2>2. \A w \in delayed : w.run <= runs + 1 /\ w.run # runs + 1
    BY <1>5, <2>1
  <2> QED BY <1>1, <2>2 DEF Late
<1>9. Account' /\ Reported'
  BY <1>1, <1>2 DEF Account, Reported, AllNotRun
<1> QED BY <1>1, <1>2, <1>6, <1>7, <1>8, <1>9 DEF IInv, Told

LEMMA InitInv ==
  ASSUME Init
  PROVE  IInv
<1>1. PICK s \in Scenarios :
        plan = s.plan /\ version = s.plan.version /\ endpoint = s.endpoint /\ catalog = s.catalog
  BY DEF Init
<1>2. Planned /\ catalog \in RemoteState
  BY <1>1, ScenarioAssumption DEF Planned
<1>3. AllNotRun \in [Positions -> OperationStatus]
  BY <1>2, PlanFacts
<1>4. captured \in RemoteState
  <2>1. Missing # UnsupportedType
    BY MarkerAssumption DEF Uninterpreted
  <2> QED BY <2>1 DEF Init, RemoteState
<1>5. Typed
  BY <1>2, <1>3, <1>4 DEF Init, Typed, Stage
<1>6. Staged
  BY DEF Init, Staged, Admitted, NothingWritten, Underway, WritesOnlyWhatWasPlanned
<1>7. Told
  BY DEF Init, Told, Late, Account, Reported, AllNotRun
<1> QED BY <1>2, <1>5, <1>6, <1>7 DEF IInv

(* The steps of a run, by what they do to its record. *)
LEMMA StepCases ==
  ASSUME [Next]_vars
  PROVE  \/ Quiet \/ Refusing \/ Start \/ PutConfirmed \/ Breaking \/ Rerun
         \/ (Materialize /\ Materializes)
         \/ \E w \in delayed : DelayedArrives(w)
BY DEF Next, Executor, Environment, Admission, ApplyIntents, Quiet, Refusing, Breaking

LEMMA StepInv ==
  ASSUME IInv, [Next]_vars
  PROVE  IInv'
BY StepCases, QuietInv, RefusingInv, StartInv, ConfirmedInv, BreakingInv, RerunInv,
   MaterializeInv, DelayedInv

LEMMA Invariance == Spec => []IInv
<1>1. Init => IInv
  BY InitInv
<1>2. IInv /\ [Next]_vars => IInv'
  BY StepInv
<1> QED BY <1>1, <1>2, PTL DEF Spec

-----------------------------------------------------------------------------
(* What the invariant says of the executor. *)

(* A PUT is sent only in apply mode, for a valid and ready plan on its own   *)
(* endpoint, after a capture that equals the planned remote state:           *)
(* _apply_intents_v1 and _v2 start only behind every check.                  *)
THEOREM OnlyPlannedWrites == Spec => []WritesOnlyWhatWasPlanned
<1>1. IInv => WritesOnlyWhatWasPlanned
  BY DEF IInv, Staged
<1> QED BY <1>1, Invariance, PTL

(* Every result _finalize_result_v1 and _v2 build passes their validation: no *)
(* run loses the account of its PUTs to an exception.                         *)
THEOREM ResultsAreValid == Spec => []FinalizeNeverRaises
<1>1. IInv => FinalizeNeverRaises
  BY DEF IInv, Told, Reported, FinalizeNeverRaises
<1> QED BY <1>1, Invariance, PTL

(* What the result says succeeded changed the account, what it says failed or *)
(* was not run did not and never will, and every PUT is counted: op_results   *)
(* and writesAttempted of _apply_intents_v1 and _v2.                          *)
THEOREM ResultIsHonest == Spec => []HonestResult
<1>1. IInv => HonestResult
  <2> SUFFICES ASSUME IInv, result # None PROVE HonestResult
    BY DEF HonestResult
  <2>1. result.ops = outcome /\ result.attempted = Cardinality(initiated)
    BY DEF IInv, Told, Account
  <2>2. \A i \in Positions :
          /\ outcome[i] = "succeeded" => i \in landed
          /\ outcome[i] \in {"failed", "not-run"} => i \notin landed
    BY DEF IInv, Told, Account
  <2>3. \A w \in delayed : w.run = runs => outcome[w.index] = "unknown"
    BY DEF IInv, Told, Late
  <2>4. ASSUME NEW i \in Positions, outcome[i] \in {"failed", "not-run"},
               NEW w \in delayed, w.run = runs
        PROVE  w.index # i
    BY <2>3, <2>4
  <2> QED BY <2>1, <2>2, <2>4 DEF HonestResult
<1> QED BY <1>1, Invariance, PTL

-----------------------------------------------------------------------------
(* The executor implements the ledger. *)

Verdict ==
  IF pc = "done" THEN result.status ELSE IF pc \in Final THEN "none" ELSE "running"

LEMMA VerdictNext ==
  /\ (pc' = "done" => Verdict' = result'.status)
  /\ (pc' \in {"rejected", "escaped", "crashed"} => Verdict' = "none")
  /\ (pc' \notin Final => Verdict' = "running")
  /\ (pc \notin Final => Verdict = "running")
  /\ (pc' = pc /\ result' = result => Verdict' = Verdict)
BY DEF Verdict, Final

(* Nothing has been done before the first PUT. *)
LEMMA UntouchedLedger ==
  ASSUME IInv, pc \in {"start", "capture"}
  PROVE  Ledger!Untouched /\ Verdict = "running"
<1>1. outcome = AllNotRun
  BY DEF IInv, Staged, NothingWritten
<1>2. Verdict = "running"
  BY VerdictNext DEF Final
<1> QED BY <1>1, <1>2 DEF Ledger!Untouched, AllNotRun

(* It is the turn of the operation whose PUT is sent. *)
LEMMA CurrentTurn ==
  ASSUME IInv, pc = "write"
  PROVE  Current \in DOMAIN outcome /\ Ledger!Turn(Current) /\ Verdict = "running"
<1>1. /\ Current = performed + 1 /\ performed \in Nat /\ Current \in 1..Last /\ Last \in Nat
  BY CurrentFacts
<1>2. outcome = Outcomes(Last, performed, "not-run")
  BY RecordedOutcomes
<1>3. DOMAIN outcome = 1..Last /\ outcome[Current] = "not-run"
  BY <1>1, <1>2 DEF Outcomes
<1>4. \A j \in 1..Last : j < Current => outcome[j] = "succeeded"
  BY <1>1, <1>2 DEF Outcomes
<1>5. Verdict = "running"
  BY VerdictNext DEF Final
<1> QED BY <1>1, <1>3, <1>4, <1>5 DEF Ledger!Turn

LEMMA LedgerStep ==
  ASSUME IInv, [Next]_vars
  PROVE  [Ledger!Next]_<<outcome, Verdict>>
<1>1. CASE Quiet
  <2>1. CASE pc' = pc
    BY <1>1, <2>1, QuietInv, VerdictNext
  <2>2. CASE pc \notin Final /\ pc' \in {"rejected", "crashed"}
    <3>1. Verdict = "running" /\ Verdict' = "none" /\ outcome' = outcome
      BY <1>1, <2>2, QuietInv, VerdictNext
    <3>2. Ledger!Abort
      BY <3>1 DEF Ledger!Abort, Verdict
    <3> QED BY <3>2 DEF Ledger!Next
  <2> QED BY <1>1, <2>1, <2>2, QuietInv
<1>2. CASE Refusing
  <2>1. /\ Ledger!Untouched /\ Verdict = "running" /\ outcome' = outcome
        /\ Verdict' \in UntouchedStatus
    BY <1>2, RefusingInv, UntouchedLedger, VerdictNext
  <2>2. Ledger!Decline
    BY <2>1 DEF Ledger!Decline, Verdict, UntouchedStatus
  <2> QED BY <2>2 DEF Ledger!Next
<1>3. CASE Start
  <2>1. Ledger!Untouched /\ Verdict = "running" /\ outcome' = outcome
    BY <1>3, StartInv, UntouchedLedger
  <2>2. CASE Last = 0 /\ pc' = "done" /\ result'.status = "applied"
    <3>1. outcome = AllNotRun /\ Positions = 1..Last
      BY <1>3, StartInv, PlanFacts DEF IInv, Staged, NothingWritten
    <3>2. Ledger!Complete
      BY <2>2, <3>1 DEF Ledger!Complete, AllNotRun
    <3>3. Verdict' = "applied"
      BY <2>2, VerdictNext
    <3>4. Ledger!Finish
      BY <2>1, <3>2, <3>3 DEF Ledger!Finish, Verdict
    <3> QED BY <3>4 DEF Ledger!Next
  <2>3. CASE pc' = "write"
    BY <2>1, <2>3, VerdictNext DEF Final
  <2> QED BY <1>3, <2>2, <2>3, StartInv
<1>4. CASE PutConfirmed
  <2>1. pc = "write" /\ outcome' = [outcome EXCEPT ![Current] = "succeeded"]
    BY <1>4, ConfirmedInv
  <2>2. Current \in DOMAIN outcome /\ Ledger!Turn(Current) /\ Verdict = "running"
    BY <2>1, CurrentTurn
  <2>3. CASE Current = Last /\ pc' = "done" /\ result'.status = "applied"
    <3>1. Verdict' = "applied"
      BY <2>3, VerdictNext
    <3>2. \A i \in DOMAIN outcome : i < Current => outcome[i] = "succeeded"
      BY <2>2 DEF Ledger!Turn
    <3>3. DOMAIN outcome = 1..Current /\ Current \in Nat
      BY <2>1, <2>3, CurrentFacts, PlanFacts DEF IInv, Typed
    <3>4. \A i \in DOMAIN outcome' : outcome'[i] = "succeeded"
      BY <2>1, <3>2, <3>3
    <3>5. Ledger!Complete'
      BY <3>4 DEF Ledger!Complete
    <3>6. Ledger!Succeed(Current)
      BY <2>1, <2>2, <3>1, <3>5 DEF Ledger!Succeed, Verdict
    <3> QED BY <2>2, <3>6 DEF Ledger!Next
  <2>4. CASE pc' = "write"
    <3>1. Verdict' = "running"
      BY <2>4, VerdictNext DEF Final
    <3>2. Ledger!Succeed(Current)
      BY <2>1, <2>2, <3>1 DEF Ledger!Succeed, Verdict
    <3> QED BY <2>2, <3>2 DEF Ledger!Next
  <2> QED BY <1>4, <2>3, <2>4, ConfirmedInv
<1>5. CASE Breaking
  <2>1. /\ pc = "write"
        /\ \/ Verdict' = "write-failed" /\ outcome' = [outcome EXCEPT ![Current] = "failed"]
           \/ Verdict' = "indeterminate" /\ outcome' = [outcome EXCEPT ![Current] = "unknown"]
    BY <1>5, BreakingInv, VerdictNext
  <2>2. Current \in DOMAIN outcome /\ Ledger!Turn(Current) /\ Verdict = "running"
    BY <2>1, CurrentTurn
  <2>3. Ledger!Break(Current)
    BY <2>1, <2>2 DEF Ledger!Break, Verdict
  <2> QED BY <2>2, <2>3 DEF Ledger!Next
<1>6. CASE Rerun
  <2>1. pc \in Final /\ pc' = "start" /\ outcome' = AllNotRun
    BY <1>6, RerunInv
  <2>2. Verdict # "running"
    BY <2>1 DEF Verdict, IInv, Told, Reported, ScanningStatus, UntouchedStatus, Final
  <2>3. Verdict' = "running"
    BY <2>1, VerdictNext DEF Final
  <2>4. DOMAIN outcome = Positions
    BY DEF IInv, Typed
  <2>5. Ledger!Restart
    BY <2>1, <2>2, <2>3, <2>4 DEF Ledger!Restart, Verdict, AllNotRun
  <2> QED BY <2>5 DEF Ledger!Next
<1>7. CASE Materialize /\ Materializes
  <2>1. pc = "start" /\ pc' = "capture" /\ outcome' = outcome
    BY <1>7, MaterializeInv
  <2> QED BY <2>1, VerdictNext DEF Final
<1>8. ASSUME NEW w \in delayed, DelayedArrives(w)
      PROVE  outcome' = outcome /\ Verdict' = Verdict
  BY <1>8, DelayedInv, VerdictNext
<1> QED BY <1>1, <1>2, <1>3, <1>4, <1>5, <1>6, <1>7, <1>8, StepCases

(* Seen from its outcomes and its verdict alone, every step of the executor is *)
(* a step of the ledger that the executor of v3 keeps too.                     *)
THEOREM ImplementsLedger == Spec => KeepsLedger
<1>1. Init => Ledger!Init
  BY DEF Init, Ledger!Init, Ledger!Untouched, AllNotRun, Final
<1>2. IInv /\ [Next]_vars => [Ledger!Next]_<<outcome, Verdict>>
  BY LedgerStep
<1> QED BY <1>1, <1>2, Invariance, PTL DEF Spec, KeepsLedger, Ledger!Spec, Verdict

-----------------------------------------------------------------------------
(* The invariant of the capture, and of what it is compared with. *)

ListingOf(id) ==
  IF id \in DataSource THEN Listing(0, 0)
  ELSE IF id \in Rule THEN Listing(1, 0)
  ELSE IF id \in Scan THEN Listing(2, Parent[id]) ELSE Listing(3, 0)

Listed(id) == ListingOf(id) \in requested /\ id \notin ahead
Seen(id) == Listed(id) /\ id \notin names

Unread ==
  pc = "start" => requested = {} /\ ahead = {} /\ names = {} /\ captured = [id \in Id |-> Missing]

Gathered ==
  /\ phase \in {"idle", "capturing", "captured", "failed"} /\ edits \in Nat
  /\ requested \subseteq Agenda /\ names \subseteq Id
  /\ \A id \in ahead : id \in Id /\ ListingOf(id) \in requested
  /\ \A id \in names : Listed(id) /\ captured[id] = Missing
  /\ \A id \in Id : ~Listed(id) => captured[id] = Missing
  /\ phase = "captured" => ahead = {} /\ names = {} /\ Agenda \subseteq requested

(* What was looked at, and has not changed since, is as captured; so are the scans *)
(* of a data source that was not there.                                            *)
AsSeen ==
  pc = "capture" =>
    \A id \in Id \ late :
      /\ Seen(id) => captured[id] = catalog[id]
      /\ id \in Scan /\ ~Listed(id) /\ Seen(Parent[id]) /\ captured[Parent[id]] = Missing =>
           catalog[id] = Missing

Parents == \A id \in Scan : catalog[id] # Missing => catalog[Parent[id]] # Missing

(* What this run has not written yet. *)
Spared ==
  pc = "write" =>
    \A id \in Id :
      (version = 2 \/ id \in DataSource) /\ (\A j \in 1..performed : Ops[j].id # id) =>
        \/ id \in late \/ catalog[id] = captured[id]
        \/ id \in Scan /\ captured[Parent[id]] \in ForeignKind

(* A PUT stores what is wanted. *)
PutOf(i) == Stored(Want(Ops[i].id))
Sent == \A w \in delayed : w.payload = PutOf(w.index)

(* Something that was listed or read is there no more. *)
GoneSince == \E id \in Id : (id \in names \/ captured[id] # Missing) /\ catalog[id] = Missing

(* Without edits of others, a resource is as it was at first or as a PUT stored it. *)
KnownAs(base, id, r) == r = base[id] \/ \E i \in Positions : Ops[i].id = id /\ r = PutOf(i)

Own(base) ==
  edits = 0 =>
    /\ \A id \in Id : KnownAs(base, id, catalog[id])
    /\ \A id \in Id : Seen(id) => KnownAs(base, id, captured[id])
    /\ \A i \in earlier \union landed : catalog[Ops[i].id] = PutOf(i)
    /\ \A i \in earlier :
         /\ Seen(Ops[i].id) => captured[Ops[i].id] = PutOf(i)
         /\ Ops[i].id \in Scan /\ Seen(Parent[Ops[i].id]) => captured[Parent[Ops[i].id]] # Missing
    /\ pc = "write" \/ initiated # {} => earlier = {}
    /\ ~GoneSince

Owned == \E s \in Scenarios : plan = s.plan /\ version = s.plan.version /\ Own(s.catalog)

(* Only a valid and ready plan is carried out. *)
Licensed ==
  delayed # {} \/ earlier # {} \/ landed # {} => ValidPlan(plan) /\ plan.eligibility = "ready"

Concluded ==
  result # None /\ result.status = "applied" =>
    /\ landed = Positions /\ phase = "captured" /\ captured = plan.remote
    /\ ValidPlan(plan) /\ plan.eligibility = "ready"

SInv ==
  /\ IInv /\ Unread /\ Gathered /\ AsSeen /\ Parents
  /\ Spared /\ Sent /\ Owned /\ Licensed /\ Concluded

-----------------------------------------------------------------------------
(* The agenda of the capture. *)

LEMMA ListingFacts ==
  ASSUME NEW id \in Id
  PROVE  /\ id \in DataSource => ListingOf(id) = Listing(0, 0)
         /\ id \in Rule       => ListingOf(id) = Listing(1, 0)
         /\ id \in RuleSet    => ListingOf(id) = Listing(3, 0)
         /\ id \in Scan       => ListingOf(id) = Listing(2, Parent[id])
BY IdAssumption DEF ListingOf

LEMMA AgendaFacts ==
  ASSUME NEW l \in Agenda
  PROVE  /\ l.rank \in Nat /\ l.parent \in Nat
         /\ \A id \in Id : id \in Listable(l) <=> ListingOf(id) = l
         /\ Listable(l) \subseteq Id
<1>1. DataSource \subseteq Nat
  BY IdAssumption DEF Id
<1>2. \/ l = Listing(0, 0) \/ l = Listing(1, 0) \/ l = Listing(3, 0)
      \/ \E d \in DataSource : l = Listing(2, d)
  BY DEF Agenda, ScansOfSupported
<1>3. l.rank \in Nat /\ l.parent \in Nat
  BY <1>1, <1>2 DEF Listing
<1>4. CASE l = Listing(0, 0)
  <2>1. l.rank = 0
    BY <1>4 DEF Listing
  <2>2. Listable(l) = DataSource
    BY <2>1 DEF Listable
  <2>3. ASSUME NEW id \in Id PROVE id \in DataSource <=> ListingOf(id) = l
    BY <1>4, ListingFacts, IdAssumption DEF Id, Listing
  <2> QED BY <1>3, <2>2, <2>3 DEF Id
<1>5. CASE l = Listing(1, 0)
  <2>1. l.rank = 1
    BY <1>5 DEF Listing
  <2>2. Listable(l) = Rule
    BY <2>1 DEF Listable
  <2>3. ASSUME NEW id \in Id PROVE id \in Rule <=> ListingOf(id) = l
    BY <1>5, ListingFacts, IdAssumption DEF Id, Listing
  <2> QED BY <1>3, <2>2, <2>3 DEF Id
<1>6. CASE l = Listing(3, 0)
  <2>1. l.rank = 3
    BY <1>6 DEF Listing
  <2>2. Listable(l) = RuleSet
    BY <2>1 DEF Listable
  <2>3. ASSUME NEW id \in Id PROVE id \in RuleSet <=> ListingOf(id) = l
    BY <1>6, ListingFacts, IdAssumption DEF Id, Listing
  <2> QED BY <1>3, <2>2, <2>3 DEF Id
<1>7. ASSUME NEW d \in DataSource, l = Listing(2, d)
      PROVE  /\ \A id \in Id : id \in Listable(l) <=> ListingOf(id) = l
             /\ Listable(l) \subseteq Id
  <2>1. l.rank = 2 /\ l.parent = d
    BY <1>7 DEF Listing
  <2>2. Listable(l) = {id \in Scan : Parent[id] = d}
    BY <2>1 DEF Listable
  <2>3. ASSUME NEW id \in Id PROVE (id \in Scan /\ Parent[id] = d) <=> ListingOf(id) = l
    BY <1>7, ListingFacts, IdAssumption DEF Id, Listing
  <2> QED BY <2>2, <2>3 DEF Id
<1> QED BY <1>2, <1>3, <1>4, <1>5, <1>6, <1>7

LEMMA NextListingFacts ==
  ASSUME Agenda \ requested # {}
  PROVE  NextListing \in Agenda /\ NextListing \notin requested
<1> DEFINE S == Agenda \ requested
           R == {l.rank : l \in S}
<1>1. R \subseteq Nat /\ R # {}
  BY AgendaFacts
<1>2. PICK r \in R : \A q \in R : r <= q
  <2> HIDE DEF R
  <2> QED BY <1>1, LeastNatural
<1> DEFINE P == {l.parent : l \in {m \in S : m.rank = r}}
<1>3. P \subseteq Nat /\ P # {}
  BY AgendaFacts
<1>4. PICK p \in P : \A q \in P : p <= q
  <2> HIDE DEF P
  <2> QED BY <1>3, LeastNatural
<1>5. PICK l \in S : l.rank = r /\ l.parent = p
  BY <1>4
<1>6. ASSUME NEW m \in S
      PROVE  Sooner(l, m)
  <2>1. r <= m.rank /\ m.rank \in Nat /\ r \in Nat
    BY <1>1, <1>2, AgendaFacts
  <2>2. m.rank = r => p <= m.parent
    BY <1>4
  <2> QED BY <1>5, <2>1, <2>2 DEF Sooner
<1>7. \E k \in S : \A m \in S : Sooner(k, m)
  BY <1>6
<1> HIDE DEF S
<1>8. (CHOOSE k \in S : \A m \in S : Sooner(k, m)) \in S
  BY <1>7
<1> QED BY <1>8 DEF S, NextListing

LEMMA NextNameFacts ==
  ASSUME names \subseteq Id, names # {}
  PROVE  NextName \in names
<1>1. names \subseteq Nat
  BY IdAssumption
<1>2. \E id \in names : \A other \in names : id <= other
  BY <1>1, LeastNatural
<1> QED BY <1>2 DEF NextName

-----------------------------------------------------------------------------
(* What a step of the capture does to each resource. *)

Unmoved(id) ==
  /\ Listed(id)' = Listed(id) /\ Seen(id)' = Seen(id)
  /\ captured'[id] = captured[id] /\ (id \in late => id \in late')

NowListed(id) ==
  /\ ~Listed(id) /\ Listed(id)' /\ captured[id] = Missing
  /\ Seen(id)' => captured'[id] = catalog[id]
  /\ ~Seen(id)' => captured'[id] = Missing /\ catalog[id] # Missing

(* A page passed over it, and over its scans. *)
Slipped(id) ==
  /\ ~Listed(id) /\ Listed(id)' /\ captured[id] = Missing /\ captured'[id] = Missing
  /\ id \in late' /\ \A scan \in Scan : Parent[scan] = id => scan \in late'
  /\ GoneSince

NowRead(id) ==
  /\ Listed(id) /\ ~Seen(id) /\ Listed(id)' /\ Seen(id)' /\ captured[id] = Missing
  /\ captured'[id] = catalog[id] /\ catalog[id] # Missing /\ id \notin late'

Moved(id) == Unmoved(id) \/ NowListed(id) \/ Slipped(id) \/ NowRead(id)

(* A page passes over resources only when something listed before it is gone. *)
LEMMA PagesSlip ==
  ASSUME NEW slipped, slipped \subseteq Id, slipped # {}, ahead \subseteq Id,
         requested \subseteq Agenda,
         Cardinality(slipped) <= Cardinality(Removed)
  PROVE  GoneSince
<1>1. IsFiniteSet(slipped) /\ IsFiniteSet({})
  BY IdAssumption, FS_Subset, FS_EmptySet
<1>2. Cardinality(slipped) \in Nat /\ Cardinality(slipped) # 0 /\ Cardinality({}) = 0
  BY <1>1, FS_CardinalityType, FS_EmptySet
<1>3. Removed # {}
  BY <1>2
<1>4. PICK id \in Passed : (id \in names \/ captured[id] # Missing) /\ catalog[id] = Missing
  BY <1>3 DEF Removed
<1>5. PICK l \in Agenda : id \in Listable(l)
  BY <1>4 DEF Passed
<1>6. id \in Id
  BY <1>5, AgendaFacts
<1> QED BY <1>4, <1>6 DEF GoneSince

LEMMA CaptureMoves ==
  ASSUME Gathered, captured \in RemoteState, CaptureStep
  PROVE  /\ \A id \in Id : Moved(id)
         /\ names' \subseteq Id
         /\ \A id \in names' : Listed(id)' /\ captured'[id] = Missing
         /\ \A id \in ahead' : id \in Id /\ ListingOf(id) \in requested'
         /\ requested' \subseteq Agenda
         /\ phase' \in {"capturing", "failed", "captured"}
         /\ phase' = "captured" =>
              ahead' = {} /\ names' = {} /\ Agenda \subseteq requested' /\ captured' = captured
<1>0. captured \in [Id -> Remote]
  BY DEF RemoteState, Remote
<1>1. CASE List
  <2> DEFINE l == NextListing
  <2>1. /\ phase = "capturing" /\ ahead = {} /\ names = {} /\ l \in Agenda /\ l \notin requested
        /\ requested' = requested \union {l} /\ ahead' = Listable(l)
        /\ names' = names /\ captured' = captured /\ late' = late /\ phase' = phase
    BY <1>1, NextListingFacts DEF List, ListingNames
  <2>2. /\ \A id \in Id : id \in Listable(l) <=> ListingOf(id) = l
        /\ Listable(l) \subseteq Id
    BY <2>1, AgendaFacts
  <2> HIDE DEF l
  <2>3. ASSUME NEW id \in Id
        PROVE  Unmoved(id)
    BY <2>1, <2>2 DEF Unmoved, Listed, Seen
  <2>4. requested' \subseteq Agenda /\ \A id \in ahead' : id \in Id /\ ListingOf(id) \in requested'
    BY <2>1, <2>2 DEF Gathered
  <2> QED BY <2>1, <2>3, <2>4 DEF Moved
<1>2. CASE ListPage
  <2>0. phase = "capturing" /\ phase' = phase /\ requested' = requested
    BY <1>2 DEF ListPage, Paging
  <2>1. PICK last \in ahead, slipped \in SUBSET ahead :
          LET page == {id \in ahead : id <= last}
              found == {id \in page : catalog[id] # Missing} \ slipped
          IN  /\ slipped \subseteq {id \in page : catalog[id] # Missing}
              /\ Cardinality(slipped) <= Cardinality(Removed)
              /\ ahead' = ahead \ page
              /\ names' = names \union {id \in found : ~RecordedFromList(id)}
              /\ captured' = [id \in Id |-> IF id \in found /\ RecordedFromList(id)
                                            THEN catalog[id] ELSE captured[id]]
              /\ late' = (late \ page) \union slipped \union UNION {ScansOf(id) : id \in slipped}
    BY <1>2 DEF ListPage
  <2> DEFINE page == {id \in ahead : id <= last}
             found == {id \in page : catalog[id] # Missing} \ slipped
  <2>2. /\ ahead' = ahead \ page
        /\ names' = names \union {id \in found : ~RecordedFromList(id)}
        /\ captured' = [id \in Id |-> IF id \in found /\ RecordedFromList(id)
                                      THEN catalog[id] ELSE captured[id]]
        /\ late' = (late \ page) \union slipped \union UNION {ScansOf(id) : id \in slipped}
        /\ Cardinality(slipped) <= Cardinality(Removed)
        /\ slipped \subseteq {id \in page : catalog[id] # Missing}
    BY <2>1
  <2>3. /\ ahead \subseteq Id /\ page \subseteq ahead /\ slipped \subseteq page
        /\ found \subseteq page /\ slipped \intersect found = {}
        /\ \A id \in page : id \in found \/ id \in slipped \/ catalog[id] = Missing
        /\ \A id \in found : catalog[id] # Missing
    BY <2>2 DEF Gathered
  <2> HIDE DEF page, found
  <2>4. ASSUME NEW id \in Id, id \notin page
        PROVE  Unmoved(id)
    BY <2>0, <2>2, <2>3, <2>4 DEF Unmoved, Listed, Seen
  <2>5. ASSUME NEW id \in page
        PROVE  id \in Id /\ ~Listed(id) /\ Listed(id)' /\ captured[id] = Missing /\ id \notin names
    BY <2>0, <2>2, <2>3, <2>5 DEF Gathered, Listed
  <2>6. ASSUME NEW id \in slipped
        PROVE  Slipped(id)
    <3>1. captured'[id] = Missing
      BY <2>2, <2>3, <2>5, <2>6
    <3>2. id \in late' /\ \A scan \in Scan : Parent[scan] = id => scan \in late'
      BY <2>2, <2>6 DEF ScansOf
    <3>3. GoneSince
      BY <2>2, <2>3, <2>6, PagesSlip DEF Gathered
    <3> QED BY <2>3, <2>5, <2>6, <3>1, <3>2, <3>3 DEF Slipped
  <2>7. ASSUME NEW id \in page, id \notin slipped
        PROVE  NowListed(id)
    <3>1. id \in names' <=> catalog[id] # Missing /\ ~RecordedFromList(id)
      BY <2>2, <2>3, <2>5, <2>7
    <3>2. captured'[id] = IF catalog[id] # Missing /\ RecordedFromList(id)
                          THEN catalog[id] ELSE Missing
      BY <2>2, <2>3, <2>5, <2>7
    <3> QED BY <2>5, <3>1, <3>2 DEF NowListed, Seen
  <2>8. ASSUME NEW id \in names'
        PROVE  id \in Id /\ Listed(id)' /\ captured'[id] = Missing
    <3>1. CASE id \in names
      <4>1. id \in Id /\ Listed(id) /\ captured[id] = Missing /\ id \notin page
        BY <2>5, <3>1 DEF Gathered
      <4> QED BY <2>4, <4>1 DEF Unmoved
    <3>2. CASE id \in found /\ ~RecordedFromList(id)
      BY <2>2, <2>3, <2>5, <3>2
    <3> QED BY <2>2, <3>1, <3>2
  <2>9. \A id \in ahead' : id \in Id /\ ListingOf(id) \in requested'
    BY <2>0, <2>2 DEF Gathered
  <2>10. \A id \in Id : Moved(id)
    BY <2>4, <2>6, <2>7 DEF Moved
  <2> QED BY <2>0, <2>8, <2>9, <2>10 DEF Gathered
<1>3. CASE Read
  <2>0. phase = "capturing" /\ names \subseteq Id /\ NextName \in names /\ ahead' = ahead
    BY <1>3, NextNameFacts DEF Read, Reading, Gathered
  <2>1. PICK n \in names : n = NextName
    BY <2>0
  <2>2. /\ catalog[n] # Missing /\ captured' = [captured EXCEPT ![n] = catalog[n]]
        /\ late' = late \ {n} /\ names' = names \ {n} /\ requested' = requested
        /\ phase' = phase
    BY <1>3, <2>1 DEF Read, Readable
  <2>3. ASSUME NEW id \in Id, id # n
        PROVE  Unmoved(id)
    BY <1>0, <2>0, <2>1, <2>2, <2>3 DEF Unmoved, Listed, Seen
  <2>4. NowRead(n)
    <3>1. n \in Id /\ Listed(n) /\ captured[n] = Missing
      BY <2>0, <2>1 DEF Gathered
    <3> QED BY <1>0, <2>0, <2>2, <3>1 DEF NowRead, Listed, Seen
  <2>5. \A id \in names' : Listed(id)' /\ captured'[id] = Missing
    BY <1>0, <2>0, <2>1, <2>2 DEF Gathered, Listed
  <2>6. \A id \in Id : Moved(id)
    BY <2>3, <2>4 DEF Moved
  <2> QED BY <2>0, <2>2, <2>5, <2>6 DEF Gathered
<1>4. CASE ListFails \/ ReadFails \/ Complete
  <2>1. /\ requested' = requested /\ names' = names /\ captured' = captured /\ late' = late
        /\ ahead' = ahead /\ phase' \in {"failed", "captured"}
        /\ phase' = "captured" => ahead = {} /\ names = {} /\ Agenda \subseteq requested
    BY <1>4 DEF ListFails, ReadFails, Complete
  <2>2. \A id \in Id : Unmoved(id)
    BY <2>1 DEF Unmoved, Listed, Seen
  <2> QED BY <2>1, <2>2 DEF Gathered, Listed, Moved
<1> QED BY <1>1, <1>2, <1>3, <1>4 DEF CaptureStep

LEMMA SeenOrNot ==
  ASSUME Gathered, NEW id \in Id, id \in names
  PROVE  captured[id] = Missing /\ Listed(id)
BY DEF Gathered

LEMMA CaptureGathers ==
  ASSUME IInv, Gathered, CaptureGoesOn
  PROVE  Gathered'
<1>1. CaptureStep /\ captured \in RemoteState /\ version' = version
  BY DEF CaptureGoesOn, IInv, Typed, jobVars
<1>2. edits' \in Nat
  BY DEF CaptureGoesOn, CaptureStep, List, ListPage, ListFails, Read, ReadFails, Complete,
         Gathered
<1>3. \A id \in Id : Moved(id)
  BY <1>1, CaptureMoves
<1>4. ASSUME NEW d \in DataSource, Supported(d)
      PROVE  captured'[d] \in Interpreted
  <2>1. d \in Id /\ captured[d] # Missing /\ captured[d] \in Interpreted
    BY <1>4, MarkerAssumption DEF Id, Supported
  <2> QED BY <1>3, <2>1 DEF Moved, Unmoved, NowListed, Slipped, NowRead
<1>5. Agenda \subseteq Agenda'
  <2>1. ScansOfSupported \subseteq ScansOfSupported'
    BY <1>4 DEF ScansOfSupported, Supported
  <2> QED BY <1>1, <2>1 DEF Agenda
<1>6. requested' \subseteq Agenda'
  BY <1>1, <1>5, CaptureMoves
<1>7. phase' = "captured" => ahead' = {} /\ names' = {} /\ Agenda' \subseteq requested'
  <2>1. captured' = captured => Agenda' = Agenda
    BY <1>1 DEF Agenda, ScansOfSupported, Supported
  <2> QED BY <1>1, <2>1, CaptureMoves
<1>8. \A id \in Id : ~Listed(id)' => captured'[id] = Missing
  BY <1>3 DEF Moved, Unmoved, NowListed, Slipped, NowRead, Gathered
<1>9. /\ phase' \in {"idle", "capturing", "captured", "failed"} /\ names' \subseteq Id
      /\ \A id \in names' : Listed(id)' /\ captured'[id] = Missing
      /\ \A id \in ahead' : id \in Id /\ ListingOf(id) \in requested'
  BY <1>1, CaptureMoves
<1> QED BY <1>2, <1>6, <1>7, <1>8, <1>9 DEF Gathered

LEMMA CaptureAsSeen ==
  ASSUME IInv, Gathered, Parents, AsSeen, CaptureGoesOn
  PROVE  AsSeen'
<1>1. /\ CaptureStep /\ captured \in RemoteState /\ pc = "capture" /\ catalog' = catalog
  BY ReadTypes DEF CaptureGoesOn, IInv, Typed
<1>2. \A id \in Id : Moved(id)
  BY <1>1, CaptureMoves
<1>3. ASSUME NEW id \in Id, id \notin late', Seen(id)'
      PROVE  captured'[id] = catalog[id]
  BY <1>1, <1>2, <1>3 DEF Moved, Unmoved, NowListed, Slipped, NowRead, AsSeen
<1>4. ASSUME NEW id \in Scan, id \notin late', ~Listed(id)', Seen(Parent[id])',
             captured'[Parent[id]] = Missing
      PROVE  catalog[id] = Missing
  <2>1. id \in Id /\ Parent[id] \in Id
    BY IdAssumption DEF Id
  <2>2. Unmoved(id) /\ ~Listed(id) /\ id \notin late
    BY <1>2, <1>4, <2>1 DEF Moved, Unmoved, NowListed, Slipped, NowRead
  <2>3. CASE Unmoved(Parent[id])
    <3>1. Seen(Parent[id]) /\ captured[Parent[id]] = Missing
      BY <1>4, <2>3 DEF Unmoved
    <3> QED BY <1>1, <1>4, <2>1, <2>2, <3>1 DEF AsSeen
  <2>4. CASE NowListed(Parent[id])
    <3>1. catalog[Parent[id]] = Missing
      BY <1>4, <2>4 DEF NowListed
    <3> QED BY <3>1, <1>4 DEF Parents
  <2>5. CASE NowRead(Parent[id])
    BY <1>4, <2>5 DEF NowRead
  <2>6. CASE Slipped(Parent[id])
    BY <1>4, <2>6 DEF Slipped
  <2> QED BY <1>2, <2>1, <2>3, <2>4, <2>5, <2>6 DEF Moved
<1> QED BY <1>1, <1>3, <1>4 DEF AsSeen

(* The positions and the wanted resources do not change. *)
LEMMA SamePuts ==
  ASSUME UNCHANGED <<plan, version, endpoint>>
  PROVE  \A i : PutOf(i)' = PutOf(i)
BY DEF PutOf, Want, Ops

(* What a plan that is carried out asks for. *)
LEMMA ReadyPlan ==
  ASSUME Planned, ValidPlan(plan), plan.eligibility = "ready"
  PROVE  /\ version \in {1, 2} /\ plan.items = ChangeSet(version, plan.desired, plan.remote)
         /\ \A id \in Id : plan.items[id].outcome # "blocked"
         /\ \A i \in Positions :
              Ops[i].id \in Id /\ Ops[i].id \in ActingIds(plan.items) /\ Want(Ops[i].id) # Absent
         /\ \A id \in ActingIds(plan.items) : \E i \in Positions : Ops[i].id = id
         /\ \A i, j \in Positions : Ops[i].id = Ops[j].id => i = j
         /\ version = 1 => \A id \in Id \ DataSource : plan.desired[id] = Absent
<1>1. PICK s \in Scenarios : plan = s.plan /\ version = s.plan.version
  BY DEF Planned
<1>2. /\ Sealed(plan) /\ OperationsMatch(plan) /\ EligibilityMatches(plan)
      /\ plan.version = 1 => MembersV1(plan)
  BY DEF ValidPlan, ValidPlanV1, ValidPlanV2
<1>3. /\ version \in {1, 2} /\ version = plan.version
      /\ plan.items = ChangeSet(version, plan.desired, plan.remote)
  BY <1>1, <1>2, ScenarioAssumption, PlannerAssumption
<1>4. \A id \in Id : plan.items[id].outcome # "blocked"
  BY <1>2 DEF EligibilityMatches, Eligibility
<1>5. Ops = Operations(plan.items) /\ \A i \in Positions : Want(Ops[i].id) # Absent
  BY <1>2 DEF OperationsMatch, Ops, Positions, Want
<1>6. /\ \A i \in Positions : Ops[i].id \in ActingIds(plan.items)
      /\ \A id \in ActingIds(plan.items) : \E i \in Positions : Ops[i].id = id
      /\ \A i, j \in Positions : Before(Ops[i].id, Ops[j].id) <=> i < j
      /\ Positions = 1..Last /\ Last \in Nat
  BY <1>5, OperationsAre, PlanFacts DEF Positions
<1>7. \A i \in Positions : Ops[i].id \in Id
  BY <1>6 DEF ActingIds
<1>8. \A i, j \in Positions : Ops[i].id = Ops[j].id => i = j
  <2> SUFFICES ASSUME NEW i \in Positions, NEW j \in Positions, Ops[i].id = Ops[j].id
               PROVE  i = j
    OBVIOUS
  <2>1. ~Before(Ops[i].id, Ops[j].id) /\ ~Before(Ops[j].id, Ops[i].id)
    BY <1>7, BeforeIsTotal
  <2>2. ~(i < j) /\ ~(j < i) /\ i \in Nat /\ j \in Nat
    BY <1>6, <2>1
  <2> QED BY <2>2
<1>9. version = 1 => \A id \in Id \ DataSource : plan.desired[id] = Absent
  BY <1>2, <1>3 DEF MembersV1
<1> QED BY <1>3, <1>4, <1>5, <1>6, <1>7, <1>8, <1>9

LEMMA ReadyPuts ==
  ASSUME IInv, ValidPlan(plan), plan.eligibility = "ready", NEW i \in Positions
  PROVE  /\ Ops[i].id \in Id /\ (version = 2 \/ Ops[i].id \in DataSource)
         /\ PutOf(i) \in Interpreted /\ PutOf(i) # Missing /\ PutOf(i) \notin ForeignKind
         /\ PutOf(i) # plan.remote[Ops[i].id]
<1> DEFINE id == Ops[i].id
           d == plan.desired[id]
           r == plan.remote[id]
<1>1. /\ version \in {1, 2} /\ id \in Id /\ plan.items[id].outcome \in Acting
      /\ plan.items = ChangeSet(version, plan.desired, plan.remote) /\ d # Absent
  BY ReadyPlan DEF IInv, ActingIds, Want
<1>2. plan.desired \in Configuration /\ plan.remote \in RemoteState
  BY PlanFacts DEF IInv
<1>3. d \in Desired /\ r \in Remote
  BY <1>1, <1>2 DEF Configuration, RemoteState, Remote
<1>4. version = 2 \/ id \in DataSource
  BY <1>1, ItemOf DEF Acting, Item
<1>5. Diff(id, d, r).outcome \in Acting
  BY <1>1, <1>4, ItemOf
<1>6. r # Stored(d)
  BY <1>1, <1>3, <1>5, DiffOutcome
<1>7. Stored(d) \in Interpreted
  BY <1>3, StoredType
<1>8. Stored(d) # Missing /\ Stored(d) \notin ForeignKind
  BY <1>7, MarkerAssumption DEF Uninterpreted
<1> QED BY <1>1, <1>4, <1>6, <1>7, <1>8 DEF PutOf, Want

-----------------------------------------------------------------------------
(* Every step keeps it. *)

(* Steps that touch neither the account nor what was captured. *)
LEMMA RestingKeeps ==
  ASSUME SInv,
         UNCHANGED <<plan, version, endpoint, catalog, requested, ahead, names, captured, late, edits,
                     landed, earlier, initiated, performed>>,
         delayed' \subseteq delayed,
         phase' = phase \/ (pc = "start" /\ phase' = "capturing"),
         pc' = "start" => pc = "start", pc' = "capture" => pc \in {"start", "capture"},
         pc' = "write" => pc = "write",
         result' = result \/ result'.status # "applied",
         IInv'
  PROVE  SInv'
<1>1. /\ Ops' = Ops /\ Positions' = Positions /\ Last' = Last
  BY SamePlan
<1>2. /\ \A id : Listed(id)' = Listed(id) /\ Seen(id)' = Seen(id)
      /\ Agenda' = Agenda
  BY DEF Listed, Seen, Agenda, ScansOfSupported, Supported
<1>3. Unread'
  BY DEF SInv, Unread
<1>4. Gathered'
  BY <1>2 DEF SInv, Gathered
<1>5. AsSeen'
  <2>1. CASE pc = "start"
    <3>1. \A id : ~Seen(id)'
      BY <2>1 DEF SInv, Unread, Seen, Listed
    <3> QED BY <3>1 DEF AsSeen
  <2>2. CASE pc = "capture"
    BY <1>2, <2>2 DEF SInv, AsSeen
  <2> QED BY <2>1, <2>2 DEF AsSeen
<1>6. Parents' /\ Spared'
  BY <1>1 DEF SInv, Parents, Spared
<1>7. \A i : PutOf(i)' = PutOf(i)
  BY SamePuts
<1>8. Sent'
  BY <1>7 DEF SInv, Sent
<1>9. Owned'
  <2>1. PICK s \in Scenarios : plan = s.plan /\ version = s.plan.version /\ Own(s.catalog)
    BY DEF SInv, Owned
  <2>2. \A id, r : KnownAs(s.catalog, id, r)' <=> KnownAs(s.catalog, id, r)
    BY <1>1, <1>7 DEF KnownAs
  <2>3. Own(s.catalog)'
    BY <1>1, <1>2, <1>7, <2>1, <2>2 DEF Own, KnownAs, GoneSince
  <2> QED BY <2>1, <2>3 DEF Owned
<1>10. Licensed'
  BY DEF SInv, Licensed
<1>11. Concluded'
  <2>1. pc = "start" => result = None
    BY DEF SInv, IInv, Staged, NothingWritten
  <2> QED BY <1>1, <2>1 DEF SInv, Concluded
<1> QED BY <1>3, <1>4, <1>5, <1>6, <1>8, <1>9, <1>10, <1>11 DEF SInv

LEMMA QuietKeeps ==
  ASSUME SInv, RejectPlan \/ Crash \/ UNCHANGED vars \/ \E w \in delayed : DelayedLost(w)
  PROVE  SInv'
<1>1. IInv' /\ IInv
  BY QuietInv DEF SInv, Quiet
<1>2. CASE RejectPlan \/ Crash \/ UNCHANGED vars
  <2>1. /\ UNCHANGED <<plan, version, endpoint, catalog, requested, ahead, names, captured, late, edits,
                       landed, earlier, initiated, performed>>
        /\ delayed' = delayed /\ phase' = phase /\ result' = result
        /\ pc' = pc \/ pc' \in {"rejected", "crashed"}
    BY <1>2 DEF RejectPlan, Crash, vars, jobVars, serviceVars, readVars, applyVars, historyVars
  <2> QED BY <1>1, <2>1, RestingKeeps
<1>3. ASSUME NEW w \in delayed, DelayedLost(w)
      PROVE  SInv'
  <2>1. /\ UNCHANGED <<plan, version, endpoint, catalog, requested, ahead, names, captured, late, edits,
                       landed, earlier, initiated, performed>>
        /\ delayed' \subseteq delayed /\ phase' = phase /\ result' = result /\ pc' = pc
    BY <1>3 DEF DelayedLost, jobVars, readVars, applyVars, historyVars
  <2> QED BY <1>1, <2>1, RestingKeeps
<1> QED BY <1>2, <1>3

LEMMA RefusingKeeps ==
  ASSUME SInv, Refusing \/ (Materialize /\ Materializes)
  PROVE  SInv'
<1>1. CASE Refusing
  <2>1. IInv' /\ pc' = "done" /\ result'.status # "applied"
    BY <1>1, RefusingInv DEF SInv, UntouchedStatus
  <2>2. /\ phase' = phase
        /\ \E status, code, target, observed : Refuse(status, code, target, observed)
    BY <1>1
    DEF Refusing, RefuseBlocked, RefuseWrongTarget, Materialize, CaptureFailed, DetectStale,
        DryRunReady
  <2>3. UNCHANGED <<plan, version, endpoint, catalog, requested, ahead, names, captured, late, edits,
                    landed, earlier, initiated, performed, delayed>>
    BY <2>2 DEF Refuse, jobVars, serviceVars, applyVars, historyVars
  <2> QED BY <2>1, <2>2, <2>3, RestingKeeps
<1>2. CASE Materialize /\ Materializes
  <2>1. IInv' /\ pc' = "capture" /\ pc = "start"
    BY <1>2, MaterializeInv DEF SInv
  <2>2. /\ UNCHANGED <<plan, version, endpoint, catalog, requested, ahead, names, captured, late, edits,
                       landed, earlier, initiated, performed, delayed, result>>
        /\ phase' = "capturing"
    BY <1>2 DEF Materialize, jobVars, serviceVars, applyVars, historyVars
  <2> QED BY <2>1, <2>2, RestingKeeps
<1> QED BY <1>1, <1>2

LEMMA CaptureKeeps ==
  ASSUME SInv, CaptureGoesOn
  PROVE  SInv'
<1>1. IInv /\ IInv'
  BY QuietInv DEF SInv, Quiet
<1>2. /\ CaptureStep /\ captured \in RemoteState /\ pc = "capture" /\ pc' = "capture"
      /\ UNCHANGED <<plan, version, endpoint, delayed, runs, performed, outcome, result,
                     landed, earlier, initiated, catalog, edits>>
  BY ReadTypes
  DEF SInv, IInv, Typed, CaptureGoesOn, jobVars, applyVars, historyVars,
      CaptureStep, List, ListPage, ListFails, Read, ReadFails, Complete
<1>3. Gathered' /\ AsSeen'
  BY CaptureGathers, CaptureAsSeen DEF SInv
<1>4. result = None
  BY <1>2 DEF SInv, IInv, Staged, NothingWritten
<1>5. Unread' /\ Parents' /\ Spared' /\ Licensed' /\ Concluded'
  BY <1>2, <1>4 DEF SInv, Unread, Parents, Spared, Licensed, Concluded
<1>6. /\ Ops' = Ops /\ Positions' = Positions /\ \A i : PutOf(i)' = PutOf(i)
  BY <1>2, SamePlan, SamePuts
<1>7. Sent'
  BY <1>2, <1>6 DEF SInv, Sent
<1>8. Owned'
  <2>1. PICK s \in Scenarios : plan = s.plan /\ version = s.plan.version /\ Own(s.catalog)
    BY DEF SInv, Owned
  <2> SUFFICES ASSUME edits = 0 PROVE Own(s.catalog)'
    BY <1>2, <2>1 DEF Owned, Own
  <2>2. \A id \in Id : Moved(id)
    BY <1>2, CaptureMoves DEF SInv
  <2>0. Gathered /\ \A id \in Id : ~Slipped(id)
    BY <2>1 DEF Own, Slipped, SInv
  <2>3. \A id, r : KnownAs(s.catalog, id, r)' <=> KnownAs(s.catalog, id, r)
    BY <1>6 DEF KnownAs
  <2>4. \A id \in Id : KnownAs(s.catalog, id, catalog[id])
    BY <2>1 DEF Own
  <2>5. ASSUME NEW id \in Id, Seen(id)'
        PROVE  KnownAs(s.catalog, id, captured'[id])
    <3>1. CASE Unmoved(id)
      BY <2>1, <2>5, <3>1 DEF Unmoved, Own
    <3>2. CASE NowListed(id) \/ NowRead(id)
      BY <2>4, <2>5, <3>2 DEF NowListed, NowRead
    <3> QED BY <2>0, <2>2, <3>1, <3>2 DEF Moved
  <2>6. ASSUME NEW i \in earlier
        PROVE  /\ Seen(Ops[i].id)' => captured'[Ops[i].id] = PutOf(i)
               /\ Ops[i].id \in Scan /\ Seen(Parent[Ops[i].id])' =>
                    captured'[Parent[Ops[i].id]] # Missing
    <3> DEFINE id == Ops[i].id
    <3>1. /\ i \in Positions /\ ValidPlan(plan) /\ plan.eligibility = "ready"
      BY DEF SInv, IInv, Typed, Licensed
    <3>2. id \in Id /\ PutOf(i) # Missing
      BY <1>1, <3>1, ReadyPuts
    <3>3. catalog[id] = PutOf(i)
      BY <2>1 DEF Own
    <3>4. Seen(id)' => captured'[id] = PutOf(i)
      <4>1. CASE Unmoved(id)
        BY <2>1, <4>1 DEF Unmoved, Own
      <4>2. CASE NowListed(id) \/ NowRead(id)
        BY <3>3, <4>2 DEF NowListed, NowRead
      <4> QED BY <2>0, <2>2, <3>2, <4>1, <4>2 DEF Moved
    <3>5. ASSUME id \in Scan, Seen(Parent[id])'
          PROVE  captured'[Parent[id]] # Missing
      <4>1. Parent[id] \in Id /\ catalog[Parent[id]] # Missing
        BY <3>2, <3>3, <3>5, IdAssumption DEF Id, SInv, Parents
      <4>2. CASE Unmoved(Parent[id])
        BY <2>1, <3>5, <4>2 DEF Unmoved, Own
      <4>3. CASE NowListed(Parent[id]) \/ NowRead(Parent[id])
        BY <3>5, <4>1, <4>3 DEF NowListed, NowRead
      <4> QED BY <2>0, <2>2, <4>1, <4>2, <4>3 DEF Moved
    <3> QED BY <3>4, <3>5
  <2>7. \A i \in earlier \union landed : catalog[Ops[i].id] = PutOf(i)
    BY <2>1 DEF Own
  <2>8. initiated = {}
    BY <1>2 DEF SInv, IInv, Staged, NothingWritten
  <2>9. ~GoneSince'
    <3> SUFFICES ASSUME NEW id \in Id, id \in names' \/ captured'[id] # Missing
                 PROVE  catalog[id] # Missing
      BY <1>2 DEF GoneSince
    <3>0. \A other \in names' : Listed(other)' /\ captured'[other] = Missing
      BY <1>2, <2>0, CaptureMoves
    <3>1. CASE Unmoved(id)
      <4>1. id \in names' => id \in names
        BY <2>0, <3>0, <3>1 DEF Unmoved, Seen
      <4> QED BY <2>1, <3>1, <4>1 DEF Own, GoneSince, Unmoved
    <3>2. CASE NowListed(id)
      BY <3>0, <3>2 DEF NowListed, Seen
    <3>3. CASE NowRead(id)
      BY <3>3 DEF NowRead
    <3> QED BY <2>0, <2>2, <3>1, <3>2, <3>3 DEF Moved
  <2> QED BY <1>2, <1>6, <2>3, <2>4, <2>5, <2>6, <2>7, <2>8, <2>9 DEF Own
<1> QED BY <1>1, <1>3, <1>5, <1>7, <1>8 DEF SInv

(* After the capture everything has been looked at, but the scans of a data source *)
(* that was absent or of another kind.                                             *)
LEMMA AllSeen ==
  ASSUME Gathered, phase = "captured", captured \in RemoteState,
         version \in {1, 2}, NEW id \in Id, version = 2 \/ id \in DataSource
  PROVE  \/ Seen(id)
         \/ /\ id \in Scan /\ ~Listed(id) /\ Parent[id] \in Id /\ Parent[id] \in DataSource
            /\ Seen(Parent[id]) /\ captured[Parent[id]] \in ForeignKind \union {Missing}
<1>1. ahead = {} /\ names = {} /\ Agenda \subseteq requested
  BY DEF Gathered
<1>2. \A d \in DataSource : Seen(d)
  <2>1. Listing(0, 0) \in Agenda
    BY DEF Agenda
  <2> QED BY <1>1, <2>1, ListingFacts DEF Seen, Listed, Id
<1>3. version = 2 =>
        /\ Listing(1, 0) \in Agenda /\ Listing(3, 0) \in Agenda /\ ScansOfSupported \subseteq Agenda
  BY DEF Agenda
<1>4. CASE id \in DataSource
  BY <1>2, <1>4
<1>5. CASE id \in Rule \union RuleSet /\ version = 2
  BY <1>1, <1>3, <1>5, ListingFacts DEF Seen, Listed
<1>6. CASE id \in Scan /\ version = 2
  <2>1. Parent[id] \in DataSource /\ Parent[id] \in Id
    BY <1>6, IdAssumption DEF Id
  <2>2. CASE Supported(Parent[id])
    <3>1. ListingOf(id) \in ScansOfSupported
      BY <1>6, <2>1, <2>2, ListingFacts DEF ScansOfSupported
    <3> QED BY <1>1, <1>3, <1>6, <3>1 DEF Seen, Listed
  <2>3. CASE ~Supported(Parent[id])
    <3>1. captured[Parent[id]] \in ForeignKind \union {Missing}
      <4>1. captured[Parent[id]] # UnsupportedType
        BY <2>1, IdAssumption DEF RemoteState
      <4> QED BY <2>1, <2>3, <4>1 DEF RemoteState, Supported, Uninterpreted
    <3> QED BY <1>1, <1>2, <1>6, <2>1, <3>1 DEF Seen
  <2> QED BY <2>2, <2>3
<1> QED BY <1>4, <1>5, <1>6 DEF Id

(* A plan over resources the tool cannot interpret is blocked. *)
LEMMA NothingForeign ==
  ASSUME Planned, ValidPlan(plan), plan.eligibility = "ready",
         NEW id \in Id, version = 2 \/ id \in DataSource
  PROVE  plan.remote[id] \notin Uninterpreted
<1>1. /\ version \in {1, 2} /\ plan.items = ChangeSet(version, plan.desired, plan.remote)
      /\ plan.items[id].outcome # "blocked"
  BY ReadyPlan
<1>2. plan.desired[id] \in Desired \union {Absent} /\ plan.remote[id] \in Remote
  BY PlanFacts DEF Configuration, RemoteState, Remote
<1>3. Diff(id, plan.desired[id], plan.remote[id]).outcome # "blocked"
  BY <1>1, ItemOf
<1> QED BY <1>2, <1>3, DiffOutcome

(* What an earlier execution wrote makes the plan stale. *)
LEMMA RetryIsStale ==
  ASSUME SInv, pc = "capture", phase = "captured", captured = plan.remote, edits = 0
  PROVE  earlier = {}
<1> SUFFICES ASSUME NEW i \in earlier PROVE FALSE
  OBVIOUS
<1> DEFINE id == Ops[i].id
<1>1. /\ i \in Positions /\ ValidPlan(plan) /\ plan.eligibility = "ready" /\ IInv /\ Planned
      /\ captured \in RemoteState
  BY DEF SInv, IInv, Typed, Licensed
<1>2. id \in Id /\ (version = 2 \/ id \in DataSource) /\ PutOf(i) # captured[id]
  BY <1>1, ReadyPuts
<1>3. /\ Seen(id) => captured[id] = PutOf(i)
      /\ id \in Scan /\ Seen(Parent[id]) => captured[Parent[id]] # Missing
  BY DEF SInv, Owned, Own
<1>4. Gathered /\ version \in {1, 2}
  BY <1>1, ReadyPlan DEF SInv
<1>5. /\ Parent[id] \in DataSource /\ Parent[id] \in Id /\ captured[Parent[id]] \in ForeignKind
  BY <1>1, <1>2, <1>3, <1>4, AllSeen
<1>6. captured[Parent[id]] \notin Uninterpreted
  BY <1>1, <1>5, NothingForeign
<1> QED BY <1>5, <1>6 DEF Uninterpreted

LEMMA StartKeeps ==
  ASSUME SInv, Start
  PROVE  SInv'
<1>1. /\ IInv' /\ IInv /\ pc = "capture" /\ phase = "captured" /\ captured = plan.remote
      /\ \/ Last = 0 /\ pc' = "done"
         \/ pc' = "write" /\ result' = result
  <2>1. IInv' /\ IInv
    BY StartInv DEF SInv
  <2>2. CASE Last = 0
    <3>1. pc' = "done"
      BY <2>2, StartInv, PlanFacts DEF SInv, Start, Conclude, Report, IInv, Told, Reported
    <3> QED BY <2>1, <2>2, <3>1 DEF Start, Stale
  <2>3. CASE Last # 0
    BY <2>1, <2>3 DEF Start, Stale
  <2> QED BY <2>2, <2>3
<1>2. UNCHANGED <<plan, version, endpoint, catalog, requested, ahead, names, captured, late, edits, phase,
                  landed, earlier, initiated, performed, delayed>>
  BY DEF Start, jobVars, serviceVars, readVars, applyVars, historyVars
<1>3. /\ Ops' = Ops /\ Positions' = Positions /\ Last' = Last
      /\ \A i : PutOf(i)' = PutOf(i)
  BY <1>2, SamePlan, SamePuts
<1>4. /\ \A id : Listed(id)' = Listed(id) /\ Seen(id)' = Seen(id)
      /\ Agenda' = Agenda
  BY <1>2 DEF Listed, Seen, Agenda, ScansOfSupported, Supported
<1>5. /\ Planned /\ ValidPlan(plan) /\ plan.eligibility = "ready" /\ version \in {1, 2}
      /\ performed = 0 /\ initiated = {} /\ landed = {} /\ result = None
      /\ captured \in RemoteState
  BY <1>1, ReadyPlan DEF IInv, Staged, Admitted, NothingWritten, Typed
<1>6. Unread' /\ Gathered' /\ AsSeen' /\ Parents' /\ Licensed'
  BY <1>1, <1>2, <1>4 DEF SInv, Unread, Gathered, AsSeen, Parents, Licensed
<1>7. Sent'
  BY <1>2, <1>3 DEF SInv, Sent
<1>8. Spared'
  <2>1. ASSUME NEW id \in Id, version = 2 \/ id \in DataSource
        PROVE  \/ id \in late \/ catalog[id] = captured[id]
               \/ id \in Scan /\ captured[Parent[id]] \in ForeignKind
    <3>1. CASE Seen(id)
      BY <1>1, <3>1 DEF SInv, AsSeen
    <3>2. CASE /\ id \in Scan /\ ~Listed(id) /\ Seen(Parent[id])
               /\ captured[Parent[id]] \in ForeignKind \union {Missing}
      BY <1>1, <3>2 DEF SInv, AsSeen, Gathered
    <3> QED BY <1>1, <1>5, <2>1, <3>1, <3>2, AllSeen DEF SInv
  <2> QED BY <1>2, <2>1 DEF Spared
<1>9. Owned'
  <2>1. PICK s \in Scenarios : plan = s.plan /\ version = s.plan.version /\ Own(s.catalog)
    BY DEF SInv, Owned
  <2>2. edits = 0 => earlier = {}
    BY <1>1, RetryIsStale
  <2>3. Own(s.catalog)'
    BY <1>2, <1>3, <1>4, <2>1, <2>2 DEF Own, KnownAs, GoneSince
  <2> QED BY <1>2, <2>1, <2>3 DEF Owned
<1>10. Concluded'
  <2>1. Last = 0 => Positions = {}
    BY PlanFacts DEF SInv, IInv
  <2> QED BY <1>1, <1>2, <1>3, <1>5, <2>1 DEF Concluded
<1> QED BY <1>1, <1>6, <1>7, <1>8, <1>9, <1>10 DEF SInv

(* A PUT, stored or not. *)
LEMMA SendingKeeps ==
  ASSUME SInv, pc = "write", IInv',
         UNCHANGED <<plan, version, endpoint, requested, ahead, names, captured, late, edits, phase,
                     earlier>>,
         \/ Store /\ Storable(Writing) /\ landed' = landed \union {Current}
         \/ catalog' = catalog /\ landed' = landed,
         \A w \in delayed' : w \in delayed \/ (w.index = Current /\ w.payload = Payload(Writing)),
         \/ pc' = "write" /\ performed' = Current /\ result' = result
         \/ /\ pc' = "done"
            /\ result'.status = "applied" => Current = Last /\ landed' = landed \union {Current}
  PROVE  SInv'
<1>1. /\ IInv /\ Planned /\ ValidPlan(plan) /\ plan.eligibility = "ready" /\ version \in {1, 2}
      /\ result = None /\ phase = "captured" /\ captured = plan.remote
      /\ landed = 1..performed /\ catalog \in RemoteState
  BY ReadyPlan DEF SInv, IInv, Typed, Staged, Admitted, Underway
<1>2. /\ Current \in Positions /\ Current = performed + 1 /\ performed \in Nat /\ Last \in Nat
      /\ Positions = 1..Last /\ Writing \in Id
  BY <1>1, CurrentFacts, PlanFacts
<1>3. /\ Ops' = Ops /\ Positions' = Positions /\ Last' = Last
      /\ \A i : PutOf(i)' = PutOf(i)
  BY SamePlan, SamePuts
<1>4. /\ \A id : Listed(id)' = Listed(id) /\ Seen(id)' = Seen(id)
      /\ Agenda' = Agenda
  BY DEF Listed, Seen, Agenda, ScansOfSupported, Supported
<1>5. /\ Payload(Writing) = PutOf(Current) /\ Writing = Ops[Current].id
      /\ PutOf(Current) # Missing
  BY <1>1, <1>2, ReadyPuts DEF Payload, PutOf, Stored, Writing
<1>6. \A id \in Id : catalog'[id] = catalog[id] \/ (id = Writing /\ catalog'[id] = PutOf(Current))
  BY <1>1, <1>2, <1>5 DEF Store, RemoteState
<1>7. landed' # landed => catalog'[Writing] = PutOf(Current)
  BY <1>1, <1>2, <1>5 DEF Store, RemoteState
<1>8. Unread' /\ Gathered' /\ AsSeen' /\ Licensed'
  BY <1>1, <1>4 DEF SInv, Unread, Gathered, AsSeen, Licensed
<1>9. Parents'
  <2> SUFFICES ASSUME NEW id \in Scan, catalog'[id] # Missing
               PROVE  catalog'[Parent[id]] # Missing
    BY DEF Parents
  <2>1. id \in Id /\ Parent[id] \in Id
    BY IdAssumption DEF Id
  <2>2. catalog[Parent[id]] # Missing
    BY <1>6, <2>1 DEF SInv, Parents, Store, Storable
  <2> QED BY <1>5, <1>6, <2>1, <2>2
<1>10. Sent'
  BY <1>3, <1>5 DEF SInv, Sent
<1>11. Spared'
  <2> SUFFICES ASSUME pc' = "write", NEW id \in Id, version = 2 \/ id \in DataSource,
                      \A j \in 1..performed' : Ops[j].id # id
               PROVE  \/ id \in late \/ catalog'[id] = captured[id]
                      \/ id \in Scan /\ captured[Parent[id]] \in ForeignKind
    BY <1>3 DEF Spared
  <2>1. performed' = Current /\ 1..Current = (1..performed) \union {Current}
    BY <1>2
  <2>2. id # Writing /\ \A j \in 1..performed : Ops[j].id # id
    BY <1>5, <2>1
  <2>3. catalog'[id] = catalog[id]
    BY <1>6, <2>2
  <2> QED BY <2>2, <2>3 DEF SInv, Spared
<1>12. Owned'
  <2>1. PICK s \in Scenarios : plan = s.plan /\ version = s.plan.version /\ Own(s.catalog)
    BY DEF SInv, Owned
  <2> SUFFICES ASSUME edits = 0 PROVE Own(s.catalog)'
    BY <2>1 DEF Owned, Own
  <2>2. earlier = {}
    BY <2>1 DEF Own
  <2>3. \A id, r : KnownAs(s.catalog, id, r)' <=> KnownAs(s.catalog, id, r)
    BY <1>3 DEF KnownAs
  <2>4. KnownAs(s.catalog, Writing, PutOf(Current))
    BY <1>2, <1>5 DEF KnownAs
  <2>5. \A id \in Id : KnownAs(s.catalog, id, catalog'[id])
    BY <1>6, <2>1, <2>4 DEF Own
  <2>6. \A id \in Id : Seen(id) => KnownAs(s.catalog, id, captured[id])
    BY <2>1 DEF Own
  <2>7. ASSUME NEW i \in landed'
        PROVE  catalog'[Ops[i].id] = PutOf(i)
    <3>1. CASE i \in landed
      <4>1. i \in Positions /\ Ops[i].id \in Id /\ catalog[Ops[i].id] = PutOf(i)
        BY <1>1, <2>1, <3>1, ReadyPuts DEF Own, IInv, Typed
      <4>2. Ops[i].id = Writing => PutOf(i) = PutOf(Current)
        BY <1>5 DEF PutOf
      <4> QED BY <1>6, <4>1, <4>2
    <3>2. CASE i \notin landed
      <4>1. i = Current /\ landed' # landed
        BY <2>7, <3>2
      <4> QED BY <1>5, <1>7, <4>1
    <3> QED BY <3>1, <3>2
  <2>8. ~GoneSince'
    BY <1>5, <1>6, <2>1 DEF Own, GoneSince
  <2> QED BY <1>3, <1>4, <2>2, <2>3, <2>5, <2>6, <2>7, <2>8 DEF Own
<1>13. Concluded'
  <2> SUFFICES ASSUME pc' = "done", result'.status = "applied"
               PROVE  landed' = Positions
    BY <1>1, <1>3 DEF Concluded
  <2>1. landed' = (1..performed) \union {Current} /\ Current = Last
    BY <1>1
  <2> QED BY <1>2, <2>1
<1> QED BY <1>8, <1>9, <1>10, <1>11, <1>12, <1>13 DEF SInv

LEMMA PutsKeep ==
  ASSUME SInv, PutConfirmed \/ PutRefused \/ PutUnanswered
  PROVE  SInv'
<1>1. /\ IInv' /\ IInv /\ pc = "write"
      /\ UNCHANGED <<plan, version, endpoint, requested, ahead, names, captured, late, edits, phase,
                     earlier>>
  BY ConfirmedInv, BreakingInv
  DEF SInv, Breaking, PutConfirmed, PutRefused, PutUnanswered, jobVars, readVars, serviceVars
<1>2. CASE PutConfirmed
  <2>1. /\ Store /\ Storable(Writing) /\ landed' = landed \union {Current} /\ delayed' = delayed
        /\ performed' = Current
    BY <1>2 DEF PutConfirmed, Landed
  <2>2. \/ pc' = "write" /\ result' = result
        \/ pc' = "done" /\ Current = Last
    <3>1. CASE Current = Last
      <4>1. pc' = "done"
        BY <1>2, <3>1, ConfirmedInv DEF SInv, PutConfirmed, Conclude, Report, IInv, Told, Reported
      <4> QED BY <3>1, <4>1
    <3>2. CASE Current # Last
      BY <1>1, <1>2, <3>2 DEF PutConfirmed
    <3> QED BY <3>1, <3>2
  <2> QED BY <1>1, <2>1, <2>2, SendingKeeps
<1>3. CASE PutRefused \/ PutUnanswered
  <2>1. pc' = "done" /\ result'.status # "applied"
    BY <1>3, BreakingInv DEF SInv, Breaking
  <2>2. \/ Store /\ Storable(Writing) /\ landed' = landed \union {Current}
        \/ catalog' = catalog /\ landed' = landed
    BY <1>3 DEF PutRefused, PutUnanswered, Landed, serviceVars
  <2>3. \A w \in delayed' : w \in delayed \/ (w.index = Current /\ w.payload = Payload(Writing))
    <3>1. CASE PutRefused
      BY <3>1 DEF PutRefused, serviceVars
    <3>2. CASE PutUnanswered
      <4>1. \/ delayed' = delayed
            \/ delayed' = delayed \union
                  {[run |-> runs, index |-> Current, payload |-> Payload(Writing)]}
        BY <3>2 DEF PutUnanswered
      <4> QED BY <4>1
    <3> QED BY <1>3, <3>1, <3>2
  <2> QED BY <1>1, <2>1, <2>2, <2>3, SendingKeeps
<1> QED BY <1>2, <1>3

(* A change by the hand of others, or of a PUT still on its way. *)
LEMMA ChangeKeeps ==
  ASSUME SInv, IInv', NEW id \in Id, NEW r, Changes(id, r), edits' \in Nat,
         id \in Scan => catalog[Parent[id]] # Missing,
         delayed' \subseteq delayed,
         UNCHANGED <<plan, version, endpoint, requested, ahead, names, captured, phase,
                     earlier, initiated, performed, pc, result>>
  PROVE  Unread' /\ Gathered' /\ AsSeen' /\ Parents' /\ Spared' /\ Sent'
<1>1. /\ Ops' = Ops /\ \A i : PutOf(i)' = PutOf(i)
  BY SamePlan, SamePuts
<1>2. /\ \A other : Listed(other)' = Listed(other) /\ Seen(other)' = Seen(other)
      /\ Agenda' = Agenda
  BY DEF Listed, Seen, Agenda, ScansOfSupported, Supported
<1>3. /\ catalog' = [other \in Id |->
                       IF other = id THEN r
                       ELSE IF r = Missing /\ other \in ScansOf(id) THEN Missing
                       ELSE catalog[other]]
      /\ \A other \in Id : other \notin late' => other \notin late /\ catalog'[other] = catalog[other]
  BY DEF Changes
<1>4. Unread' /\ Gathered' /\ Sent'
  BY <1>1, <1>2 DEF SInv, Unread, Gathered, Sent
<1>5. AsSeen'
  BY <1>2, <1>3 DEF SInv, AsSeen
<1>6. Spared'
  BY <1>1, <1>3 DEF SInv, Spared
<1>7. Parents'
  <2> SUFFICES ASSUME NEW scan \in Scan, catalog'[scan] # Missing
               PROVE  catalog'[Parent[scan]] # Missing
    BY DEF Parents
  <2>1. scan \in Id /\ Parent[scan] \in Id /\ Parent[scan] \notin Scan
    BY IdAssumption DEF Id
  <2>2. catalog[Parent[scan]] # Missing
    BY <1>3, <2>1 DEF SInv, Parents
  <2>3. CASE Parent[scan] = id
    <3>1. scan # id /\ scan \in ScansOf(id)
      BY <2>1, <2>3 DEF ScansOf
    <3> QED BY <1>3, <2>1, <2>3, <3>1
  <2>4. CASE Parent[scan] # id
    <3>1. Parent[scan] \notin ScansOf(id)
      BY <2>1 DEF ScansOf
    <3> QED BY <1>3, <2>1, <2>2, <2>4, <3>1
  <2> QED BY <2>3, <2>4
<1> QED BY <1>4, <1>5, <1>6, <1>7

LEMMA EditKeeps ==
  ASSUME SInv, NEW id \in Id, EditByOthers(id)
  PROVE  SInv'
<1>1. /\ IInv' /\ IInv
      /\ UNCHANGED <<plan, version, endpoint, requested, ahead, names, captured, phase, delayed, landed,
                     earlier, initiated, performed, pc, result>>
      /\ edits' = edits + 1
      /\ (id \in Scan => catalog[Parent[id]] # Missing)
      /\ \E r : Changes(id, r)
  BY QuietInv DEF SInv, Quiet, EditByOthers, Edit, jobVars, applyVars, historyVars
<1>2. edits' \in Nat /\ edits' # 0
  BY <1>1 DEF SInv, Gathered
<1>3. Unread' /\ Gathered' /\ AsSeen' /\ Parents' /\ Spared' /\ Sent'
  BY <1>1, <1>2, ChangeKeeps
<1>4. Owned'
  BY <1>1, <1>2 DEF SInv, Owned, Own
<1>5. Licensed' /\ Concluded'
  BY <1>1, SamePlan DEF SInv, Licensed, Concluded
<1> QED BY <1>1, <1>3, <1>4, <1>5 DEF SInv

LEMMA DelayedKeeps ==
  ASSUME SInv, NEW w \in delayed, DelayedArrives(w)
  PROVE  SInv'
<1> DEFINE id == Ops[w.index].id
<1>1. /\ IInv' /\ IInv
      /\ UNCHANGED <<plan, version, endpoint, requested, ahead, names, captured, phase, edits,
                     earlier, initiated, performed, pc, result>>
      /\ delayed' \subseteq delayed /\ edits \in Nat
  BY DelayedInv DEF SInv, DelayedArrives, jobVars, readVars, applyVars, Gathered
<1>2. /\ w.index \in Positions /\ w.payload = PutOf(w.index) /\ ValidPlan(plan)
      /\ plan.eligibility = "ready"
  BY <1>1 DEF SInv, IInv, Typed, DelayedPut, Sent, Licensed
<1>3. id \in Id /\ PutOf(w.index) # Missing
  BY <1>1, <1>2, ReadyPuts
<1>4. landed' = landed \/ landed' = landed \union {w.index}
  BY DEF DelayedArrives
<1>5. Licensed'
  BY <1>1, <1>2 DEF Licensed
<1>6. Concluded'
  BY <1>1, <1>2, <1>4, SamePlan DEF SInv, Concluded
<1>7. CASE ~Storable(id)
  <2>1. catalog' = catalog /\ late' = late /\ landed' = landed
    BY <1>7 DEF DelayedArrives
  <2> QED BY <1>1, <2>1, RestingKeeps
<1>8. CASE Storable(id)
  <2>1. Changes(id, w.payload)
    BY <1>8 DEF DelayedArrives
  <2>2. id \in Scan => catalog[Parent[id]] # Missing
    BY <1>8 DEF Storable
  <2>3. Unread' /\ Gathered' /\ AsSeen' /\ Parents' /\ Spared' /\ Sent'
    BY <1>1, <1>3, <2>1, <2>2, ChangeKeeps
  <2>4. catalog' = [other \in Id |-> IF other = id THEN PutOf(w.index) ELSE catalog[other]]
    BY <1>2, <1>3, <2>1 DEF Changes
  <2>5. Owned'
    <3>1. PICK s \in Scenarios : plan = s.plan /\ version = s.plan.version /\ Own(s.catalog)
      BY DEF SInv, Owned
    <3> SUFFICES ASSUME edits = 0 PROVE Own(s.catalog)'
      BY <1>1, <3>1 DEF Owned, Own
    <3>2. /\ Ops' = Ops /\ Positions' = Positions /\ \A i : PutOf(i)' = PutOf(i)
      BY <1>1, SamePlan, SamePuts
    <3>3. \A other, r : KnownAs(s.catalog, other, r)' <=> KnownAs(s.catalog, other, r)
      BY <3>2 DEF KnownAs
    <3>4. \A other : Listed(other)' = Listed(other) /\ Seen(other)' = Seen(other)
      BY <1>1 DEF Listed, Seen
    <3>5. \A other \in Id : KnownAs(s.catalog, other, catalog'[other])
      <4>1. KnownAs(s.catalog, id, PutOf(w.index))
        BY <1>2 DEF KnownAs
      <4> QED BY <2>4, <3>1, <4>1 DEF Own
    <3>6. ASSUME NEW i \in earlier \union landed'
          PROVE  catalog'[Ops[i].id] = PutOf(i)
      <4>1. CASE i = w.index
        BY <1>3, <2>4, <4>1
      <4>2. CASE i # w.index
        <5>1. i \in earlier \union landed /\ i \in Positions
          BY <1>1, <1>4, <3>6, <4>2 DEF IInv, Typed
        <5>2. catalog[Ops[i].id] = PutOf(i) /\ Ops[i].id \in Id
          BY <1>1, <1>2, <3>1, <5>1, ReadyPuts DEF Own
        <5>3. Ops[i].id = id => PutOf(i) = PutOf(w.index)
          BY DEF PutOf
        <5> QED BY <2>4, <5>2, <5>3
      <4> QED BY <4>1, <4>2
    <3>7. ~GoneSince'
      BY <1>1, <1>3, <2>4, <3>1 DEF Own, GoneSince
    <3> QED BY <1>1, <3>1, <3>2, <3>3, <3>4, <3>5, <3>6, <3>7 DEF Own
  <2> QED BY <1>1, <1>5, <1>6, <2>3, <2>5 DEF SInv
<1> QED BY <1>7, <1>8

LEMMA RerunKeeps ==
  ASSUME SInv, Rerun
  PROVE  SInv'
<1>1. /\ IInv' /\ IInv /\ pc' = "start" /\ phase' = "idle"
      /\ requested' = {} /\ ahead' = {} /\ names' = {}
      /\ captured' = [id \in Id |-> Missing] /\ result' = None
      /\ initiated' = {} /\ landed' = {} /\ earlier' = earlier \union landed
      /\ UNCHANGED <<plan, version, endpoint, catalog, edits, delayed>>
  BY RerunInv DEF SInv, Rerun
<1>2. /\ Ops' = Ops /\ Positions' = Positions /\ \A i : PutOf(i)' = PutOf(i)
  BY <1>1, SamePlan, SamePuts
<1>3. \A id : ~Seen(id)' /\ ~Listed(id)'
  BY <1>1 DEF Seen, Listed
<1>4. Unread' /\ Gathered' /\ AsSeen' /\ Parents' /\ Spared' /\ Sent' /\ Licensed' /\ Concluded'
  BY <1>1, <1>2
  DEF SInv, Unread, Gathered, AsSeen, Parents, Spared, Sent, Licensed, Concluded
<1>5. Owned'
  <2>1. PICK s \in Scenarios : plan = s.plan /\ version = s.plan.version /\ Own(s.catalog)
    BY DEF SInv, Owned
  <2>2. Own(s.catalog)'
    BY <1>1, <1>2, <1>3, <2>1 DEF Own, KnownAs, GoneSince
  <2> QED BY <1>1, <2>1, <2>2 DEF Owned
<1> QED BY <1>1, <1>4, <1>5 DEF SInv

LEMMA InitSettled ==
  ASSUME Init
  PROVE  SInv
<1>1. PICK s \in Scenarios : plan = s.plan /\ version = s.plan.version /\ catalog = s.catalog
  BY DEF Init
<1>2. Parents
  BY <1>1, ScenarioAssumption DEF Parents
<1>3. \A id : ~Seen(id)
  BY DEF Init, Seen, Listed
<1>4. Own(s.catalog)
  BY <1>1, <1>3 DEF Init, Own, KnownAs, GoneSince
<1>5. Unread /\ Gathered /\ AsSeen /\ Spared /\ Sent /\ Licensed /\ Concluded
  BY DEF Init, Unread, Gathered, AsSeen, Spared, Sent, Licensed, Concluded
<1> QED BY <1>1, <1>2, <1>4, <1>5, InitInv DEF SInv, Owned

LEMMA StepSettled ==
  ASSUME SInv, [Next]_vars
  PROVE  SInv'
BY QuietKeeps, RefusingKeeps, CaptureKeeps, StartKeeps, PutsKeep, EditKeeps, DelayedKeeps,
   RerunKeeps, StepCases
DEF Quiet, Breaking

LEMMA SettledInvariant == Spec => []SInv
<1>1. Init => SInv
  BY InitSettled
<1>2. SInv /\ [Next]_vars => SInv'
  BY StepSettled
<1> QED BY <1>1, <1>2, PTL DEF Spec

-----------------------------------------------------------------------------
(* What it says of the capture and of the writes. *)

LEMMA SettledFacts ==
  ASSUME SInv
  PROVE  /\ Gathered /\ version \in {1, 2}
         /\ captured \in RemoteState /\ catalog \in RemoteState
         /\ plan.desired \in Configuration /\ plan.remote \in RemoteState
<1>1. IInv /\ Planned /\ Gathered
  BY DEF SInv, IInv
<1>2. version \in {1, 2}
  BY <1>1, ScenarioAssumption DEF Planned
<1> QED BY <1>1, <1>2, PlanFacts DEF IInv, Typed

(* The scans that were listed are those of a supported data source. *)
LEMMA ListedScan ==
  ASSUME SInv, NEW id \in Id, Listed(id)
  PROVE  /\ version = 2 \/ id \in DataSource
         /\ id \in Scan => Supported(Parent[id])
<1>1. ListingOf(id) \in Agenda
  BY SettledFacts DEF Gathered, Listed
<1>2. CASE id \in DataSource
  BY <1>2, IdAssumption DEF Id
<1>3. CASE id \in Scan
  <2>1. ListingOf(id) = Listing(2, Parent[id])
    BY ListingFacts, <1>3
  <2>2. /\ Listing(2, Parent[id]) # Listing(0, 0)
        /\ Listing(2, Parent[id]) # Listing(1, 0) /\ Listing(2, Parent[id]) # Listing(3, 0)
    BY DEF Listing
  <2>3. version # 1 /\ ListingOf(id) \in ScansOfSupported
    BY <1>1, <2>1, <2>2 DEF Agenda
  <2>4. \A d : Listing(2, d).parent = d
    BY DEF Listing
  <2>5. Supported(Parent[id])
    BY <2>1, <2>3, <2>4 DEF ScansOfSupported
  <2> QED BY <2>3, <2>5, SettledFacts
<1>4. CASE id \in Rule \union RuleSet
  <2>1. ListingOf(id) \in {Listing(1, 0), Listing(3, 0)} /\ id \notin Scan
    BY ListingFacts, <1>4, IdAssumption
  <2>2. Listing(1, 0) # Listing(0, 0) /\ Listing(3, 0) # Listing(0, 0)
    BY DEF Listing
  <2> QED BY <1>1, <2>1, <2>2, SettledFacts DEF Agenda
<1> QED BY <1>2, <1>3, <1>4 DEF Id

LEMMA CaptureShows ==
  ASSUME SInv, pc = "capture", phase = "captured", NEW id \in Id, id \notin late,
         ~(id \in Scan /\ Parent[id] \in late)
  PROVE  captured[id] = View(version, catalog)[id]
<1>1. /\ View(version, catalog)[id] =
           IF Visible(version, catalog, id) THEN catalog[id] ELSE Missing
      /\ Seen(id) => captured[id] = catalog[id]
      /\ ~Listed(id) => captured[id] = Missing
      /\ version \in {1, 2}
  BY SettledFacts DEF SInv, View, AsSeen, Gathered
<1>2. CASE id \notin DataSource /\ version = 1
  <2>1. ~Listed(id)
    BY <1>2, ListedScan
  <2>2. ~Visible(version, catalog, id)
    BY <1>2 DEF Visible
  <2> QED BY <1>1, <2>1, <2>2
<1>3. CASE id \in DataSource \/ (version = 2 /\ id \notin Scan)
  <2>1. Visible(version, catalog, id)
    BY <1>3, IdAssumption DEF Visible
  <2>2. Seen(id)
    BY <1>3, SettledFacts, AllSeen, IdAssumption
  <2> QED BY <1>1, <2>1, <2>2
<1>4. CASE id \in Scan /\ version = 2
  <2>1. /\ Parent[id] \in DataSource /\ Parent[id] \in Id /\ Parent[id] \notin Scan
        /\ Parent[id] \notin late
    BY <1>4, IdAssumption DEF Id
  <2>2. Seen(Parent[id])
    BY <2>1, SettledFacts, AllSeen
  <2>3. captured[Parent[id]] = catalog[Parent[id]]
    BY <2>1, <2>2 DEF SInv, AsSeen
  <2>4. Visible(version, catalog, id) <=> Supported(Parent[id])
    BY <1>4, <2>3, IdAssumption DEF Visible, Supported
  <2>5. CASE Seen(id)
    BY <1>1, <1>4, <2>4, <2>5, ListedScan DEF Seen
  <2>6. CASE ~Seen(id)
    <3>1. ~Listed(id) /\ captured[Parent[id]] \in Uninterpreted \union {Missing}
      BY <1>4, <2>6, SettledFacts, AllSeen DEF Uninterpreted
    <3>2. ~Supported(Parent[id])
      BY <3>1, MarkerAssumption DEF Supported
    <3> QED BY <1>1, <2>4, <3>1, <3>2
  <2> QED BY <2>5, <2>6
<1> QED BY <1>1, <1>2, <1>3, <1>4

(* A capture tells what the account held when each resource was looked at, for *)
(* every order of the listings, the reads and the edits of others:             *)
(* capture_remote_state and capture_remote_state_v2.                           *)
THEOREM CapturesAreViews == Spec => []CaptureIsView
<1>1. SInv => CaptureIsView
  BY CaptureShows DEF CaptureIsView
<1> QED BY <1>1, SettledInvariant, PTL

(* What is about to be overwritten is as planned, or was edited after it was *)
(* looked at.                                                                *)
LEMMA WritingIsSpared ==
  ASSUME SInv, pc = "write"
  PROVE  Writing \in late \/ catalog[Writing] = plan.remote[Writing]
<1>1. /\ IInv /\ Planned /\ ValidPlan(plan) /\ plan.eligibility = "ready"
      /\ captured = plan.remote
  BY DEF SInv, IInv, Staged, Admitted, Underway
<1>2. /\ Current \in Positions /\ Current = performed + 1 /\ performed \in Nat
      /\ Positions = 1..Last /\ Last \in Nat /\ Writing = Ops[Current].id
  BY <1>1, CurrentFacts, PlanFacts DEF Writing
<1>3. Writing \in Id /\ (version = 2 \/ Writing \in DataSource)
  BY <1>1, <1>2, ReadyPuts
<1>4. \A j \in 1..performed : j \in Positions /\ j # Current
  BY <1>2
<1>5. \A j \in 1..performed : Ops[j].id # Writing
  BY <1>1, <1>2, <1>4, ReadyPlan
<1>6. \/ Writing \in late \/ catalog[Writing] = captured[Writing]
      \/ Writing \in Scan /\ captured[Parent[Writing]] \in ForeignKind
  BY <1>3, <1>5 DEF SInv, Spared
<1>7. Writing \in Scan => captured[Parent[Writing]] \notin ForeignKind
  <2> SUFFICES ASSUME Writing \in Scan PROVE captured[Parent[Writing]] \notin ForeignKind
    OBVIOUS
  <2>1. Parent[Writing] \in Id /\ Parent[Writing] \in DataSource
    BY IdAssumption DEF Id
  <2>2. plan.remote[Parent[Writing]] \notin Uninterpreted
    BY <1>1, <2>1, NothingForeign
  <2> QED BY <1>1, <2>2 DEF Uninterpreted
<1> QED BY <1>1, <1>6, <1>7

(* A full replacement of _apply_intents_v1 and _v2 loses only edits made after  *)
(* the capture looked at the resource: what it overwrites is otherwise what the *)
(* plan was made from.                                                          *)
THEOREM OverwritesAreLate == Spec => OverwritesOnlyLateEdits
<1>1. SInv /\ [Next]_vars =>
        [StoresNow => Writing \in late \/ catalog[Writing] = plan.remote[Writing]]_vars
  BY WritingIsSpared DEF StoresNow
<1> QED BY <1>1, SettledInvariant, PTL DEF Spec, OverwritesOnlyLateEdits

(* Without edits of others, a plan executed again after any of its operations *)
(* took effect is stale, whatever ended the executions before it: no PUT is   *)
(* sent twice.                                                                *)
THEOREM RetriesWriteNothing == Spec => []RetryNeverRewrites
<1>1. SInv => RetryNeverRewrites
  BY DEF SInv, Owned, Own, RetryNeverRewrites
<1> QED BY <1>1, SettledInvariant, PTL

-----------------------------------------------------------------------------
(* The account after an applied result. *)

Applied == result # None /\ result.status = "applied" /\ edits = 0
Untouched(id) == \A i \in Positions : Ops[i].id # id

LEMMA AppliedFacts ==
  ASSUME SInv, Applied
  PROVE  /\ IInv /\ Planned /\ ValidPlan(plan) /\ plan.eligibility = "ready"
         /\ landed = Positions /\ phase = "captured" /\ captured = plan.remote
         /\ \A i \in Positions : catalog[Ops[i].id] = PutOf(i)
BY DEF SInv, Applied, Concluded, IInv, Owned, Own

LEMMA UntouchedIsPlanned ==
  ASSUME SInv, Applied, NEW id \in Id, Untouched(id), Seen(id)
  PROVE  catalog[id] = plan.remote[id]
<1>1. PICK s \in Scenarios : Own(s.catalog)
  BY DEF SInv, Owned
<1>2. catalog[id] = s.catalog[id] /\ captured[id] = s.catalog[id]
  BY <1>1 DEF Own, Applied, KnownAs, Untouched
<1> QED BY <1>2, AppliedFacts

(* A data source that is there is one the tool supports. *)
LEMMA SupportedAfter ==
  ASSUME SInv, Applied, NEW d \in DataSource, catalog[d] # Missing
  PROVE  catalog[d] \in Interpreted
<1>1. d \in Id /\ d \notin Scan
  BY IdAssumption DEF Id
<1>2. CASE Untouched(d)
  <2>1. Seen(d)
    BY <1>1, AppliedFacts, SettledFacts, AllSeen
  <2>2. catalog[d] = plan.remote[d]
    BY <1>1, <1>2, <2>1, UntouchedIsPlanned
  <2>3. plan.remote[d] \notin Uninterpreted
    BY <1>1, AppliedFacts, NothingForeign
  <2> QED BY <1>1, <2>2, <2>3, SettledFacts DEF RemoteState
<1>3. CASE ~Untouched(d)
  <2>1. PICK i \in Positions : Ops[i].id = d
    BY <1>3 DEF Untouched
  <2> QED BY <2>1, AppliedFacts, ReadyPuts
<1> QED BY <1>2, <1>3

(* What was written is as wanted, and a capture sees it. *)
LEMMA WrittenIsWanted ==
  ASSUME SInv, Applied, NEW i \in Positions
  PROVE  /\ Ops[i].id \in Id
         /\ View(version, catalog)[Ops[i].id] = Stored(plan.desired[Ops[i].id])
         /\ plan.desired[Ops[i].id] \in Desired
<1> DEFINE id == Ops[i].id
<1>1. /\ id \in Id /\ (version = 2 \/ id \in DataSource) /\ PutOf(i) # Missing
      /\ catalog[id] = PutOf(i) /\ PutOf(i) = Stored(plan.desired[id])
  BY AppliedFacts, ReadyPuts DEF PutOf, Want
<1>2. plan.desired[id] \in Desired
  <2>1. plan.desired[id] # Absent
    BY AppliedFacts, ReadyPlan DEF Want
  <2> QED BY <1>1, <2>1, SettledFacts DEF Configuration
<1>3. Visible(version, catalog, id)
  <2>1. CASE id \in Scan
    <3>1. Parent[id] \in DataSource /\ catalog[Parent[id]] # Missing
      BY <1>1, <2>1, IdAssumption DEF SInv, Parents
    <3>2. catalog[Parent[id]] \in Interpreted /\ version = 2 /\ id \notin DataSource
      BY <1>1, <2>1, <3>1, SupportedAfter, IdAssumption
    <3> QED BY <2>1, <3>2 DEF Visible
  <2>2. CASE id \notin Scan
    BY <1>1, <2>2 DEF Visible
  <2> QED BY <2>1, <2>2
<1>4. View(version, catalog)[id] = catalog[id]
  BY <1>1, <1>3 DEF View
<1> QED BY <1>1, <1>2, <1>4

(* What was not written is as it was captured. *)
LEMMA UntouchedIsSeen ==
  ASSUME SInv, Applied, NEW id \in Id, Untouched(id), version = 2 \/ id \in DataSource
  PROVE  View(version, catalog)[id] = plan.remote[id]
<1>1. View(version, catalog)[id] = IF Visible(version, catalog, id) THEN catalog[id] ELSE Missing
  BY DEF View
<1>2. CASE Seen(id)
  <2>1. catalog[id] = plan.remote[id]
    BY <1>2, UntouchedIsPlanned
  <2>2. CASE id \in Scan
    <3>1. Supported(Parent[id]) /\ Parent[id] \in DataSource /\ Parent[id] \in Id
          /\ Parent[id] \notin Scan
      BY <1>2, <2>2, ListedScan, IdAssumption DEF Seen, Id
    <3>2. plan.remote[Parent[id]] \in Interpreted
      BY <3>1, AppliedFacts DEF Supported
    <3>3. catalog[Parent[id]] # Missing
      <4>1. CASE Untouched(Parent[id])
        <5>1. Seen(Parent[id])
          BY <3>1, AppliedFacts, SettledFacts, AllSeen
        <5>2. catalog[Parent[id]] = plan.remote[Parent[id]]
          BY <3>1, <4>1, <5>1, UntouchedIsPlanned
        <5> QED BY <3>2, <5>2, MarkerAssumption
      <4>2. CASE ~Untouched(Parent[id])
        <5>1. PICK i \in Positions : Ops[i].id = Parent[id]
          BY <4>2 DEF Untouched
        <5> QED BY <5>1, AppliedFacts, ReadyPuts
      <4> QED BY <4>1, <4>2
    <3>4. catalog[Parent[id]] \in Interpreted
      BY <3>1, <3>3, SupportedAfter
    <3>5. Visible(version, catalog, id)
      BY <2>2, <3>4, IdAssumption DEF Visible
    <3> QED BY <1>1, <2>1, <3>5
  <2>3. CASE id \notin Scan
    <3>1. Visible(version, catalog, id)
      BY <2>3 DEF Visible
    <3> QED BY <1>1, <2>1, <3>1
  <2> QED BY <2>2, <2>3
<1>3. CASE ~Seen(id)
  <2>1. /\ id \in Scan /\ ~Listed(id) /\ Parent[id] \in Id /\ Parent[id] \in DataSource
        /\ Seen(Parent[id]) /\ captured[Parent[id]] \in Uninterpreted \union {Missing}
    BY <1>3, AppliedFacts, SettledFacts, AllSeen DEF Uninterpreted
  <2>2. captured[Parent[id]] = Missing
    BY <2>1, AppliedFacts, NothingForeign
  <2>3. plan.remote[id] = Missing
    BY <2>1, AppliedFacts, SettledFacts DEF Gathered
  <2>4. PICK s \in Scenarios : Own(s.catalog)
    BY DEF SInv, Owned
  <2>5. \A i \in Positions : Ops[i].id = Parent[id] => PutOf(i) # Missing
    BY AppliedFacts, ReadyPuts
  <2>6. s.catalog[Parent[id]] = Missing
    BY <2>1, <2>2, <2>4, <2>5 DEF Own, Applied, KnownAs
  <2>7. catalog[id] = Missing
    <3>1. s.catalog[id] = Missing
      BY <2>1, <2>6, ScenarioAssumption
    <3>2. catalog[id] = s.catalog[id]
      BY <2>4 DEF Own, Applied, KnownAs, Untouched
    <3> QED BY <3>1, <3>2
  <2> QED BY <1>1, <2>3, <2>7
<1> QED BY <1>2, <1>3

LEMMA NothingLeft ==
  ASSUME SInv, Applied, NEW id \in Id
  PROVE  ChangeSet(version, plan.desired, View(version, catalog))[id].outcome
           \in {"no-op", "remote-only", "none"}
<1> DEFINE d == plan.desired[id]
           seen == View(version, catalog)[id]
<1>1. version \in {1, 2} /\ d \in Desired \union {Absent} /\ plan.remote[id] \in Remote
  BY SettledFacts DEF Configuration, RemoteState, Remote
<1>2. ChangeSet(version, plan.desired, View(version, catalog))[id]
        = IF version = 2 \/ id \in DataSource THEN Diff(id, d, seen) ELSE Item("none", {})
  BY <1>1, ItemOf
<1>3. CASE ~(version = 2 \/ id \in DataSource)
  BY <1>2, <1>3 DEF Item
<1>4. CASE (version = 2 \/ id \in DataSource) /\ ~Untouched(id)
  <2>1. PICK i \in Positions : Ops[i].id = id
    BY <1>4 DEF Untouched
  <2>2. seen = Stored(d) /\ d \in Desired
    BY <2>1, WrittenIsWanted
  <2>3. seen \in Remote /\ d # Absent
    BY <2>2, StoredType, MarkerAssumption DEF Remote
  <2>4. Diff(id, d, seen).outcome = "no-op"
    BY <1>1, <2>2, <2>3, DiffOutcome
  <2> QED BY <1>2, <1>4, <2>4
<1>5. CASE (version = 2 \/ id \in DataSource) /\ Untouched(id)
  <2>1. seen = plan.remote[id]
    BY <1>5, UntouchedIsSeen
  <2>2. /\ plan.items = ChangeSet(version, plan.desired, plan.remote)
        /\ plan.items[id].outcome # "blocked" /\ id \notin ActingIds(plan.items)
    BY <1>5, AppliedFacts, ReadyPlan DEF Untouched
  <2>3. Diff(id, d, seen).outcome \notin Acting \union {"blocked"}
    BY <1>1, <1>5, <2>1, <2>2, ItemOf DEF ActingIds
  <2>4. Diff(id, d, seen).outcome \in Outcome
    BY <1>1, <2>1, DiffOutcome
  <2> QED BY <1>2, <1>5, <2>3, <2>4 DEF Outcome
<1> QED BY <1>3, <1>4, <1>5

(* Without edits of others, the account after an applied result is what was   *)
(* asked for: a plan made from it anew has no operation and blocks nothing.   *)
(* Every PUT stores the whole resource diff_desired_vs_remote compares, and   *)
(* an execution that did not finish leaves nothing that undoes it later.      *)
THEOREM AppliedIsWanted == Spec => []AppliedMeansDesired
<1>1. SInv => AppliedMeansDesired
  BY NothingLeft DEF AppliedMeansDesired, Applied
<1> QED BY <1>1, SettledInvariant, PTL
=============================================================================
