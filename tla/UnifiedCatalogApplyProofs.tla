---------------------- MODULE UnifiedCatalogApplyProofs ----------------------
(***************************************************************************)
(* Theorems about the v3 executor, for every catalog, plan and bound: when *)
(* it writes, what it writes, what repeated executions leave, that every   *)
(* document it builds passes its own validation and tells the truth, and   *)
(* that the executor implements ApplyLedger.                               *)
(***************************************************************************)
EXTENDS UnifiedCatalogApply, FiniteSetTheorems, SequenceTheorems, TLAPS

-----------------------------------------------------------------------------
(* The inductive invariant: what every stage of an execution may rely on. *)

Reading == {"start", "capture", "preflight"}
Applying == {"check", "write", "verify"}

(* No write leaves before the apply stage. *)
NothingWritten ==
  pc \in Reading =>
    performed = 0 /\ outcome = AllNotRun /\ initiated = {} /\ landed = {} /\ result = None

Admitted ==
  pc \in {"capture", "preflight"} \union Applying =>
    PlanReady /\ Paired /\ client.target = plan.target

Accepted == pc \in {"preflight"} \union Applying => Observed = plan.remote

Recorded ==
  \A i \in Positions :
    i <= checked /\ Ops[i].action = "replace" => records[i] \in Resource

Underway ==
  pc \in Applying =>
    /\ mode = "apply" /\ checked = Last /\ performed < Last /\ result = None
    /\ outcome = [i \in Positions |-> IF i <= performed THEN "succeeded" ELSE "not-run"]

Prefix ==
  /\ \/ initiated = 1..performed /\ pc # "verify"
     \/ initiated = 1..Current /\ pc \in Final \union {"verify"}
  /\ 1..performed \subseteq landed /\ landed \subseteq initiated
  /\ pc = "verify" => Current \in landed

(* A write of this run can still be on its way only when the run has ended. *)
Late ==
  \A w \in delayed :
    /\ w.run <= runs
    /\ w.run = runs => pc \in Final /\ w.index \in initiated

StageInv ==
  /\ NothingWritten /\ Admitted /\ Accepted /\ Recorded /\ Underway /\ Prefix /\ Late
  /\ WritesOnlyAfterFullPreflight

IInv == TypeOK /\ StageInv

-----------------------------------------------------------------------------
(* What the types of the inputs say of the plan. *)

LEMMA JobFacts ==
  ASSUME TypeOK
  PROVE  /\ Last \in Nat /\ Positions = 1..Last
         /\ \A i \in Positions : Ops[i] \in Operation /\ Ops[i].id \in Id
         /\ \A id \in Id : Want(id) \in Desired
         /\ plan.target \in Target /\ plan.remote \in Material
         /\ client.target \in Target /\ client.endpoint \in Target
         /\ Observed \in Material
         /\ AllNotRun \in [Positions -> OperationStatus]
<1>1. job.plan \in Plan /\ job.client \in Client
  BY DEF TypeOK, Job
<1>2. Ops \in Seq(Operation)
  BY <1>1 DEF Ops, plan, Plan
<1>3. Last \in Nat /\ Positions = 1..Last /\ \A i \in Positions : Ops[i] \in Operation
  BY <1>2 DEF Last, Positions
<1>4. \A i \in Positions : Ops[i].id \in Id
  BY <1>3 DEF Operation
<1>5. \A id \in Id : Want(id) \in Desired
  BY <1>1 DEF Want, plan, Plan
<1>6. plan.target \in Target /\ plan.remote \in Material
  BY <1>1 DEF plan, Plan
<1>7. client.target \in Target /\ client.endpoint \in Target
  BY <1>1 DEF client, Client
<1>8. Observed \in Material
  BY <1>7 DEF TypeOK, Observed, Material
<1>9. AllNotRun \in [Positions -> OperationStatus]
  BY DEF AllNotRun, OperationStatus
<1>10. QED
  BY <1>3, <1>4, <1>5, <1>6, <1>7, <1>8, <1>9

(* The inputs of an execution never change. *)
LEMMA SameJob ==
  ASSUME job' = job
  PROVE  /\ plan' = plan /\ client' = client /\ artifact' = artifact
         /\ Ops' = Ops /\ Last' = Last /\ Positions' = Positions
         /\ AllNotRun' = AllNotRun /\ NoRecords' = NoRecords
         /\ Documents' = Documents /\ DelayedWrite' = DelayedWrite
BY DEF plan, client, artifact, Ops, Last, Positions, AllNotRun, NoRecords, Documents,
       DelayedWrite

(* A document built from typed parts is typed, and reporting it keeps the types. *)
LEMMA ReportType ==
  ASSUME TypeOK, NEW status \in Status, NEW code \in Code \union {None},
         NEW target \in Target \union {None}, NEW observed \in Material \union {None},
         NEW confirmed \in Nat, NEW attempted \in Nat, NEW unknown \in Nat,
         NEW ops \in [Positions -> OperationStatus],
         Report(Document(status, code, target, observed, confirmed, attempted, unknown, ops))
  PROVE  result' \in Documents \union {None} /\ pc' \in Place
<1>1. plan.target \in Target /\ plan.remote \in Material
  BY JobFacts
<1>2. mode \in Mode
  BY DEF TypeOK
<1>3. Document(status, code, target, observed, confirmed, attempted, unknown, ops) \in Documents
  BY <1>1, <1>2 DEF Document, Documents
<1>4. QED
  BY <1>3 DEF Report, Place, Final

LEMMA RefuseType ==
  ASSUME TypeOK, NEW status \in UntouchedStatus, NEW code \in Code \union {None},
         NEW target \in Target \union {None}, NEW observed \in Material \union {None},
         Refuse(status, code, target, observed)
  PROVE  TypeOK'
<1>1. AllNotRun \in [Positions -> OperationStatus]
  BY JobFacts
<1>2. result' \in Documents \union {None} /\ pc' \in Place
  BY <1>1, ReportType DEF Refuse, Status
<1>3. UNCHANGED <<inputVars, serviceVars, environmentVars, captureVars, preflightVars,
                  applyVars, historyVars>>
  BY DEF Refuse
<1>4. job' = job
  BY <1>3 DEF inputVars
<1>5. QED
  BY <1>2, <1>3, <1>4, SameJob
  DEF TypeOK, inputVars, serviceVars, environmentVars, captureVars, preflightVars, applyVars,
      historyVars

LEMMA FailBeforeWriteType ==
  ASSUME TypeOK, NEW code \in Code, FailBeforeWrite(code)
  PROVE  TypeOK'
BY RefuseType, JobFacts DEF FailBeforeWrite, UntouchedStatus

-----------------------------------------------------------------------------
(* Payloads are resources. *)

LEMMA PayloadType ==
  ASSUME TypeOK, NEW i \in Positions,
         Ops[i].action = "replace" => records[i] \in Resource
  PROVE  Payload(i) \in Resource
<1>1. Ops[i] \in Operation /\ Ops[i].id \in Id
  BY JobFacts
<1>2. Want(Ops[i].id) \in Desired
  BY <1>1, JobFacts
<1>3. CASE Ops[i].action = "create"
  BY <1>2, <1>3, ValueAssumption DEF Payload, CreatePayload, SoftOver, Desired, Resource
<1>4. CASE Ops[i].action = "replace"
  <2>1. records[i] \in Resource
    BY <1>4
  <2>2. ReplacePayload(i, Ops[i].id) \in Resource
    BY <1>2, <2>1, ValueAssumption DEF ReplacePayload, SoftOver, Desired, Resource, Link
  <2>3. QED
    BY <1>4, <2>2 DEF Payload
<1>5. QED
  BY <1>1, <1>3, <1>4 DEF Operation

(* Storing a payload gives a catalog. *)
LEMMA StoredType ==
  ASSUME TypeOK, NEW i \in Positions, NEW payload \in Resource
  PROVE  Stored(i, payload) \in Catalog
BY JobFacts DEF TypeOK, Stored, Catalog

-----------------------------------------------------------------------------
(* Type correctness, one stage of the executor at a time. *)

LEMMA AdmissionType ==
  ASSUME TypeOK, Admission
  PROVE  TypeOK'
<1>0. plan.target \in Target /\ client.target \in Target
  BY JobFacts
<1>1. CASE RejectPlan \/ Admit
  <2>1. job' = job /\ pc' \in Place
    BY <1>1 DEF RejectPlan, Admit, inputVars, Place, Final
  <2>2. QED
    BY <1>1, <2>1, SameJob
    DEF RejectPlan, Admit, TypeOK, inputVars, serviceVars, environmentVars, captureVars,
        preflightVars, applyVars, historyVars
<1>2. CASE RefuseBlocked
  BY <1>2, RefuseType DEF RefuseBlocked, UntouchedStatus,
     Code, BeforeWriteCode
<1>3. CASE RefuseArtifact
  BY <1>0, <1>3, RefuseType DEF RefuseArtifact, UntouchedStatus,
     Code, BeforeWriteCode
<1>4. CASE RefuseUnbound
  BY <1>4, RefuseType DEF RefuseUnbound, UntouchedStatus,
     Code, BeforeWriteCode
<1>5. CASE RefuseWrongTarget
  BY <1>0, <1>5, RefuseType DEF RefuseWrongTarget, UntouchedStatus,
     Code, BeforeWriteCode
<1>6. QED
  BY <1>1, <1>2, <1>3, <1>4, <1>5 DEF Admission

(* A step of a listing reads one resource, or ends the listing. *)
LEMMA EnumerateFacts ==
  ASSUME TypeOK, Enumerate
  PROVE  /\ pc = "capture" /\ pc' = pc
         /\ UNCHANGED <<inputVars, serviceVars, environmentVars, preflightVars, applyVars,
                        result, historyVars>>
         /\ fresh' \in Capture /\ captured' \subseteq Type
         /\ \A id \in Id : fresh'[id] \in {fresh[id], catalog[id]}
<1>1. fresh \in Capture /\ catalog \in Catalog /\ captured \subseteq Type
  BY DEF TypeOK
<1>2. ASSUME NEW id \in Id, ReadListed(id)
      PROVE  /\ fresh' \in Capture
             /\ \A other \in Id : fresh'[other] \in {fresh[other], catalog[other]}
  BY <1>1, <1>2 DEF ReadListed, Capture, Catalog
<1> QED BY <1>1, <1>2 DEF Enumerate, ReadListed, EndListing, Listing

LEMMA FreshCaptureType ==
  ASSUME TypeOK, FreshCapture
  PROVE  TypeOK'
<1>1. CASE Enumerate
  <2>1. job' = job
    BY <1>1, EnumerateFacts DEF inputVars
  <2>2. fresh' \in Capture /\ captured' \subseteq Type
    BY <1>1, EnumerateFacts
  <2>3. QED
    BY <1>1, <2>1, <2>2, SameJob, EnumerateFacts
    DEF TypeOK, inputVars, serviceVars, environmentVars, preflightVars, applyVars,
        historyVars
<1>2. CASE CaptureFails
  BY <1>2, FailBeforeWriteType DEF CaptureFails, Code, BeforeWriteCode
<1>3. CASE DetectStale
  BY <1>3, JobFacts, RefuseType DEF DetectStale, UntouchedStatus,
     Code, BeforeWriteCode
<1>4. CASE AcceptCapture
  <2>1. job' = job /\ pc' \in Place
    BY <1>4 DEF AcceptCapture, inputVars, Place
  <2>2. QED
    BY <1>4, <2>1, SameJob
    DEF AcceptCapture, TypeOK, inputVars, serviceVars, environmentVars, captureVars,
        preflightVars, applyVars, historyVars
<1>5. QED
  BY <1>1, <1>2, <1>3, <1>4 DEF FreshCapture

LEMMA PreflightType ==
  ASSUME TypeOK, Preflight
  PROVE  TypeOK'
<1>1. CASE PreflightUnsupported
  BY <1>1, FailBeforeWriteType DEF PreflightUnsupported, Code, BeforeWriteCode
<1>2. CASE PreflightReadFails
  BY <1>2, FailBeforeWriteType DEF PreflightReadFails, Code, BeforeWriteCode
<1>3. CASE PreflightDisagrees
  BY <1>3, FailBeforeWriteType DEF PreflightDisagrees, Code, BeforeWriteCode
<1>4. CASE PreflightPasses
  <2>1. job' = job /\ pc' \in Place
    BY <1>4 DEF PreflightPasses, TypeOK, inputVars
  <2>2. checked \in 0..Last /\ checked < Last /\ Last \in Nat
    BY <1>4, JobFacts DEF PreflightPasses, Preflighting, TypeOK
  <2>3. checked + 1 \in Positions
    BY <2>2, JobFacts
  <2>4. catalog[Checking.id] \in Resource \union {Missing}
    BY <2>3, JobFacts DEF Checking, TypeOK, Catalog
  <2>5. checked' \in 0..Last
    BY <1>4, <2>2 DEF PreflightPasses
  <2>6. records \in [Positions -> Resource \union {Missing}]
    BY DEF TypeOK
  <2>7. records' \in [Positions -> Resource \union {Missing}]
    BY <1>4, <2>3, <2>4, <2>6 DEF PreflightPasses
  <2>8. QED
    BY <1>4, <2>1, <2>5, <2>7, SameJob
    DEF PreflightPasses, TypeOK, inputVars, serviceVars, environmentVars, captureVars,
        applyVars, historyVars
<1>5. CASE MaterializeFails
  BY <1>5, FailBeforeWriteType DEF MaterializeFails, Code, BeforeWriteCode
<1>6. CASE DryRunReady
  BY <1>6, JobFacts, RefuseType DEF DryRunReady, UntouchedStatus
<1>7. QED
  BY <1>1, <1>2, <1>3, <1>4, <1>5, <1>6 DEF Preflight

(* While operations are applied there is a current one. *)
LEMMA CurrentFacts ==
  ASSUME IInv, pc \in Applying
  PROVE  /\ performed \in Nat /\ Current \in Nat /\ Current = performed + 1
         /\ Current \in Positions /\ Writing.id \in Id
         /\ Payload(Current) \in Resource
         /\ catalog[Writing.id] \in Resource \union {Missing}
<1>1. TypeOK /\ Underway /\ Recorded
  BY DEF IInv, StageInv
<1>2. performed \in 0..Last /\ performed < Last /\ checked = Last /\ Last \in Nat
  BY <1>1, JobFacts DEF TypeOK, Underway
<1>3. Current \in Positions /\ performed \in Nat /\ Current \in Nat /\ Current <= checked
  BY <1>1, <1>2, JobFacts DEF Current
<1>4. Writing.id \in Id
  BY <1>1, <1>3, JobFacts DEF Writing
<1>5. Ops[Current].action = "replace" => records[Current] \in Resource
  BY <1>1, <1>3 DEF Recorded
<1>6. Payload(Current) \in Resource
  BY <1>1, <1>3, <1>5, PayloadType
<1>7. catalog[Writing.id] \in Resource \union {Missing}
  BY <1>1, <1>4 DEF TypeOK, Catalog
<1>8. QED
  BY <1>3, <1>4, <1>6, <1>7 DEF Current

(* Marking the current operation keeps the outcomes typed. *)
LEMMA OutcomeType ==
  ASSUME IInv, pc \in Applying, NEW status \in OperationStatus
  PROVE  [outcome EXCEPT ![Current] = status] \in [Positions -> OperationStatus]
BY CurrentFacts DEF IInv, TypeOK

LEMMA StopAtCheckType ==
  ASSUME IInv, pc = "check", NEW before \in BeforeWriteCode, NEW after \in PartialCode,
         StopAtCheck(before, after)
  PROVE  TypeOK'
<1>1. TypeOK
  BY DEF IInv
<1>2. performed \in Nat /\ outcome \in [Positions -> OperationStatus]
  BY <1>1, CurrentFacts DEF Applying, TypeOK
<1>3. result' \in Documents \union {None} /\ pc' \in Place
  BY <1>1, <1>2, JobFacts, ReportType
  DEF StopAtCheck, Conclude, Status, UntouchedStatus, Code
<1>4. job' = job
  BY DEF StopAtCheck, inputVars
<1>5. QED
  BY <1>1, <1>3, <1>4, SameJob
  DEF TypeOK, StopAtCheck, inputVars, serviceVars, environmentVars, captureVars,
      preflightVars, applyVars, historyVars

LEMMA EndAtWriteType ==
  ASSUME IInv, pc \in Applying, NEW class \in {"failed_auth", "failed_rejected", "unknown"},
         EndAtWrite(class)
  PROVE  /\ result' \in Documents \union {None} /\ pc' \in Place
         /\ outcome' \in [Positions -> OperationStatus] /\ performed' = performed
<1>1. TypeOK /\ performed \in Nat /\ Current \in Nat
  BY CurrentFacts DEF IInv
<1>2. outcome' \in [Positions -> OperationStatus]
  BY OutcomeType DEF EndAtWrite, OperationStatus
<1>3. result' \in Documents \union {None} /\ pc' \in Place
  BY <1>1, <1>2, JobFacts, ReportType DEF EndAtWrite, Conclude, Status, Code, WriteCode
<1>4. QED
  BY <1>2, <1>3 DEF EndAtWrite

LEMMA ApplyIntentsType ==
  ASSUME IInv, ApplyIntents
  PROVE  TypeOK'
<1>0. TypeOK
  BY DEF IInv
<1>1. CASE Start
  <2>1. job' = job
    BY <1>1 DEF Start, inputVars
  <2>2. result' \in Documents \union {None} /\ pc' \in Place
    <3>1. CASE Last = 0
      BY <1>0, <1>1, <3>1, JobFacts, ReportType DEF Start, Conclude, Status, TypeOK
    <3>2. CASE Last # 0
      BY <1>0, <1>1, <3>2 DEF Start, TypeOK, Place, Final
    <3>3. QED
      BY <3>1, <3>2
  <2>3. QED
    BY <1>0, <1>1, <2>1, <2>2, SameJob
    DEF Start, TypeOK, inputVars, serviceVars, environmentVars, captureVars, preflightVars,
        applyVars, historyVars
<1>2. CASE CheckPasses
  <2>1. job' = job /\ seen' \in Resource \union {Missing} /\ pc' \in Place
    BY <1>2, CurrentFacts DEF CheckPasses, inputVars, Place, Applying
  <2>2. QED
    BY <1>0, <1>2, <2>1, SameJob
    DEF CheckPasses, TypeOK, inputVars, serviceVars, environmentVars, captureVars,
        preflightVars, historyVars
<1>3. CASE CheckDisagrees
  BY <1>3, StopAtCheckType DEF CheckDisagrees, BeforeWriteCode, PartialCode
<1>4. CASE CheckUnauthorized
  BY <1>4, StopAtCheckType DEF CheckUnauthorized, BeforeWriteCode, PartialCode
<1>5. CASE CheckReadFails
  BY <1>5, StopAtCheckType DEF CheckReadFails, BeforeWriteCode, PartialCode
<1>6. CASE WriteConfirmed
  <2>1. job' = job /\ pc' \in Place
    BY <1>6 DEF WriteConfirmed, inputVars, Place
  <2>2. Current \in Positions /\ Payload(Current) \in Resource
    BY <1>6, CurrentFacts DEF WriteConfirmed, Applying
  <2>3. catalog' \in Catalog
    BY <1>0, <1>6, <2>2, StoredType DEF WriteConfirmed
  <2>4. QED
    BY <1>0, <1>6, <2>1, <2>2, <2>3, SameJob
    DEF WriteConfirmed, TypeOK, inputVars, environmentVars, captureVars, preflightVars,
        applyVars
<1>7. CASE WriteRefused
  <2>1. pc \in Applying /\ job' = job /\ Current \in Positions
    BY <1>7, CurrentFacts DEF WriteRefused, Applying, inputVars
  <2>2. PICK answer \in {"no token", "401/403", "other 4xx"} :
          response' = answer /\ EndAtWrite(Classify(answer))
    BY <1>7 DEF WriteRefused
  <2>3. Classify(answer) \in {"failed_auth", "failed_rejected", "unknown"}
    BY <2>2 DEF Classify
  <2>4. /\ result' \in Documents \union {None} /\ pc' \in Place
        /\ outcome' \in [Positions -> OperationStatus] /\ performed' = performed
    BY <2>1, <2>2, <2>3, EndAtWriteType
  <2>5. QED
    BY <1>0, <1>7, <2>1, <2>2, <2>4, SameJob
    DEF WriteRefused, TypeOK, inputVars, serviceVars, environmentVars, captureVars,
        preflightVars
<1>8. CASE WriteUnanswered
  <2>1. pc \in Applying /\ job' = job /\ Current \in Positions /\ Payload(Current) \in Resource
    BY <1>8, CurrentFacts DEF WriteUnanswered, Applying, inputVars
  <2>2. EndAtWrite("unknown")
    BY <1>8 DEF WriteUnanswered, Classify
  <2>3. /\ result' \in Documents \union {None} /\ pc' \in Place
        /\ outcome' \in [Positions -> OperationStatus] /\ performed' = performed
    BY <2>1, <2>2, EndAtWriteType
  <2>4. Stored(Current, Payload(Current)) \in Catalog
    BY <1>0, <2>1, StoredType
  <2>5. [run |-> runs, index |-> Current, payload |-> Payload(Current)] \in DelayedWrite
    BY <1>0, <2>1 DEF DelayedWrite, TypeOK
  <2>6. catalog' \in Catalog /\ delayed' \subseteq DelayedWrite /\ landed' \subseteq Positions
    BY <1>0, <1>8, <2>1, <2>4, <2>5 DEF WriteUnanswered, TypeOK
  <2>7. QED
    BY <1>0, <1>8, <2>1, <2>3, <2>6, SameJob
    DEF WriteUnanswered, TypeOK, inputVars, environmentVars, captureVars, preflightVars
<1>9. CASE VerifySucceeds
  <2>1. pc \in Applying /\ job' = job /\ Current \in Positions /\ Current \in Nat
    BY <1>9, CurrentFacts DEF VerifySucceeds, Applying, inputVars
  <2>2. outcome' \in [Positions -> OperationStatus]
    BY <1>9, <2>1, OutcomeType DEF VerifySucceeds, OperationStatus
  <2>3. performed' \in 0..Last
    BY <1>0, <1>9, <2>1, JobFacts DEF VerifySucceeds
  <2>4. result' \in Documents \union {None} /\ pc' \in Place
    <3>1. CASE Current = Last
      BY <1>0, <1>9, <2>1, <2>2, <3>1, JobFacts, ReportType
      DEF VerifySucceeds, Conclude, Status
    <3>2. CASE Current # Last
      BY <1>0, <1>9, <3>2 DEF VerifySucceeds, TypeOK, Place, Final
    <3>3. QED
      BY <3>1, <3>2
  <2>5. QED
    BY <1>0, <1>9, <2>1, <2>2, <2>3, <2>4, SameJob
    DEF VerifySucceeds, TypeOK, inputVars, serviceVars, environmentVars, captureVars,
        preflightVars, historyVars
<1>10. CASE VerifyFails
  <2>1. job' = job /\ EndAtWrite("unknown") /\ pc \in Applying
    BY <1>10 DEF VerifyFails, inputVars, Applying
  <2>2. /\ result' \in Documents \union {None} /\ pc' \in Place
        /\ outcome' \in [Positions -> OperationStatus] /\ performed' = performed
    BY <2>1, EndAtWriteType
  <2>3. QED
    BY <1>0, <1>10, <2>1, <2>2, SameJob
    DEF VerifyFails, TypeOK, inputVars, serviceVars, environmentVars, captureVars,
        preflightVars, historyVars
<1>11. QED
  BY <1>1, <1>2, <1>3, <1>4, <1>5, <1>6, <1>7, <1>8, <1>9, <1>10 DEF ApplyIntents

(* The process is killed, or an exception leaves the executor. *)
Interrupted == Crash \/ NormaliserRaises

LEMMA InterruptedFacts ==
  ASSUME Interrupted
  PROVE  /\ pc \notin Final /\ pc' \in {"crashed", "escaped"} /\ pc' \in Final
         /\ UNCHANGED <<inputVars, serviceVars, environmentVars, captureVars, preflightVars,
                        applyVars, result, historyVars>>
BY DEF Interrupted, Crash, NormaliserRaises, Preflighting, Final

LEMMA EnvironmentType ==
  ASSUME TypeOK, Environment \/ NormaliserRaises
  PROVE  TypeOK'
<1>1. ASSUME NEW w \in delayed, DelayedArrives(w)
      PROVE  TypeOK'
  <2>1. job' = job /\ w \in DelayedWrite
    BY <1>1 DEF DelayedArrives, TypeOK, inputVars
  <2>2. w.index \in Positions /\ w.payload \in Resource
    BY <2>1 DEF DelayedWrite
  <2>3. Stored(w.index, w.payload) \in Catalog
    BY <2>2, StoredType
  <2>4. catalog' \in Catalog /\ landed' \subseteq Positions
    BY <1>1, <2>2, <2>3 DEF DelayedArrives, TypeOK
  <2>5. delayed' \subseteq DelayedWrite
    BY <1>1 DEF DelayedArrives, TypeOK
  <2>6. QED
    BY <1>1, <2>1, <2>4, <2>5, SameJob
    DEF DelayedArrives, TypeOK, inputVars, environmentVars, captureVars, preflightVars,
        applyVars
<1>2. ASSUME NEW w \in delayed, DelayedLost(w)
      PROVE  TypeOK'
  BY <1>2, SameJob
  DEF DelayedLost, TypeOK, inputVars, environmentVars, captureVars, preflightVars,
      applyVars, historyVars
<1>3. ASSUME NEW id \in Id, Edit(id)
      PROVE  TypeOK'
  <2>1. PICK r \in Edited(id) \ {catalog[id]} : catalog' = [catalog EXCEPT ![id] = r]
    BY <1>3 DEF Edit
  <2>2. Links(id) \subseteq Link
    BY <1>3 DEF Links, Link, Id
  <2>3. catalog[id] \in Resource \/ ~Exists(id)
    BY <1>3 DEF TypeOK, Catalog, Exists
  <2>4. r \in Resource \union {Missing}
    BY <2>1, <2>2, <2>3, ValueAssumption DEF Edited, Resource
  <2>5. catalog' \in Catalog
    BY <2>1, <2>4 DEF TypeOK, Catalog
  <2>6. job' = job
    BY <1>3 DEF Edit, inputVars
  <2>7. edits' \in Nat /\ delayed' = delayed
    <3>1. edits \in Nat
      BY DEF TypeOK
    <3>2. QED
      BY <1>3, <3>1 DEF Edit
  <2>8. QED
    BY <1>3, <2>5, <2>6, <2>7, SameJob
    DEF Edit, TypeOK, inputVars, captureVars, preflightVars, applyVars, historyVars
<1>4. CASE Interrupted
  <2>1. job' = job /\ pc' \in Place
    BY <1>4, InterruptedFacts DEF inputVars, Place
  <2>2. QED
    BY <1>4, <2>1, SameJob, InterruptedFacts
    DEF TypeOK, inputVars, serviceVars, environmentVars, captureVars, preflightVars,
        applyVars, historyVars
<1>5. CASE Rerun
  <2>1. job' = job /\ pc' \in Place
    BY <1>5 DEF Rerun, Place
  <2>2. fresh' \in Capture /\ captured' \subseteq Type
    BY <1>5 DEF Rerun, Capture
  <2>3. checked' \in 0..Last /\ performed' \in 0..Last
    BY <1>5, JobFacts DEF Rerun
  <2>4. NoRecords \in [Positions -> Resource \union {Missing}]
    BY DEF NoRecords
  <2>5. AllNotRun \in [Positions -> OperationStatus]
    BY JobFacts
  <2>6. catalog' \in Catalog /\ delayed' \subseteq DelayedWrite
    BY <1>5 DEF Rerun, TypeOK, serviceVars
  <2>7. landed' \subseteq Positions /\ earlier' \subseteq Positions /\ initiated' \subseteq Positions
    BY <1>5 DEF Rerun, TypeOK
  <2>8. edits' \in Nat /\ runs' \in Nat /\ mode' \in Mode
    <3>1. edits' = edits /\ runs' = runs + 1 /\ mode' \in Mode
      BY <1>5 DEF Rerun
    <3>2. edits \in Nat /\ runs \in Nat
      BY DEF TypeOK
    <3>3. QED
      BY <3>1, <3>2
  <2>9. QED
    BY <1>5, <2>1, <2>2, <2>3, <2>4, <2>5, <2>6, <2>7, <2>8, SameJob DEF Rerun, TypeOK
<1>6. QED
  BY <1>1, <1>2, <1>3, <1>4, <1>5 DEF Environment, Interrupted

LEMMA StepType ==
  ASSUME IInv, [Next]_vars
  PROVE  TypeOK'
<1>1. TypeOK
  BY DEF IInv
<1>2. CASE UNCHANGED vars
  BY <1>1, <1>2, SameJob
  DEF vars, TypeOK, inputVars, serviceVars, environmentVars, captureVars, preflightVars,
      applyVars, historyVars
<1>3. QED
  BY <1>1, <1>2, AdmissionType, FreshCaptureType, PreflightType, ApplyIntentsType,
     EnvironmentType
  DEF Next, Executor

LEMMA InitType ==
  ASSUME Init
  PROVE  TypeOK
<1>1. job \in Job /\ catalog \in Catalog
  BY ScenarioAssumption DEF Init
<1>2. job.plan \in Plan /\ Ops \in Seq(Operation)
  BY <1>1 DEF Job, Plan, Ops, plan
<1>3. Last \in Nat /\ Positions = 1..Last
  BY <1>2 DEF Last, Positions
<1>4. records \in [Positions -> Resource \union {Missing}]
  BY DEF Init, NoRecords
<1>5. outcome \in [Positions -> OperationStatus]
  BY DEF Init, AllNotRun, OperationStatus
<1>6. fresh \in Capture /\ captured \subseteq Type
  BY DEF Init, Capture
<1>7. QED
  BY <1>1, <1>3, <1>4, <1>5, <1>6 DEF Init, TypeOK, Place, Final

-----------------------------------------------------------------------------
(* Every stage leaves the next one what it relies on. *)

(* An execution that applies operations has passed every gate. *)
LEMMA ReadyToWrite ==
  ASSUME IInv, pc \in Applying
  PROVE  /\ mode = "apply" /\ PlanReady
         /\ client.endpoint = plan.target
         /\ fresh = plan.remote.catalog
         /\ \A i \in Positions : Ops[i].action = "replace" => records[i] \in Resource
<1>1. TypeOK /\ Admitted /\ Accepted /\ Recorded /\ Underway
  BY DEF IInv, StageInv
<1>2. mode = "apply" /\ PlanReady /\ Paired
  BY <1>1 DEF Admitted, Underway
<1>3. Observed = plan.remote
  BY <1>1 DEF Accepted
<1>4. client.endpoint = plan.remote.target /\ fresh = plan.remote.catalog
  BY <1>3 DEF Observed
<1>5. plan.remote.target = plan.target
  BY <1>2 DEF Paired
<1>6. checked = Last /\ Positions = 1..Last /\ Last \in Nat
  BY <1>1, JobFacts DEF Underway
<1>7. \A i \in Positions : Ops[i].action = "replace" => records[i] \in Resource
  BY <1>1, <1>6 DEF Recorded
<1>8. QED
  BY <1>2, <1>4, <1>5, <1>7

(* What depends on the inputs and the reads alone. *)
LEMMA SameReads ==
  ASSUME UNCHANGED <<inputVars, captureVars, preflightVars>>
  PROVE  /\ PlanReady' = PlanReady /\ Paired' = Paired /\ Observed' = Observed
         /\ Recorded' = Recorded /\ plan' = plan /\ client' = client /\ Ops' = Ops
         /\ Last' = Last /\ Positions' = Positions
         /\ mode' = mode /\ fresh' = fresh /\ records' = records /\ checked' = checked
BY SameJob
DEF PlanReady, Paired, Observed, Recorded, inputVars, captureVars, preflightVars

(* A step that ends the run. *)
LEMMA EndKeepsStages ==
  ASSUME IInv, pc' \in Final, UNCHANGED <<inputVars, captureVars, preflightVars>>,
         Prefix', Late', initiated' # {} => initiated # {} \/ pc \in Applying
  PROVE  StageInv'
<1>1. pc' \notin Reading /\ pc' \notin Applying /\ pc' \notin {"capture", "preflight"}
  BY DEF Final, Reading, Applying
<1>2. NothingWritten' /\ Admitted' /\ Accepted' /\ Underway'
  BY <1>1 DEF NothingWritten, Admitted, Accepted, Underway
<1>3. Recorded'
  BY SameReads DEF IInv, StageInv
<1>4. WritesOnlyAfterFullPreflight'
  BY SameReads, ReadyToWrite DEF WritesOnlyAfterFullPreflight, IInv, StageInv
<1>5. QED
  BY <1>2, <1>3, <1>4 DEF StageInv

(* A refusal before the apply stage. *)
LEMMA RefuseKeepsStages ==
  ASSUME IInv, pc \in Reading, NEW status, NEW code, NEW target, NEW observed,
         Refuse(status, code, target, observed)
  PROVE  StageInv'
<1>1. pc' \in Final
  BY DEF Refuse, Report, Final
<1>2. UNCHANGED <<inputVars, captureVars, preflightVars, performed, initiated, landed, delayed,
                  runs>>
  BY DEF Refuse, environmentVars, serviceVars, applyVars, historyVars
<1>3. NothingWritten /\ Late
  BY DEF IInv, StageInv
<1>4. Prefix'
  BY <1>1, <1>2, <1>3 DEF NothingWritten, Prefix, Final
<1>5. Late'
  BY <1>1, <1>2, <1>3 DEF Late
<1>6. QED
  BY <1>1, <1>2, <1>3, <1>4, <1>5, EndKeepsStages DEF NothingWritten

LEMMA AdmissionStages ==
  ASSUME IInv, Admission
  PROVE  StageInv'
<1>0. pc \in Reading /\ pc = "start"
  BY DEF Admission, RejectPlan, RefuseBlocked, RefuseArtifact, RefuseUnbound,
         RefuseWrongTarget, Admit, Reading
<1>1. CASE RejectPlan
  <2>1. pc' \in Final
    BY <1>1 DEF RejectPlan, Final
  <2>2. UNCHANGED <<inputVars, captureVars, preflightVars, performed, initiated, landed, delayed,
                    runs>>
    BY <1>1 DEF RejectPlan, environmentVars, serviceVars, applyVars, historyVars
  <2>3. NothingWritten /\ Late
    BY DEF IInv, StageInv
  <2>4. Prefix' /\ Late'
    BY <1>0, <2>1, <2>2, <2>3 DEF NothingWritten, Prefix, Final, Late
  <2>5. QED
    BY <1>0, <2>1, <2>2, <2>3, <2>4, EndKeepsStages DEF NothingWritten
<1>2. CASE RefuseBlocked \/ RefuseArtifact \/ RefuseUnbound \/ RefuseWrongTarget
  BY <1>0, <1>2, RefuseKeepsStages
  DEF RefuseBlocked, RefuseArtifact, RefuseUnbound, RefuseWrongTarget
<1>3. CASE Admit
  <2>1. /\ pc' = "capture" /\ PlanReady /\ Paired /\ client.target = plan.target
        /\ UNCHANGED <<inputVars, captureVars, preflightVars, performed, outcome, result,
                       initiated, landed, delayed, runs>>
    BY <1>3 DEF Admit, serviceVars, environmentVars, applyVars, historyVars
  <2>2. NothingWritten /\ Recorded /\ Prefix /\ Late
    BY DEF IInv, StageInv
  <2>3. NothingWritten'
    BY <1>0, <2>1, <2>2, SameJob DEF NothingWritten, inputVars
  <2>4. Admitted' /\ Accepted' /\ Recorded' /\ Underway'
    BY <2>1, <2>2, SameReads DEF Admitted, Accepted, Underway, Applying
  <2>5. Prefix' /\ Late'
    BY <1>0, <2>1, <2>2 DEF NothingWritten, Prefix, Late, Final
  <2>6. WritesOnlyAfterFullPreflight'
    BY <2>1, <2>3 DEF NothingWritten, WritesOnlyAfterFullPreflight, Reading
  <2>7. QED
    BY <2>3, <2>4, <2>5, <2>6 DEF StageInv
<1>4. QED
  BY <1>1, <1>2, <1>3 DEF Admission

LEMMA FreshCaptureStages ==
  ASSUME IInv, FreshCapture
  PROVE  StageInv'
<1>0. pc = "capture" /\ pc \in Reading
  BY EnumerateFacts
  DEF IInv, FreshCapture, CaptureFails, DetectStale, AcceptCapture, Reading
<1>1. CASE Enumerate
  <2>1. UNCHANGED <<pc, inputVars, preflightVars, performed, outcome, result, initiated, landed,
                    delayed, runs>>
    BY <1>1, EnumerateFacts DEF IInv, serviceVars, environmentVars, applyVars, historyVars
  <2>2. NothingWritten /\ Admitted /\ Recorded /\ Prefix /\ Late
    BY DEF IInv, StageInv
  <2>3. NothingWritten'
    BY <2>1, <2>2, SameJob DEF NothingWritten, inputVars
  <2>4. Admitted'
    BY <2>1, <2>2, SameJob DEF Admitted, PlanReady, Paired, inputVars
  <2>5. Recorded'
    BY <2>1, <2>2, SameJob DEF Recorded, inputVars, preflightVars
  <2>6. Accepted' /\ Underway'
    BY <1>0, <2>1 DEF Accepted, Underway, Applying
  <2>7. Prefix' /\ Late'
    BY <2>1, <2>2 DEF Prefix, Late, Current
  <2>8. WritesOnlyAfterFullPreflight'
    BY <1>0, <2>1, <2>2 DEF NothingWritten, WritesOnlyAfterFullPreflight
  <2>9. QED
    BY <2>3, <2>4, <2>5, <2>6, <2>7, <2>8 DEF StageInv
<1>2. CASE CaptureFails \/ DetectStale
  BY <1>0, <1>2, RefuseKeepsStages DEF CaptureFails, DetectStale, FailBeforeWrite
<1>3. CASE AcceptCapture
  <2>1. /\ pc' = "preflight" /\ ~Stale
        /\ UNCHANGED <<inputVars, captureVars, preflightVars, performed, outcome, result,
                       initiated, landed, delayed, runs>>
    BY <1>3 DEF AcceptCapture, serviceVars, environmentVars, applyVars, historyVars
  <2>2. NothingWritten /\ Admitted /\ Recorded /\ Prefix /\ Late
    BY DEF IInv, StageInv
  <2>3. NothingWritten'
    BY <1>0, <2>1, <2>2, SameJob DEF NothingWritten, inputVars
  <2>4. Admitted' /\ Accepted' /\ Recorded' /\ Underway'
    BY <1>0, <2>1, <2>2, SameReads DEF Admitted, Accepted, Underway, Applying, Stale
  <2>5. Prefix' /\ Late'
    BY <1>0, <2>1, <2>2 DEF NothingWritten, Prefix, Late, Final
  <2>6. WritesOnlyAfterFullPreflight'
    BY <2>1, <2>3 DEF NothingWritten, WritesOnlyAfterFullPreflight, Reading
  <2>7. QED
    BY <2>3, <2>4, <2>5, <2>6 DEF StageInv
<1>4. QED
  BY <1>1, <1>2, <1>3 DEF FreshCapture

LEMMA PreflightStages ==
  ASSUME IInv, Preflight
  PROVE  StageInv'
<1>0. pc = "preflight" /\ pc \in Reading
  BY DEF Preflight, PreflightUnsupported, PreflightReadFails, PreflightDisagrees,
         PreflightPasses, MaterializeFails, DryRunReady, Preflighting, Preflighted, Reading
<1>1. CASE PreflightPasses
  <2>1. UNCHANGED <<pc, inputVars, captureVars, performed, outcome, result, initiated, landed,
                    delayed, runs>>
    BY <1>1 DEF PreflightPasses, serviceVars, environmentVars, applyVars, historyVars
  <2>2. NothingWritten /\ Admitted /\ Accepted /\ Recorded /\ Prefix /\ Late /\ TypeOK
    BY DEF IInv, StageInv
  <2>3. NothingWritten' /\ Admitted' /\ Accepted' /\ Underway'
    BY <1>0, <2>1, <2>2, SameJob
    DEF NothingWritten, Admitted, Accepted, Underway, PlanReady, Paired, Observed, Applying,
        inputVars, captureVars
  <2>4. Recorded'
    <3>1. checked \in Nat /\ checked < Last /\ Last \in Nat /\ checked + 1 \in Positions
      <4>1. checked \in 0..Last /\ checked < Last
        BY <1>1, <2>2 DEF PreflightPasses, Preflighting, TypeOK
      <4>2. QED
        BY <2>2, <4>1, JobFacts
    <3>2. Checking.action = "replace" => catalog[Checking.id] \in Resource
      BY <1>1, <2>2, <3>1, JobFacts
      DEF PreflightPasses, AsExpected, Exists, Checking, TypeOK, Catalog
    <3>3. /\ records \in [Positions -> Resource \union {Missing}]
          /\ records' = [records EXCEPT ![checked + 1] = catalog[Checking.id]]
          /\ checked' = checked + 1
      BY <1>1, <2>2 DEF PreflightPasses, TypeOK
    <3>4. ASSUME NEW i \in Positions, i <= checked + 1, Ops[i].action = "replace"
          PROVE  records'[i] \in Resource
      <4>1. CASE i = checked + 1
        BY <3>1, <3>2, <3>3, <3>4, <4>1 DEF Checking
      <4>2. CASE i # checked + 1
        <5>0. i \in Nat
          BY <2>2, JobFacts
        <5>1. i <= checked /\ records'[i] = records[i]
          BY <3>1, <3>3, <3>4, <4>2, <5>0
        <5>2. QED
          BY <2>2, <3>4, <5>1 DEF Recorded
      <4>3. QED
        BY <4>1, <4>2
    <3>5. Positions' = Positions /\ Ops' = Ops
      BY <2>1, SameJob DEF inputVars
    <3>6. QED
      BY <3>3, <3>4, <3>5 DEF Recorded
  <2>5. Prefix' /\ Late'
    BY <2>1, <2>2 DEF Prefix, Late, Current
  <2>6. WritesOnlyAfterFullPreflight'
    BY <1>0, <2>1, <2>2 DEF NothingWritten, WritesOnlyAfterFullPreflight
  <2>7. QED
    BY <2>3, <2>4, <2>5, <2>6 DEF StageInv
<1>2. CASE PreflightUnsupported
  BY <1>0, <1>2, RefuseKeepsStages DEF PreflightUnsupported, FailBeforeWrite
<1>3. CASE PreflightReadFails
  BY <1>0, <1>3, RefuseKeepsStages DEF PreflightReadFails, FailBeforeWrite
<1>4. CASE PreflightDisagrees
  BY <1>0, <1>4, RefuseKeepsStages DEF PreflightDisagrees, FailBeforeWrite
<1>5. CASE MaterializeFails
  BY <1>0, <1>5, RefuseKeepsStages DEF MaterializeFails, FailBeforeWrite
<1>6. CASE DryRunReady
  BY <1>0, <1>6, RefuseKeepsStages DEF DryRunReady
<1>7. QED
  BY <1>1, <1>2, <1>3, <1>4, <1>5, <1>6 DEF Preflight

(* The operations a run has invoked, one more than it has performed. *)
LEMMA NextInvoked ==
  ASSUME IInv, pc = "write"
  PROVE  initiated \union {Current} = 1..Current /\ initiated = 1..performed
<1>1. performed \in Nat /\ Current = performed + 1
  BY CurrentFacts DEF Applying
<1>2. initiated = 1..performed
  BY DEF IInv, StageInv, Prefix, Final
<1>3. QED
  BY <1>1, <1>2

LEMMA ApplyIntentsStages ==
  ASSUME IInv, ApplyIntents
  PROVE  StageInv'
<1>0. TypeOK /\ NothingWritten /\ Admitted /\ Accepted /\ Recorded /\ Underway /\ Prefix /\ Late
  BY DEF IInv, StageInv
<1>1. CASE Start
  <2>1. /\ pc = "preflight" /\ checked = Last /\ mode = "apply"
        /\ UNCHANGED <<inputVars, captureVars, preflightVars, performed, outcome, initiated,
                       landed, delayed, runs>>
    BY <1>1 DEF Start, Preflighted, serviceVars, environmentVars, applyVars, historyVars
  <2>2. performed = 0 /\ outcome = AllNotRun /\ initiated = {} /\ landed = {} /\ result = None
    BY <1>0, <2>1 DEF NothingWritten, Reading
  <2>3. Prefix' /\ Late'
    <3>1. pc' # "verify"
      BY <1>1 DEF Start, Conclude, Report
    <3>2. QED
      BY <1>0, <2>1, <2>2, <3>1 DEF Prefix, Late, Final
  <2>4. CASE Last = 0
    <3>1. pc' \in Final
      BY <1>1, <2>4 DEF Start, Conclude, Report, Final
    <3>2. QED
      BY <2>1, <2>2, <2>3, <3>1, EndKeepsStages
  <2>5. CASE Last # 0
    <3>1. pc' = "check" /\ result' = None
      BY <1>1, <2>2, <2>5 DEF Start
    <3>2. NothingWritten' /\ Admitted' /\ Accepted' /\ Recorded'
      BY <1>0, <2>1, <3>1, SameReads DEF NothingWritten, Admitted, Accepted, Reading
    <3>3. Last' = Last /\ Last \in Nat /\ Positions = 1..Last /\ Positions' = Positions
      BY <1>0, <2>1, SameReads, JobFacts
    <3>4. Underway'
      BY <2>1, <2>2, <2>5, <3>1, <3>3, SameReads DEF Underway, AllNotRun
    <3>5. WritesOnlyAfterFullPreflight'
      BY <2>1, <2>2 DEF WritesOnlyAfterFullPreflight
    <3>6. QED
      BY <2>3, <3>2, <3>4, <3>5 DEF StageInv
  <2>6. QED
    BY <2>4, <2>5
<1>2. CASE CheckPasses
  <2>1. /\ pc = "check" /\ pc' = "write"
        /\ UNCHANGED <<inputVars, captureVars, preflightVars, performed, outcome, initiated,
                       landed, delayed, runs, result>>
    BY <1>2 DEF CheckPasses, serviceVars, environmentVars, historyVars
  <2>2. NothingWritten' /\ Admitted' /\ Accepted' /\ Recorded' /\ Underway'
    BY <1>0, <2>1, SameReads
    DEF NothingWritten, Admitted, Accepted, Underway, Reading, Applying
  <2>3. Prefix' /\ Late'
    BY <1>0, <2>1 DEF Prefix, Late, Final, Current
  <2>4. WritesOnlyAfterFullPreflight'
    BY <2>1, SameReads DEF WritesOnlyAfterFullPreflight, IInv, StageInv
  <2>5. QED
    BY <2>2, <2>3, <2>4 DEF StageInv
<1>3. CASE CheckDisagrees \/ CheckUnauthorized \/ CheckReadFails
  <2>1. PICK before, after : pc = "check" /\ StopAtCheck(before, after)
    BY <1>3 DEF CheckDisagrees, CheckUnauthorized, CheckReadFails
  <2>2. /\ pc' \in Final
        /\ UNCHANGED <<inputVars, captureVars, preflightVars, performed, initiated, landed,
                       delayed, runs>>
    BY <2>1
    DEF StopAtCheck, Conclude, Report, Final, serviceVars, environmentVars, applyVars, historyVars
  <2>3. Prefix' /\ Late'
    BY <1>0, <2>1, <2>2 DEF Prefix, Late, Final, Current
  <2>4. QED
    BY <2>2, <2>3, EndKeepsStages
<1>4. CASE WriteConfirmed
  <2>1. /\ pc = "write" /\ pc' = "verify" /\ pc \in Applying
        /\ UNCHANGED <<inputVars, captureVars, preflightVars, performed, outcome, delayed, runs,
                       result>>
        /\ initiated' = initiated \union {Current} /\ landed' = landed \union {Current}
    BY <1>4 DEF WriteConfirmed, environmentVars, applyVars, Applying
  <2>2. NothingWritten' /\ Admitted' /\ Accepted' /\ Recorded' /\ Underway'
    BY <1>0, <2>1, SameReads
    DEF NothingWritten, Admitted, Accepted, Underway, Reading, Applying
  <2>3. Prefix' /\ Late'
    BY <1>0, <2>1, NextInvoked DEF Prefix, Late, Final, Current
  <2>4. WritesOnlyAfterFullPreflight'
    BY <2>1, SameReads, ReadyToWrite DEF WritesOnlyAfterFullPreflight
  <2>5. QED
    BY <2>2, <2>3, <2>4 DEF StageInv
<1>5. CASE WriteRefused
  <2>1. /\ pc = "write" /\ pc \in Applying /\ pc' \in Final
        /\ UNCHANGED <<inputVars, captureVars, preflightVars, performed, landed, delayed, runs>>
        /\ initiated' = initiated \union {Current}
    BY <1>5
    DEF WriteRefused, EndAtWrite, Conclude, Report, Final, serviceVars, environmentVars, Applying
  <2>2. Prefix' /\ Late'
    BY <1>0, <2>1, NextInvoked DEF Prefix, Late, Final, Current
  <2>3. QED
    BY <2>1, <2>2, EndKeepsStages
<1>6. CASE WriteUnanswered
  <2>1. /\ pc = "write" /\ pc \in Applying /\ pc' \in Final
        /\ UNCHANGED <<inputVars, captureVars, preflightVars, performed, runs>>
        /\ initiated' = initiated \union {Current}
        /\ landed' \in {landed, landed \union {Current}}
    BY <1>6
    DEF WriteUnanswered, EndAtWrite, Conclude, Report, Final, environmentVars, Applying
  <2>2. Prefix'
    BY <1>0, <2>1, NextInvoked DEF Prefix, Final, Current
  <2>3. Late'
    <3>1. \A w \in delayed' \ delayed : w.run = runs /\ w.index = Current
      BY <1>6 DEF WriteUnanswered
    <3>2. runs \in Nat
      BY <1>0 DEF TypeOK
    <3>3. QED
      BY <1>0, <2>1, <3>1, <3>2 DEF Late
  <2>4. QED
    BY <2>1, <2>2, <2>3, EndKeepsStages
<1>7. CASE VerifySucceeds
  <2>1. /\ pc = "verify" /\ pc \in Applying
        /\ UNCHANGED <<inputVars, captureVars, preflightVars, initiated, landed, delayed, runs>>
        /\ performed' = Current
        /\ outcome' = [outcome EXCEPT ![Current] = "succeeded"]
    BY <1>7 DEF VerifySucceeds, serviceVars, environmentVars, historyVars, Applying
  <2>2. initiated = 1..Current /\ Current \in Nat /\ Current = performed + 1 /\ performed \in Nat
        /\ 1..Current \subseteq landed /\ Current \in Positions
    <3>1. initiated = 1..Current /\ 1..performed \subseteq landed /\ Current \in landed
      BY <1>0, <2>1 DEF Prefix
    <3>2. QED
      BY <2>1, <3>1, CurrentFacts
  <2>3. pc' # "verify" /\ (pc' \in Final \/ pc' = "check")
    BY <1>7 DEF VerifySucceeds, Conclude, Report, Final
  <2>4. Prefix' /\ Late'
    BY <1>0, <2>1, <2>2, <2>3 DEF Prefix, Late, Final
  <2>5. CASE Current = Last
    <3>1. pc' \in Final
      BY <1>7, <2>5 DEF VerifySucceeds, Conclude, Report, Final
    <3>2. QED
      BY <2>1, <2>4, <3>1, EndKeepsStages
  <2>6. CASE Current # Last
    <3>1. pc' = "check" /\ result' = result
      BY <1>7, <2>6 DEF VerifySucceeds
    <3>2. NothingWritten' /\ Admitted' /\ Accepted' /\ Recorded'
      BY <1>0, <2>1, <3>1, SameReads
      DEF NothingWritten, Admitted, Accepted, Reading, Applying
    <3>3. Last \in Nat /\ Positions = 1..Last /\ Current < Last
      BY <1>0, <2>2, <2>6, JobFacts
    <3>4. outcome' = [i \in Positions |-> IF i <= Current THEN "succeeded" ELSE "not-run"]
      <4>1. outcome = [i \in Positions |-> IF i <= performed THEN "succeeded" ELSE "not-run"]
        BY <1>0, <2>1 DEF Underway
      <4>2. \A i \in Positions :
              (IF i = Current THEN "succeeded" ELSE outcome[i])
                = IF i <= Current THEN "succeeded" ELSE "not-run"
        BY <2>2, <3>3, <4>1
      <4>3. QED
        BY <2>1, <4>1, <4>2
    <3>5. Underway'
      BY <1>0, <2>1, <3>1, <3>3, <3>4, SameReads DEF Underway
    <3>6. WritesOnlyAfterFullPreflight'
      BY <2>1, SameReads, ReadyToWrite DEF WritesOnlyAfterFullPreflight
    <3>7. QED
      BY <2>4, <3>2, <3>5, <3>6 DEF StageInv
  <2>7. QED
    BY <2>5, <2>6
<1>8. CASE VerifyFails
  <2>1. /\ pc = "verify" /\ pc \in Applying /\ pc' \in Final
        /\ UNCHANGED <<inputVars, captureVars, preflightVars, performed, initiated, landed,
                       delayed, runs>>
    BY <1>8
    DEF VerifyFails, EndAtWrite, Conclude, Report, Final, serviceVars, environmentVars,
        historyVars, Applying
  <2>2. Prefix' /\ Late'
    BY <1>0, <2>1 DEF Prefix, Late, Final, Current
  <2>3. QED
    BY <2>1, <2>2, EndKeepsStages
<1>9. QED
  BY <1>1, <1>2, <1>3, <1>4, <1>5, <1>6, <1>7, <1>8 DEF ApplyIntents

LEMMA EnvironmentStages ==
  ASSUME IInv, Environment \/ NormaliserRaises
  PROVE  StageInv'
<1>0. TypeOK /\ NothingWritten /\ Admitted /\ Accepted /\ Recorded /\ Underway /\ Prefix /\ Late
      /\ WritesOnlyAfterFullPreflight
  BY DEF IInv, StageInv
<1>1. ASSUME NEW w \in delayed, DelayedArrives(w) \/ DelayedLost(w)
      PROVE  StageInv'
  <2>1. /\ UNCHANGED <<pc, inputVars, captureVars, preflightVars, performed, outcome, result,
                       initiated, runs>>
        /\ delayed' = delayed \ {w}
        /\ \/ landed' = landed
           \/ w.run = runs /\ landed' = landed \union {w.index}
    BY <1>1
    DEF DelayedArrives, DelayedLost, environmentVars, applyVars, historyVars
  <2>2. Late'
    BY <1>0, <2>1 DEF Late
  <2>3. \/ landed' = landed
        \/ pc \in Final /\ w.index \in initiated /\ landed' = landed \union {w.index}
    BY <1>0, <1>1, <2>1 DEF Late
  <2>4. Prefix'
    BY <1>0, <2>1, <2>3 DEF Prefix, Current
  <2>5. NothingWritten'
    BY <1>0, <2>1, <2>3, SameReads, SameJob DEF NothingWritten, Reading, Final, inputVars
  <2>6. Admitted' /\ Accepted' /\ Recorded' /\ Underway' /\ WritesOnlyAfterFullPreflight'
    BY <1>0, <2>1, SameReads
    DEF Admitted, Accepted, Underway, WritesOnlyAfterFullPreflight
  <2>7. QED
    BY <2>2, <2>4, <2>5, <2>6 DEF StageInv
<1>2. ASSUME NEW id \in Id, Edit(id)
      PROVE  StageInv'
  <2>1. UNCHANGED <<pc, inputVars, captureVars, preflightVars, performed, outcome, result,
                    initiated, landed, delayed, runs>>
    BY <1>2 DEF Edit, applyVars, historyVars
  <2>2. NothingWritten' /\ Prefix' /\ Late'
    BY <1>0, <2>1, SameJob DEF NothingWritten, Prefix, Late, Current, inputVars
  <2>3. Admitted' /\ Accepted' /\ Recorded' /\ Underway' /\ WritesOnlyAfterFullPreflight'
    BY <1>0, <2>1, SameReads
    DEF Admitted, Accepted, Underway, WritesOnlyAfterFullPreflight
  <2>4. QED
    BY <2>2, <2>3 DEF StageInv
<1>3. CASE Interrupted
  <2>1. /\ pc' \in Final /\ pc' # "verify"
        /\ UNCHANGED <<inputVars, captureVars, preflightVars, performed, initiated, landed,
                       delayed, runs>>
    BY <1>3, InterruptedFacts DEF serviceVars, environmentVars, applyVars, historyVars
  <2>2. Prefix' /\ Late'
    BY <1>0, <2>1 DEF Prefix, Late, Current
  <2>3. QED
    BY <2>1, <2>2, EndKeepsStages
<1>4. CASE Rerun
  <2>1. /\ pc' = "start" /\ job' = job /\ runs' = runs + 1 /\ delayed' = delayed
        /\ checked' = 0 /\ performed' = 0 /\ outcome' = AllNotRun /\ result' = None
        /\ initiated' = {} /\ landed' = {}
    BY <1>4 DEF Rerun, serviceVars
  <2>2. NothingWritten' /\ Admitted' /\ Accepted' /\ Underway' /\ WritesOnlyAfterFullPreflight'
    BY <2>1, SameJob
    DEF NothingWritten, Admitted, Accepted, Underway, WritesOnlyAfterFullPreflight, Applying
  <2>3. Recorded'
    <3>1. \A i \in Positions : ~(i <= 0)
      BY <1>0, JobFacts
    <3>2. QED
      BY <2>1, <3>1, SameJob DEF Recorded
  <2>4. Prefix'
    BY <2>1 DEF Prefix
  <2>5. Late'
    <3>1. runs \in Nat /\ \A w \in delayed : w.run \in Nat /\ w.run <= runs
      BY <1>0 DEF TypeOK, DelayedWrite, Late
    <3>2. QED
      BY <2>1, <3>1 DEF Late
  <2>6. QED
    BY <2>2, <2>3, <2>4, <2>5 DEF StageInv
<1>5. QED
  BY <1>1, <1>2, <1>3, <1>4 DEF Environment, Interrupted

LEMMA StutterStages ==
  ASSUME IInv, UNCHANGED vars
  PROVE  StageInv'
<1>1. UNCHANGED <<pc, inputVars, captureVars, preflightVars, performed, outcome, result,
                  initiated, landed, delayed, runs>>
  BY DEF vars, serviceVars, environmentVars, applyVars, historyVars
<1>2. NothingWritten' /\ Prefix' /\ Late'
  BY <1>1, SameJob DEF NothingWritten, Prefix, Late, Current, inputVars, IInv, StageInv
<1>3. Admitted' /\ Accepted' /\ Recorded' /\ Underway' /\ WritesOnlyAfterFullPreflight'
  BY <1>1, SameReads
  DEF Admitted, Accepted, Underway, WritesOnlyAfterFullPreflight, IInv, StageInv
<1>4. QED
  BY <1>2, <1>3 DEF StageInv

-----------------------------------------------------------------------------
(* The invariant is inductive. *)

LEMMA InitInv ==
  ASSUME Init
  PROVE  IInv
<1>1. TypeOK
  BY InitType
<1>2. pc = "start" /\ checked = 0 /\ performed = 0 /\ outcome = AllNotRun /\ result = None
      /\ initiated = {} /\ landed = {} /\ delayed = {}
  BY DEF Init
<1>3. NothingWritten /\ Admitted /\ Accepted /\ Underway /\ Prefix /\ Late
      /\ WritesOnlyAfterFullPreflight
  BY <1>2
  DEF NothingWritten, Admitted, Accepted, Underway, Prefix, Late, WritesOnlyAfterFullPreflight,
      Applying
<1>4. \A i \in Positions : ~(i <= checked)
  BY <1>1, <1>2, JobFacts
<1>5. Recorded
  BY <1>4 DEF Recorded
<1>6. QED
  BY <1>1, <1>3, <1>5 DEF IInv, StageInv

LEMMA StepInv ==
  ASSUME IInv, [Next]_vars
  PROVE  IInv'
<1>1. TypeOK'
  BY StepType
<1>2. StageInv'
  BY AdmissionStages, FreshCaptureStages, PreflightStages, ApplyIntentsStages,
     EnvironmentStages, StutterStages
  DEF Next, Executor
<1>3. QED
  BY <1>1, <1>2 DEF IInv

LEMMA Invariance == Spec => []IInv
<1>1. Init => IInv
  BY InitInv
<1>2. IInv /\ [Next]_vars => IInv'
  BY StepInv
<1>3. QED
  BY <1>1, <1>2, PTL DEF Spec

(* Every variable keeps its type, whatever the plan, the answers and the edits: *)
(* the payloads sent are resources, and results are complete documents.         *)
THEOREM TypeCorrect == Spec => []TypeOK
<1>1. IInv => TypeOK
  BY DEF IInv
<1>2. QED
  BY <1>1, Invariance, PTL

(* execute_governance_plan_v3 fails closed: no write is invoked in a dry run, for *)
(* a blocked plan, on another endpoint than the planned one, against a catalog    *)
(* that differs from the planned state, or before every replace has been read.    *)
THEOREM FailClosed == Spec => []WritesOnlyAfterFullPreflight
<1>1. IInv => WritesOnlyAfterFullPreflight
  BY DEF IInv, StageInv
<1>2. QED
  BY <1>1, Invariance, PTL

(* _apply_intents_v3 invokes the writes of a plan in order, each once, and none   *)
(* behind one that was not confirmed and verified.                                *)
THEOREM PlanOrder == Spec => []WritesFormPlanPrefix
<1>1. IInv => WritesFormPlanPrefix
  BY DEF IInv, StageInv, Prefix, WritesFormPlanPrefix, Final
<1>2. QED
  BY <1>1, Invariance, PTL

-----------------------------------------------------------------------------
(* The inductive invariant adds to IInv what the preflight has established. *)

Planned == \E s \in Scenarios : job = s.job

Unchecked == pc \in {"start", "capture"} => checked = 0

(* The operations that passed the preflight are capable. *)
Capable == \A i \in 1..checked : ~Unsupported(Ops[i])

(* From the apply stage on the whole plan is materialised. *)
Materialized == pc \in Applying \/ initiated # {} => checked = Last /\ Sound

(* The final GET before a write agrees with the preflight GET. *)
Matched ==
  pc = "write" /\ Writing.action = "replace" =>
    /\ seen.deferred = records[Current].deferred
    /\ seen.key = records[Current].key
    /\ seen.link = records[Current].link

Ready == Planned /\ Unchecked /\ Capable /\ Materialized /\ Matched

PInv == IInv /\ Ready

LEMMA InitReady == Init => PInv
<1> SUFFICES ASSUME Init PROVE PInv
  OBVIOUS
<1>1. IInv
  BY InitInv
<1>2. Planned
  BY DEF Init, Planned
<1>3. pc = "start" /\ checked = 0 /\ initiated = {}
  BY DEF Init
<1>4. Unchecked /\ Capable
  BY <1>3 DEF Unchecked, Capable
<1>5. Materialized /\ Matched
  BY <1>3 DEF Materialized, Matched, Applying
<1> QED BY <1>1, <1>2, <1>4, <1>5 DEF PInv, Ready

-----------------------------------------------------------------------------
(* What depends on the inputs and on what was read. *)
LEMMA SameSemantics ==
  ASSUME job' = job, UNCHANGED <<captureVars, preflightVars>>
  PROVE  /\ Capable' = Capable /\ Sound' = Sound /\ Planned' = Planned
         /\ checked' = checked /\ Last' = Last /\ Ops' = Ops /\ records' = records
<1>1. fresh' = fresh /\ checked' = checked /\ records' = records
  BY DEF captureVars, preflightVars
<1>2. plan' = plan /\ Ops' = Ops /\ Last' = Last /\ Positions' = Positions
  BY SameJob
<1>3. Creates' = Creates
  BY <1>2 DEF Creates
<1>4. Capable' = Capable
  BY <1>1, <1>2, <1>3 DEF Capable, Unsupported, Want, Found
<1>5. Sound' = Sound
  BY <1>1, <1>2, <1>3 DEF Sound, DependencyMissing, ParentCleared, Want, Found
<1>6. Planned' = Planned
  BY DEF Planned
<1> QED BY <1>1, <1>2, <1>4, <1>5, <1>6

(* A step that reads nothing new, and does not begin to apply. *)
LEMMA ReadNothing ==
  ASSUME PInv, job' = job, UNCHANGED <<captureVars, preflightVars>>,
         pc' \in {"start", "capture"} => pc \in {"start", "capture"},
         pc' \in Applying \/ initiated' # {} => pc \in Applying \/ initiated # {},
         pc' = "write" => pc = "write" /\ UNCHANGED applyVars
  PROVE  Ready'
<1>1. Unchecked' /\ Materialized' /\ Capable' /\ Planned'
  BY SameSemantics DEF PInv, Ready, Unchecked, Materialized
<1>2. Matched'
  <2> SUFFICES ASSUME pc' = "write" PROVE Matched'
    BY DEF Matched
  <2>1. seen' = seen /\ performed' = performed /\ Matched /\ pc = "write"
    BY DEF applyVars, PInv, Ready
  <2> QED BY <2>1, SameSemantics DEF Matched, Writing, Current
<1> QED BY <1>1, <1>2 DEF Ready

(* A run that ends. *)
LEMMA EndIsReady ==
  ASSUME PInv, pc' \in Final, job' = job, UNCHANGED <<captureVars, preflightVars>>,
         initiated' # {} => pc \in Applying \/ initiated # {}
  PROVE  Ready'
<1>1. pc' \notin Applying \union {"start", "capture", "write"}
  BY DEF Final, Applying
<1> QED BY <1>1, ReadNothing

LEMMA RefuseIsReady ==
  ASSUME PInv, NEW status, NEW code, NEW target, NEW observed,
         Refuse(status, code, target, observed)
  PROVE  Ready'
<1>1. /\ pc' \in Final /\ job' = job /\ UNCHANGED <<captureVars, preflightVars>>
      /\ initiated' = initiated
  BY DEF Refuse, Report, Final, inputVars, historyVars
<1> QED BY <1>1, EndIsReady

LEMMA AdmissionReady == ASSUME PInv, Admission PROVE Ready'
<1>1. CASE RejectPlan
  <2>1. /\ pc' \in Final /\ job' = job /\ UNCHANGED <<captureVars, preflightVars>>
        /\ initiated' = initiated
    BY <1>1 DEF RejectPlan, Final, inputVars, historyVars
  <2> QED BY <2>1, EndIsReady
<1>2. CASE RefuseBlocked \/ RefuseArtifact \/ RefuseUnbound \/ RefuseWrongTarget
  BY <1>2, RefuseIsReady DEF RefuseBlocked, RefuseArtifact, RefuseUnbound, RefuseWrongTarget
<1>3. CASE Admit
  <2>1. /\ pc = "start" /\ pc' = "capture" /\ job' = job
        /\ UNCHANGED <<captureVars, preflightVars>> /\ initiated' = initiated
    BY <1>3 DEF Admit, inputVars, historyVars
  <2>2. pc' \notin Applying /\ pc' # "write"
    BY <2>1 DEF Applying
  <2> QED BY <2>1, <2>2, ReadNothing
<1> QED BY <1>1, <1>2, <1>3 DEF Admission

LEMMA FreshCaptureReady == ASSUME PInv, FreshCapture PROVE Ready'
<1>1. CASE Enumerate
  <2>1. /\ pc = "capture" /\ pc' = pc /\ job' = job /\ initiated' = initiated
        /\ checked' = checked
    BY <1>1, EnumerateFacts DEF PInv, IInv, inputVars, preflightVars, historyVars
  <2>2. checked = 0
    BY <2>1 DEF PInv, Ready, Unchecked
  <2>3. initiated = {}
    BY <2>1 DEF PInv, IInv, StageInv, NothingWritten, Reading
  <2>4. Unchecked' /\ Capable'
    BY <2>1, <2>2 DEF Unchecked, Capable
  <2>5. Materialized' /\ Matched'
    BY <2>1, <2>3 DEF Materialized, Matched, Applying
  <2>6. Planned'
    BY <2>1 DEF Planned, PInv, Ready
  <2> QED BY <2>4, <2>5, <2>6 DEF Ready
<1>2. CASE CaptureFails \/ DetectStale
  BY <1>2, RefuseIsReady DEF CaptureFails, DetectStale, FailBeforeWrite
<1>3. CASE AcceptCapture
  <2>1. /\ pc' = "preflight" /\ job' = job
        /\ UNCHANGED <<captureVars, preflightVars>> /\ initiated' = initiated
    BY <1>3 DEF AcceptCapture, inputVars, historyVars
  <2>2. pc' \notin Applying \union {"start", "capture", "write"}
    BY <2>1 DEF Applying
  <2> QED BY <2>1, <2>2, ReadNothing
<1> QED BY <1>1, <1>2, <1>3 DEF FreshCapture

LEMMA PreflightReady == ASSUME PInv, Preflight PROVE Ready'
<1>1. CASE PreflightUnsupported \/ PreflightReadFails \/ PreflightDisagrees
  BY <1>1, RefuseIsReady
  DEF PreflightUnsupported, PreflightReadFails, PreflightDisagrees, FailBeforeWrite
<1>2. CASE MaterializeFails \/ DryRunReady
  BY <1>2, RefuseIsReady DEF MaterializeFails, DryRunReady, FailBeforeWrite
<1>3. CASE PreflightPasses
  <2>1. /\ pc = "preflight" /\ pc' = pc /\ job' = job /\ fresh' = fresh
        /\ initiated' = initiated /\ checked' = checked + 1
        /\ ~Unsupported(Ops[checked + 1])
    BY <1>3 DEF PreflightPasses, Preflighting, Checking, inputVars, captureVars, historyVars
  <2>2. checked \in Nat
    <3>1. TypeOK
      BY DEF PInv, IInv
    <3>2. checked \in 0..Last /\ Last \in Nat
      BY <3>1, JobFacts DEF TypeOK
    <3> QED BY <3>2
  <2>3. initiated = {}
    BY <2>1 DEF PInv, IInv, StageInv, NothingWritten, Reading
  <2>4. \A i \in 1..(checked + 1) : ~Unsupported(Ops[i])
    <3> SUFFICES ASSUME NEW i \in 1..(checked + 1) PROVE ~Unsupported(Ops[i])
      OBVIOUS
    <3>1. i \in 1..checked \/ i = checked + 1
      BY <2>2
    <3> QED BY <2>1, <3>1 DEF PInv, Ready, Capable
  <2>5. Capable'
    <3>1. Ops' = Ops /\ plan' = plan /\ Positions' = Positions
      BY <2>1, SameJob
    <3>2. Creates' = Creates
      BY <3>1 DEF Creates
    <3> QED BY <2>1, <2>4, <3>1, <3>2 DEF Capable, Unsupported, Want, Found
  <2>6. Unchecked' /\ Materialized' /\ Matched'
    BY <2>1, <2>3 DEF Unchecked, Materialized, Matched, Applying
  <2>7. Planned'
    BY <2>1 DEF Planned, PInv, Ready
  <2> QED BY <2>5, <2>6, <2>7 DEF Ready
<1> QED BY <1>1, <1>2, <1>3 DEF Preflight

LEMMA ApplyIntentsReady == ASSUME PInv, ApplyIntents PROVE Ready'
<1>1. CASE Start
  <2>1. /\ pc = "preflight" /\ checked = Last /\ Sound /\ job' = job
        /\ UNCHANGED <<captureVars, preflightVars>>
        /\ pc' \in {"check", "done", "escaped"}
    BY <1>1 DEF Start, Preflighted, Conclude, Report, inputVars
  <2>2. Capable' /\ Planned' /\ Materialized'
    BY <2>1, SameSemantics DEF PInv, Ready, Materialized
  <2>3. Unchecked' /\ Matched'
    BY <2>1 DEF Unchecked, Matched
  <2> QED BY <2>2, <2>3 DEF Ready
<1>2. CASE CheckPasses
  <2>1. /\ pc = "check" /\ pc' = "write" /\ job' = job
        /\ UNCHANGED <<captureVars, preflightVars>>
        /\ performed' = performed /\ seen' = catalog[Writing.id] /\ Undrifted(Writing)
    BY <1>2 DEF CheckPasses, inputVars
  <2>2. Capable' /\ Planned' /\ Materialized'
    BY <2>1, SameSemantics DEF PInv, Ready, Materialized, Applying
  <2>3. Writing' = Writing /\ Current' = Current
    BY <2>1, SameSemantics DEF Writing, Current
  <2>4. Matched'
    BY <2>1, <2>3, SameSemantics DEF Matched, Undrifted
  <2>5. Unchecked'
    BY <2>1 DEF Unchecked
  <2> QED BY <2>2, <2>4, <2>5 DEF Ready
<1>3. CASE CheckDisagrees \/ CheckUnauthorized \/ CheckReadFails
  <2>1. PICK before, after : StopAtCheck(before, after)
    BY <1>3 DEF CheckDisagrees, CheckUnauthorized, CheckReadFails
  <2>2. /\ pc' \in Final /\ job' = job /\ UNCHANGED <<captureVars, preflightVars>>
        /\ initiated' = initiated
    BY <2>1 DEF StopAtCheck, Conclude, Report, Final, inputVars, historyVars
  <2> QED BY <2>2, EndIsReady
<1>4. CASE WriteConfirmed
  <2>1. /\ pc = "write" /\ pc' = "verify" /\ job' = job
        /\ UNCHANGED <<captureVars, preflightVars>>
    BY <1>4 DEF WriteConfirmed, inputVars
  <2> QED BY <2>1, ReadNothing DEF Applying
<1>5. CASE WriteRefused \/ WriteUnanswered
  <2>1. /\ pc = "write" /\ pc' \in Final /\ job' = job
        /\ UNCHANGED <<captureVars, preflightVars>>
    BY <1>5 DEF WriteRefused, WriteUnanswered, EndAtWrite, Conclude, Report, Final, inputVars
  <2> QED BY <2>1, EndIsReady DEF Applying
<1>6. CASE VerifySucceeds
  <2>1. /\ pc = "verify" /\ pc' \in {"check", "done", "escaped"} /\ job' = job
        /\ UNCHANGED <<captureVars, preflightVars>>
    BY <1>6 DEF VerifySucceeds, Conclude, Report, inputVars
  <2> QED BY <2>1, ReadNothing DEF Applying
<1>7. CASE VerifyFails
  <2>1. /\ pc = "verify" /\ pc' \in Final /\ job' = job
        /\ UNCHANGED <<captureVars, preflightVars>>
    BY <1>7 DEF VerifyFails, EndAtWrite, Conclude, Report, Final, inputVars
  <2> QED BY <2>1, EndIsReady DEF Applying
<1> QED BY <1>1, <1>2, <1>3, <1>4, <1>5, <1>6, <1>7 DEF ApplyIntents

LEMMA EnvironmentReady == ASSUME PInv, Environment \/ NormaliserRaises PROVE Ready'
<1>1. ASSUME NEW w \in delayed, DelayedArrives(w) \/ DelayedLost(w) PROVE Ready'
  <2>1. /\ pc' = pc /\ job' = job /\ UNCHANGED <<captureVars, preflightVars, applyVars>>
        /\ initiated' = initiated
    BY <1>1 DEF DelayedArrives, DelayedLost, inputVars, historyVars
  <2> QED BY <2>1, ReadNothing
<1>2. ASSUME NEW id \in Id, Edit(id) PROVE Ready'
  <2>1. /\ pc' = pc /\ job' = job /\ UNCHANGED <<captureVars, preflightVars, applyVars>>
        /\ initiated' = initiated
    BY <1>2 DEF Edit, inputVars, historyVars
  <2> QED BY <2>1, ReadNothing
<1>3. CASE Interrupted
  <2>1. /\ pc' \in Final /\ job' = job /\ UNCHANGED <<captureVars, preflightVars>>
        /\ initiated' = initiated
    BY <1>3, InterruptedFacts DEF inputVars, historyVars
  <2> QED BY <2>1, EndIsReady
<1>4. CASE Rerun
  <2>1. pc' = "start" /\ job' = job /\ checked' = 0 /\ initiated' = {}
    BY <1>4 DEF Rerun
  <2>2. Unchecked' /\ Capable'
    BY <2>1 DEF Unchecked, Capable
  <2>3. Materialized' /\ Matched'
    BY <2>1 DEF Materialized, Matched, Applying
  <2>4. Planned'
    BY <2>1 DEF Planned, PInv, Ready
  <2> QED BY <2>2, <2>3, <2>4 DEF Ready
<1> QED BY <1>1, <1>2, <1>3, <1>4 DEF Environment, Interrupted

LEMMA StepReady == PInv /\ [Next]_vars => PInv'
<1> SUFFICES ASSUME PInv, [Next]_vars PROVE PInv'
  OBVIOUS
<1>1. IInv'
  BY StepInv DEF PInv
<1>2. CASE Next
  BY <1>1, <1>2, AdmissionReady, FreshCaptureReady, PreflightReady, ApplyIntentsReady,
     EnvironmentReady
  DEF Next, Executor, PInv
<1>3. CASE UNCHANGED vars
  <2>1. /\ pc' = pc /\ job' = job /\ UNCHANGED <<captureVars, preflightVars, applyVars>>
        /\ initiated' = initiated
    BY <1>3 DEF vars, inputVars, historyVars
  <2> QED BY <1>1, <2>1, ReadNothing DEF PInv
<1> QED BY <1>2, <1>3

LEMMA ReadyInvariant == Spec => []PInv
<1> QED BY InitReady, StepReady, PTL DEF Spec

-----------------------------------------------------------------------------
(* What the payloads of a materialised plan carry. *)

(* What the builder guarantees of the plan that is executed. *)
LEMMA PlanFacts ==
  ASSUME PInv, NEW i \in Positions
  PROVE  /\ Ops[i].action = "create" => ~HasIn(plan, Ops[i].id)
         /\ Ops[i].action = "replace" =>
              /\ HasIn(plan, Ops[i].id)
              /\ \/ Want(Ops[i].id).link = NoLink
                 \/ HasIn(plan, Want(Ops[i].id).link)
                 \/ Want(Ops[i].id).link \in CreatedIn(plan, i - 1)
         /\ Want(Ops[i].id).link \in CreatedIn(plan, Last) =>
              Want(Ops[i].id).link \in CreatedIn(plan, i - 1)
<1>1. PICK s \in Scenarios : job = s.job
  BY DEF PInv, Ready, Planned
<1>2. plan = s.job.plan /\ i \in DOMAIN s.job.plan.ops
  BY <1>1 DEF plan, Positions, Ops
<1> QED BY <1>2, PlanAssumption DEF Ops, Want, Last

(* A create is of a resource the fresh capture has not found. *)
LEMMA CreatesAreNew ==
  ASSUME PInv, fresh = plan.remote.catalog, NEW i \in Positions, Ops[i].action = "create"
  PROVE  ~Found(Ops[i].id)
BY PlanFacts DEF HasIn, Found

LEMMA PayloadLinks ==
  ASSUME PInv, NEW i \in Positions, ~Unsupported(Ops[i]), ~ParentCleared(i)
  PROVE  Payload(i).link = Want(Ops[i].id).link
<1>0. Ops[i] \in Operation
  BY JobFacts DEF PInv, IInv
<1>1. CASE Ops[i].action = "create"
  BY <1>1 DEF Payload, CreatePayload
<1>2. CASE Ops[i].action = "replace"
  BY <1>2 DEF Payload, ReplacePayload, ParentCleared
<1> QED BY <1>0, <1>1, <1>2 DEF Operation

LEMMA ReadyIsVerified == PInv => NoUnverifiedSemantics
<1> SUFFICES ASSUME PInv, initiated # {}, NEW i \in Positions
             PROVE  LET id == Ops[i].id
                        before == fresh[id]
                        after == Payload(i)
                    IN  /\ Ops[i].action = "create" => id \notin Domain
                        /\ after.link = Want(id).link
                        /\ Found(id) /\ before.link # NoLink => after.link # NoLink
                        /\ Found(id) /\ id \in Product => after.link = before.link
  BY DEF NoUnverifiedSemantics
<1>1. checked = Last /\ Sound /\ fresh = plan.remote.catalog
  BY DEF PInv, Ready, Materialized, IInv, StageInv, WritesOnlyAfterFullPreflight
<1>2. Positions = 1..Last /\ Ops[i] \in Operation /\ Ops[i].id \in Id
  BY JobFacts DEF PInv, IInv
<1>3. ~Unsupported(Ops[i]) /\ ~ParentCleared(i)
  BY <1>1, <1>2 DEF PInv, Ready, Capable, Sound
<1>4. Payload(i).link = Want(Ops[i].id).link
  BY <1>3, PayloadLinks
<1>5. Ops[i].action = "create" => Ops[i].id \notin Domain
  BY <1>3 DEF Unsupported, TypeOf
<1>6. Found(Ops[i].id) => Ops[i].action = "replace"
  BY <1>1, <1>2, CreatesAreNew DEF Operation
<1>7. Found(Ops[i].id) /\ Ops[i].id \in Product => Want(Ops[i].id).link = fresh[Ops[i].id].link
  BY <1>3, <1>6, PlanAssumption DEF Unsupported, TypeOf
<1>8. Found(Ops[i].id) /\ fresh[Ops[i].id].link # NoLink => Want(Ops[i].id).link # NoLink
  <2>1. CASE Ops[i].id \in Domain
    BY <1>3, <2>1 DEF Unsupported, TypeOf
  <2>2. CASE Ops[i].id \in Product
    BY <1>7, <2>2
  <2>3. CASE Ops[i].id \notin Domain /\ Ops[i].id \notin Product
    BY <1>3, <1>6, <2>3 DEF Unsupported, TypeOf
  <2> QED BY <2>1, <2>2, <2>3
<1> QED BY <1>4, <1>5, <1>7, <1>8

(* Full-plan safety (validate_operation_capability, materialize_mutation_intents_v3): *)
(* once any write is invoked no operation of the plan creates a domain, clears a       *)
(* parent or moves a product, and every payload carries the configured link.           *)
THEOREM NothingUnverifiedIsWritten == Spec => []NoUnverifiedSemantics
<1> QED BY ReadyInvariant, ReadyIsVerified, PTL

-----------------------------------------------------------------------------
LEMMA WritesPreserve ==
  ASSUME PInv, Overwrites
  PROVE  /\ catalog[Writing.id] # catalog'[Writing.id] =>
              catalog'[Writing.id].deferred = catalog[Writing.id].deferred
         /\ catalog[Writing.id].key = records[Current].key
         /\ catalog[Writing.id].link = records[Current].link
<1>1. /\ pc = "write" /\ pc \in Applying /\ Writing.action = "replace"
      /\ catalog[Writing.id] = seen
  BY DEF Overwrites, WriteConfirmed, WriteUnanswered, Applying
<1>2. /\ seen.deferred = records[Current].deferred
      /\ seen.key = records[Current].key
      /\ seen.link = records[Current].link
  BY <1>1 DEF PInv, Ready, Matched
<1>3. catalog' = catalog \/ catalog' = Stored(Current, Payload(Current))
  BY DEF Overwrites, WriteConfirmed, WriteUnanswered
<1>4. Payload(Current).deferred = records[Current].deferred
  BY <1>1 DEF Payload, ReplacePayload, Writing
<1>5. Writing.id \in Id /\ catalog \in Catalog
  BY <1>1, CurrentFacts DEF PInv, IInv, TypeOK
<1>6. catalog' = Stored(Current, Payload(Current)) =>
        catalog'[Writing.id] = Payload(Current)
  BY <1>5 DEF Stored, Writing, Catalog
<1> QED BY <1>1, <1>2, <1>3, <1>4, <1>6

(* _second_pre_write_check and the replace payloads: a replace that meets what the *)
(* final GET returned keeps the preserved fields of others, and overwrites in the  *)
(* compared fields only what the preflight read.                                   *)
THEOREM OthersArePreserved == Spec => PreservesUnmanaged
<1>1. PInv /\ [Next]_vars =>
        [Overwrites =>
           /\ catalog[Writing.id] # catalog'[Writing.id] =>
                catalog'[Writing.id].deferred = catalog[Writing.id].deferred
           /\ catalog[Writing.id].key = records[Current].key
           /\ catalog[Writing.id].link = records[Current].link]_vars
  BY WritesPreserve
<1> QED BY <1>1, ReadyInvariant, PTL DEF Spec, PreservesUnmanaged

-----------------------------------------------------------------------------
(* Executing a plan while nobody else edits the catalog: what a write has made *)
(* stays, so that a later execution of the same plan notices it.               *)

(* What is on its way is what the configuration asks for. *)
Sent == \A w \in delayed : Meets(w.payload, Want(Ops[w.index].id))

(* What a write of any execution has changed stays as it was asked for. *)
Lasting ==
  edits = 0 =>
    \A i \in landed \union earlier :
      Exists(Ops[i].id) /\ Meets(catalog[Ops[i].id], Want(Ops[i].id))

(* This execution sees what earlier ones did as soon as it reads it. *)
Rechecked ==
  edits = 0 =>
    \A i \in earlier :
      /\ \/ fresh[Ops[i].id] = Unread
         \/ Found(Ops[i].id) /\ Meets(fresh[Ops[i].id], Want(Ops[i].id))
      /\ i <= checked => Ops[i].action = "replace"

(* What the capture has found, and what a write on its way refers to, is there. *)
Standing == edits = 0 => \A id \in Id : Found(id) => Exists(id)
Linked == edits = 0 => \A w \in delayed : w.payload.link # NoLink => Exists(w.payload.link)

Settled == Sent /\ Lasting /\ Rechecked /\ Standing /\ Linked /\ NoDanglingLink

SInv == PInv /\ Settled

-----------------------------------------------------------------------------
(* What any step may do to the catalog and to what is read of it. *)

Quiet == UNCHANGED <<job, catalog, delayed, edits, fresh, checked, landed, earlier>>

LEMMA StepKinds ==
  ASSUME [Next]_vars
  PROVE  \/ Quiet
         \/ Enumerate
         \/ PreflightPasses
         \/ WriteConfirmed \/ WriteUnanswered
         \/ \E w \in delayed : DelayedArrives(w) \/ DelayedLost(w)
         \/ \E id \in Id : Edit(id)
         \/ Rerun
<1>1. CASE UNCHANGED vars
  BY <1>1 DEF vars, inputVars, serviceVars, environmentVars, captureVars, preflightVars,
              historyVars, Quiet
<1>2. ASSUME NEW status, NEW code, NEW target, NEW observed,
             Refuse(status, code, target, observed)
      PROVE  Quiet
  BY <1>2 DEF Refuse, inputVars, serviceVars, environmentVars, captureVars, preflightVars,
              historyVars, Quiet
<1>3. CASE Admission
  <2>1. CASE RejectPlan \/ Admit
    BY <2>1 DEF RejectPlan, Admit, inputVars, serviceVars, environmentVars, captureVars,
                preflightVars, historyVars, Quiet
  <2>2. CASE RefuseBlocked \/ RefuseArtifact \/ RefuseUnbound \/ RefuseWrongTarget
    BY <1>2, <2>2 DEF RefuseBlocked, RefuseArtifact, RefuseUnbound, RefuseWrongTarget
  <2> QED BY <1>3, <2>1, <2>2 DEF Admission
<1>4. CASE FreshCapture
  <2>1. CASE CaptureFails \/ DetectStale
    BY <1>2, <2>1 DEF CaptureFails, DetectStale, FailBeforeWrite
  <2>2. CASE AcceptCapture
    BY <2>2 DEF AcceptCapture, inputVars, serviceVars, environmentVars, captureVars,
                preflightVars, historyVars, Quiet
  <2> QED BY <1>4, <2>1, <2>2 DEF FreshCapture
<1>5. CASE Preflight
  <2>1. CASE PreflightUnsupported \/ PreflightReadFails \/ PreflightDisagrees
    BY <1>2, <2>1
    DEF PreflightUnsupported, PreflightReadFails, PreflightDisagrees, FailBeforeWrite
  <2>2. CASE MaterializeFails \/ DryRunReady
    BY <1>2, <2>2 DEF MaterializeFails, DryRunReady, FailBeforeWrite
  <2> QED BY <1>5, <2>1, <2>2 DEF Preflight
<1>6. CASE ApplyIntents
  <2>1. CASE Start \/ CheckPasses \/ VerifySucceeds \/ VerifyFails
    BY <2>1 DEF Start, CheckPasses, VerifySucceeds, VerifyFails, inputVars, serviceVars,
                environmentVars, captureVars, preflightVars, historyVars, Quiet
  <2>2. CASE CheckDisagrees \/ CheckUnauthorized \/ CheckReadFails
    BY <2>2 DEF CheckDisagrees, CheckUnauthorized, CheckReadFails, StopAtCheck, inputVars,
                serviceVars, environmentVars, captureVars, preflightVars, historyVars, Quiet
  <2>3. CASE WriteRefused
    BY <2>3 DEF WriteRefused, inputVars, serviceVars, environmentVars, captureVars,
                preflightVars, Quiet
  <2> QED BY <1>6, <2>1, <2>2, <2>3 DEF ApplyIntents
<1>7. CASE Interrupted
  BY <1>7, InterruptedFacts DEF inputVars, serviceVars, environmentVars, captureVars, preflightVars,
              historyVars, Quiet
<1> QED BY <1>1, <1>3, <1>4, <1>5, <1>6, <1>7 DEF Next, Executor, Environment, Interrupted

(* The plan stays, and a step that leaves no edit behind had none before it. *)
LEMMA StepKeepsPlan ==
  ASSUME PInv, [Next]_vars
  PROVE  job' = job /\ (edits' = 0 => edits = 0 /\ \A id \in Id : ~Edit(id))
<1>0. edits \in Nat
  BY DEF PInv, IInv, TypeOK
<1>1. CASE Quiet \/ PreflightPasses \/ WriteConfirmed \/ WriteUnanswered \/ Rerun
  BY <1>0, <1>1 DEF Quiet, PreflightPasses, WriteConfirmed, WriteUnanswered, Rerun,
                    inputVars, environmentVars, Edit
<1>2. CASE Enumerate
  BY <1>0, <1>2, EnumerateFacts DEF PInv, IInv, inputVars, environmentVars, Edit
<1>3. ASSUME NEW w \in delayed, DelayedArrives(w) \/ DelayedLost(w)
      PROVE  job' = job /\ (edits' = 0 => edits = 0 /\ \A id \in Id : ~Edit(id))
  BY <1>0, <1>3 DEF DelayedArrives, DelayedLost, inputVars, environmentVars, Edit
<1>4. ASSUME NEW id \in Id, Edit(id)
      PROVE  job' = job /\ edits' # 0
  BY <1>0, <1>4 DEF Edit, inputVars
<1> QED BY <1>0, <1>1, <1>2, <1>3, <1>4, StepKinds

(* What is on its way afterwards was before, or is the current write's payload. *)
LEMMA StepSends ==
  ASSUME PInv, [Next]_vars, NEW w \in delayed'
  PROVE  w \in delayed \/ (pc = "write" /\ w.index = Current /\ w.payload = Payload(Current))
<1>1. CASE Quiet \/ PreflightPasses \/ WriteConfirmed \/ Rerun
  BY <1>1 DEF Quiet, PreflightPasses, WriteConfirmed, Rerun, serviceVars
<1>2. CASE WriteUnanswered
  BY <1>2 DEF WriteUnanswered
<1>3. CASE Enumerate
  BY <1>3, EnumerateFacts DEF PInv, IInv, serviceVars
<1>4. ASSUME NEW v \in delayed, DelayedArrives(v) \/ DelayedLost(v)
      PROVE  w \in delayed
  BY <1>4 DEF DelayedArrives, DelayedLost
<1>5. ASSUME NEW id \in Id, Edit(id)
      PROVE  w \in delayed
  BY <1>5 DEF Edit
<1> QED BY <1>1, <1>2, <1>3, <1>4, <1>5, StepKinds

(* A write that reaches the service: the current one, or one that was on its way. *)
Reaching(i, payload) ==
  \/ pc = "write" /\ i = Current /\ payload = Payload(Current)
  \/ \E w \in delayed : i = w.index /\ payload = w.payload

(* Without edits of others, only writes of the plan change the catalog. *)
LEMMA StepWrites ==
  ASSUME PInv, [Next]_vars, edits' = 0
  PROVE  \/ catalog' = catalog /\ (landed \union earlier)' = landed \union earlier
         \/ \E i \in Positions, payload \in Resource :
              /\ Reaching(i, payload) /\ catalog' = Stored(i, payload)
              /\ (landed \union earlier)' \subseteq (landed \union earlier) \union {i}
<1>0. TypeOK
  BY DEF PInv, IInv
<1>1. CASE Quiet \/ PreflightPasses \/ Rerun
  BY <1>1 DEF Quiet, PreflightPasses, Rerun, serviceVars, historyVars
<1>2. CASE WriteConfirmed \/ WriteUnanswered
  <2>1. pc = "write" /\ Current \in Positions /\ Payload(Current) \in Resource
    BY <1>2, CurrentFacts DEF PInv, WriteConfirmed, WriteUnanswered, Applying
  <2>2. /\ earlier' = earlier
        /\ \/ catalog' = catalog /\ landed' = landed
           \/ catalog' = Stored(Current, Payload(Current)) /\ landed' = landed \union {Current}
    BY <1>2 DEF WriteConfirmed, WriteUnanswered
  <2>3. CASE catalog' = catalog /\ landed' = landed
    BY <2>2, <2>3
  <2>4. CASE catalog' = Stored(Current, Payload(Current)) /\ landed' = landed \union {Current}
    <3>1. Reaching(Current, Payload(Current))
      BY <2>1 DEF Reaching
    <3>2. (landed \union earlier)' \subseteq (landed \union earlier) \union {Current}
      BY <2>2, <2>4
    <3> QED BY <2>1, <2>4, <3>1, <3>2
  <2> QED BY <2>2, <2>3, <2>4
<1>3. CASE Enumerate
  BY <1>3, EnumerateFacts DEF PInv, IInv, serviceVars, historyVars
<1>4. ASSUME NEW w \in delayed, DelayedLost(w)
      PROVE  catalog' = catalog /\ (landed \union earlier)' = landed \union earlier
  BY <1>4 DEF DelayedLost, historyVars
<1>5. ASSUME NEW w \in delayed, DelayedArrives(w)
      PROVE  \/ catalog' = catalog /\ (landed \union earlier)' = landed \union earlier
             \/ \E i \in Positions, payload \in Resource :
                  /\ Reaching(i, payload) /\ catalog' = Stored(i, payload)
                  /\ (landed \union earlier)' \subseteq (landed \union earlier) \union {i}
  <2>1. w.index \in Positions /\ w.payload \in Resource
    BY <1>0 DEF TypeOK, DelayedWrite
  <2>2. CASE AsExpected(Ops[w.index])
    <3>1. catalog' = Stored(w.index, w.payload)
      BY <1>5, <2>2 DEF DelayedArrives
    <3>2. (landed \union earlier)' \subseteq (landed \union earlier) \union {w.index}
      BY <1>5, <2>2 DEF DelayedArrives
    <3>3. Reaching(w.index, w.payload)
      BY DEF Reaching
    <3> QED BY <2>1, <3>1, <3>2, <3>3
  <2>3. CASE ~AsExpected(Ops[w.index])
    BY <1>5, <2>3 DEF DelayedArrives
  <2> QED BY <2>2, <2>3
<1> QED BY <1>1, <1>2, <1>3, <1>4, <1>5, StepKinds, StepKeepsPlan

(* What a step reads: a listing, the GET of a preflight, or nothing. *)
LEMMA StepReads ==
  ASSUME PInv, [Next]_vars, edits' = 0
  PROVE  \/ UNCHANGED <<fresh, checked, earlier>>
         \/ Enumerate
         \/ PreflightPasses
         \/ Rerun
<1>1. CASE Quiet \/ WriteConfirmed \/ WriteUnanswered
  BY <1>1 DEF Quiet, WriteConfirmed, WriteUnanswered, captureVars, preflightVars
<1>2. ASSUME NEW w \in delayed, DelayedArrives(w) \/ DelayedLost(w)
      PROVE  UNCHANGED <<fresh, checked, earlier>>
  BY <1>2 DEF DelayedArrives, DelayedLost, captureVars, preflightVars, historyVars
<1> QED BY <1>1, <1>2, StepKinds, StepKeepsPlan

-----------------------------------------------------------------------------
(* What a write brings. *)

(* The payload of the current operation is what the configuration asks for. *)
LEMMA CurrentMeets ==
  ASSUME PInv, pc = "write"
  PROVE  Meets(Payload(Current), Want(Ops[Current].id))
<1>1. Current \in Positions /\ Ops[Current] \in Operation
  BY CurrentFacts, JobFacts DEF PInv, IInv, Applying
<1>2. checked = Last /\ Sound
  BY DEF PInv, Ready, Materialized, Applying
<1>3. Positions = 1..Last
  BY JobFacts DEF PInv, IInv
<1>4. ~Unsupported(Ops[Current]) /\ ~ParentCleared(Current)
  BY <1>1, <1>2, <1>3 DEF PInv, Ready, Capable, Sound
<1>5. Payload(Current).link = Want(Ops[Current].id).link
  BY <1>1, <1>4, PayloadLinks
<1>6. Payload(Current).key = Want(Ops[Current].id).key
  BY DEF Payload, CreatePayload, ReplacePayload
<1>7. Want(Ops[Current].id).soft # Unmanaged =>
        Payload(Current).soft = Want(Ops[Current].id).soft
  BY DEF Payload, CreatePayload, ReplacePayload, SoftOver
<1> QED BY <1>5, <1>6, <1>7 DEF Meets

(* What it refers to is there: it was captured, or an earlier operation created it. *)
LEMMA CurrentLinked ==
  ASSUME SInv, edits = 0, pc = "write", Payload(Current).link # NoLink
  PROVE  Exists(Payload(Current).link)
<1> DEFINE link == Want(Ops[Current].id).link
<1>1. /\ Current \in Positions /\ Ops[Current] \in Operation /\ Ops[Current].id \in Id
      /\ performed \in Nat /\ Current = performed + 1
  BY CurrentFacts, JobFacts DEF SInv, PInv, IInv, Applying
<1>2. Positions = 1..Last /\ Last \in Nat
  BY JobFacts DEF SInv, PInv, IInv
<1>3. checked = Last /\ Sound
  BY DEF SInv, PInv, Ready, Materialized, Applying
<1>4. Payload(Current).link = link
  BY CurrentMeets DEF SInv, Meets
<1>5. link \in Id
  BY <1>1, <1>4, JobFacts DEF SInv, PInv, IInv, Desired, Link
<1>6. fresh = plan.remote.catalog
  BY DEF SInv, PInv, IInv, StageInv, Accepted, Observed, Applying
<1>7. ASSUME Found(link) PROVE Exists(link)
  BY <1>5, <1>7 DEF SInv, Settled, Standing
<1>8. ASSUME link \in CreatedIn(plan, Current - 1) PROVE Exists(link)
  <2>1. PICK j \in 1..performed : Ops[j].id = link
    BY <1>1, <1>8 DEF CreatedIn, Ops
  <2>2. j \in landed
    BY <2>1 DEF SInv, PInv, IInv, StageInv, Prefix
  <2> QED BY <2>1, <2>2 DEF SInv, Settled, Lasting
<1>9. HasIn(plan, link) => Found(link)
  BY <1>6 DEF HasIn, Found
<1>10. CASE Ops[Current].action = "replace"
  BY <1>1, <1>4, <1>7, <1>8, <1>9, <1>10, PlanFacts DEF SInv
<1>11. CASE Ops[Current].action = "create"
  <2>1. ~Unsupported(Ops[Current]) /\ ~DependencyMissing(Ops[Current])
    BY <1>1, <1>2, <1>3 DEF SInv, PInv, Ready, Capable, Sound
  <2>2. Found(link) \/ link \in Creates
    BY <1>4, <1>11, <2>1 DEF Unsupported, DependencyMissing, TypeOf
  <2>3. Creates = CreatedIn(plan, Last)
    BY <1>2 DEF Creates, CreatedIn, Ops
  <2>4. link \in Creates => link \in CreatedIn(plan, Current - 1)
    BY <1>1, <2>3, PlanFacts DEF SInv
  <2> QED BY <1>4, <1>7, <1>8, <2>2, <2>4
<1> QED BY <1>1, <1>10, <1>11 DEF Operation

LEMMA ReachingMeets ==
  ASSUME SInv, NEW i, NEW payload, Reaching(i, payload)
  PROVE  Meets(payload, Want(Ops[i].id))
BY CurrentMeets DEF SInv, Settled, Sent, Reaching

LEMMA ReachingLinked ==
  ASSUME SInv, edits = 0, NEW i, NEW payload, Reaching(i, payload), payload.link # NoLink
  PROVE  Exists(payload.link)
BY CurrentLinked DEF SInv, Settled, Linked, Reaching

(* A resource after a write is what was stored or what it was. *)
LEMMA StoredResource ==
  ASSUME PInv, NEW i \in Positions, NEW payload \in Resource, catalog' = Stored(i, payload),
         NEW id \in Id
  PROVE  catalog'[id] = IF id = Ops[i].id THEN payload ELSE catalog[id]
BY JobFacts DEF PInv, IInv, TypeOK, Catalog, Stored

(* Without edits of others nothing is ever deleted. *)
LEMMA NothingVanishes ==
  ASSUME PInv, [Next]_vars, edits' = 0, NEW id \in Id, Exists(id)
  PROVE  Exists(id)'
<1>1. CASE catalog' = catalog
  BY <1>1 DEF Exists
<1>2. ASSUME NEW i \in Positions, NEW payload \in Resource, catalog' = Stored(i, payload)
      PROVE  Exists(id)'
  <2>1. payload # Missing
    BY ValueAssumption
  <2> QED BY <1>2, <2>1, StoredResource DEF Exists
<1> QED BY <1>1, <1>2, StepWrites

-----------------------------------------------------------------------------
(* The invariant is kept. *)

LEMMA SentKept == ASSUME SInv, [Next]_vars PROVE Sent'
<1>1. Ops' = Ops /\ plan' = plan
  BY StepKeepsPlan, SameJob DEF SInv
<1>2. ASSUME NEW w \in delayed'
      PROVE  Meets(w.payload, Want(Ops[w.index].id))
  <2>1. CASE w \in delayed
    BY <2>1 DEF SInv, Settled, Sent
  <2>2. CASE pc = "write" /\ w.index = Current /\ w.payload = Payload(Current)
    BY <2>2, CurrentMeets DEF SInv
  <2> QED BY <2>1, <2>2, StepSends DEF SInv
<1> QED BY <1>1, <1>2 DEF Sent, Want

LEMMA LastingKept == ASSUME SInv, [Next]_vars PROVE Lasting'
<1> SUFFICES ASSUME edits' = 0, NEW i \in (landed \union earlier)'
             PROVE  (Exists(Ops[i].id) /\ Meets(catalog[Ops[i].id], Want(Ops[i].id)))'
  BY DEF Lasting
<1>1. Ops' = Ops /\ plan' = plan /\ edits = 0 /\ Positions' = Positions
  BY StepKeepsPlan, SameJob DEF SInv
<1>2. TypeOK /\ TypeOK'
  BY StepInv DEF SInv, PInv, IInv
<1>3. i \in Positions /\ Ops[i].id \in Id
  BY <1>1, <1>2, JobFacts DEF TypeOK
<1>4. CASE catalog' = catalog /\ i \in landed \union earlier
  BY <1>1, <1>4 DEF SInv, Settled, Lasting, Exists, Want
<1>5. ASSUME NEW j \in Positions, NEW payload \in Resource, Reaching(j, payload),
             catalog' = Stored(j, payload),
             (landed \union earlier)' \subseteq (landed \union earlier) \union {j}
      PROVE  Exists(Ops[i].id)' /\ Meets(catalog[Ops[i].id], Want(Ops[i].id))'
  <2>1. catalog'[Ops[i].id] = IF Ops[i].id = Ops[j].id THEN payload ELSE catalog[Ops[i].id]
    BY <1>3, <1>5, StoredResource DEF SInv
  <2>2. CASE Ops[i].id = Ops[j].id
    <3>1. Meets(payload, Want(Ops[i].id)) /\ payload # Missing
      BY <1>5, <2>2, ReachingMeets, ValueAssumption
    <3> QED BY <1>1, <2>1, <2>2, <3>1 DEF Exists, Want
  <2>3. CASE Ops[i].id # Ops[j].id
    <3>1. i \in landed \union earlier
      BY <1>5, <2>3
    <3>2. Exists(Ops[i].id) /\ Meets(catalog[Ops[i].id], Want(Ops[i].id))
      BY <1>1, <3>1 DEF SInv, Settled, Lasting
    <3> QED BY <1>1, <2>1, <2>3, <3>2 DEF Exists, Want
  <2> QED BY <2>2, <2>3
<1> QED BY <1>1, <1>4, <1>5, StepWrites DEF SInv

LEMMA RecheckedKept == ASSUME SInv, [Next]_vars PROVE Rechecked'
<1> SUFFICES ASSUME edits' = 0 PROVE Rechecked'
  BY DEF Rechecked
<1>1. Ops' = Ops /\ plan' = plan /\ edits = 0
  BY StepKeepsPlan, SameJob DEF SInv
<1>2. \A i \in earlier :
        /\ i \in Positions /\ Ops[i] \in Operation /\ Ops[i].id \in Id
        /\ Exists(Ops[i].id) /\ Meets(catalog[Ops[i].id], Want(Ops[i].id))
        /\ catalog[Ops[i].id] \notin {Missing, Unread}
  <2>1. TypeOK
    BY DEF SInv, PInv, IInv
  <2>2. \A i \in earlier : i \in Positions /\ Ops[i] \in Operation /\ Ops[i].id \in Id
    BY <2>1, JobFacts DEF TypeOK
  <2>3. \A i \in earlier :
          Exists(Ops[i].id) /\ Meets(catalog[Ops[i].id], Want(Ops[i].id))
    BY <1>1 DEF SInv, Settled, Lasting
  <2>4. \A id \in Id : catalog[id] # Unread
    BY <2>1, ValueAssumption DEF TypeOK, Catalog
  <2> QED BY <2>2, <2>3, <2>4 DEF Exists
<1>3. \A i \in earlier :
        /\ \/ fresh[Ops[i].id] = Unread
           \/ Found(Ops[i].id) /\ Meets(fresh[Ops[i].id], Want(Ops[i].id))
        /\ i <= checked => Ops[i].action = "replace"
  BY <1>1 DEF SInv, Settled, Rechecked
<1>4. CASE UNCHANGED <<fresh, checked, earlier>>
  BY <1>1, <1>3, <1>4 DEF Rechecked, Found, Want
<1>5. CASE Enumerate
  <2>1. /\ \A id \in Id : fresh'[id] \in {fresh[id], catalog[id]}
        /\ checked' = checked /\ earlier' = earlier
    BY <1>5, EnumerateFacts DEF SInv, PInv, IInv, preflightVars, historyVars
  <2>2. \A i \in earlier :
          \/ fresh'[Ops[i].id] = Unread
          \/ /\ fresh'[Ops[i].id] \notin {Missing, Unread}
             /\ Meets(fresh'[Ops[i].id], Want(Ops[i].id))
    BY <1>2, <1>3, <2>1 DEF Found
  <2> QED BY <1>1, <1>3, <2>1, <2>2 DEF Rechecked, Found, Want
<1>6. CASE PreflightPasses
  <2>1. /\ fresh' = fresh /\ checked' = checked + 1 /\ earlier' = earlier
        /\ AsExpected(Ops[checked + 1])
    BY <1>6 DEF PreflightPasses, Checking, captureVars, historyVars
  <2>2. checked \in Nat /\ \A i \in earlier : i \in Nat
    <3>1. TypeOK
      BY DEF SInv, PInv, IInv
    <3>2. checked \in 0..Last /\ Last \in Nat /\ Positions = 1..Last
      BY <3>1, JobFacts DEF TypeOK
    <3> QED BY <1>2, <3>2
  <2>3. \A i \in earlier : i <= checked + 1 => Ops[i].action = "replace"
    <3> SUFFICES ASSUME NEW i \in earlier, i <= checked + 1
                 PROVE  Ops[i].action = "replace"
      OBVIOUS
    <3>1. i <= checked \/ i = checked + 1
      BY <2>2
    <3> QED BY <1>2, <1>3, <2>1, <3>1 DEF AsExpected
  <2> QED BY <1>1, <1>3, <2>1, <2>3 DEF Rechecked, Found, Want
<1>7. CASE Rerun
  <2>1. fresh' = [id \in Id |-> Unread] /\ checked' = 0
    BY <1>7 DEF Rerun
  <2>2. \A i \in earlier' : i \in Positions /\ Ops[i].id \in Id /\ ~(i <= 0)
    <3>1. TypeOK /\ TypeOK' /\ Positions' = Positions
      BY StepInv, StepKeepsPlan, SameJob DEF SInv, PInv, IInv
    <3>2. \A i \in earlier' : i \in Positions
      BY <3>1 DEF TypeOK
    <3>3. Positions = 1..Last /\ Last \in Nat /\ \A i \in Positions : Ops[i].id \in Id
      BY <3>1, JobFacts
    <3> QED BY <3>2, <3>3
  <2> QED BY <1>1, <2>1, <2>2 DEF Rechecked
<1> QED BY <1>4, <1>5, <1>6, <1>7, StepReads DEF SInv

LEMMA StandingKept == ASSUME SInv, [Next]_vars PROVE Standing'
<1> SUFFICES ASSUME edits' = 0, NEW id \in Id, Found(id)'
             PROVE  Exists(id)'
  BY DEF Standing
<1>1. edits = 0
  BY StepKeepsPlan DEF SInv
<1>2. Found(id) => Exists(id)
  BY <1>1 DEF SInv, Settled, Standing
<1>3. Exists(id) => Exists(id)'
  BY NothingVanishes DEF SInv
<1>4. CASE UNCHANGED <<fresh, checked, earlier>> \/ PreflightPasses
  BY <1>2, <1>3, <1>4 DEF PreflightPasses, captureVars, Found
<1>5. CASE Enumerate
  BY <1>2, <1>3, <1>5, EnumerateFacts DEF SInv, PInv, IInv, Found, Exists
<1>6. CASE Rerun
  BY <1>6 DEF Rerun, Found
<1> QED BY <1>4, <1>5, <1>6, StepReads DEF SInv

LEMMA LinkedKept == ASSUME SInv, [Next]_vars PROVE Linked'
<1> SUFFICES ASSUME edits' = 0, NEW w \in delayed', w.payload.link # NoLink
             PROVE  Exists(w.payload.link)'
  BY DEF Linked
<1>1. edits = 0
  BY StepKeepsPlan DEF SInv
<1>2. Exists(w.payload.link)
  <2>1. CASE w \in delayed
    BY <1>1, <2>1 DEF SInv, Settled, Linked
  <2>2. CASE pc = "write" /\ w.index = Current /\ w.payload = Payload(Current)
    BY <1>1, <2>2, CurrentLinked
  <2> QED BY <2>1, <2>2, StepSends DEF SInv
<1>3. TypeOK'
  BY StepInv DEF SInv, PInv, IInv
<1>4. w.payload.link \in Id
  BY <1>3 DEF TypeOK, DelayedWrite, Resource, Link
<1>5. ASSUME NEW id \in Id, Exists(id)
      PROVE  Exists(id)'
  BY <1>5, NothingVanishes DEF SInv
<1>6. catalog'[w.payload.link] # Missing
  BY <1>2, <1>4, <1>5 DEF Exists
<1> QED BY <1>6 DEF Exists

LEMMA NoDanglingKept == ASSUME SInv, [Next]_vars PROVE NoDanglingLink'
<1> SUFFICES ASSUME edits' = 0, NEW id \in Id, Exists(id)', catalog'[id].link # NoLink
             PROVE  catalog'[catalog'[id].link] # Missing
  BY DEF NoDanglingLink, Exists
<1>1. edits = 0
  BY StepKeepsPlan DEF SInv
<1>2. TypeOK'
  BY StepInv DEF SInv, PInv, IInv
<1>3. catalog'[id].link \in Id
  BY <1>2 DEF TypeOK, Catalog, Resource, Link, Exists
<1>4. ASSUME NEW x \in Id, Exists(x)
      PROVE  catalog'[x] # Missing
  BY <1>4, NothingVanishes DEF SInv, Exists
<1>5. CASE catalog'[id] = catalog[id]
  <2>1. Exists(catalog[id].link)
    BY <1>1, <1>5 DEF SInv, Settled, NoDanglingLink, Exists
  <2> QED BY <1>3, <1>4, <1>5, <2>1
<1>6. ASSUME NEW i \in Positions, NEW payload \in Resource, Reaching(i, payload),
             catalog'[id] = payload
      PROVE  catalog'[catalog'[id].link] # Missing
  <2>1. Exists(payload.link)
    BY <1>1, <1>6, ReachingLinked
  <2> QED BY <1>3, <1>4, <1>6, <2>1
<1>7. ASSUME NEW i \in Positions, NEW payload \in Resource, Reaching(i, payload),
             catalog' = Stored(i, payload)
      PROVE  catalog'[id] \in {payload, catalog[id]}
  BY <1>7, StoredResource DEF SInv
<1> QED BY <1>5, <1>6, <1>7, StepWrites DEF SInv

LEMMA InitSettled == Init => SInv
<1> SUFFICES ASSUME Init PROVE SInv
  OBVIOUS
<1>1. PInv
  BY InitReady
<1>2. /\ delayed = {} /\ landed = {} /\ earlier = {} /\ fresh = [id \in Id |-> Unread]
      /\ \E s \in Scenarios : job = s.job /\ catalog = s.catalog
  BY DEF Init
<1>3. Sent /\ Lasting /\ Rechecked /\ Standing /\ Linked
  BY <1>2 DEF Sent, Lasting, Rechecked, Standing, Linked, Found
<1>4. NoDanglingLink
  BY <1>2, ScenarioAssumption DEF NoDanglingLink, Exists
<1> QED BY <1>1, <1>3, <1>4 DEF SInv, Settled

LEMMA StepSettled == SInv /\ [Next]_vars => SInv'
BY StepReady, SentKept, LastingKept, RecheckedKept, StandingKept, LinkedKept, NoDanglingKept
DEF SInv, Settled

LEMMA SettledInvariant == Spec => []SInv
<1> QED BY InitSettled, StepSettled, PTL DEF Spec

(* While nobody else edits the catalog, no stage of an execution, no crash, lost or   *)
(* late answer and no repetition leaves a reference to a resource that is not there:  *)
(* check_plan_dependencies and the order of the plan see to it.                       *)
THEOREM ReferencesResolve == Spec => []NoDanglingLink
<1> QED BY SettledInvariant, PTL DEF SInv, Settled

-----------------------------------------------------------------------------
LEMMA NothingIsRewritten == SInv => RetryNeverRewrites
<1> SUFFICES ASSUME SInv, initiated # {}, edits = 0, NEW i \in earlier
             PROVE  Idle(i)
  BY DEF RetryNeverRewrites
<1>1. checked = Last /\ fresh = plan.remote.catalog
  BY DEF SInv, PInv, Ready, Materialized, IInv, StageInv, WritesOnlyAfterFullPreflight
<1>2. i \in Positions /\ i <= checked
  <2>1. TypeOK
    BY DEF SInv, PInv, IInv
  <2>2. i \in Positions /\ Positions = 1..Last /\ Last \in Nat
    BY <2>1, JobFacts DEF TypeOK
  <2> QED BY <1>1, <2>2
<1>3. Ops[i].action = "replace"
  BY <1>2 DEF SInv, Settled, Rechecked
<1>4. HasIn(plan, Ops[i].id)
  BY <1>2, <1>3, PlanFacts DEF SInv
<1>5. \/ fresh[Ops[i].id] = Unread
      \/ Meets(fresh[Ops[i].id], Want(Ops[i].id))
  BY DEF SInv, Settled, Rechecked
<1> QED BY <1>1, <1>3, <1>4, <1>5 DEF HasIn, Idle

(* The staleness gate and the preflight of execute_governance_plan_v3 make it safe to  *)
(* retry: once any operation of a plan that asked for a change has taken effect, no    *)
(* later execution writes at all, unless somebody else has edited the catalog in       *)
(* between.  A replace that asks for nothing new leaves the state the plan was made of *)
(* as it was: a plan of such replaces can be executed, and sends them, again.          *)
THEOREM RetriesAreSafe == Spec => []RetryNeverRewrites
<1> QED BY SettledInvariant, NothingIsRewritten, PTL

-----------------------------------------------------------------------------
(* A run reported as applied has performed every operation. *)
Completed == result # None /\ result.status = "applied" => performed = Last

LEMMA RefusalIsNotApplied ==
  ASSUME NEW status \in UntouchedStatus, NEW code, NEW target, NEW observed,
         Refuse(status, code, target, observed)
  PROVE  Completed'
BY DEF Refuse, Report, Document, UntouchedStatus, Completed

LEMMA StepCompletes ==
  ASSUME IInv, Completed, [Next]_vars
  PROVE  Completed'
<1>1. CASE UNCHANGED vars
  BY <1>1, SameJob DEF vars, inputVars, applyVars, Completed
<1>2. CASE Admission
  <2>1. CASE RejectPlan \/ Admit
    BY <2>1, SameJob DEF RejectPlan, Admit, inputVars, applyVars, Completed
  <2>2. CASE RefuseBlocked \/ RefuseArtifact \/ RefuseUnbound \/ RefuseWrongTarget
    BY <2>2, RefusalIsNotApplied
    DEF RefuseBlocked, RefuseArtifact, RefuseUnbound, RefuseWrongTarget, UntouchedStatus
  <2> QED BY <1>2, <2>1, <2>2 DEF Admission
<1>3. CASE FreshCapture
  <2>1. CASE CaptureFails \/ DetectStale
    BY <2>1, RefusalIsNotApplied DEF CaptureFails, DetectStale, FailBeforeWrite, UntouchedStatus
  <2>2. CASE AcceptCapture \/ Enumerate
    BY <2>2, SameJob, EnumerateFacts
    DEF IInv, AcceptCapture, inputVars, applyVars, Completed
  <2> QED BY <1>3, <2>1, <2>2 DEF FreshCapture
<1>4. CASE Preflight
  <2>1. CASE PreflightUnsupported \/ PreflightReadFails \/ PreflightDisagrees
             \/ MaterializeFails \/ DryRunReady
    BY <2>1, RefusalIsNotApplied
    DEF PreflightUnsupported, PreflightReadFails, PreflightDisagrees, MaterializeFails,
        DryRunReady, FailBeforeWrite, UntouchedStatus
  <2>2. CASE PreflightPasses
    BY <2>2, SameJob DEF PreflightPasses, inputVars, applyVars, Completed
  <2> QED BY <1>4, <2>1, <2>2 DEF Preflight
<1>5. CASE Start
  <2>1. pc = "preflight" /\ performed' = performed /\ job' = job
    BY <1>5 DEF Start, Preflighted, applyVars, inputVars
  <2>2. performed = 0 /\ result = None
    BY <2>1 DEF IInv, StageInv, NothingWritten, Reading
  <2> QED BY <1>5, <2>1, <2>2, SameJob DEF Start, Completed
<1>6. CASE CheckPasses \/ WriteConfirmed
  BY <1>6, SameJob DEF CheckPasses, WriteConfirmed, inputVars, applyVars, Completed
<1>7. CASE CheckDisagrees \/ CheckUnauthorized \/ CheckReadFails
  <2>1. PICK before, after : StopAtCheck(before, after)
    BY <1>7 DEF CheckDisagrees, CheckUnauthorized, CheckReadFails
  <2> QED BY <2>1 DEF StopAtCheck, Conclude, Report, Document, Completed
<1>8. CASE WriteRefused \/ WriteUnanswered \/ VerifyFails
  <2>1. PICK class : EndAtWrite(class)
    BY <1>8 DEF WriteRefused, WriteUnanswered, VerifyFails
  <2> QED BY <2>1 DEF EndAtWrite, Conclude, Report, Document, Completed
<1>9. CASE VerifySucceeds
  <2>1. pc = "verify" /\ performed' = Current /\ job' = job
    BY <1>9 DEF VerifySucceeds, inputVars
  <2>2. result = None
    BY <2>1 DEF IInv, StageInv, Underway, Applying
  <2> QED BY <1>9, <2>1, <2>2, SameJob DEF VerifySucceeds, Completed
<1>10. CASE Environment \/ NormaliserRaises
  <2>1. ASSUME NEW w \in delayed, DelayedArrives(w) \/ DelayedLost(w)
        PROVE  Completed'
    BY <2>1, SameJob DEF DelayedArrives, DelayedLost, inputVars, applyVars, Completed
  <2>2. ASSUME NEW id \in Id, Edit(id)
        PROVE  Completed'
    BY <2>2, SameJob DEF Edit, inputVars, applyVars, Completed
  <2>3. CASE Interrupted
    BY <2>3, SameJob, InterruptedFacts DEF inputVars, applyVars, Completed
  <2>4. CASE Rerun
    BY <2>4 DEF Rerun, Completed
  <2> QED BY <1>10, <2>1, <2>2, <2>3, <2>4 DEF Environment, Interrupted
<1> QED BY <1>1, <1>2, <1>3, <1>4, <1>5, <1>6, <1>7, <1>8, <1>9, <1>10
  DEF Next, Executor, ApplyIntents

(* An "applied" result is to be believed: without edits of others every resource the *)
(* plan names is what the configuration asks for when the result is there, and after. *)
THEOREM AppliedIsDesired == Spec => []AppliedMeansDesired
<1>1. Init => Completed
  BY DEF Init, Completed
<1>2. SInv /\ Completed /\ [Next]_vars => Completed'
  BY StepCompletes DEF SInv, PInv
<1>3. SInv /\ Completed => AppliedMeansDesired
  <2> SUFFICES ASSUME SInv, performed = Last, edits = 0, NEW i \in Positions
               PROVE  Exists(Ops[i].id) /\ Meets(catalog[Ops[i].id], Want(Ops[i].id))
    BY DEF Completed, AppliedMeansDesired
  <2>1. Positions = 1..Last
    BY JobFacts DEF SInv, PInv, IInv
  <2>2. i \in landed
    BY <2>1 DEF SInv, PInv, IInv, StageInv, Prefix
  <2> QED BY <2>2 DEF SInv, Settled, Lasting
<1> QED BY <1>1, <1>2, <1>3, SettledInvariant, PTL DEF Spec

-----------------------------------------------------------------------------
(* The outcomes of a run: a succeeded prefix, one break, not-run after it. *)

Outcomes(n, k, break) ==
  [i \in 1..n |-> IF i <= k THEN "succeeded" ELSE IF i = k + 1 THEN break ELSE "not-run"]

LEMMA LengthOfOutcomes ==
  ASSUME NEW S, NEW n \in Nat, NEW f \in [1..n -> S]
  PROVE  Len(f) = n
<1>1. f \in Seq(S)
  BY SeqDef
<1>2. DOMAIN f = 1..Len(f) /\ Len(f) \in Nat
  BY <1>1, LenProperties
<1>3. 1..n = 1..Len(f)
  BY <1>2
<1>4. QED
  BY <1>2, <1>3

(* What the counters of a result must be for such outcomes. *)
LEMMA CountOutcomes ==
  ASSUME NEW n \in Nat, NEW k \in 0..n, NEW break \in {"not-run", "failed", "unknown"},
         break # "not-run" => k < n
  PROVE  /\ Len(Outcomes(n, k, break)) = n
         /\ Cardinality(With(Outcomes(n, k, break), "succeeded")) = k
         /\ Cardinality(With(Outcomes(n, k, break), "unknown"))
              = IF break = "unknown" THEN 1 ELSE 0
<1>1. Outcomes(n, k, break) \in [1..n -> OperationStatus]
  BY DEF Outcomes, OperationStatus
<1>2. Len(Outcomes(n, k, break)) = n
  BY <1>1, LengthOfOutcomes
<1>3. With(Outcomes(n, k, break), "succeeded") = 1..k
  BY DEF With, Outcomes
<1>4. Cardinality(1..k) = k
  <2>1. Cardinality(1..k) = IF 1 > k THEN 0 ELSE k - 1 + 1
    BY FS_Interval
  <2>2. QED
    BY <2>1
<1>5. CASE break = "unknown"
  <2>1. With(Outcomes(n, k, break), "unknown") = {k + 1}
    BY <1>5 DEF With, Outcomes
  <2>2. QED
    BY <1>2, <1>3, <1>4, <1>5, <2>1, FS_Singleton
<1>6. CASE break # "unknown"
  <2>1. With(Outcomes(n, k, break), "unknown") = {}
    BY <1>6 DEF With, Outcomes
  <2>2. QED
    BY <1>2, <1>3, <1>4, <1>6, <2>1, FS_EmptySet
<1>7. QED
  BY <1>5, <1>6

(* The outcomes the executor has recorded, and those it records next. *)
LEMMA RecordedOutcomes ==
  ASSUME IInv, pc \in Applying
  PROVE  /\ outcome = Outcomes(Last, performed, "not-run")
         /\ \A break \in {"failed", "unknown"} :
              [outcome EXCEPT ![Current] = break] = Outcomes(Last, performed, break)
         /\ [outcome EXCEPT ![Current] = "succeeded"] = Outcomes(Last, Current, "not-run")
<1>1. TypeOK /\ Underway
  BY DEF IInv, StageInv
<1>2. performed \in Nat /\ Current \in Nat /\ Current = performed + 1 /\ Current \in Positions
  BY CurrentFacts
<1>3. Positions = 1..Last /\ Last \in Nat
  BY <1>1, JobFacts
<1>4. outcome = [i \in 1..Last |-> IF i <= performed THEN "succeeded" ELSE "not-run"]
  BY <1>1, <1>3 DEF Underway
<1>5. outcome = Outcomes(Last, performed, "not-run")
  BY <1>4 DEF Outcomes
<1>6. ASSUME NEW break \in {"failed", "unknown"}
      PROVE  [outcome EXCEPT ![Current] = break] = Outcomes(Last, performed, break)
  <2>1. \A i \in 1..Last :
          (IF i = Current THEN break ELSE outcome[i])
            = IF i <= performed THEN "succeeded" ELSE
              IF i = performed + 1 THEN break ELSE "not-run"
    BY <1>2, <1>4
  <2>2. [outcome EXCEPT ![Current] = break]
          = [i \in 1..Last |-> IF i = Current THEN break ELSE outcome[i]]
    BY <1>4
  <2>3. QED
    BY <2>1, <2>2 DEF Outcomes
<1>7. [outcome EXCEPT ![Current] = "succeeded"] = Outcomes(Last, Current, "not-run")
  <2>1. \A i \in 1..Last :
          (IF i = Current THEN "succeeded" ELSE outcome[i])
            = IF i <= Current THEN "succeeded" ELSE
              IF i = Current + 1 THEN "not-run" ELSE "not-run"
    BY <1>2, <1>4
  <2>2. [outcome EXCEPT ![Current] = "succeeded"]
          = [i \in 1..Last |-> IF i = Current THEN "succeeded" ELSE outcome[i]]
    BY <1>4
  <2>3. QED
    BY <2>1, <2>2 DEF Outcomes
<1>8. QED
  BY <1>5, <1>6, <1>7

LEMMA UntouchedOutcomes ==
  ASSUME TypeOK
  PROVE  AllNotRun = Outcomes(Last, 0, "not-run")
<1>1. Positions = 1..Last /\ Last \in Nat
  BY JobFacts
<1>2. \A i \in 1..Last : ~(i <= 0)
  BY <1>1
<1>3. QED
  BY <1>1, <1>2 DEF AllNotRun, Outcomes

-----------------------------------------------------------------------------
(* Documents that pass the validation. *)

(* A result is valid when its counters, outcomes and provenance agree. *)
LEMMA ValidDocument ==
  ASSUME NEW r, NEW n \in Nat, NEW k \in 0..n, NEW break \in {"not-run", "failed", "unknown"},
         break # "not-run" => k < n,
         r.ops = Outcomes(n, k, break), r.performed = k,
         r.mode \in Mode, r.status \in Status, r.code \in FailureCodes(r.status),
         break = BreakOutcome(r.status),
         r.unknown = IF break = "unknown" THEN 1 ELSE 0,
         r.attempted = k + (IF break = "not-run" THEN 0 ELSE 1),
         r.status \in UntouchedStatus => k = 0,
         r.status = "applied" => k = n,
         r.status = "partial" => k > 0,
         Provenance(r)
  PROVE  ValidResult(r)
<1>1. /\ Len(r.ops) = n
      /\ Cardinality(With(r.ops, "succeeded")) = k
      /\ Cardinality(With(r.ops, "unknown")) = IF break = "unknown" THEN 1 ELSE 0
  BY CountOutcomes
<1>2. r.status \in {"write-failed", "indeterminate"} <=> break # "not-run"
  BY DEF BreakOutcome
<1>3. r.status = "indeterminate" <=> break = "unknown"
  BY DEF BreakOutcome
<1>4. Counters(r)
  BY <1>1, <1>2, <1>3 DEF Counters, UntouchedStatus, BreakOutcome
<1>5. OutcomePattern(r)
  <2>1. DOMAIN r.ops = 1..n
    BY DEF Outcomes
  <2>2. \A i \in 1..n :
          r.ops[i] = CASE i <= k    -> "succeeded"
                       [] i = k + 1 -> BreakOutcome(r.status)
                       [] OTHER     -> "not-run"
    BY DEF Outcomes
  <2>3. QED
    BY <1>1, <1>2, <2>1, <2>2 DEF OutcomePattern
<1>6. QED
  BY <1>4, <1>5 DEF ValidResult

(* A refusal before the first write. *)
LEMMA ValidRefusal ==
  ASSUME TypeOK, NEW status \in UntouchedStatus, NEW code \in FailureCodes(status),
         NEW target, NEW observed,
         Provenance(Document(status, code, target, observed, 0, 0, 0, AllNotRun))
  PROVE  ValidResult(Document(status, code, target, observed, 0, 0, 0, AllNotRun))
<1> DEFINE r == Document(status, code, target, observed, 0, 0, 0, AllNotRun)
<1>1. Last \in Nat /\ mode \in Mode
  BY JobFacts DEF TypeOK
<1>2. /\ r.ops = Outcomes(Last, 0, "not-run") /\ r.performed = 0 /\ r.unknown = 0
      /\ r.attempted = 0 /\ r.mode \in Mode /\ r.status = status /\ r.code = code
  BY <1>1, UntouchedOutcomes DEF Document
<1>3. BreakOutcome(status) = "not-run" /\ status \in Status /\ status # "applied" /\ status # "partial"
  BY DEF BreakOutcome, Status, UntouchedStatus
<1>4. 0 \in 0..Last
  BY <1>1
<1>5. Provenance(r)
  OBVIOUS
<1> HIDE DEF r
<1>6. ValidResult(r)
  BY <1>1, <1>2, <1>3, <1>4, <1>5, ValidDocument
<1>7. QED
  BY <1>6 DEF r

(* A conclusion of the apply stage. *)
LEMMA ValidConclusion ==
  ASSUME TypeOK, mode = "apply", client.target = plan.target, Observed = plan.remote,
         NEW status \in {"applied", "partial", "write-failed", "indeterminate"},
         NEW code \in FailureCodes(status),
         NEW k \in 0..Last,
         NEW break \in {"not-run", "failed", "unknown"}, break = BreakOutcome(status),
         break # "not-run" => k < Last,
         status = "applied" => k = Last, status = "partial" => k > 0
  PROVE  ValidResult(Document(status, code, client.target, Observed, k,
                              k + (IF break = "not-run" THEN 0 ELSE 1),
                              IF break = "unknown" THEN 1 ELSE 0,
                              Outcomes(Last, k, break)))
<1> DEFINE r == Document(status, code, client.target, Observed, k,
                         k + (IF break = "not-run" THEN 0 ELSE 1),
                         IF break = "unknown" THEN 1 ELSE 0, Outcomes(Last, k, break))
<1>1. Last \in Nat /\ mode \in Mode
  BY JobFacts DEF TypeOK
<1>2. /\ r.ops = Outcomes(Last, k, break) /\ r.performed = k /\ r.mode = "apply"
      /\ r.unknown = (IF break = "unknown" THEN 1 ELSE 0)
      /\ r.attempted = k + (IF break = "not-run" THEN 0 ELSE 1)
      /\ r.status = status /\ r.code = code
      /\ r.executionTarget = client.target /\ r.plannedTarget = plan.target
      /\ r.observed = Observed /\ r.plannedRemote = plan.remote
  BY DEF Document
<1> HIDE DEF r
<1>3. Provenance(r)
  BY <1>2 DEF Provenance, ExecutedOn
<1>4. status \in Status /\ status \notin UntouchedStatus
  BY DEF Status, UntouchedStatus
<1>5. ValidResult(r)
  BY <1>1, <1>2, <1>3, <1>4, ValidDocument DEF Mode
<1>6. QED
  BY <1>5 DEF r

-----------------------------------------------------------------------------
(* Every action that builds a document ends in "done". *)

LEMMA RefuseDone ==
  ASSUME TypeOK, NEW status \in UntouchedStatus, NEW code \in FailureCodes(status),
         NEW target, NEW observed,
         Provenance(Document(status, code, target, observed, 0, 0, 0, AllNotRun)),
         Refuse(status, code, target, observed)
  PROVE  pc' = "done" /\ result'.status = status
<1>1. ValidResult(Document(status, code, target, observed, 0, 0, 0, AllNotRun))
  BY ValidRefusal
<1>2. QED
  BY <1>1 DEF Refuse, Report, Document

LEMMA FailBeforeWriteDone ==
  ASSUME TypeOK, client.target = plan.target, NEW code \in BeforeWriteCode, FailBeforeWrite(code)
  PROVE  pc' = "done" /\ result'.status = "failed-before-write"
<1>1. code \in FailureCodes("failed-before-write") /\ "failed-before-write" \in UntouchedStatus
  BY DEF FailureCodes, UntouchedStatus
<1>2. Provenance(Document("failed-before-write", code, client.target, None, 0, 0, 0, AllNotRun))
  BY DEF Provenance, ExecutedOn, Document
<1>3. QED
  BY <1>1, <1>2, RefuseDone DEF FailBeforeWrite

LEMMA RefusedInTime ==
  ASSUME IInv, RefuseBlocked \/ RefuseArtifact \/ RefuseUnbound \/ RefuseWrongTarget
  PROVE  pc' = "done" /\ result'.status \in UntouchedStatus
<1>0. TypeOK /\ plan.target \in Target /\ client.target \in Target
  BY JobFacts DEF IInv
<1>1. CASE RefuseBlocked
  <2>1. "apply.plan_blocked" \in FailureCodes("blocked") /\ "blocked" \in UntouchedStatus
    BY DEF FailureCodes, UntouchedStatus
  <2>2. Provenance(Document("blocked", "apply.plan_blocked", None, None, 0, 0, 0, AllNotRun))
    BY DEF Provenance, ExecutedOn, Document
  <2>3. QED
    BY <1>0, <1>1, <2>1, <2>2, RefuseDone DEF RefuseBlocked
<1>2. CASE RefuseArtifact
  <2>1. PICK code \in {"apply.remote_state_identity_mismatch", "apply.invalid_remote_state"} :
          Refuse("failed-before-write", code, plan.target, None)
    BY <1>2 DEF RefuseArtifact
  <2>2. code \in FailureCodes("failed-before-write") /\ "failed-before-write" \in UntouchedStatus
    BY DEF FailureCodes, UntouchedStatus, BeforeWriteCode
  <2>3. Provenance(Document("failed-before-write", code, plan.target, None, 0, 0, 0, AllNotRun))
    BY DEF Provenance, ExecutedOn, Document
  <2>4. QED
    BY <1>0, <2>1, <2>2, <2>3, RefuseDone
<1>3. CASE RefuseUnbound
  <2>1. "apply.tenant_binding_unsupported" \in FailureCodes("failed-before-write")
        /\ "failed-before-write" \in UntouchedStatus
    BY DEF FailureCodes, UntouchedStatus, BeforeWriteCode
  <2>2. Provenance(Document("failed-before-write", "apply.tenant_binding_unsupported", None, None,
                            0, 0, 0, AllNotRun))
    BY DEF Provenance, ExecutedOn, Document
  <2>3. QED
    BY <1>0, <1>3, <2>1, <2>2, RefuseDone DEF RefuseUnbound
<1>4. CASE RefuseWrongTarget
  <2>1. "apply.wrong_target" \in FailureCodes("wrong-target") /\ "wrong-target" \in UntouchedStatus
    BY DEF FailureCodes, UntouchedStatus
  <2>2. Provenance(Document("wrong-target", "apply.wrong_target", client.target, None,
                            0, 0, 0, AllNotRun))
    BY <1>0, <1>4, ValueAssumption DEF RefuseWrongTarget, Provenance, ExecutedOn, Document
  <2>3. QED
    BY <1>0, <1>4, <2>1, <2>2, RefuseDone DEF RefuseWrongTarget
<1>5. QED
  BY <1>1, <1>2, <1>3, <1>4

(* From the capture on, failures are reported on the planned target. *)
LEMMA FailuresInTime ==
  ASSUME IInv,
         \/ CaptureFails \/ PreflightUnsupported \/ PreflightReadFails \/ PreflightDisagrees
         \/ MaterializeFails
  PROVE  pc' = "done" /\ result'.status = "failed-before-write"
<1>1. pc \in {"capture", "preflight"}
  BY DEF CaptureFails, PreflightUnsupported, PreflightReadFails, PreflightDisagrees,
         MaterializeFails, Preflighting, Preflighted
<1>2. TypeOK /\ client.target = plan.target
  BY <1>1 DEF IInv, StageInv, Admitted
<1>3. \E code \in BeforeWriteCode : FailBeforeWrite(code)
  BY DEF CaptureFails, PreflightUnsupported, PreflightReadFails, PreflightDisagrees,
         MaterializeFails, BeforeWriteCode
<1>4. QED
  BY <1>2, <1>3, FailBeforeWriteDone

LEMMA VerdictsInTime ==
  ASSUME IInv, DetectStale \/ DryRunReady
  PROVE  pc' = "done" /\ result'.status \in UntouchedStatus
<1>1. TypeOK /\ pc \in {"capture", "preflight"}
  BY DEF DetectStale, DryRunReady, Preflighted, IInv
<1>2. client.target = plan.target /\ Observed \in Material
  BY <1>1, JobFacts DEF IInv, StageInv, Admitted
<1>3. CASE DetectStale
  <2>1. "apply.stale_plan" \in FailureCodes("stale") /\ "stale" \in UntouchedStatus
    BY DEF FailureCodes, UntouchedStatus
  <2>2. Observed # plan.remote /\ Observed # None
    BY <1>2, <1>3, ValueAssumption DEF DetectStale, Stale
  <2>3. Provenance(Document("stale", "apply.stale_plan", client.target, Observed,
                            0, 0, 0, AllNotRun))
    BY <1>2, <2>2 DEF Provenance, ExecutedOn, Document
  <2>4. QED
    BY <1>1, <1>3, <2>1, <2>3, RefuseDone DEF DetectStale
<1>4. CASE DryRunReady
  <2>1. None \in FailureCodes("dry-run-ready") /\ "dry-run-ready" \in UntouchedStatus
    BY DEF FailureCodes, UntouchedStatus
  <2>2. Observed = plan.remote /\ mode = "dry-run"
    BY <1>4 DEF DryRunReady, Preflighted, IInv, StageInv, Accepted
  <2>3. Provenance(Document("dry-run-ready", None, client.target, Observed, 0, 0, 0, AllNotRun))
    BY <1>2, <2>2 DEF Provenance, ExecutedOn, Document
  <2>4. QED
    BY <1>1, <1>4, <2>1, <2>3, RefuseDone DEF DryRunReady
<1>5. QED
  BY <1>3, <1>4

LEMMA ConcludeDone ==
  ASSUME IInv, pc \in {"preflight"} \union Applying, mode = "apply",
         NEW status \in {"applied", "partial", "write-failed", "indeterminate"},
         NEW code \in FailureCodes(status), NEW k \in 0..Last,
         NEW break \in {"not-run", "failed", "unknown"}, break = BreakOutcome(status),
         break # "not-run" => k < Last,
         status = "applied" => k = Last, status = "partial" => k > 0,
         Conclude(status, code, k, k + (IF break = "not-run" THEN 0 ELSE 1),
                  IF break = "unknown" THEN 1 ELSE 0, Outcomes(Last, k, break))
  PROVE  pc' = "done" /\ result'.status = status
<1>1. TypeOK /\ client.target = plan.target /\ Observed = plan.remote
  BY DEF IInv, StageInv, Admitted, Accepted
<1>2. ValidResult(Document(status, code, client.target, Observed, k,
                           k + (IF break = "not-run" THEN 0 ELSE 1),
                           IF break = "unknown" THEN 1 ELSE 0, Outcomes(Last, k, break)))
  BY <1>1, ValidConclusion
<1>3. QED
  BY <1>2 DEF Conclude, Report, Document

(* A run stopped at a final check is partial only after a write. *)
LEMMA StopDone ==
  ASSUME IInv, pc = "check", NEW before \in BeforeWriteCode, NEW after \in PartialCode,
         StopAtCheck(before, after)
  PROVE  /\ pc' = "done"
         /\ result'.status = IF performed > 0 THEN "partial" ELSE "failed-before-write"
<1>1. TypeOK /\ pc \in Applying /\ mode = "apply" /\ client.target = plan.target
  BY DEF IInv, StageInv, Applying, Underway, Admitted
<1>2. performed \in 0..Last /\ performed \in Nat
  BY <1>1, CurrentFacts DEF TypeOK
<1>3. outcome = Outcomes(Last, performed, "not-run")
  BY <1>1, RecordedOutcomes
<1>4. CASE performed > 0
  <2>1. BreakOutcome("partial") = "not-run" /\ after \in FailureCodes("partial")
    BY DEF BreakOutcome, FailureCodes
  <2>2. Conclude("partial", after, performed, performed + 0, 0, Outcomes(Last, performed, "not-run"))
    BY <1>2, <1>3, <1>4 DEF StopAtCheck
  <2>3. QED
    BY <1>1, <1>2, <1>4, <2>1, <2>2, ConcludeDone
<1>5. CASE performed = 0
  <2>1. outcome = AllNotRun
    BY <1>1, <1>3, <1>5, UntouchedOutcomes
  <2>2. before \in FailureCodes("failed-before-write")
        /\ "failed-before-write" \in UntouchedStatus
    BY DEF FailureCodes, UntouchedStatus
  <2>3. Provenance(Document("failed-before-write", before, client.target, None,
                            0, 0, 0, AllNotRun))
    BY <1>1 DEF Provenance, ExecutedOn, Document
  <2>4. ValidResult(Document("failed-before-write", before, client.target, None,
                             0, 0, 0, AllNotRun))
    BY <1>1, <2>2, <2>3, ValidRefusal
  <2>5. QED
    BY <1>5, <2>1, <2>4 DEF StopAtCheck, Report, Document
<1>6. QED
  BY <1>2, <1>4, <1>5

(* The class of an answer decides the outcome and the status together. *)
LEMMA EndDone ==
  ASSUME IInv, pc \in Applying,
         NEW class \in {"failed_auth", "failed_rejected", "unknown"}, EndAtWrite(class)
  PROVE  /\ pc' = "done"
         /\ result'.status = IF class = "unknown" THEN "indeterminate" ELSE "write-failed"
         /\ outcome' = [outcome EXCEPT ![Current] =
                          IF class = "unknown" THEN "unknown" ELSE "failed"]
<1>1. TypeOK /\ mode = "apply" /\ performed < Last
  BY DEF IInv, StageInv, Underway
<1>2. performed \in 0..Last /\ performed \in Nat /\ Current = performed + 1
  BY <1>1, CurrentFacts DEF TypeOK
<1>3. CASE class = "unknown"
  <2>1. outcome' = Outcomes(Last, performed, "unknown")
    BY <1>3, RecordedOutcomes DEF EndAtWrite
  <2>2. BreakOutcome("indeterminate") = "unknown"
        /\ "apply.write_outcome_unknown" \in FailureCodes("indeterminate")
    BY DEF BreakOutcome, FailureCodes
  <2>3. Conclude("indeterminate", "apply.write_outcome_unknown", performed, performed + 1, 1,
                 Outcomes(Last, performed, "unknown"))
    BY <1>2, <1>3, <2>1 DEF EndAtWrite
  <2>4. pc' = "done" /\ result'.status = "indeterminate"
    BY <1>1, <1>2, <2>2, <2>3, ConcludeDone
  <2>5. QED
    BY <1>3, <2>4 DEF EndAtWrite
<1>4. CASE class # "unknown"
  <2>1. outcome' = Outcomes(Last, performed, "failed")
    BY <1>4, RecordedOutcomes DEF EndAtWrite
  <2>2. PICK code \in {"apply.write_auth_failed", "apply.write_rejected"} :
          Conclude("write-failed", code, performed, Current, 0, outcome')
    BY <1>4 DEF EndAtWrite
  <2>3. BreakOutcome("write-failed") = "failed" /\ code \in FailureCodes("write-failed")
    BY DEF BreakOutcome, FailureCodes
  <2>4. Conclude("write-failed", code, performed, performed + 1, 0,
                 Outcomes(Last, performed, "failed"))
    BY <1>2, <2>1, <2>2
  <2>5. pc' = "done" /\ result'.status = "write-failed"
    BY <1>1, <1>2, <2>3, <2>4, ConcludeDone
  <2>6. QED
    BY <1>4, <2>5 DEF EndAtWrite
<1>5. QED
  BY <1>3, <1>4

LEMMA StartDone ==
  ASSUME IInv, Start
  PROVE  \/ Last = 0 /\ pc' = "done" /\ result'.status = "applied"
         \/ Last # 0 /\ pc' = "check"
<1>1. CASE Last = 0
  <2>1. TypeOK /\ pc = "preflight" /\ mode = "apply" /\ pc \in Reading
    BY DEF IInv, Start, Preflighted, Reading
  <2>2. outcome = Outcomes(Last, 0, "not-run")
    BY <2>1, UntouchedOutcomes DEF IInv, StageInv, NothingWritten
  <2>3. BreakOutcome("applied") = "not-run" /\ None \in FailureCodes("applied")
    BY DEF BreakOutcome, FailureCodes
  <2>4. Conclude("applied", None, 0, 0 + 0, 0, Outcomes(Last, 0, "not-run"))
    BY <1>1, <2>2 DEF Start
  <2>5. QED
    BY <1>1, <2>1, <2>3, <2>4, ConcludeDone
<1>2. CASE Last # 0
  BY <1>2 DEF Start
<1>3. QED
  BY <1>1, <1>2

LEMMA VerifyDone ==
  ASSUME IInv, VerifySucceeds
  PROVE  \/ Current = Last /\ pc' = "done" /\ result'.status = "applied"
         \/ Current # Last /\ pc' = "check"
<1>1. CASE Current = Last
  <2>1. TypeOK /\ pc \in Applying /\ mode = "apply"
    BY DEF IInv, StageInv, VerifySucceeds, Applying, Underway
  <2>2. Current \in Nat /\ Current \in 0..Last
    BY <1>1, <2>1, CurrentFacts
  <2>3. outcome' = Outcomes(Last, Current, "not-run")
    BY <2>1, RecordedOutcomes DEF VerifySucceeds
  <2>4. BreakOutcome("applied") = "not-run" /\ None \in FailureCodes("applied")
    BY DEF BreakOutcome, FailureCodes
  <2>5. Conclude("applied", None, Current, Current + 0, 0, Outcomes(Last, Current, "not-run"))
    <3>1. Conclude("applied", None, Current, Current, 0, outcome')
      BY <1>1 DEF VerifySucceeds
    <3>2. Current + 0 = Current
      BY <2>2
    <3>3. QED
      BY <2>3, <3>1, <3>2
  <2>6. QED
    BY <1>1, <2>1, <2>2, <2>4, <2>5, ConcludeDone
<1>2. CASE Current # Last
  BY <1>2 DEF VerifySucceeds
<1>3. QED
  BY <1>1, <1>2

(* The three actions that end a run at the final check or at the write. *)
LEMMA StopsDone ==
  ASSUME IInv, CheckDisagrees \/ CheckUnauthorized \/ CheckReadFails
  PROVE  /\ pc = "check" /\ pc' = "done" /\ outcome' = outcome
         /\ result'.status = IF performed > 0 THEN "partial" ELSE "failed-before-write"
<1>1. PICK before \in BeforeWriteCode, after \in PartialCode :
        pc = "check" /\ StopAtCheck(before, after)
  BY DEF CheckDisagrees, CheckUnauthorized, CheckReadFails, BeforeWriteCode, PartialCode
<1>2. outcome' = outcome
  BY <1>1 DEF StopAtCheck, applyVars
<1>3. QED
  BY <1>1, <1>2, StopDone

LEMMA BreaksDone ==
  ASSUME IInv, WriteRefused \/ WriteUnanswered \/ VerifyFails
  PROVE  /\ pc \in Applying /\ pc' = "done"
         /\ \/ /\ result'.status = "indeterminate"
               /\ outcome' = [outcome EXCEPT ![Current] = "unknown"]
            \/ /\ result'.status = "write-failed"
               /\ outcome' = [outcome EXCEPT ![Current] = "failed"]
<1>1. pc \in Applying
  BY DEF WriteRefused, WriteUnanswered, VerifyFails, Applying
<1>2. \E class \in {"failed_auth", "failed_rejected", "unknown"} : EndAtWrite(class)
  BY DEF WriteRefused, WriteUnanswered, VerifyFails, Classify
<1>3. QED
  BY <1>1, <1>2, EndDone

-----------------------------------------------------------------------------
(* What is reported is valid, and what an escape leaves behind. *)

(* The normalisers have raised in the final check of a later operation. *)
Unaccounted ==
  pc = "escaped" /\ initiated # {} =>
    /\ Current \in Positions /\ Writing.action = "replace" /\ initiated = 1..performed
    /\ \A w \in delayed : w.run # runs

Reported ==
  /\ pc = "done" => ValidResult(result) /\ result.status \in Status
  /\ Unaccounted

(* A run is done only with a document that has passed its validation. *)
LEMMA DoneIsValid ==
  ASSUME Next, pc' = "done", pc # "done"
  PROVE  ValidResult(result')
<1>1. ASSUME NEW status, NEW code, NEW target, NEW observed,
             Refuse(status, code, target, observed)
      PROVE  ValidResult(result')
  BY <1>1 DEF Refuse, Report
<1>2. CASE Admission
  BY <1>1, <1>2
  DEF Admission, RejectPlan, RefuseBlocked, RefuseArtifact, RefuseUnbound, RefuseWrongTarget,
      Admit
<1>3. CASE FreshCapture
  BY <1>1, <1>3
  DEF FreshCapture, Enumerate, ReadListed, EndListing, CaptureFails, FailBeforeWrite,
      DetectStale, AcceptCapture
<1>4. CASE Preflight
  BY <1>1, <1>4
  DEF Preflight, PreflightUnsupported, PreflightReadFails, PreflightDisagrees,
      PreflightPasses, MaterializeFails, DryRunReady, FailBeforeWrite
<1>5. CASE ApplyIntents
  <2>1. CASE Start \/ CheckPasses \/ WriteConfirmed \/ VerifySucceeds
    BY <2>1 DEF Start, CheckPasses, WriteConfirmed, VerifySucceeds, Conclude, Report
  <2>2. CASE CheckDisagrees \/ CheckUnauthorized \/ CheckReadFails
    BY <2>2 DEF CheckDisagrees, CheckUnauthorized, CheckReadFails, StopAtCheck, Conclude, Report
  <2>3. CASE WriteRefused \/ WriteUnanswered \/ VerifyFails
    BY <2>3 DEF WriteRefused, WriteUnanswered, VerifyFails, EndAtWrite, Conclude, Report
  <2> QED BY <1>5, <2>1, <2>2, <2>3 DEF ApplyIntents
<1>6. CASE Interrupted
  BY <1>6, InterruptedFacts
<1>7. CASE Environment /\ ~Crash
  BY <1>7 DEF Environment, DelayedArrives, DelayedLost, Edit, Rerun
<1> QED BY <1>2, <1>3, <1>4, <1>5, <1>6, <1>7 DEF Next, Executor, Interrupted

(* A run that reports is done, with a valid document. *)
LEMMA DoneIsReported ==
  ASSUME Next, pc # "done", pc' = "done", result'.status \in Status
  PROVE  Reported'
BY DoneIsValid DEF Reported, Unaccounted

(* An exception in the final check leaves nothing in doubt but its own existence. *)
LEMMA EscapeIsClean ==
  ASSUME IInv, NormaliserRaises
  PROVE  Reported'
<1>1. pc \notin Final /\ pc' = "escaped" /\ UNCHANGED <<performed, initiated, delayed, runs, job>>
  BY InterruptedFacts
  DEF Interrupted, NormaliserRaises, applyVars, historyVars, serviceVars, environmentVars,
      inputVars
<1>2. CASE pc = "preflight"
  BY <1>1, <1>2 DEF IInv, StageInv, NothingWritten, Reading, Reported, Unaccounted
<1>3. CASE pc = "check"
  <2>1. Current \in Positions /\ Writing.action = "replace"
    BY <1>3, CurrentFacts DEF IInv, Applying, NormaliserRaises, Preflighting
  <2>2. initiated = 1..performed
    BY <1>3 DEF IInv, StageInv, Prefix, Final
  <2>3. \A w \in delayed : w.run # runs
    BY <1>1 DEF IInv, StageInv, Late
  <2>4. Writing' = Writing /\ Current' = Current /\ Positions' = Positions
    BY <1>1, SameJob DEF Writing, Current
  <2> QED BY <1>1, <2>1, <2>2, <2>3, <2>4 DEF Reported, Unaccounted
<1> QED BY <1>2, <1>3 DEF NormaliserRaises, Preflighting

LEMMA StepReported ==
  ASSUME IInv, Reported, [Next]_vars
  PROVE  Reported'
<1>1. CASE UNCHANGED vars
  BY <1>1, SameJob
  DEF vars, inputVars, serviceVars, environmentVars, applyVars, historyVars, Reported,
      Unaccounted, Writing, Current
<1>2. CASE Next /\ pc' = "done" /\ pc # "done"
  <2>1. CASE RefuseBlocked \/ RefuseArtifact \/ RefuseUnbound \/ RefuseWrongTarget
    BY <1>2, <2>1, RefusedInTime, DoneIsReported DEF Status
  <2>2. CASE CaptureFails \/ PreflightUnsupported \/ PreflightReadFails \/ PreflightDisagrees
             \/ MaterializeFails
    BY <1>2, <2>2, FailuresInTime, DoneIsReported DEF Status, UntouchedStatus
  <2>3. CASE DetectStale \/ DryRunReady
    BY <1>2, <2>3, VerdictsInTime, DoneIsReported DEF Status
  <2>4. CASE Start
    BY <1>2, <2>4, StartDone, DoneIsReported DEF Status
  <2>5. CASE CheckDisagrees \/ CheckUnauthorized \/ CheckReadFails
    BY <1>2, <2>5, StopsDone, DoneIsReported DEF Status, UntouchedStatus
  <2>6. CASE WriteRefused \/ WriteUnanswered \/ VerifyFails
    BY <1>2, <2>6, BreaksDone, DoneIsReported DEF Status
  <2>7. CASE VerifySucceeds
    BY <1>2, <2>7, VerifyDone, DoneIsReported DEF Status
  <2>8. CASE RejectPlan \/ Admit \/ AcceptCapture \/ PreflightPasses \/ CheckPasses
             \/ WriteConfirmed
    BY <1>2, <2>8
    DEF RejectPlan, Admit, AcceptCapture, PreflightPasses, Preflighting, CheckPasses,
        WriteConfirmed
  <2>9. CASE Enumerate \/ Interrupted
    BY <1>2, <2>9, EnumerateFacts, InterruptedFacts DEF IInv
  <2>10. CASE Environment /\ ~Crash
    BY <1>2, <2>10 DEF Environment, DelayedArrives, DelayedLost, Edit, Rerun
  <2> QED BY <1>2, <2>1, <2>2, <2>3, <2>4, <2>5, <2>6, <2>7, <2>8, <2>9, <2>10
    DEF Next, Executor, Admission, FreshCapture, Preflight, ApplyIntents, Interrupted
<1>3. CASE Executor /\ pc' # "done" /\ ~NormaliserRaises
  <2>1. pc' # "escaped"
    <3>1. CASE RefuseBlocked \/ RefuseArtifact \/ RefuseUnbound \/ RefuseWrongTarget
               \/ CaptureFails \/ PreflightUnsupported \/ PreflightReadFails
               \/ PreflightDisagrees \/ MaterializeFails \/ DetectStale \/ DryRunReady
      BY <1>3, <3>1, RefusedInTime, FailuresInTime, VerdictsInTime
    <3>2. CASE \/ Start \/ CheckDisagrees \/ CheckUnauthorized \/ CheckReadFails
               \/ WriteRefused \/ WriteUnanswered \/ VerifyFails \/ VerifySucceeds
      BY <1>3, <3>2, StartDone, StopsDone, BreaksDone, VerifyDone
    <3>3. CASE RejectPlan \/ Admit \/ AcceptCapture \/ PreflightPasses \/ CheckPasses
               \/ WriteConfirmed \/ Enumerate
      BY <3>3, EnumerateFacts
      DEF IInv, RejectPlan, Admit, AcceptCapture, PreflightPasses, Preflighting, CheckPasses,
          WriteConfirmed
    <3> QED BY <1>3, <3>1, <3>2, <3>3
      DEF Executor, Admission, FreshCapture, Preflight, ApplyIntents
  <2> QED BY <1>3, <2>1 DEF Reported, Unaccounted
<1>4. CASE Interrupted
  BY <1>4, EscapeIsClean DEF Interrupted, Crash, Reported, Unaccounted
<1>5. CASE Environment /\ ~Crash /\ (pc = "done" \/ pc' # "done")
  <2>1. ASSUME NEW w \in delayed, DelayedArrives(w) \/ DelayedLost(w)
        PROVE  Reported'
    BY <2>1, SameJob
    DEF DelayedArrives, DelayedLost, inputVars, environmentVars, applyVars, historyVars,
        Reported, Unaccounted, Writing, Current
  <2>2. ASSUME NEW id \in Id, Edit(id)
        PROVE  Reported'
    BY <2>2, SameJob
    DEF Edit, inputVars, applyVars, historyVars, Reported, Unaccounted, Writing, Current
  <2>3. CASE Rerun
    BY <2>3 DEF Rerun, Reported, Unaccounted
  <2> QED BY <1>5, <2>1, <2>2, <2>3 DEF Environment
<1>6. Executor => pc # "done"
  BY EnumerateFacts, InterruptedFacts, CurrentFacts
  DEF IInv, Executor, Admission, RejectPlan, RefuseBlocked, RefuseArtifact, RefuseUnbound,
      RefuseWrongTarget, Admit, FreshCapture, CaptureFails, DetectStale, AcceptCapture,
      Preflight, PreflightUnsupported, PreflightReadFails, PreflightDisagrees,
      PreflightPasses, Preflighting, Preflighted, MaterializeFails, DryRunReady,
      ApplyIntents, Start, CheckPasses, CheckDisagrees, CheckUnauthorized, CheckReadFails,
      WriteConfirmed, WriteRefused, WriteUnanswered, VerifySucceeds, VerifyFails,
      Interrupted, Final
<1> QED BY <1>1, <1>2, <1>3, <1>4, <1>5, <1>6 DEF Next, Interrupted

LEMMA ReportedInvariance == Spec => [](IInv /\ Reported)
<1>1. Init => IInv /\ Reported
  BY InitInv DEF Init, Reported, Unaccounted
<1>2. IInv /\ Reported /\ [Next]_vars => (IInv /\ Reported)'
  BY StepInv, StepReported
<1>3. QED
  BY <1>1, <1>2, PTL DEF Spec

-----------------------------------------------------------------------------
(* The executor implements the ledger. *)

Verdict ==
  IF pc = "done" THEN result.status ELSE IF pc \in Final THEN "none" ELSE "running"

LEMMA VerdictNow ==
  /\ pc = "done" => Verdict = result.status
  /\ pc \in {"rejected", "crashed", "escaped"} => Verdict = "none"
  /\ pc \notin Final => Verdict = "running"
BY DEF Verdict, Final

LEMMA VerdictNext ==
  /\ pc' = "done" => Verdict' = result'.status
  /\ pc' \in {"rejected", "crashed", "escaped"} => Verdict' = "none"
  /\ pc' \notin Final => Verdict' = "running"
BY DEF Verdict, Final

(* Before the apply stage the ledger is untouched. *)
LEMMA UntouchedLedger ==
  ASSUME IInv, pc \in Reading
  PROVE  Ledger!Untouched /\ Verdict = "running"
<1>1. outcome = AllNotRun
  BY DEF IInv, StageInv, NothingWritten
<1>2. QED
  BY <1>1 DEF Ledger!Untouched, AllNotRun, Verdict, Reading, Final

(* In the apply stage it is the current operation's turn. *)
LEMMA CurrentTurn ==
  ASSUME IInv, pc \in Applying
  PROVE  /\ Current \in DOMAIN outcome /\ Ledger!Turn(Current) /\ Verdict = "running"
         /\ ~Ledger!Complete
         /\ performed > 0 <=> ~Ledger!Untouched
<1>1. performed \in Nat /\ Current = performed + 1 /\ Current \in Positions
  BY CurrentFacts
<1>2. Positions = 1..Last /\ Last \in Nat
  BY JobFacts DEF IInv
<1>3. outcome = [i \in Positions |-> IF i <= performed THEN "succeeded" ELSE "not-run"]
  BY DEF IInv, StageInv, Underway
<1>4. Current \in DOMAIN outcome /\ outcome[Current] = "not-run"
  BY <1>1, <1>3
<1>5. \A j \in DOMAIN outcome : j < Current => outcome[j] = "succeeded"
  BY <1>1, <1>2, <1>3
<1>6. ~Ledger!Complete
  BY <1>4 DEF Ledger!Complete
<1>7. CASE performed > 0
  <2>1. 1 \in DOMAIN outcome /\ outcome[1] = "succeeded"
    BY <1>1, <1>2, <1>3, <1>7
  <2>2. QED
    BY <1>4, <1>5, <1>6, <1>7, <2>1 DEF Ledger!Turn, Ledger!Untouched, Verdict, Applying, Final
<1>8. CASE performed = 0
  <2>1. \A j \in DOMAIN outcome : outcome[j] = "not-run"
    BY <1>2, <1>3, <1>8
  <2>2. QED
    BY <1>1, <1>4, <1>5, <1>6, <1>8, <2>1
    DEF Ledger!Turn, Ledger!Untouched, Verdict, Applying, Final
<1>9. QED
  BY <1>1, <1>7, <1>8

LEMMA LedgerInit ==
  ASSUME Init
  PROVE  Ledger!Init
BY DEF Init, AllNotRun, Ledger!Init, Ledger!Untouched, Final

LEMMA LedgerStep ==
  ASSUME IInv, Reported, [Next]_vars
  PROVE  [Ledger!Next]_<<outcome, Verdict>>
<1>1. CASE RejectPlan
  <2>1. pc \in Reading /\ pc' = "rejected" /\ outcome' = outcome
    BY <1>1 DEF RejectPlan, Reading, applyVars
  <2>2. Verdict = "running" /\ Verdict' = "none"
    BY <2>1, UntouchedLedger, VerdictNext
  <2>3. Ledger!Abort
    BY <2>1, <2>2 DEF Ledger!Abort, Verdict
  <2>4. QED
    BY <2>3 DEF Ledger!Next
<1>2. CASE Admit \/ AcceptCapture \/ PreflightPasses \/ CheckPasses \/ WriteConfirmed
           \/ Enumerate
  <2>1. pc \notin Final /\ pc' \notin Final /\ outcome' = outcome
    BY <1>2, EnumerateFacts
    DEF IInv, Admit, AcceptCapture, PreflightPasses, CheckPasses, WriteConfirmed,
        Preflighting, Final, applyVars
  <2>2. QED
    BY <2>1, VerdictNow, VerdictNext

<1>3. CASE \/ RefuseBlocked \/ RefuseArtifact \/ RefuseUnbound \/ RefuseWrongTarget
           \/ CaptureFails \/ PreflightUnsupported \/ PreflightReadFails \/ PreflightDisagrees
           \/ MaterializeFails \/ DetectStale \/ DryRunReady
  <2>1. pc' = "done" /\ result'.status \in UntouchedStatus
    BY <1>3, RefusedInTime, FailuresInTime, VerdictsInTime DEF UntouchedStatus
  <2>2. pc \in Reading
    BY <1>3
    DEF RefuseBlocked, RefuseArtifact, RefuseUnbound, RefuseWrongTarget, CaptureFails,
        PreflightUnsupported, PreflightReadFails, PreflightDisagrees, MaterializeFails,
        DetectStale, DryRunReady, Preflighting, Preflighted, Reading
  <2>3. outcome' = outcome
    BY <1>3
    DEF RefuseBlocked, RefuseArtifact, RefuseUnbound, RefuseWrongTarget, CaptureFails,
        PreflightUnsupported, PreflightReadFails, PreflightDisagrees, MaterializeFails,
        DetectStale, DryRunReady, FailBeforeWrite, Refuse, applyVars
  <2>4. Ledger!Untouched /\ Verdict = "running" /\ Verdict' \in UntouchedStatus
    BY <2>1, <2>2, UntouchedLedger, VerdictNext
  <2>5. Ledger!Decline
    BY <2>3, <2>4 DEF Ledger!Decline, Verdict, UntouchedStatus
  <2>6. QED
    BY <2>5 DEF Ledger!Next
<1>4. CASE Start
  <2>1. pc \in Reading /\ pc = "preflight" /\ outcome' = outcome
    BY <1>4 DEF Start, Preflighted, Reading, applyVars
  <2>2. Ledger!Untouched /\ Verdict = "running"
    BY <2>1, UntouchedLedger
  <2>3. CASE Last = 0 /\ pc' = "done" /\ result'.status = "applied"
    <3>1. outcome = AllNotRun /\ Positions = 1..Last
      BY <2>1, JobFacts DEF IInv, StageInv, NothingWritten
    <3>2. Ledger!Complete
      BY <2>3, <3>1 DEF Ledger!Complete, AllNotRun
    <3>3. Verdict' = "applied"
      BY <2>3, VerdictNext
    <3>4. Ledger!Finish
      BY <2>1, <2>2, <3>2, <3>3 DEF Ledger!Finish, Verdict
    <3>5. QED
      BY <3>4 DEF Ledger!Next
  <2>4. CASE pc' = "check"
    BY <2>1, <2>2, <2>4, VerdictNext DEF Final
  <2>5. QED
    BY <1>4, <2>3, <2>4, StartDone
<1>5. CASE CheckDisagrees \/ CheckUnauthorized \/ CheckReadFails
  <2>1. /\ pc \in Applying /\ outcome' = outcome
        /\ Verdict' = IF performed > 0 THEN "partial" ELSE "failed-before-write"
    BY <1>5, StopsDone, VerdictNext DEF Applying
  <2>2. /\ Verdict = "running" /\ ~Ledger!Complete
        /\ performed > 0 <=> ~Ledger!Untouched
    BY <2>1, CurrentTurn
  <2>3. CASE performed > 0
    <3>1. Ledger!Stop
      BY <2>1, <2>2, <2>3 DEF Ledger!Stop, Verdict
    <3>2. QED
      BY <3>1 DEF Ledger!Next
  <2>4. CASE ~(performed > 0)
    <3>1. Ledger!Decline
      BY <2>1, <2>2, <2>4 DEF Ledger!Decline, Verdict
    <3>2. QED
      BY <3>1 DEF Ledger!Next
  <2>5. QED
    BY <2>3, <2>4
<1>6. CASE WriteRefused \/ WriteUnanswered \/ VerifyFails
  <2>1. /\ pc \in Applying
        /\ \/ /\ Verdict' = "indeterminate"
              /\ outcome' = [outcome EXCEPT ![Current] = "unknown"]
           \/ /\ Verdict' = "write-failed"
              /\ outcome' = [outcome EXCEPT ![Current] = "failed"]
    BY <1>6, BreaksDone, VerdictNext
  <2>2. Current \in DOMAIN outcome /\ Ledger!Turn(Current) /\ Verdict = "running"
    BY <2>1, CurrentTurn
  <2>3. Ledger!Break(Current)
    BY <2>1, <2>2 DEF Ledger!Break, Verdict
  <2>4. QED
    BY <2>2, <2>3 DEF Ledger!Next
<1>7. CASE VerifySucceeds
  <2>1. pc \in Applying /\ outcome' = [outcome EXCEPT ![Current] = "succeeded"]
    BY <1>7 DEF VerifySucceeds, Applying
  <2>2. Current \in DOMAIN outcome /\ Ledger!Turn(Current) /\ Verdict = "running"
    BY <2>1, CurrentTurn
  <2>3. CASE Current = Last /\ pc' = "done" /\ result'.status = "applied"
    <3>1. Verdict' = "applied"
      BY <2>3, VerdictNext
    <3>2. \A i \in DOMAIN outcome : i < Current => outcome[i] = "succeeded"
      BY <2>2 DEF Ledger!Turn
    <3>3. DOMAIN outcome = 1..Current /\ Current \in Nat
      BY <2>1, <2>3, JobFacts, CurrentFacts DEF IInv, TypeOK
    <3>4. \A i \in DOMAIN outcome' : outcome'[i] = "succeeded"
      BY <2>1, <3>2, <3>3
    <3>5. Ledger!Complete'
      BY <3>4 DEF Ledger!Complete
    <3>6. Ledger!Succeed(Current)
      BY <2>1, <2>2, <3>1, <3>5 DEF Ledger!Succeed, Verdict
    <3>7. QED
      BY <2>2, <3>6 DEF Ledger!Next
  <2>4. CASE pc' = "check"
    <3>1. Verdict' = "running"
      BY <2>4, VerdictNext DEF Final
    <3>2. Ledger!Succeed(Current)
      BY <2>1, <2>2, <3>1 DEF Ledger!Succeed, Verdict
    <3>3. QED
      BY <2>2, <3>2 DEF Ledger!Next
  <2>5. QED
    BY <1>7, <2>3, <2>4, VerifyDone
<1>8. CASE Interrupted
  <2>1. pc \notin Final /\ pc' \in {"crashed", "escaped"} /\ outcome' = outcome
    BY <1>8, InterruptedFacts DEF applyVars
  <2>2. Verdict = "running" /\ Verdict' = "none"
    BY <2>1, VerdictNow, VerdictNext
  <2>3. Ledger!Abort
    BY <2>1, <2>2 DEF Ledger!Abort, Verdict
  <2>4. QED
    BY <2>3 DEF Ledger!Next
<1>9. CASE Rerun
  <2>1. pc \in Final /\ pc' = "start" /\ outcome' = AllNotRun
    BY <1>9 DEF Rerun
  <2>2. Verdict # "running"
    BY <2>1 DEF Verdict, Reported, Status, UntouchedStatus, Final
  <2>3. Verdict' = "running"
    BY <2>1, VerdictNext DEF Final
  <2>4. DOMAIN outcome = Positions
    BY DEF IInv, TypeOK
  <2>5. Ledger!Restart
    BY <2>1, <2>2, <2>3, <2>4 DEF Ledger!Restart, Verdict, AllNotRun
  <2>6. QED
    BY <2>5 DEF Ledger!Next
<1>10. CASE \/ \E w \in delayed : DelayedArrives(w) \/ DelayedLost(w)
            \/ \E id \in Id : Edit(id)
            \/ UNCHANGED vars
  <2>1. pc' = pc /\ result' = result /\ outcome' = outcome
    BY <1>10 DEF DelayedArrives, DelayedLost, Edit, vars, applyVars
  <2>2. QED
    BY <2>1 DEF Verdict
<1>11. QED
  BY <1>1, <1>2, <1>3, <1>4, <1>5, <1>6, <1>7, <1>8, <1>9, <1>10
  DEF Next, Executor, Admission, FreshCapture, Preflight, ApplyIntents, Environment,
      Interrupted

(* The v3 executor implements ApplyLedger: seen from its outcomes and verdict, every *)
(* step of it and of its surroundings is a step of the ledger or a stutter.          *)
THEOREM ImplementsLedger == Spec => KeepsLedger
<1>1. Init => Ledger!Init
  BY LedgerInit
<1>2. IInv /\ Reported /\ [Next]_vars => [Ledger!Next]_<<outcome, Verdict>>
  BY LedgerStep
<1>3. QED
  BY <1>1, <1>2, ReportedInvariance, PTL DEF Spec, KeepsLedger, Ledger!Spec, Verdict

-----------------------------------------------------------------------------
(* Results are honest. *)

Account ==
  /\ result # None =>
       pc = "done" /\ result.ops = outcome /\ result.attempted = Cardinality(initiated)
  /\ \A i \in Positions :
       /\ outcome[i] = "succeeded" => i \in landed
       /\ pc \notin {"verify", "crashed", "escaped"} /\ outcome[i] \in {"failed", "not-run"} =>
            i \notin landed
  /\ \A w \in delayed : w.run = runs => outcome[w.index] = "unknown"

LEMMA CountTo ==
  ASSUME NEW k \in Nat
  PROVE  Cardinality(1..k) = k
<1>1. Cardinality(1..k) = IF 1 > k THEN 0 ELSE k - 1 + 1
  BY FS_Interval
<1>2. QED
  BY <1>1

(* No write of this run is on its way while it runs. *)
LEMMA NothingLate ==
  ASSUME IInv, pc \notin Final
  PROVE  \A w \in delayed : w.run # runs
BY DEF IInv, StageInv, Late

(* Steps before the apply stage. *)
LEMMA ReadingAccount ==
  ASSUME IInv, pc \in Reading, pc' # "verify", runs' = runs, delayed' = delayed,
         initiated' = initiated, landed' = landed, outcome' = outcome, Positions' = Positions,
         \/ result' = result
         \/ pc' = "done" /\ result'.ops = AllNotRun /\ result'.attempted = 0
  PROVE  Account'
<1>1. /\ outcome = AllNotRun /\ initiated = {} /\ landed = {} /\ result = None
      /\ pc \notin Final
  BY DEF IInv, StageInv, NothingWritten, Reading, Final
<1>2. \A w \in delayed : w.run # runs
  BY <1>1, NothingLate
<1>3. Cardinality({}) = 0
  BY FS_EmptySet
<1>4. \A i \in Positions : outcome[i] # "succeeded"
  BY <1>1 DEF AllNotRun
<1>5. QED
  BY <1>1, <1>2, <1>3, <1>4 DEF Account

LEMMA RefusalAccount ==
  ASSUME IInv, pc \in Reading, NEW status, NEW code, NEW target, NEW observed,
         Refuse(status, code, target, observed), pc' = "done"
  PROVE  Account'
<1>1. /\ UNCHANGED <<runs, delayed, initiated, landed, outcome, inputVars>>
      /\ result'.ops = AllNotRun /\ result'.attempted = 0
  BY DEF Refuse, Report, Document, environmentVars, serviceVars, historyVars, applyVars
<1>2. Positions' = Positions
  BY <1>1, SameJob DEF inputVars
<1>3. QED
  BY <1>1, <1>2, ReadingAccount

LEMMA RefusalsAccount ==
  ASSUME IInv,
         \/ RefuseBlocked \/ RefuseArtifact \/ RefuseUnbound \/ RefuseWrongTarget
         \/ CaptureFails \/ PreflightUnsupported \/ PreflightReadFails \/ PreflightDisagrees
         \/ MaterializeFails \/ DetectStale \/ DryRunReady
  PROVE  Account'
<1>1. pc' = "done"
  BY RefusedInTime, FailuresInTime, VerdictsInTime
<1>2. pc \in Reading
  BY DEF RefuseBlocked, RefuseArtifact, RefuseUnbound, RefuseWrongTarget, CaptureFails,
         PreflightUnsupported, PreflightReadFails, PreflightDisagrees, MaterializeFails,
         DetectStale, DryRunReady, Preflighting, Preflighted, Reading
<1>3. \E status, code, target, observed : Refuse(status, code, target, observed)
  BY DEF RefuseBlocked, RefuseArtifact, RefuseUnbound, RefuseWrongTarget, CaptureFails,
         PreflightUnsupported, PreflightReadFails, PreflightDisagrees, MaterializeFails,
         DetectStale, DryRunReady, FailBeforeWrite
<1>4. QED
  BY <1>1, <1>2, <1>3, RefusalAccount

LEMMA StartAccount ==
  ASSUME IInv, Start
  PROVE  Account'
<1>1. /\ pc \in Reading /\ pc' # "verify" /\ pc = "preflight"
      /\ UNCHANGED <<runs, delayed, initiated, landed, outcome, inputVars>>
  BY StartDone
  DEF Start, Preflighted, Reading, environmentVars, serviceVars, historyVars, applyVars
<1>2. Positions' = Positions /\ outcome = AllNotRun
  BY <1>1, SameJob DEF inputVars, IInv, StageInv, NothingWritten
<1>3. \/ result' = result
      \/ pc' = "done" /\ result'.ops = AllNotRun /\ result'.attempted = 0
  BY <1>2, StartDone DEF Start, Conclude, Report, Document
<1>4. QED
  BY <1>1, <1>2, <1>3, ReadingAccount

LEMMA StopAccount ==
  ASSUME IInv, Account, CheckDisagrees \/ CheckUnauthorized \/ CheckReadFails
  PROVE  Account'
<1>1. pc = "check" /\ pc' = "done" /\ pc \in Applying /\ pc \notin Final
  BY StopsDone DEF Applying, Final
<1>2. performed \in Nat /\ initiated = 1..performed
  BY <1>1, CurrentFacts DEF IInv, StageInv, Prefix
<1>3. /\ UNCHANGED <<runs, delayed, initiated, landed, outcome, inputVars>>
      /\ result'.ops = outcome /\ result'.attempted = performed
  <2>1. PICK before, after : StopAtCheck(before, after)
    BY DEF CheckDisagrees, CheckUnauthorized, CheckReadFails
  <2>2. UNCHANGED <<runs, delayed, initiated, landed, outcome, inputVars>>
    BY <2>1 DEF StopAtCheck, environmentVars, serviceVars, historyVars, applyVars
  <2>3. result'.ops = outcome /\ result'.attempted = performed
    BY <1>2, <2>1 DEF StopAtCheck, Conclude, Report, Document
  <2>4. QED
    BY <2>2, <2>3
<1>4. Positions' = Positions
  BY <1>3, SameJob DEF inputVars
<1>5. Cardinality(initiated) = performed
  BY <1>2, CountTo
<1>6. QED
  BY <1>1, <1>3, <1>4, <1>5 DEF Account

LEMMA BreakAccount ==
  ASSUME IInv, Account, WriteRefused \/ WriteUnanswered \/ VerifyFails
  PROVE  Account'
<1>1. /\ pc \in Applying /\ pc' = "done" /\ pc \notin Final
      /\ \/ outcome' = [outcome EXCEPT ![Current] = "unknown"]
         \/ outcome' = [outcome EXCEPT ![Current] = "failed"]
  BY BreaksDone DEF Applying, Final
<1>2. /\ performed \in Nat /\ Current = performed + 1 /\ Current \in Positions
      /\ Current \in Nat
  BY <1>1, CurrentFacts
<1>3. result'.ops = outcome' /\ result'.attempted = Current
  <2>1. PICK class : EndAtWrite(class)
    BY DEF WriteRefused, WriteUnanswered, VerifyFails
  <2>2. \E status, code, unknown :
          Conclude(status, code, performed, Current, unknown, outcome')
    BY <2>1 DEF EndAtWrite
  <2>3. QED
    BY <2>2 DEF Conclude, Report, Document
<1>4. UNCHANGED <<runs, inputVars>> /\ Positions' = Positions
  BY SameJob DEF WriteRefused, WriteUnanswered, VerifyFails, environmentVars, inputVars
<1>5. initiated' = 1..Current
  <2>1. CASE WriteRefused \/ WriteUnanswered
    BY <2>1, NextInvoked DEF WriteRefused, WriteUnanswered
  <2>2. CASE VerifyFails
    BY <2>2 DEF VerifyFails, historyVars, IInv, StageInv, Prefix
  <2>3. QED
    BY <2>1, <2>2
<1>6. Cardinality(initiated') = Current
  BY <1>2, <1>5, CountTo
<1>7. \A w \in delayed' : w.run = runs => outcome'[w.index] = "unknown"
  <2>1. \A w \in delayed : w.run # runs
    BY <1>1, NothingLate
  <2>2. CASE WriteRefused \/ VerifyFails
    BY <2>1, <2>2 DEF WriteRefused, VerifyFails, serviceVars
  <2>3. CASE WriteUnanswered
    <3>1. outcome'[Current] = "unknown"
      BY <1>2, <2>3 DEF WriteUnanswered, EndAtWrite, Classify, IInv, TypeOK
    <3>2. \A w \in delayed' \ delayed : w.index = Current
      BY <2>3 DEF WriteUnanswered
    <3>3. QED
      BY <2>1, <3>1, <3>2
  <2>4. QED
    BY <2>2, <2>3
<1>8. \A i \in Positions :
        /\ outcome'[i] = "succeeded" => i \in landed'
        /\ outcome'[i] \in {"failed", "not-run"} => i \notin landed'
  <2>1. \A i \in Positions : i # Current => outcome'[i] = outcome[i]
    BY <1>1, <1>2 DEF IInv, TypeOK
  <2>2. CASE WriteRefused
    <3>1. pc = "write" /\ landed' = landed
      BY <2>2 DEF WriteRefused
    <3>2. Current \notin landed
      BY <1>2, <3>1, NextInvoked DEF IInv, StageInv, Prefix
    <3>3. outcome'[Current] # "succeeded"
      BY <1>1, <1>2 DEF IInv, TypeOK
    <3>4. QED
      BY <2>1, <3>1, <3>2, <3>3 DEF Account
  <2>3. CASE WriteUnanswered
    <3>1. pc = "write" /\ (landed' = landed \/ landed' = landed \union {Current})
      BY <2>3 DEF WriteUnanswered
    <3>2. outcome'[Current] = "unknown"
      BY <1>2, <2>3 DEF WriteUnanswered, EndAtWrite, Classify, IInv, TypeOK
    <3>3. QED
      BY <2>1, <3>1, <3>2 DEF Account
  <2>4. CASE VerifyFails
    <3>1. landed' = landed /\ pc = "verify"
      BY <2>4 DEF VerifyFails, historyVars
    <3>2. outcome'[Current] = "unknown"
      BY <1>2, <2>4 DEF VerifyFails, EndAtWrite, IInv, TypeOK
    <3>3. \A i \in Positions : i # Current /\ i \in landed => outcome[i] = "succeeded"
      <4>1. landed \subseteq 1..Current
        BY <3>1 DEF IInv, StageInv, Prefix
      <4>2. outcome = [i \in Positions |-> IF i <= performed THEN "succeeded" ELSE "not-run"]
        BY <1>1 DEF IInv, StageInv, Underway
      <4>3. QED
        BY <1>2, <4>1, <4>2
    <3>4. QED
      BY <2>1, <3>1, <3>2, <3>3 DEF Account
  <2>5. QED
    BY <2>2, <2>3, <2>4
<1>9. QED
  BY <1>1, <1>3, <1>4, <1>6, <1>7, <1>8 DEF Account

LEMMA VerifyAccount ==
  ASSUME IInv, Account, VerifySucceeds
  PROVE  Account'
<1>1. /\ pc = "verify" /\ pc \in Applying /\ pc \notin Final /\ pc' # "verify"
      /\ outcome' = [outcome EXCEPT ![Current] = "succeeded"]
      /\ UNCHANGED <<runs, delayed, initiated, landed, inputVars>>
  BY VerifyDone
  DEF VerifySucceeds, Applying, Final, environmentVars, serviceVars, historyVars
<1>2. /\ performed \in Nat /\ Current = performed + 1 /\ Current \in Positions
      /\ Current \in Nat
  BY <1>1, CurrentFacts
<1>3. initiated = 1..Current /\ Current \in landed /\ landed \subseteq 1..Current
  BY <1>1 DEF IInv, StageInv, Prefix
<1>4. Cardinality(initiated) = Current
  BY <1>2, <1>3, CountTo
<1>5. Positions' = Positions
  BY <1>1, SameJob DEF inputVars
<1>6. \/ result' = result /\ result = None
      \/ pc' = "done" /\ result'.ops = outcome' /\ result'.attempted = Current
  <2>1. result = None
    BY <1>1 DEF IInv, StageInv, Underway
  <2>2. CASE Current = Last
    BY <2>2, VerifyDone DEF VerifySucceeds, Conclude, Report, Document
  <2>3. CASE Current # Last
    BY <2>1, <2>3 DEF VerifySucceeds
  <2>4. QED
    BY <2>2, <2>3
<1>7. \A i \in Positions :
        /\ outcome'[i] = "succeeded" => i \in landed
        /\ outcome'[i] \in {"failed", "not-run"} => i \notin landed
  <2>1. outcome = [i \in Positions |-> IF i <= performed THEN "succeeded" ELSE "not-run"]
    BY <1>1 DEF IInv, StageInv, Underway
  <2>2. \A i \in Positions : i # Current => outcome'[i] = outcome[i]
    BY <1>1, <1>2, <2>1
  <2>3. outcome'[Current] = "succeeded"
    BY <1>1, <1>2, <2>1
  <2>4. \A i \in Positions : i # Current /\ i \in landed => outcome[i] = "succeeded"
    BY <1>2, <1>3, <2>1
  <2>5. QED
    BY <1>3, <2>2, <2>3, <2>4 DEF Account
<1>8. \A w \in delayed : w.run # runs
  BY <1>1, NothingLate
<1>9. QED
  BY <1>1, <1>4, <1>5, <1>6, <1>7, <1>8 DEF Account

LEMMA SilentAccount ==
  ASSUME IInv, Account,
         \/ RejectPlan \/ Admit \/ AcceptCapture \/ PreflightPasses \/ CheckPasses
         \/ WriteConfirmed \/ Enumerate
  PROVE  Account'
<1>1. /\ pc \notin Final
      /\ UNCHANGED <<runs, delayed, outcome, inputVars, result>>
  BY EnumerateFacts
  DEF IInv, RejectPlan, Admit, AcceptCapture, PreflightPasses, CheckPasses, WriteConfirmed,
      Preflighting, Final, environmentVars, serviceVars, applyVars
<1>2. result = None
  <2>1. CASE pc \in Reading
    BY <2>1 DEF IInv, StageInv, NothingWritten
  <2>2. CASE pc \in Applying
    BY <2>2 DEF IInv, StageInv, Underway
  <2>3. QED
    BY <1>1, <2>1, <2>2 DEF IInv, TypeOK, Place, Reading, Applying
<1>3. Positions' = Positions
  BY <1>1, SameJob DEF inputVars
<1>4. \/ landed' = landed /\ pc # "verify" /\ pc' # "verify"
      \/ landed' = landed \union {Current} /\ pc' = "verify"
  BY EnumerateFacts
  DEF IInv, RejectPlan, Admit, AcceptCapture, PreflightPasses, CheckPasses, WriteConfirmed,
      Preflighting, historyVars
<1>5. \A w \in delayed : w.run # runs
  BY <1>1, NothingLate
<1>6. pc \notin {"crashed", "escaped"}
  BY <1>1 DEF Final
<1>7. QED
  BY <1>1, <1>2, <1>3, <1>4, <1>5, <1>6 DEF Account

LEMMA EnvironmentAccount ==
  ASSUME IInv, Account, Environment \/ NormaliserRaises
  PROVE  Account'
<1>1. ASSUME NEW w \in delayed, DelayedArrives(w)
      PROVE  Account'
  <2>1. /\ UNCHANGED <<pc, result, outcome, initiated, runs, inputVars>>
        /\ delayed' = delayed \ {w}
        /\ \/ landed' = landed
           \/ w.run = runs /\ landed' = landed \union {w.index}
    BY <1>1 DEF DelayedArrives, environmentVars, applyVars
  <2>2. Positions' = Positions
    BY <2>1, SameJob DEF inputVars
  <2>3. w.run = runs => outcome[w.index] = "unknown"
    BY <1>1 DEF Account
  <2>4. QED
    BY <2>1, <2>2, <2>3 DEF Account
<1>2. ASSUME NEW w \in delayed, DelayedLost(w)
      PROVE  Account'
  <2>1. /\ UNCHANGED <<pc, result, outcome, initiated, landed, runs, inputVars>>
        /\ delayed' = delayed \ {w}
    BY <1>2 DEF DelayedLost, environmentVars, applyVars, historyVars
  <2>2. QED
    BY <2>1, SameJob DEF Account, inputVars
<1>3. ASSUME NEW id \in Id, Edit(id)
      PROVE  Account'
  BY <1>3, SameJob DEF Edit, applyVars, historyVars, inputVars, Account
<1>4. CASE Interrupted
  <2>1. /\ UNCHANGED <<result, outcome, initiated, landed, delayed, runs, inputVars>>
        /\ pc \notin Final /\ pc' \in {"crashed", "escaped"}
    BY <1>4, InterruptedFacts DEF environmentVars, serviceVars, applyVars, historyVars
  <2>2. result = None
    BY <2>1 DEF Account, Final
  <2>3. QED
    BY <2>1, <2>2, SameJob DEF Account, inputVars
<1>5. CASE Rerun
  <2>1. /\ pc' = "start" /\ job' = job /\ outcome' = AllNotRun /\ result' = None
        /\ landed' = {} /\ delayed' = delayed /\ runs' = runs + 1
    BY <1>5 DEF Rerun, serviceVars
  <2>2. \A w \in delayed : w.run # runs + 1
    <3>1. runs \in Nat /\ \A w \in delayed : w.run \in Nat /\ w.run <= runs
      BY DEF IInv, StageInv, Late, TypeOK, DelayedWrite
    <3>2. QED
      BY <3>1
  <2>3. QED
    BY <2>1, <2>2, SameJob DEF Account, AllNotRun
<1>6. QED
  BY <1>1, <1>2, <1>3, <1>4, <1>5 DEF Environment, Interrupted

LEMMA StepAccount ==
  ASSUME IInv, Account, [Next]_vars
  PROVE  Account'
<1>1. CASE UNCHANGED vars
  BY <1>1, SameJob
  DEF vars, inputVars, serviceVars, environmentVars, applyVars, historyVars, Account
<1>2. QED
  BY <1>1, SilentAccount, RefusalsAccount, StartAccount, StopAccount, BreakAccount,
     VerifyAccount, EnvironmentAccount
  DEF Next, Executor, Admission, FreshCapture, Preflight, ApplyIntents

LEMMA InitAccount ==
  ASSUME Init
  PROVE  Account
BY DEF Init, AllNotRun, Account

(* The result tells the truth about the service: what it calls succeeded has changed *)
(* the catalog, what it calls failed or not-run has not and never will, and the      *)
(* writes attempted are exactly those invoked.                                       *)
THEOREM ResultsAreHonest == Spec => []HonestResult
<1>1. Init => IInv /\ Account
  BY InitInv, InitAccount
<1>2. IInv /\ Account /\ [Next]_vars => (IInv /\ Account)'
  BY StepInv, StepAccount
<1>3. IInv /\ Account => HonestResult
  <2>1. SUFFICES ASSUME IInv, Account, result # None
                 PROVE  HonestResult
    BY DEF HonestResult
  <2>2. pc = "done" /\ result.ops = outcome /\ result.attempted = Cardinality(initiated)
    BY <2>1 DEF Account
  <2>3. \A w \in delayed : w.index \in Positions
    BY <2>1 DEF IInv, TypeOK, DelayedWrite
  <2>4. QED
    BY <2>1, <2>2, <2>3 DEF Account, HonestResult
<1>4. QED
  BY <1>1, <1>2, <1>3, PTL DEF Spec

(* Whatever the answers, the document built at any stage passes                      *)
(* validate_result_document_semantics: _finalize_result_v3 never raises.  An         *)
(* exception of the normalisers can take the account of a run's writes with it, but  *)
(* only from the final GET of a resource to replace, when every write invoked was    *)
(* confirmed and verified: nothing of that run is still in doubt.                    *)
THEOREM ResultsAreValid == Spec => []WritesAreAccountedFor
<1>1. Init => IInv /\ Account
  BY InitInv, InitAccount
<1>2. IInv /\ Account /\ [Next]_vars => (IInv /\ Account)'
  BY StepInv, StepAccount
<1>3. IInv /\ Account /\ Reported => WritesAreAccountedFor
  <2>1. SUFFICES ASSUME IInv, Account, Reported
                 PROVE  WritesAreAccountedFor
    OBVIOUS
  <2>2. result # None => pc = "done" /\ ValidResult(result)
    BY <2>1 DEF Account, Reported
  <2>3. pc = "escaped" /\ initiated # {} => initiated \subseteq landed
    BY <2>1 DEF Reported, Unaccounted, IInv, StageInv, Prefix
  <2>4. QED
    BY <2>1, <2>2, <2>3 DEF WritesAreAccountedFor, Reported, Unaccounted
<1>4. QED
  BY <1>1, <1>2, <1>3, ReportedInvariance, PTL DEF Spec
===============================================================================
