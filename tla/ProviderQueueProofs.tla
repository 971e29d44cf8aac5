------------------------ MODULE ProviderQueueProofs ------------------------
(***************************************************************************)
(* Type correctness of ProviderQueue.  Every action but ClaimJob is shown  *)
(* to satisfy Keeps: it writes proper rows, inserts no lease row and       *)
(* revives none.  ClaimJob is taken apart once, row by row (Inserts).      *)
(* ProviderQueueSafety builds on both.                                     *)
(***************************************************************************)
EXTENDS ProviderQueue, FiniteSetTheorems, TLAPS

-----------------------------------------------------------------------------
(* What the statements write, row by row. *)

(* An inserted lease row has all its columns. *)
LEMMA HeldLeases ==
  ASSUME TypeOK, NEW l \in Lease, lease[l].status # "free"
  PROVE  lease[l] \in HeldRow
BY DEF TypeOK, LeaseRow, FreeRow

(* A fresh date has age zero. *)
LEMMA AgeZero == 0 \in 0..AgeCap
BY BoundAssumption

(* A step that inserts no lease row: leases end, and never come back. *)
KeepsTo(t) ==
  \A l \in Lease :
    /\ (t[l].status = "free") <=> (lease[l].status = "free")
    /\ (t[l].status = "active") => (lease[l].status = "active")
    /\ (lease[l].status # "free") =>
         /\ t[l].pool = lease[l].pool
         /\ t[l].target = lease[l].target
         /\ t[l].job = lease[l].job

(* Stale recovery of leases writes proper rows and only ends leases. *)
LEMMA RecoverLeasesKeeps ==
  ASSUME TypeOK, NEW S \in SUBSET Active(lease)
  PROVE  RecoverLeases(S) \in [Lease -> LeaseRow] /\ KeepsTo(RecoverLeases(S))
<1>1. ASSUME NEW l \in Lease, l \in S
      PROVE  /\ RecoverLeases(S)[l] \in HeldRow
             /\ RecoverLeases(S)[l].status = "stale_recovered"
             /\ lease[l].status = "active"
             /\ RecoverLeases(S)[l].pool = lease[l].pool
             /\ RecoverLeases(S)[l].target = lease[l].target
             /\ RecoverLeases(S)[l].job = lease[l].job
  <2>1. lease[l].status = "active" /\ lease[l] \in HeldRow
    BY <1>1, HeldLeases DEF Active
  <2>2. RecoverLeases(S)[l] = [lease[l] EXCEPT !.status = "stale_recovered",
                                               !.reason = "stale_heartbeat", !.age = 0]
    BY <1>1 DEF RecoverLeases
  <2>3. "stale_heartbeat" \in Reasons
    BY DEF Reasons
  <2>4. /\ RecoverLeases(S)[l] \in HeldRow
        /\ RecoverLeases(S)[l].status = "stale_recovered"
        /\ RecoverLeases(S)[l].pool = lease[l].pool
        /\ RecoverLeases(S)[l].target = lease[l].target
        /\ RecoverLeases(S)[l].job = lease[l].job
    BY <2>1, <2>2, <2>3, AgeZero DEF HeldRow
  <2> QED
    BY <2>1, <2>4
<1>2. ASSUME NEW l \in Lease, l \notin S
      PROVE  RecoverLeases(S)[l] = lease[l] /\ lease[l] \in LeaseRow
  BY <1>2 DEF RecoverLeases, TypeOK
<1>3. RecoverLeases(S) \in [Lease -> LeaseRow]
  <2>1. \A l \in Lease : RecoverLeases(S)[l] \in LeaseRow
    BY <1>1, <1>2 DEF LeaseRow
  <2> QED
    BY <2>1 DEF RecoverLeases
<1>4. KeepsTo(RecoverLeases(S))
  BY <1>1, <1>2 DEF KeepsTo
<1> QED
  BY <1>3, <1>4

(* So does a release, which touches one row. *)
LEMMA ReleaseKeeps ==
  ASSUME TypeOK, NEW l \in Lease, lease[l].status # "free", NEW reason \in Reasons
  PROVE  /\ Release(l, reason) \in [Lease -> LeaseRow]
         /\ KeepsTo(Release(l, reason))
         /\ Release(l, reason)[l].status = "released"
         /\ \A k \in Lease \ {l} : Release(l, reason)[k] = lease[k]
<1>1. lease[l] \in HeldRow
  BY HeldLeases
<1>2. lease \in [Lease -> LeaseRow]
  BY DEF TypeOK
<1>3. Release(l, reason)[l] = [lease[l] EXCEPT !.status = "released", !.reason = reason,
                                               !.age = 0]
  BY <1>2 DEF Release
<1>4. \A k \in Lease \ {l} : Release(l, reason)[k] = lease[k]
  BY <1>2 DEF Release
<1>5. /\ Release(l, reason)[l] \in HeldRow
      /\ Release(l, reason)[l].status = "released"
      /\ Release(l, reason)[l].pool = lease[l].pool
      /\ Release(l, reason)[l].target = lease[l].target
      /\ Release(l, reason)[l].job = lease[l].job
  BY <1>1, <1>3, AgeZero DEF HeldRow
<1>6. Release(l, reason) \in [Lease -> LeaseRow]
  <2>1. \A k \in Lease : Release(l, reason)[k] \in LeaseRow
    BY <1>2, <1>4, <1>5 DEF LeaseRow
  <2> QED
    BY <1>2, <2>1 DEF Release
<1>7. KeepsTo(Release(l, reason))
  BY <1>4, <1>5 DEF KeepsTo
<1> QED
  BY <1>4, <1>5, <1>6, <1>7

(* Stale recovery of jobs writes proper rows. *)
LEMMA RecoverJobsType ==
  ASSUME TypeOK, NEW S \in SUBSET Job
  PROVE  RecoverJobs(S) \in [Job -> JobRow]
<1>1. 0 \in NoDate..Backoff /\ 0 \in 0..AgeCap
  BY BoundAssumption DEF NoDate
<1>2. ASSUME NEW j \in Job
      PROVE  [job[j] EXCEPT !.status = "paused", !.due = 0,
                            !.lockedBy = Nobody, !.beat = 0] \in JobRow
  BY <1>1 DEF TypeOK, JobRow, Statuses
<1> QED
  BY <1>2 DEF RecoverJobs, TypeOK

(* So does the last statement of a worker. *)
LEMMA ReturnType ==
  ASSUME TypeOK, NEW j \in Job, NEW status \in Statuses, NEW due \in NoDate..Backoff,
         NEW attempts \in Nat
  PROVE  Return(j, status, due, attempts) \in [Job -> JobRow]
<1>1. 0 \in 0..AgeCap
  BY BoundAssumption
<1> QED
  BY <1>1 DEF Return, TypeOK, JobRow

(* An attempt count is a number. *)
LEMMA FailedType ==
  ASSUME NEW n \in Nat
  PROVE  Failed(n) \in Nat
BY DEF Failed

(* A verdict leaves no job running. *)
Verdicts == [status : Statuses \ {"running"}, due : NoDate..Backoff, attempts : Nat,
             reason : Reasons]

(* The dates that a returned job can get. *)
LEMMA Dues == {NoDate, 0, Backoff} \subseteq NoDate..Backoff
BY BoundAssumption DEF NoDate

(* The outcome of a finding job is a verdict. *)
LEMMA FindingVerdictType ==
  ASSUME NEW n \in Nat,
         NEW outcome \in {"done", "unsupported", "unavailable", "failed"}
  PROVE  FindingVerdict(outcome, n) \in Verdicts
<1>1. Failed(n) \in Nat /\ (Failed(n) >= MaxAttempts <=> ~(Failed(n) < MaxAttempts))
  BY FailedType, BoundAssumption
<1>2. CASE outcome = "done"
  BY <1>2, Dues DEF FindingVerdict, Verdicts, Statuses, Reasons
<1>3. CASE outcome = "unsupported"
  BY <1>3, Dues DEF FindingVerdict, Verdicts, Statuses, Reasons
<1>4. CASE outcome = "failed"
  BY <1>1, <1>4, Dues DEF FindingVerdict, Verdicts, Statuses, Reasons
<1>5. CASE outcome = "unavailable" /\ Failed(n) >= MaxAttempts
  BY <1>1, <1>5, Dues, BoundAssumption DEF FindingVerdict, Verdicts, Statuses, Reasons
<1>6. CASE outcome = "unavailable" /\ Failed(n) < MaxAttempts
  BY <1>1, <1>6, Dues, BoundAssumption DEF FindingVerdict, Verdicts, Statuses, Reasons
<1> QED
  BY <1>1, <1>2, <1>3, <1>4, <1>5, <1>6

(* The outcome of a covering job is a verdict. *)
LEMMA CoveringVerdictType ==
  ASSUME NEW n \in Nat, NEW outcome \in Outcomes
  PROVE  CoveringVerdict(outcome, n) \in Verdicts
<1>1. Failed(n) \in Nat /\ (Failed(n) >= MaxAttempts <=> ~(Failed(n) < MaxAttempts))
  BY FailedType, BoundAssumption
<1>2. CASE outcome = "done"
  BY <1>1, <1>2, Dues DEF CoveringVerdict, Verdicts, Statuses, Reasons
<1>3. CASE outcome # "done" /\ Failed(n) < MaxAttempts
  BY <1>1, <1>3, Dues, BoundAssumption DEF CoveringVerdict, Verdicts, Statuses, Reasons
<1>4. CASE outcome # "done" /\ Failed(n) >= MaxAttempts
  BY <1>1, <1>4, Dues, BoundAssumption DEF CoveringVerdict, Verdicts, Statuses, Reasons
<1> QED
  BY <1>1, <1>2, <1>3, <1>4

(* The two constant execution records are executions. *)
LEMMA NoExecutionType ==
  /\ NoExecution \in Execution /\ [NoExecution EXCEPT !.phase = "ended"] \in Execution
  /\ GuardJoined(NoExecution) /\ GuardJoined([NoExecution EXCEPT !.phase = "ended"])
BY DEF NoExecution, Execution, Phases, GuardJoined

-----------------------------------------------------------------------------
(* Steps that insert no lease row. *)

(* An execution exists from the insertion of its lease row on. *)
Started == \A l \in Lease : exec[l].phase = "none" <=> lease[l].status = "free"

(* An execution that is about to write or to release has a result, and one *)
(* inside the writer has no heartbeat.                                     *)
Legacy == {"generic", "detached"}
LegacyOutcomes == {"done", "unavailable", "failed"}
ResultOf(l, e) ==
  /\ e.phase = "finished" => e.outcome \in Outcomes
  /\ (e.phase = "wrote" /\ ModeOf(l) \in Legacy) => e.outcome \in LegacyOutcomes
  /\ ModeOf(l) \in Legacy => ~e.guard
Resulted == \A l \in Lease : exec[l].phase # "none" => ResultOf(l, exec[l])

ExecKeeps(e) ==
  /\ e \in [Lease -> Execution]
  /\ \A l \in Lease : /\ e[l].phase = "none" <=> exec[l].phase = "none"
                      /\ ResultOf(l, exec[l]) => ResultOf(l, e[l])
                      /\ GuardJoined(e[l])

Keeps ==
  /\ job' \in [Job -> JobRow]
  /\ lease' \in [Lease -> LeaseRow]
  /\ KeepsTo(lease')
  /\ ExecKeeps(exec')
  /\ writer' \in Lease \cup {Nobody}
  /\ lanePaused' \subseteq Queue
  /\ pausing' \subseteq Queue

(* A step that inserts no lease row keeps the types. *)
LEMMA KeepsTyped ==
  ASSUME Started, Resulted, Keeps
  PROVE  TypeOK' /\ Started' /\ Resulted'
<1>1. TypeOK' /\ Started'
  BY DEF Started, Keeps, KeepsTo, ExecKeeps, TypeOK
<1>2. ASSUME NEW l \in Lease, exec'[l].phase # "none"
      PROVE  ResultOf(l, exec[l])'
  <2>1. exec[l].phase # "none" /\ lease[l].status # "free"
    BY <1>2 DEF Keeps, ExecKeeps, Started
  <2>2. ResultOf(l, exec'[l])
    BY <2>1 DEF Keeps, ExecKeeps, Resulted
  <2>3. ModeOf(l)' = ModeOf(l)
    BY <2>1 DEF ModeOf, Keeps, KeepsTo
  <2> QED
    BY <2>2, <2>3 DEF ResultOf
<1> QED
  BY <1>1, <1>2 DEF Resulted

(* Unchanged rows are kept. *)
LEMMA Same ==
  ASSUME TypeOK
  PROVE  KeepsTo(lease) /\ ExecKeeps(exec)
BY DEF TypeOK, KeepsTo, ExecKeeps

(* A change of phase that brings no result. *)
LEMMA BecomeKeeps ==
  ASSUME TypeOK, NEW l \in Lease, exec[l].phase # "none",
         NEW phase \in {"guarded", "running"}
  PROVE  ExecKeeps([exec EXCEPT ![l].phase = phase])
BY DEF TypeOK, ExecKeeps, Execution, Phases, ResultOf, GuardJoined

(* A new record for an execution that goes on. *)
LEMMA RowKeeps ==
  ASSUME TypeOK, NEW l \in Lease, exec[l].phase # "none",
         NEW e \in Execution, e.phase # "none", ResultOf(l, e), GuardJoined(e)
  PROVE  ExecKeeps([exec EXCEPT ![l] = e])
BY DEF TypeOK, ExecKeeps

(* The end of an execution. *)
LEMMA EndKeeps ==
  ASSUME TypeOK, NEW l \in Lease, exec[l].phase # "none"
  PROVE  ExecKeeps(End(l))
<1>1. /\ [NoExecution EXCEPT !.phase = "ended"] \in Execution
      /\ GuardJoined([NoExecution EXCEPT !.phase = "ended"])
  BY NoExecutionType
<1>2. [NoExecution EXCEPT !.phase = "ended"].phase = "ended"
  BY DEF NoExecution
<1> QED
  BY <1>1, <1>2 DEF TypeOK, ExecKeeps, End, ResultOf, GuardJoined

(* The job of an execution, and its row. *)
LEMMA RowType ==
  ASSUME TypeOK, Started, NEW l \in Lease, exec[l].phase # "none"
  PROVE  /\ lease[l].status # "free"
         /\ lease[l] \in HeldRow
         /\ lease[l].job \in Job
         /\ Row(l) \in JobRow
         /\ Row(l).attempts \in Nat
         /\ exec[l].attempts \in Nat
<1>1. lease[l].status # "free" /\ lease[l] \in HeldRow
  BY HeldLeases DEF Started
<1>2. lease[l].job \in Job
  BY <1>1 DEF HeldRow
<1>3. Row(l) \in JobRow
  BY <1>2 DEF Row, TypeOK
<1> QED
  BY <1>1, <1>2, <1>3 DEF JobRow, TypeOK, Execution

(* A fenced transaction: both rows are written, or neither. *)
LEMMA FencedKeeps ==
  ASSUME TypeOK, NEW l \in Lease, lease[l].job \in Job, NEW verdict \in Verdicts,
         Fenced(l, verdict)
  PROVE  /\ job' \in [Job -> JobRow]
         /\ lease' \in [Lease -> LeaseRow]
         /\ KeepsTo(lease')
<1>1. CASE Owns(l)
  <2>1. /\ job' = Return(lease[l].job, verdict.status, verdict.due, verdict.attempts)
        /\ lease' = Release(l, verdict.reason)
        /\ lease[l].status # "free"
    BY <1>1 DEF Fenced, Owns
  <2>2. /\ verdict.status \in Statuses /\ verdict.due \in NoDate..Backoff
        /\ verdict.attempts \in Nat /\ verdict.reason \in Reasons
    BY DEF Verdicts
  <2> QED
    BY <2>1, <2>2, ReturnType, ReleaseKeeps
<1>2. CASE ~Owns(l)
  BY <1>2, Same DEF Fenced, db, TypeOK
<1> QED
  BY <1>1, <1>2

-----------------------------------------------------------------------------
(* Every action but ClaimJob inserts no lease row. *)

(* Starting the heartbeat guard of a finding job. *)
LEMMA StartGuardKeeps ==
  ASSUME TypeOK, Started, NEW l \in Lease, StartGuard(l)
  PROVE  Keeps
BY Same DEF StartGuard, In, Keeps, ExecKeeps, TypeOK, Execution, Phases, ResultOf, db,
  operator, GuardJoined

(* Reading the claimed finding job. *)
LEMMA LoadFindingKeeps ==
  ASSUME TypeOK, Started, NEW l \in Lease, LoadFinding(l)
  PROVE  Keeps
<1>1. exec[l].phase # "none" /\ ModeOf(l) \notin Legacy
  BY DEF LoadFinding, In, Legacy
<1>2. Row(l).attempts \in Nat
  BY <1>1, RowType
<1> DEFINE e == [exec[l] EXCEPT !.phase = "running", !.attempts = Row(l).attempts]
<1>3. e \in Execution /\ e.phase = "running"
  BY <1>2 DEF TypeOK, Execution, Phases
<1>4. exec' = [exec EXCEPT ![l] = e]
  BY DEF LoadFinding, TypeOK
<1>5. ExecKeeps(exec')
  <2> HIDE DEF e
  <2> QED
    BY <1>1, <1>3, <1>4, RowKeeps DEF ResultOf, GuardJoined
<1> QED
  BY <1>5, Same DEF LoadFinding, Keeps, TypeOK, db, operator

(* Giving a claim back when the setup failed. *)
LEMMA ReturnSetupFailureKeeps ==
  ASSUME TypeOK, Started, NEW l \in Lease, ReturnSetupFailure(l)
  PROVE  Keeps
<1> DEFINE verdict == [status |-> "pending", due |-> Backoff,
                       attempts |-> Row(l).attempts, reason |-> "worker_setup_failed"]
<1>1. exec[l].phase # "none"
  BY DEF ReturnSetupFailure, In
<1>2. lease[l].job \in Job /\ Row(l).attempts \in Nat
  BY <1>1, RowType
<1>3. verdict \in Verdicts
  BY <1>2, Dues DEF Verdicts, Statuses, Reasons
<1>4. Fenced(l, verdict)
  BY DEF ReturnSetupFailure
<1>5. /\ job' \in [Job -> JobRow]
      /\ lease' \in [Lease -> LeaseRow]
      /\ KeepsTo(lease')
  <2> HIDE DEF verdict
  <2> QED
    BY <1>2, <1>3, <1>4, FencedKeeps
<1> QED
  BY <1>1, <1>5, EndKeeps DEF ReturnSetupFailure, Keeps, TypeOK, operator

(* Persisting the result of a finding job. *)
LEMMA PersistFindingKeeps ==
  ASSUME TypeOK, Started, NEW l \in Lease, PersistFinding(l)
  PROVE  Keeps
<1>1. exec[l].phase # "none"
  BY DEF PersistFinding, In
<1>2. lease[l].job \in Job /\ exec[l].attempts \in Nat
  BY <1>1, RowType
<1>3. PICK outcome \in {"done", "unsupported", "unavailable", "failed"} :
        Fenced(l, FindingVerdict(outcome, exec[l].attempts))
  BY DEF PersistFinding
<1>4. FindingVerdict(outcome, exec[l].attempts) \in Verdicts
  BY <1>2, FindingVerdictType
<1>5. /\ job' \in [Job -> JobRow]
      /\ lease' \in [Lease -> LeaseRow]
      /\ KeepsTo(lease')
  BY <1>2, <1>3, <1>4, FencedKeeps
<1> QED
  BY <1>1, <1>5, EndKeeps DEF PersistFinding, Keeps, TypeOK, operator

(* Persisting the result of a covering job. *)
LEMMA PersistCoveringKeeps ==
  ASSUME TypeOK, Started, Resulted, NEW l \in Lease, PersistCovering(l)
  PROVE  Keeps
<1>1. exec[l].phase # "none" /\ exec[l].outcome \in Outcomes
  BY DEF PersistCovering, In, Resulted, ResultOf
<1>2. lease[l].job \in Job /\ exec[l].attempts \in Nat
  BY <1>1, RowType
<1>3. CoveringVerdict(exec[l].outcome, exec[l].attempts) \in Verdicts
  BY <1>1, <1>2, CoveringVerdictType
<1>4. /\ job' \in [Job -> JobRow]
      /\ lease' \in [Lease -> LeaseRow]
      /\ KeepsTo(lease')
  BY <1>2, <1>3, FencedKeeps DEF PersistCovering
<1> QED
  BY <1>1, <1>4, EndKeeps DEF PersistCovering, Keeps, TypeOK, operator

(* A heartbeat changes dates only. *)
LEMMA BeatType ==
  ASSUME TypeOK, NEW j \in Job
  PROVE  [job EXCEPT ![j].beat = 0] \in [Job -> JobRow]
BY AgeZero DEF TypeOK, JobRow

(* Refreshing the heartbeat of an active lease. *)
LEMMA RefreshKeeps ==
  ASSUME TypeOK, NEW l \in Lease, lease[l].status = "active"
  PROVE  /\ [lease EXCEPT ![l].age = 0] \in [Lease -> LeaseRow]
         /\ KeepsTo([lease EXCEPT ![l].age = 0])
<1>1. lease[l] \in HeldRow
  BY HeldLeases
<1>2. [lease[l] EXCEPT !.age = 0] \in HeldRow
  BY <1>1, AgeZero DEF HeldRow
<1>3. [lease EXCEPT ![l].age = 0] \in [Lease -> LeaseRow]
  BY <1>2 DEF TypeOK, LeaseRow
<1>4. KeepsTo([lease EXCEPT ![l].age = 0])
  BY <1>1 DEF TypeOK, KeepsTo, HeldRow
<1> QED
  BY <1>3, <1>4

(* Starting or stopping a heartbeat. *)
LEMMA GuardKeeps ==
  ASSUME TypeOK, NEW l \in Lease, exec[l].guard, NEW guard \in BOOLEAN
  PROVE  ExecKeeps([exec EXCEPT ![l].guard = guard])
BY DEF TypeOK, ExecKeeps, Execution, ResultOf, GuardJoined

(* An active lease names a job. *)
LEMMA OwnsJob ==
  ASSUME TypeOK, NEW l \in Lease, lease[l].status = "active"
  PROVE  lease[l].job \in Job
BY HeldLeases DEF HeldRow

(* The heartbeat of finding jobs. *)
LEMMA HeartbeatStrictKeeps ==
  ASSUME TypeOK, Started, NEW l \in Lease, HeartbeatStrict(l)
  PROVE  Keeps
<1>1. CASE Owns(l)
  <2>1. lease[l].status = "active" /\ lease[l].job \in Job
    BY <1>1, OwnsJob DEF Owns
  <2> QED
    BY <1>1, <2>1, BeatType, RefreshKeeps, Same
    DEF HeartbeatStrict, Keeps, TypeOK, operator
<1>2. CASE ~Owns(l)
  BY <1>2, Same, GuardKeeps DEF HeartbeatStrict, Keeps, TypeOK, operator, db
<1> QED
  BY <1>1, <1>2

(* The heartbeat of covering jobs. *)
LEMMA HeartbeatLenientKeeps ==
  ASSUME TypeOK, Started, NEW l \in Lease, HeartbeatLenient(l)
  PROVE  Keeps
<1>1. job' \in [Job -> JobRow]
  <2>1. Owns(l) => lease[l].job \in Job
    BY OwnsJob DEF Owns
  <2> QED
    BY <2>1, BeatType DEF HeartbeatLenient, TypeOK
<1>2. lease' \in [Lease -> LeaseRow] /\ KeepsTo(lease')
  <2>1. CASE lease[l].status = "active"
    BY <2>1, RefreshKeeps DEF HeartbeatLenient
  <2>2. CASE lease[l].status # "active"
    BY <2>2, Same DEF HeartbeatLenient, TypeOK
  <2> QED
    BY <2>1, <2>2
<1>3. ExecKeeps(exec')
  <2>1. Owns(l) \in BOOLEAN
    BY DEF Owns
  <2> QED
    BY <2>1, GuardKeeps DEF HeartbeatLenient
<1> QED
  BY <1>1, <1>2, <1>3 DEF HeartbeatLenient, Keeps, TypeOK, operator

(* Reading the claimed covering job. *)
LEMMA LoadCoveringKeeps ==
  ASSUME TypeOK, Started, NEW l \in Lease, LoadCovering(l)
  PROVE  Keeps
<1>1. exec[l].phase # "none"
  BY DEF LoadCovering, In
<1>2. Row(l).attempts \in Nat
  BY <1>1, RowType
<1> QED
  BY <1>1, <1>2, Same
  DEF LoadCovering, In, Keeps, ExecKeeps, TypeOK, Execution, Phases, ResultOf, GuardJoined,
    db, operator

(* The first statement that undoes a covering claim. *)
LEMMA KeepCoveringWaitingKeeps ==
  ASSUME TypeOK, Started, NEW l \in Lease, KeepCoveringWaiting(l)
  PROVE  Keeps
<1>1. exec[l].phase = "claimed" /\ ModeOf(l) \notin Legacy
  BY DEF KeepCoveringWaiting, In, Legacy
<1>2. lease[l].job \in Job /\ Row(l).attempts \in Nat
  BY <1>1, RowType
<1>3. job' \in [Job -> JobRow]
  <2>1. "pending" \in Statuses /\ Backoff \in NoDate..Backoff
    BY Dues DEF Statuses
  <2> QED
    BY <1>2, <2>1, ReturnType DEF KeepCoveringWaiting
<1>4. ExecKeeps(exec')
  BY <1>1 DEF KeepCoveringWaiting, Become, ExecKeeps, TypeOK, Execution, Phases, ResultOf,
    GuardJoined
<1> QED
  BY <1>3, <1>4, Same DEF KeepCoveringWaiting, Keeps, TypeOK, operator

(* The second one. *)
LEMMA ReleaseCoveringKeeps ==
  ASSUME TypeOK, Started, NEW l \in Lease, ReleaseCovering(l)
  PROVE  Keeps
<1>1. exec[l].phase # "none"
  BY DEF ReleaseCovering, In
<1>2. lease[l].status # "free"
  BY <1>1, RowType
<1>3. "worker_setup_failed" \in Reasons
  BY DEF Reasons
<1>4. lease' \in [Lease -> LeaseRow] /\ KeepsTo(lease')
  BY <1>2, <1>3, ReleaseKeeps DEF ReleaseCovering
<1> QED
  BY <1>1, <1>4, EndKeeps DEF ReleaseCovering, Keeps, TypeOK, operator

(* Starting the thread of a covering job. *)
LEMMA StartCoveringThreadKeeps ==
  ASSUME TypeOK, Started, NEW l \in Lease, StartCoveringThread(l)
  PROVE  Keeps
BY Same DEF StartCoveringThread, In, Keeps, ExecKeeps, TypeOK, Execution, Phases, ResultOf,
  GuardJoined, db, operator

(* The end of that thread. *)
LEMMA FinishCoveringKeeps ==
  ASSUME TypeOK, Started, NEW l \in Lease, FinishCovering(l)
  PROVE  Keeps
<1>1. PICK outcome \in {"done", "unavailable", "retry"} :
        exec' = [exec EXCEPT ![l].phase = "finished", ![l].guard = FALSE,
                             ![l].outcome = outcome]
  BY DEF FinishCovering
<1>2. exec[l].phase # "none"
  BY DEF FinishCovering, In
<1> DEFINE e == [exec[l] EXCEPT !.phase = "finished", !.guard = FALSE,
                                !.outcome = outcome]
<1>3. e \in Execution /\ e.phase = "finished" /\ e.outcome \in Outcomes /\ GuardJoined(e)
  BY DEF TypeOK, Execution, Phases, Outcomes, GuardJoined
<1>4. exec' = [exec EXCEPT ![l] = e]
  BY <1>1 DEF TypeOK
<1>5. ExecKeeps(exec')
  <2> HIDE DEF e
  <2> QED
    BY <1>2, <1>3, <1>4, RowKeeps DEF ResultOf, GuardJoined
<1> QED
  BY <1>5, Same DEF FinishCovering, Keeps, TypeOK, db, operator

(* Entering the writer job of a detached execution. *)
LEMMA BeginDetachedKeeps ==
  ASSUME TypeOK, Started, NEW l \in Lease, BeginDetached(l)
  PROVE  Keeps
<1>1. exec[l].phase # "none"
  BY DEF BeginDetached, In
<1> QED
  BY <1>1, BecomeKeeps, Same DEF BeginDetached, Become, Keeps, TypeOK, db, operator

(* Resolving the target of a generic execution. *)
LEMMA ResolveTargetKeeps ==
  ASSUME TypeOK, Started, NEW l \in Lease, ResolveTarget(l)
  PROVE  Keeps
<1>1. exec[l].phase # "none"
  BY DEF ResolveTarget, In
<1>2. ExecKeeps(exec')
  BY <1>1, BecomeKeeps, EndKeeps DEF ResolveTarget, Become
<1> QED
  BY <1>2, Same DEF ResolveTarget, Keeps, TypeOK, db, operator

(* The unfenced write of a job row. *)
LEMMA WriteLegacyKeeps ==
  ASSUME TypeOK, Started, Resulted, NEW l \in Lease, WriteLegacy(l)
  PROVE  Keeps
<1>1. exec[l].phase # "none"
  BY DEF WriteLegacy, In
<1>2. lease[l].job \in Job /\ Row(l).attempts \in Nat
  BY <1>1, RowType
<1>3. PICK outcome \in LegacyOutcomes :
        /\ job' = Return(lease[l].job, FindingVerdict(outcome, Row(l).attempts).status,
                         FindingVerdict(outcome, Row(l).attempts).due,
                         FindingVerdict(outcome, Row(l).attempts).attempts)
        /\ exec' = [exec EXCEPT ![l].phase = "wrote", ![l].outcome = outcome]
  BY DEF WriteLegacy, LegacyOutcomes
<1>4. outcome \in {"done", "unsupported", "unavailable", "failed"} /\ outcome \in Outcomes
  BY DEF LegacyOutcomes, Outcomes
<1>5. job' \in [Job -> JobRow]
  <2> DEFINE verdict == FindingVerdict(outcome, Row(l).attempts)
  <2>1. verdict \in Verdicts
    BY <1>2, <1>4, FindingVerdictType
  <2>2. job' = Return(lease[l].job, verdict.status, verdict.due, verdict.attempts)
    BY <1>3
  <2> HIDE DEF verdict
  <2>3. /\ verdict.status \in Statuses /\ verdict.due \in NoDate..Backoff
        /\ verdict.attempts \in Nat
    BY <2>1 DEF Verdicts
  <2> QED
    BY <1>2, <2>2, <2>3, ReturnType
<1>6. ExecKeeps(exec')
  <2>1. ~exec[l].guard
    BY DEF WriteLegacy, In, Legacy, Resulted, ResultOf
  <2> QED
    BY <1>1, <1>3, <1>4, <2>1 DEF ExecKeeps, TypeOK, Execution, Phases, ResultOf, GuardJoined
<1> QED
  BY <1>5, <1>6, Same DEF WriteLegacy, Keeps, TypeOK, operator

(* The release after it. *)
LEMMA ReleaseLegacyKeeps ==
  ASSUME TypeOK, Started, Resulted, NEW l \in Lease, ReleaseLegacy(l)
  PROVE  Keeps
<1>1. exec[l].phase = "wrote" /\ ModeOf(l) \in Legacy
  BY DEF ReleaseLegacy, In, Legacy
<1>2. exec[l].outcome \in {"done", "unsupported", "unavailable", "failed"}
  BY <1>1 DEF Resulted, ResultOf, LegacyOutcomes
<1>3. FindingVerdict(exec[l].outcome, 0).reason \in Reasons
  <2>1. 0 \in Nat
    BY BoundAssumption
  <2>2. FindingVerdict(exec[l].outcome, 0) \in Verdicts
    BY <1>2, <2>1, FindingVerdictType
  <2> QED
    BY <2>2 DEF Verdicts
<1>4. lease' \in [Lease -> LeaseRow] /\ KeepsTo(lease')
  <2>1. CASE lease[l].status = "active"
    BY <1>3, <2>1, ReleaseKeeps DEF ReleaseLegacy
  <2>2. CASE lease[l].status # "active"
    BY <2>2, Same DEF ReleaseLegacy, TypeOK
  <2> QED
    BY <2>1, <2>2
<1> QED
  BY <1>1, <1>4, EndKeeps DEF ReleaseLegacy, Keeps, TypeOK, operator

(* A crash, or an error that leaves the tick. *)
LEMMA DieKeeps ==
  ASSUME TypeOK, Started, NEW l \in Lease, LeaveTick(l) \/ Die(l)
  PROVE  Keeps
<1>1. exec[l].phase # "none"
  BY DEF LeaveTick, Die
<1>2. ExecKeeps(exec')
  BY <1>1, EndKeeps DEF LeaveTick, Die
<1> QED
  BY <1>2, Same DEF LeaveTick, Die, Keeps, TypeOK, db, operator

(* Stale recovery touches active leases and jobs. *)
LEMMA StaleRecovery ==
  ASSUME TypeOK, NEW limit
  PROVE  StaleLeases(limit) \in SUBSET Active(lease) /\ StaleJobs(limit) \in SUBSET Job
BY DEF StaleLeases, StaleJobs

(* What a claim recovers before it looks for a job. *)
LEMMA ClaimRecovery ==
  ASSUME TypeOK, NEW p \in Pool, NEW covering \in BOOLEAN
  PROVE  /\ Recovered(p) \in [Lease -> LeaseRow]
         /\ KeepsTo(Recovered(p))
         /\ Requeued(p, covering) \in [Job -> JobRow]
<1>1. {l \in StaleLeases(LeaseStale) : lease[l].pool = p} \in SUBSET Active(lease)
  BY StaleRecovery
<1>2. {j \in StaleJobs(JobStale) : QueueOf[j] \in ClaimQueues(p, covering)} \in SUBSET Job
  BY StaleRecovery
<1>3. Recovered(p) \in [Lease -> LeaseRow] /\ KeepsTo(Recovered(p))
  BY <1>1, RecoverLeasesKeeps DEF Recovered
<1>4. Requeued(p, covering) \in [Job -> JobRow]
  BY <1>2, RecoverJobsType DEF Requeued
<1> QED
  BY <1>3, <1>4

(* A claim that finds nothing. *)
LEMMA ClaimNothingKeeps ==
  ASSUME TypeOK, Started, NEW p \in Pool, NEW covering \in BOOLEAN, ClaimNothing(p, covering)
  PROVE  Keeps
BY ClaimRecovery, Same DEF ClaimNothing, Keeps, TypeOK, operator

(* A maintenance pass. *)
LEMMA MaintainKeeps ==
  ASSUME TypeOK, Started, Maintain
  PROVE  Keeps
BY StaleRecovery, RecoverLeasesKeeps, RecoverJobsType, Same DEF Maintain, Keeps, TypeOK, operator

(* A maintenance pass that is cut short. *)
LEMMA MaintainInterruptedKeeps ==
  ASSUME TypeOK, Started, MaintainInterrupted
  PROVE  Keeps
<1>1. lease' \in [Lease -> LeaseRow] /\ KeepsTo(lease')
  BY StaleRecovery, RecoverLeasesKeeps DEF MaintainInterrupted
<1>2. ExecKeeps(exec')
  <2>1. ASSUME NEW l \in Lease
        PROVE  End(l)[l] = [NoExecution EXCEPT !.phase = "ended"]
    BY DEF End, TypeOK
  <2>2. [NoExecution EXCEPT !.phase = "ended"].phase = "ended"
    BY DEF NoExecution
  <2> QED
    BY <2>1, <2>2, NoExecutionType DEF MaintainInterrupted, ExecKeeps, TypeOK, ResultOf,
      GuardJoined
<1> QED
  BY <1>1, <1>2 DEF MaintainInterrupted, Keeps, TypeOK, operator

(* The operator changes no lease and no execution. *)
LEMMA OperateKeeps ==
  ASSUME TypeOK, Started, Operate
  PROVE  Keeps
<1>1. job' \in [Job -> JobRow]
  <2>1. ASSUME NEW j \in Job, PauseJob(j) \/ ResumeJob(j) \/ RetryJob(j)
        PROVE  job' \in [Job -> JobRow]
    <3>1. job[j].attempts \in Nat /\ 0 \in Nat
      BY BoundAssumption DEF TypeOK, JobRow
    <3>2. {"pending", "paused"} \subseteq Statuses
      BY DEF Statuses
    <3> QED
      BY <2>1, <3>1, <3>2, Dues, ReturnType DEF PauseJob, ResumeJob, RetryJob
  <2>2. ASSUME NEW q \in Queue, PauseLane(q) \/ PauseRunning(q) \/ ResumeLane(q)
        PROVE  job' \in [Job -> JobRow]
    BY <2>2, RecoverJobsType DEF PauseLane, PauseRunning, ResumeLane, TypeOK, db
  <2> QED
    BY <2>1, <2>2 DEF Operate
<1>2. /\ UNCHANGED <<lease, exec, writer>>
      /\ lanePaused' \subseteq Queue
      /\ pausing' \subseteq Queue
  BY DEF Operate, PauseJob, ResumeJob, RetryJob, PauseLane, PauseRunning, ResumeLane, TypeOK,
    operator, db
<1> QED
  BY <1>1, <1>2, Same DEF Keeps, TypeOK

(* An age stays within its bound. *)
LEMMA OlderType ==
  ASSUME NEW n \in 0..AgeCap
  PROVE  Older(n) \in 0..AgeCap
BY BoundAssumption DEF Older

(* Time changes ages and dates only. *)
LEMMA TickKeeps ==
  ASSUME TypeOK, Started, Tick
  PROVE  Keeps
<1>1. job' \in [Job -> JobRow]
  <2>1. ASSUME NEW j \in Job
        PROVE  /\ job[j] \in JobRow
               /\ (IF job[j].status = "running" THEN Older(job[j].beat) ELSE job[j].beat)
                    \in 0..AgeCap
               /\ (IF job[j].due > 0 THEN job[j].due - 1 ELSE job[j].due) \in NoDate..Backoff
    BY BoundAssumption, OlderType DEF TypeOK, JobRow, NoDate
  <2> QED
    BY <2>1 DEF Tick, JobRow
<1>2. ASSUME NEW l \in Lease
      PROVE  /\ lease'[l] \in LeaseRow
             /\ lease'[l].status = lease[l].status
             /\ lease[l].status # "free" =>
                  /\ lease'[l].pool = lease[l].pool
                  /\ lease'[l].target = lease[l].target
                  /\ lease'[l].job = lease[l].job
  <2>1. CASE Dated(l)
    <3>1. lease[l] \in HeldRow
      BY <2>1, HeldLeases DEF Dated
    <3>2. lease'[l] = [lease[l] EXCEPT !.age = Older(lease[l].age)]
      BY <2>1 DEF Tick
    <3>3. Older(lease[l].age) \in 0..AgeCap
      BY <3>1, OlderType DEF HeldRow
    <3> QED
      BY <3>1, <3>2, <3>3 DEF HeldRow, LeaseRow
  <2>2. CASE ~Dated(l)
    BY <2>2 DEF Tick, TypeOK
  <2> QED
    BY <2>1, <2>2
<1>3. lease' \in [Lease -> LeaseRow] /\ KeepsTo(lease')
  BY <1>2 DEF Tick, KeepsTo
<1> QED
  BY <1>1, <1>3, Same DEF Tick, Keeps, TypeOK, operator

(* All of them. *)
LEMMA ExecuteKeeps ==
  ASSUME TypeOK, Started, Resulted, NEW l \in Lease, Execute(l)
  PROVE  Keeps
BY StartGuardKeeps, LoadFindingKeeps, ReturnSetupFailureKeeps, PersistFindingKeeps,
  HeartbeatStrictKeeps, HeartbeatLenientKeeps, LoadCoveringKeeps, KeepCoveringWaitingKeeps,
  ReleaseCoveringKeeps, StartCoveringThreadKeeps, FinishCoveringKeeps, PersistCoveringKeeps,
  BeginDetachedKeeps, ResolveTargetKeeps, WriteLegacyKeeps, ReleaseLegacyKeeps
DEF Execute

(* Every step inserts no lease row, or is a claim. *)
LEMMA StepKeeps ==
  ASSUME TypeOK, Started, Resulted, [Next]_vars
  PROVE  Keeps \/ \E p \in Pool, covering \in BOOLEAN : ClaimJob(p, covering)
<1>1. CASE \E p \in Pool : Claim(p)
  BY <1>1, ClaimNothingKeeps DEF Claim
<1>2. CASE \E l \in Lease : Execute(l)
  BY <1>2, ExecuteKeeps
<1>3. CASE \E l \in Lease : LeaveTick(l) \/ Die(l)
  BY <1>3, DieKeeps
<1>4. CASE UNCHANGED vars
  BY <1>4, Same DEF vars, Keeps, TypeOK
<1> QED
  BY <1>1, <1>2, <1>3, <1>4, MaintainKeeps, MaintainInterruptedKeeps, OperateKeeps, TickKeeps
  DEF Next, Work

-----------------------------------------------------------------------------
(* ClaimJob inserts one lease row. *)

(* j, x and l are what the claim (p, covering) took. *)
Claims(p, covering, j, x, l) ==
  /\ writer = Nobody
  /\ ~Full(p)
  /\ QueueOf[j] \notin lanePaused
  /\ x \in FreeTargets(Recovered(p), p)
  /\ lease[l].status = "free"
  /\ job' = [Requeued(p, covering) EXCEPT
               ![j] = [@ EXCEPT !.status = "running", !.lockedBy = l, !.beat = 0]]
  /\ lease' = [Recovered(p) EXCEPT
                 ![l] = [status |-> "active", pool |-> p, target |-> x,
                         job |-> j, age |-> 0, reason |-> "none"]]
  /\ exec' = [exec EXCEPT ![l].phase = "claimed"]
  /\ writer' = IF Mode[QueueOf[j]] \in {"covering", "generic"} THEN l ELSE Nobody
  /\ UNCHANGED operator

(* What ClaimJob takes. *)
LEMMA ClaimClaims ==
  ASSUME TypeOK, NEW p \in Pool, NEW covering \in BOOLEAN, ClaimJob(p, covering)
  PROVE  \E j \in Job, x \in PoolTargets[p], l \in Lease : Claims(p, covering, j, x, l)
<1>1. PICK j \in Candidates(p, covering), x \in PoolTargets[p], l \in Lease :
        /\ Selects(Recovered(p), j, FreeTargets(Recovered(p), p), x)
        /\ lease[l].status = "free"
        /\ job' = [Requeued(p, covering) EXCEPT
                     ![j] = [@ EXCEPT !.status = "running", !.lockedBy = l, !.beat = 0]]
        /\ lease' = [Recovered(p) EXCEPT
                       ![l] = [status |-> "active", pool |-> p, target |-> x,
                               job |-> j, age |-> 0, reason |-> "none"]]
        /\ exec' = [exec EXCEPT ![l].phase = "claimed"]
        /\ writer' = IF Mode[QueueOf[j]] \in {"covering", "generic"} THEN l ELSE Nobody
  BY DEF ClaimJob
<1>2. j \in Job /\ QueueOf[j] \notin lanePaused
  BY DEF Candidates, ClaimQueues
<1>3. x \in FreeTargets(Recovered(p), p)
  BY <1>1 DEF Selects
<1>4. writer = Nobody
  BY DEF ClaimJob
<1>5. ~Full(p) /\ UNCHANGED operator
  BY DEF ClaimJob
<1>6. Claims(p, covering, j, x, l)
  BY <1>1, <1>2, <1>3, <1>4, <1>5 DEF Claims
<1> QED
  BY <1>2, <1>6

(* What a claim changes, row by row. *)
Inserts(p, covering, j, x, l) ==
  /\ lease'[l] = [status |-> "active", pool |-> p, target |-> x,
                  job |-> j, age |-> 0, reason |-> "none"]
  /\ \A k \in Lease \ {l} : lease'[k] = Recovered(p)[k]
  /\ job'[j].status = "running" /\ job'[j].lockedBy = l
  /\ \A i \in Job \ {j} : job'[i] = Requeued(p, covering)[i]
  /\ exec'[l].phase = "claimed"
  /\ \A k \in Lease \ {l} : exec'[k] = exec[k]
  /\ job' \in [Job -> JobRow]
  /\ lease' \in [Lease -> LeaseRow]
  /\ exec' \in [Lease -> Execution]
  /\ \A k \in Lease : GuardJoined(exec'[k])

(* A claim changes the rows in this way. *)
LEMMA ClaimRows ==
  ASSUME TypeOK, Started, NEW p \in Pool, NEW covering \in BOOLEAN,
         NEW j \in Job, NEW x \in PoolTargets[p], NEW l \in Lease,
         Claims(p, covering, j, x, l)
  PROVE  Inserts(p, covering, j, x, l)
<1>1. /\ Recovered(p) \in [Lease -> LeaseRow]
      /\ Requeued(p, covering) \in [Job -> JobRow]
  BY ClaimRecovery
<1> DEFINE new == [status |-> "active", pool |-> p, target |-> x,
                   job |-> j, age |-> 0, reason |-> "none"]
<1>2. new \in LeaseRow
  <2>1. x \in Target
    BY PoolAssumption
  <2> QED
    BY <2>1, AgeZero DEF LeaseRow, HeldRow, Reasons
<1>3. /\ lease'[l] = new
      /\ \A k \in Lease \ {l} : lease'[k] = Recovered(p)[k]
      /\ lease' \in [Lease -> LeaseRow]
  <2> HIDE DEF new
  <2>1. lease' = [Recovered(p) EXCEPT ![l] = new]
    BY DEF Claims, new
  <2> QED
    BY <1>1, <1>2, <2>1
<1>4. /\ job'[j].status = "running" /\ job'[j].lockedBy = l
      /\ \A i \in Job \ {j} : job'[i] = Requeued(p, covering)[i]
      /\ job' \in [Job -> JobRow]
  <2> DEFINE row == [Requeued(p, covering)[j] EXCEPT !.status = "running", !.lockedBy = l,
                                                     !.beat = 0]
  <2>1. row \in JobRow /\ row.status = "running" /\ row.lockedBy = l
    BY <1>1, AgeZero DEF JobRow, Statuses
  <2>2. job' = [Requeued(p, covering) EXCEPT ![j] = row]
    BY <1>1 DEF Claims
  <2> HIDE DEF row
  <2> QED
    BY <1>1, <2>1, <2>2
<1>5. /\ exec'[l].phase = "claimed"
      /\ \A k \in Lease \ {l} : exec'[k] = exec[k]
      /\ exec' \in [Lease -> Execution]
      /\ \A k \in Lease : GuardJoined(exec'[k])
  <2>1. exec[l].phase = "none" /\ ~exec[l].guard
    BY DEF Claims, Started, TypeOK, GuardJoined
  <2> QED
    BY <2>1 DEF Claims, TypeOK, Execution, Phases, GuardJoined
<1> QED
  BY <1>3, <1>4, <1>5 DEF Inserts

(* A claim keeps the types. *)
LEMMA ClaimTyped ==
  ASSUME TypeOK, Started, Resulted, NEW p \in Pool, NEW covering \in BOOLEAN,
         ClaimJob(p, covering)
  PROVE  TypeOK' /\ Started' /\ Resulted'
<1>1. PICK j \in Job, x \in PoolTargets[p], l \in Lease : Claims(p, covering, j, x, l)
  BY ClaimClaims
<1>2. Inserts(p, covering, j, x, l)
  BY <1>1, ClaimRows
<1>3. TypeOK'
  BY <1>1, <1>2 DEF Claims, Inserts, TypeOK, operator
<1>4. ASSUME NEW k \in Lease \ {l}
      PROVE  /\ exec'[k] = exec[k]
             /\ (lease'[k].status = "free") <=> (lease[k].status = "free")
             /\ lease[k].status # "free" => lease'[k].job = lease[k].job
  BY <1>2, ClaimRecovery DEF Inserts, KeepsTo
<1>5. lease'[l].status = "active" /\ exec'[l].phase = "claimed"
  BY <1>2 DEF Inserts
<1>6. Started'
  BY <1>4, <1>5 DEF Started
<1>7. ASSUME NEW k \in Lease, exec'[k].phase # "none"
      PROVE  ResultOf(k, exec[k])'
  <2>1. CASE k = l
    BY <1>2, <1>5, <2>1 DEF ResultOf, Inserts, GuardJoined
  <2>2. CASE k # l
    BY <1>4, <1>7, <2>2 DEF Started, Resulted, ResultOf, ModeOf
  <2> QED
    BY <2>1, <2>2
<1> QED
  BY <1>3, <1>6, <1>7 DEF Resulted

-----------------------------------------------------------------------------
(* Type correctness. *)

(* The initial state has proper rows and no execution. *)
LEMMA InitTyped ==
  ASSUME Init
  PROVE  TypeOK /\ Started /\ Resulted
<1>1. TypeOK
  BY AgeZero, NoExecutionType, BoundAssumption, Dues
  DEF Init, TypeOK, JobRow, Statuses, LeaseRow
<1>2. NoExecution.phase = "none" /\ FreeRow.status = "free"
  BY DEF NoExecution, FreeRow
<1> QED
  BY <1>1, <1>2 DEF Init, Started, Resulted

(* Every step keeps the types. *)
LEMMA StepTyped ==
  ASSUME TypeOK, Started, Resulted, [Next]_vars
  PROVE  TypeOK' /\ Started' /\ Resulted'
BY StepKeeps, KeepsTyped, ClaimTyped

(* Every reachable state has only rows of the schema's shape and known     *)
(* execution phases, and no heartbeat thread outlives the execution whose  *)
(* guard started it.  Attempt counts are only numbers: the code sets them  *)
(* no limit.                                                               *)
THEOREM TypeCorrect == Spec => []TypeOK
<1>1. Init => TypeOK /\ Started /\ Resulted
  BY InitTyped
<1>2. TypeOK /\ Started /\ Resulted /\ [Next]_vars => (TypeOK /\ Started /\ Resulted)'
  BY StepTyped
<1> QED
  BY <1>1, <1>2, PTL DEF Spec
=============================================================================
