------------------------ MODULE ProviderQueueSafety ------------------------
(***************************************************************************)
(* The safety properties of ProviderQueue for every number of jobs, lanes, *)
(* pools, targets and executors.  A step either inserts one lease row      *)
(* (ClaimJob) or inserts none (Keeps, in ProviderQueueProofs); of the      *)
(* latter the proofs of the invariants need only LocksKept, which each     *)
(* action is shown to satisfy.                                             *)
(*                                                                         *)
(* The action properties need more: what a step makes of every job row     *)
(* (RowStep), of every ended lease (LeasesStand) and of every execution    *)
(* (Proceeds), and the invariant Owned, which says what an execution may   *)
(* rely on between its steps: the count of attempts it has read is that of *)
(* its job while it holds the lock, and while it keeps the writer nobody   *)
(* takes its job or its lease.                                             *)
(***************************************************************************)
EXTENDS ProviderQueueProofs

(* An execution that has written its job row holds no lock any more, so    *)
(* the release that follows cannot leave a lock on a released lease.       *)
WroteIsUnlocked ==
  \A l \in Lease, j \in Job : exec[l].phase = "wrote" => job[j].lockedBy # l

Typed == TypeOK /\ Started /\ Resulted
Locked == LockNamesItsLease /\ WroteIsUnlocked
Allotted == TargetExclusive /\ PoolWithinCapacity

-----------------------------------------------------------------------------
(* A lock is kept or dropped; a kept one names a lease that is not         *)
(* released by the step.                                                   *)
LockKept(j) ==
  \/ job'[j].lockedBy = Nobody /\ job'[j].status # "running"
  \/ /\ job'[j].lockedBy = job[j].lockedBy
     /\ job'[j].status = job[j].status
     /\ job[j].lockedBy # Nobody =>
          \/ lease'[job[j].lockedBy].status = lease[job[j].lockedBy].status
          \/ lease'[job[j].lockedBy].status = "stale_recovered"

LocksKept ==
  /\ \A j \in Job : LockKept(j)
  /\ \A l \in Lease : exec'[l].phase = "wrote" =>
       \/ exec[l].phase = "wrote"
       \/ \A j \in Job : job'[j].lockedBy # l

(* Keeping the locks keeps the invariant about them. *)
LEMMA KeepsLocked ==
  ASSUME Typed, Locked, Keeps, LocksKept
  PROVE  Locked'
<1>1. ASSUME NEW j \in Job
      PROVE  /\ job'[j].status = "running" <=> job'[j].lockedBy # Nobody
             /\ job'[j].lockedBy # Nobody =>
                  /\ lease'[job'[j].lockedBy].status \in {"active", "stale_recovered"}
                  /\ lease'[job'[j].lockedBy].job = j
  <2>1. CASE job'[j].lockedBy = Nobody /\ job'[j].status # "running"
    BY <2>1
  <2>2. CASE ~(job'[j].lockedBy = Nobody /\ job'[j].status # "running")
    <3>1. /\ job'[j].lockedBy = job[j].lockedBy
          /\ job'[j].status = job[j].status
          /\ job[j].lockedBy # Nobody =>
               \/ lease'[job[j].lockedBy].status = lease[job[j].lockedBy].status
               \/ lease'[job[j].lockedBy].status = "stale_recovered"
      BY <2>2 DEF LocksKept, LockKept
    <3>2. job[j].lockedBy \in Lease \cup {Nobody}
      BY DEF Typed, TypeOK, JobRow
    <3> QED
      BY <3>1, <3>2 DEF Locked, LockNamesItsLease, Keeps, KeepsTo
  <2> QED
    BY <2>1, <2>2
<1>2. ASSUME NEW l \in Lease, NEW j \in Job, exec'[l].phase = "wrote", exec[l].phase = "wrote"
      PROVE  job'[j].lockedBy # l
  BY <1>2 DEF LocksKept, LockKept, Locked, WroteIsUnlocked, Nobody, Lease
<1> QED
  BY <1>1, <1>2 DEF Locked, LockNamesItsLease, WroteIsUnlocked, LocksKept

(* The ways in which an action treats the locks. *)
LEMMA LocksUntouched ==
  ASSUME Typed,
         \A j \in Job : job'[j].lockedBy = job[j].lockedBy /\ job'[j].status = job[j].status,
         \A l \in Lease : \/ lease'[l].status = lease[l].status
                          \/ lease'[l].status = "stale_recovered",
         \A l \in Lease : exec'[l].phase = "wrote" => exec[l].phase = "wrote"
  PROVE  LocksKept
BY DEF LocksKept, LockKept, Typed, TypeOK, JobRow

(* One job row is returned, no lease ends. *)
LEMMA LocksReturned ==
  ASSUME Typed, NEW j \in Job, NEW status \in Statuses \ {"running"}, NEW due, NEW attempts,
         job' = Return(j, status, due, attempts),
         lease' = lease,
         \A l \in Lease : exec'[l].phase = "wrote" => exec[l].phase = "wrote"
  PROVE  LocksKept
<1>1. job'[j].lockedBy = Nobody /\ job'[j].status # "running"
  BY DEF Return, Typed, TypeOK
<1>2. \A i \in Job \ {j} : job'[i] = job[i]
  BY DEF Return, Typed, TypeOK
<1> QED
  BY <1>1, <1>2 DEF LocksKept, LockKept

(* Jobs are recovered and leases are recovered. *)
LEMMA LocksRecovered ==
  ASSUME Typed, NEW S \in SUBSET Job, job' = RecoverJobs(S),
         \A l \in Lease : \/ lease'[l].status = lease[l].status
                          \/ lease'[l].status = "stale_recovered",
         \A l \in Lease : exec'[l].phase = "wrote" => exec[l].phase = "wrote"
  PROVE  LocksKept
<1>1. ASSUME NEW j \in S
      PROVE  job'[j].lockedBy = Nobody /\ job'[j].status # "running"
  BY DEF RecoverJobs, Typed, TypeOK, JobRow
<1>2. ASSUME NEW j \in Job \ S
      PROVE  job'[j] = job[j]
  BY DEF RecoverJobs
<1>3. \A j \in Job : job[j].lockedBy \in Lease \cup {Nobody}
  BY DEF Typed, TypeOK, JobRow
<1> QED
  BY <1>1, <1>2, <1>3 DEF LocksKept, LockKept

(* A fenced transaction returns its own job and releases its own lease. *)
LEMMA LocksFenced ==
  ASSUME Typed, Locked, NEW l \in Lease, exec[l].phase # "none", NEW verdict \in Verdicts,
         Fenced(l, verdict), exec' = End(l)
  PROVE  LocksKept
<1> DEFINE mine == lease[l].job
<1>1. mine \in Job
  BY RowType DEF Typed
<1>2. \A k \in Lease : exec'[k].phase = "wrote" => exec[k].phase = "wrote"
  BY DEF End, NoExecution, Typed, TypeOK
<1>3. CASE Owns(l)
  <2>1. /\ job' = Return(mine, verdict.status, verdict.due, verdict.attempts)
        /\ lease' = Release(l, verdict.reason)
        /\ lease[l].status # "free"
        /\ job[mine].lockedBy = l
    BY <1>3 DEF Fenced, Owns
  <2>2. /\ verdict.status \in Statuses \ {"running"}
        /\ verdict.reason \in Reasons
    BY DEF Verdicts
  <2>3. job'[mine].lockedBy = Nobody /\ job'[mine].status # "running"
    BY <1>1, <2>1, <2>2 DEF Return, Typed, TypeOK
  <2>4. \A i \in Job \ {mine} : job'[i] = job[i]
    BY <1>1, <2>1 DEF Return, Typed, TypeOK
  <2>5. \A k \in Lease \ {l} : lease'[k] = lease[k]
    BY <2>1, <2>2, ReleaseKeeps DEF Typed
  <2>6. ASSUME NEW i \in Job \ {mine}
        PROVE  job[i].lockedBy # Nobody => job[i].lockedBy \in Lease \ {l}
    <3>1. job[i].lockedBy \in Lease \cup {Nobody}
      BY DEF Typed, TypeOK, JobRow
    <3>2. job[i].lockedBy # Nobody => lease[job[i].lockedBy].job = i
      BY DEF Locked, LockNamesItsLease
    <3> QED
      BY <3>1, <3>2
  <2> QED
    BY <1>2, <2>3, <2>4, <2>5, <2>6 DEF LocksKept, LockKept
<1>4. CASE ~Owns(l)
  BY <1>2, <1>4 DEF Fenced, db, LocksKept, LockKept
<1> QED
  BY <1>3, <1>4

(* The release after a write: nobody holds a lock on the lease. *)
LEMMA LocksReleased ==
  ASSUME Typed, Locked, NEW l \in Lease, exec[l].phase = "wrote", job' = job,
         NEW reason \in Reasons,
         lease' = Release(l, reason) \/ lease' = lease,
         exec' = End(l)
  PROVE  LocksKept
<1>1. \A k \in Lease : exec'[k].phase = "wrote" => exec[k].phase = "wrote"
  BY DEF End, NoExecution, Typed, TypeOK
<1>2. lease[l].status # "free"
  BY DEF Typed, Started
<1>3. \A k \in Lease \ {l} : lease'[k] = lease[k]
  BY <1>2, ReleaseKeeps DEF Typed
<1>4. \A j \in Job : job[j].lockedBy # Nobody => job[j].lockedBy \in Lease \ {l}
  BY DEF Locked, WroteIsUnlocked, Typed, TypeOK, JobRow
<1> QED
  BY <1>1, <1>3, <1>4 DEF LocksKept, LockKept

-----------------------------------------------------------------------------
(* Every action but ClaimJob keeps the locks. *)

(* Recovery turns the status of a lease to stale_recovered only. *)
LEMMA StatusRecovered ==
  ASSUME Typed, NEW S \in SUBSET Active(lease), NEW l \in Lease
  PROVE  \/ RecoverLeases(S)[l].status = lease[l].status
         \/ RecoverLeases(S)[l].status = "stale_recovered"
<1>1. CASE l \in S
  <2>1. lease[l] \in HeldRow
    BY <1>1, HeldLeases DEF Active, Typed
  <2> QED
    BY <1>1, <2>1 DEF RecoverLeases, HeldRow
<1>2. CASE l \notin S
  BY <1>2 DEF RecoverLeases
<1> QED
  BY <1>1, <1>2

(* A heartbeat changes no lock. *)
LEMMA HeartbeatLocks ==
  ASSUME Typed, NEW l \in Lease, HeartbeatStrict(l) \/ HeartbeatLenient(l)
  PROVE  LocksKept
<1>1. \A j \in Job : job'[j].lockedBy = job[j].lockedBy /\ job'[j].status = job[j].status
  <2>1. job' = job \/ job' = [job EXCEPT ![lease[l].job].beat = 0]
    BY DEF HeartbeatStrict, HeartbeatLenient, db
  <2> QED
    BY <2>1 DEF Typed, TypeOK, JobRow
<1>2. \A k \in Lease : lease'[k].status = lease[k].status
  <2>1. lease' = lease \/ (lease[l].status = "active" /\ lease' = [lease EXCEPT ![l].age = 0])
    BY DEF HeartbeatStrict, HeartbeatLenient, db, Owns
  <2>2. lease[l].status = "active" => lease[l] \in HeldRow
    BY HeldLeases DEF Typed
  <2> QED
    BY <2>1, <2>2 DEF Typed, TypeOK, HeldRow
<1>3. \A k \in Lease : exec'[k].phase = exec[k].phase
  <2>1. exec' = exec \/ \E guard \in BOOLEAN : exec' = [exec EXCEPT ![l].guard = guard]
    BY DEF HeartbeatStrict, HeartbeatLenient, Owns
  <2> QED
    BY <2>1 DEF Typed, TypeOK, Execution
<1> QED
  BY <1>1, <1>2, <1>3, LocksUntouched

(* Neither do the steps of an executor that write no row. *)
LEMMA QuietLocks ==
  ASSUME Typed, NEW l \in Lease,
         \/ StartGuard(l) \/ LoadFinding(l) \/ LoadCovering(l) \/ StartCoveringThread(l)
         \/ FinishCovering(l) \/ BeginDetached(l) \/ ResolveTarget(l)
         \/ LeaveTick(l) \/ Die(l)
  PROVE  LocksKept
<1>1. job' = job /\ lease' = lease
  BY DEF StartGuard, LoadFinding, LoadCovering, StartCoveringThread, FinishCovering,
    BeginDetached, ResolveTarget, LeaveTick, Die, db
<1>2. \A k \in Lease : exec'[k].phase = "wrote" => exec[k].phase = "wrote"
  BY DEF StartGuard, LoadFinding, LoadCovering, StartCoveringThread, FinishCovering,
    BeginDetached, ResolveTarget, LeaveTick, Die, End, NoExecution, Become, Typed, TypeOK,
    Execution
<1> QED
  BY <1>1, <1>2, LocksUntouched

(* The three fenced transactions. *)
LEMMA FencedLocks ==
  ASSUME Typed, Locked, NEW l \in Lease,
         ReturnSetupFailure(l) \/ PersistFinding(l) \/ PersistCovering(l)
  PROVE  LocksKept
<1>1. exec[l].phase # "none" /\ exec' = End(l)
  BY DEF ReturnSetupFailure, PersistFinding, PersistCovering, In
<1>2. Row(l).attempts \in Nat /\ exec[l].attempts \in Nat
  BY <1>1, RowType DEF Typed
<1>3. CASE ReturnSetupFailure(l)
  <2> DEFINE verdict == [status |-> "pending", due |-> Backoff,
                         attempts |-> Row(l).attempts, reason |-> "worker_setup_failed"]
  <2>1. verdict \in Verdicts
    BY <1>2, Dues DEF Verdicts, Statuses, Reasons
  <2>2. Fenced(l, verdict)
    BY <1>3 DEF ReturnSetupFailure
  <2> HIDE DEF verdict
  <2> QED
    BY <1>1, <2>1, <2>2, LocksFenced
<1>4. CASE PersistFinding(l)
  <2>1. PICK outcome \in {"done", "unsupported", "unavailable", "failed"} :
          Fenced(l, FindingVerdict(outcome, exec[l].attempts))
    BY <1>4 DEF PersistFinding
  <2>2. FindingVerdict(outcome, exec[l].attempts) \in Verdicts
    BY <1>2, FindingVerdictType
  <2> QED
    BY <1>1, <2>1, <2>2, LocksFenced
<1>5. CASE PersistCovering(l)
  <2>1. exec[l].outcome \in Outcomes
    BY <1>1, <1>5 DEF PersistCovering, In, Typed, Resulted, ResultOf
  <2>2. CoveringVerdict(exec[l].outcome, exec[l].attempts) \in Verdicts
    BY <1>2, <2>1, CoveringVerdictType
  <2> QED
    BY <1>1, <1>5, <2>2, LocksFenced DEF PersistCovering
<1> QED
  BY <1>3, <1>4, <1>5

(* The job row of the execution is written; its lease follows. *)
LEMMA WrittenLocks ==
  ASSUME Typed, Locked, NEW l \in Lease, exec[l].phase # "none",
         NEW status \in Statuses \ {"running"}, NEW due, NEW attempts,
         job' = Return(lease[l].job, status, due, attempts),
         lease' = lease,
         \A k \in Lease \ {l} : exec'[k] = exec[k]
  PROVE  LocksKept
<1> DEFINE mine == lease[l].job
<1>1. mine \in Job
  BY RowType DEF Typed
<1>2. job'[mine].lockedBy = Nobody /\ job'[mine].status # "running"
  BY <1>1 DEF Return, Typed, TypeOK
<1>3. \A i \in Job \ {mine} : job'[i] = job[i]
  BY <1>1 DEF Return, Typed, TypeOK
<1>4. \A i \in Job : job'[i].lockedBy # l
  <2>1. l # Nobody
    BY DEF Lease, Nobody
  <2>2. \A i \in Job : job[i].lockedBy = l => lease[l].job = i
    BY <2>1 DEF Locked, LockNamesItsLease
  <2> QED
    BY <1>2, <1>3, <2>1, <2>2
<1>5. \A k \in Lease \ {l} : exec'[k].phase = "wrote" => exec[k].phase = "wrote"
  OBVIOUS
<1> QED
  BY <1>2, <1>3, <1>4, <1>5 DEF LocksKept, LockKept

(* The two unfenced writes of a job row, which hold the lock they drop. *)
LEMMA WriteLocks ==
  ASSUME Typed, Locked, NEW l \in Lease, KeepCoveringWaiting(l) \/ WriteLegacy(l)
  PROVE  LocksKept
<1>1. /\ exec[l].phase # "none"
      /\ lease' = lease
      /\ \A k \in Lease \ {l} : exec'[k] = exec[k]
  BY DEF KeepCoveringWaiting, WriteLegacy, In, Become, Typed, TypeOK
<1>2. Row(l).attempts \in Nat
  BY <1>1, RowType DEF Typed
<1>3. CASE KeepCoveringWaiting(l)
  <2>1. "pending" \in Statuses \ {"running"}
    BY DEF Statuses
  <2> QED
    BY <1>1, <1>3, <2>1, WrittenLocks DEF KeepCoveringWaiting
<1>4. CASE WriteLegacy(l)
  <2>1. PICK outcome \in {"done", "unavailable", "failed"} :
          job' = Return(lease[l].job, FindingVerdict(outcome, Row(l).attempts).status,
                        FindingVerdict(outcome, Row(l).attempts).due,
                        FindingVerdict(outcome, Row(l).attempts).attempts)
    BY <1>4 DEF WriteLegacy
  <2>2. FindingVerdict(outcome, Row(l).attempts) \in Verdicts
    BY <1>2, FindingVerdictType
  <2>3. FindingVerdict(outcome, Row(l).attempts).status \in Statuses \ {"running"}
    BY <2>2 DEF Verdicts
  <2> QED
    BY <1>1, <2>1, <2>3, WrittenLocks
<1> QED
  BY <1>3, <1>4

(* The two releases that follow them. *)
LEMMA ReleaseLocks ==
  ASSUME Typed, Locked, NEW l \in Lease, ReleaseCovering(l) \/ ReleaseLegacy(l)
  PROVE  LocksKept
<1>1. exec[l].phase = "wrote" /\ job' = job /\ exec' = End(l)
  BY DEF ReleaseCovering, ReleaseLegacy, In
<1>2. CASE ReleaseCovering(l)
  <2>1. "worker_setup_failed" \in Reasons
    BY DEF Reasons
  <2> QED
    BY <1>1, <1>2, <2>1, LocksReleased DEF ReleaseCovering
<1>3. CASE ReleaseLegacy(l)
  <2>1. exec[l].outcome \in {"done", "unsupported", "unavailable", "failed"}
    BY <1>1, <1>3 DEF ReleaseLegacy, In, Legacy, LegacyOutcomes, Typed, Resulted, ResultOf
  <2>2. 0 \in Nat
    BY BoundAssumption
  <2>3. FindingVerdict(exec[l].outcome, 0) \in Verdicts
    BY <2>1, <2>2, FindingVerdictType
  <2>4. FindingVerdict(exec[l].outcome, 0).reason \in Reasons
    BY <2>3 DEF Verdicts
  <2> QED
    BY <1>1, <1>3, <2>4, LocksReleased DEF ReleaseLegacy
<1> QED
  BY <1>2, <1>3

(* Claims that find nothing, and maintenance. *)
LEMMA RecoveryLocks ==
  ASSUME Typed,
         \/ \E p \in Pool, covering \in BOOLEAN : ClaimNothing(p, covering)
         \/ Maintain \/ MaintainInterrupted
  PROVE  LocksKept
<1>1. \A l \in Lease : \/ lease'[l].status = lease[l].status
                       \/ lease'[l].status = "stale_recovered"
  <2>1. \E S \in SUBSET Active(lease) : lease' = RecoverLeases(S)
    BY StaleRecovery DEF ClaimNothing, Maintain, MaintainInterrupted, Recovered, Typed
  <2> QED
    BY <2>1, StatusRecovered
<1>2. job' = job \/ \E S \in SUBSET Job : job' = RecoverJobs(S)
  BY StaleRecovery DEF ClaimNothing, Maintain, MaintainInterrupted, Requeued, Typed
<1>3. \A l \in Lease : exec'[l].phase = "wrote" => exec[l].phase = "wrote"
  BY DEF ClaimNothing, Maintain, MaintainInterrupted, End, NoExecution, Typed, TypeOK
<1> QED
  BY <1>1, <1>2, <1>3, LocksUntouched, LocksRecovered

(* The operator drops locks, and sets none. *)
LEMMA OperateLocks ==
  ASSUME Typed, Operate
  PROVE  LocksKept
<1>1. lease' = lease /\ exec' = exec
  BY DEF Operate, PauseJob, ResumeJob, RetryJob, PauseLane, PauseRunning, ResumeLane, db
<1>2. CASE \E j \in Job : PauseJob(j) \/ ResumeJob(j) \/ RetryJob(j)
  <2>1. {"pending", "paused"} \subseteq Statuses \ {"running"}
    BY DEF Statuses
  <2>2. PICK j \in Job : PauseJob(j) \/ ResumeJob(j) \/ RetryJob(j)
    BY <1>2
  <2>3. \E status \in {"pending", "paused"}, attempts \in {0, job[j].attempts} :
          job' = Return(j, status, NoDate, attempts)
    BY <2>2 DEF PauseJob, ResumeJob, RetryJob
  <2> QED
    BY <1>1, <2>1, <2>3, LocksReturned
<1>3. CASE \E q \in Queue : PauseLane(q) \/ PauseRunning(q) \/ ResumeLane(q)
  <2>1. job' = job \/ \E S \in SUBSET Job : job' = RecoverJobs(S)
    BY <1>3 DEF PauseLane, PauseRunning, ResumeLane, db
  <2> QED
    BY <1>1, <2>1, LocksUntouched, LocksRecovered
<1> QED
  BY <1>2, <1>3 DEF Operate

(* Time changes no lock. *)
LEMMA TickLocks ==
  ASSUME Typed, Tick
  PROVE  LocksKept
<1>1. \A j \in Job : job'[j].lockedBy = job[j].lockedBy /\ job'[j].status = job[j].status
  BY DEF Tick, Typed, TypeOK, JobRow
<1>2. \A l \in Lease : lease'[l].status = lease[l].status
  <2>1. ASSUME NEW l \in Lease, Dated(l)
        PROVE  lease[l] \in HeldRow
    BY <2>1, HeldLeases DEF Dated, Typed
  <2> QED
    BY <2>1 DEF Tick, HeldRow
<1> QED
  BY <1>1, <1>2, LocksUntouched DEF Tick

(* Every step of an executor keeps the locks. *)
LEMMA ExecuteLocks ==
  ASSUME Typed, Locked, NEW l \in Lease, Execute(l) \/ LeaveTick(l) \/ Die(l)
  PROVE  LocksKept
BY HeartbeatLocks, QuietLocks, FencedLocks, WriteLocks, ReleaseLocks DEF Execute

(* Every step keeps the locks, or is a claim. *)
LEMMA StepLocks ==
  ASSUME Typed, Locked, [Next]_vars
  PROVE  LocksKept \/ \E p \in Pool, covering \in BOOLEAN : ClaimJob(p, covering)
<1>1. CASE \E p \in Pool : Claim(p)
  BY <1>1, RecoveryLocks DEF Claim
<1>2. CASE \E l \in Lease : Execute(l) \/ LeaveTick(l) \/ Die(l)
  BY <1>2, ExecuteLocks
<1>3. CASE UNCHANGED vars
  BY <1>3, LocksUntouched DEF vars
<1> QED
  BY <1>1, <1>2, <1>3, RecoveryLocks, OperateLocks, TickLocks DEF Next, Work

-----------------------------------------------------------------------------
(* The lock and the lease of a claim. *)

(* A claim locks its job under a lease row that did not exist before. *)
LEMMA ClaimLocked ==
  ASSUME Typed, Locked, NEW p \in Pool, NEW covering \in BOOLEAN, ClaimJob(p, covering)
  PROVE  Locked'
<1>1. PICK j \in Job, x \in PoolTargets[p], l \in Lease : Claims(p, covering, j, x, l)
  BY ClaimClaims DEF Typed
<1>2. Inserts(p, covering, j, x, l)
  BY <1>1, ClaimRows DEF Typed
<1>3. lease[l].status = "free" /\ l # Nobody
  BY <1>1 DEF Claims, Lease, Nobody
<1>4. ASSUME NEW k \in Lease \ {l}
      PROVE  /\ \/ lease'[k].status = lease[k].status
                \/ lease'[k].status = "stale_recovered"
             /\ lease[k].status # "free" => lease'[k].job = lease[k].job
  <2>1. {k1 \in StaleLeases(LeaseStale) : lease[k1].pool = p} \in SUBSET Active(lease)
    BY StaleRecovery DEF Typed
  <2>2. \/ Recovered(p)[k].status = lease[k].status
        \/ Recovered(p)[k].status = "stale_recovered"
    BY <2>1, StatusRecovered DEF Recovered
  <2>3. lease[k].status # "free" => Recovered(p)[k].job = lease[k].job
    BY ClaimRecovery DEF KeepsTo, Typed
  <2> QED
    BY <1>2, <2>2, <2>3 DEF Inserts
<1>5. ASSUME NEW i \in Job \ {j}
      PROVE  \/ job'[i].lockedBy = Nobody /\ job'[i].status # "running"
             \/ job'[i].lockedBy = job[i].lockedBy /\ job'[i].status = job[i].status
  <2>1. job'[i] = Requeued(p, covering)[i]
    BY <1>2 DEF Inserts
  <2>2. Requeued(p, covering)[i] = job[i] \/
        Requeued(p, covering)[i] = [job[i] EXCEPT !.status = "paused", !.due = 0,
                                                  !.lockedBy = Nobody, !.beat = 0]
    BY DEF Requeued, RecoverJobs
  <2> DEFINE row == [job[i] EXCEPT !.status = "paused", !.due = 0,
                                   !.lockedBy = Nobody, !.beat = 0]
  <2>3. row.lockedBy = Nobody /\ row.status = "paused"
    BY DEF Typed, TypeOK, JobRow
  <2>4. job'[i] = job[i] \/ job'[i] = row
    BY <2>1, <2>2
  <2> HIDE DEF row
  <2> QED
    BY <2>3, <2>4
<1>6. ASSUME NEW i \in Job
      PROVE  job[i].lockedBy # Nobody =>
               /\ job[i].lockedBy \in Lease \ {l}
               /\ lease[job[i].lockedBy].status \in {"active", "stale_recovered"}
               /\ lease[job[i].lockedBy].job = i
  BY <1>3 DEF Locked, LockNamesItsLease, Typed, TypeOK, JobRow
<1>7. LockNamesItsLease'
  <2>1. ASSUME NEW i \in Job
        PROVE  /\ job'[i].status = "running" <=> job'[i].lockedBy # Nobody
               /\ job'[i].lockedBy # Nobody =>
                    /\ lease'[job'[i].lockedBy].status \in {"active", "stale_recovered"}
                    /\ lease'[job'[i].lockedBy].job = i
    <3>1. CASE i = j
      BY <1>2, <1>3, <3>1 DEF Inserts
    <3>2. CASE i # j
      BY <1>4, <1>5, <1>6, <3>2 DEF Locked, LockNamesItsLease
    <3> QED
      BY <3>1, <3>2
  <2> QED
    BY <2>1 DEF LockNamesItsLease
<1>8. WroteIsUnlocked'
  <2>1. ASSUME NEW k \in Lease, NEW i \in Job, exec'[k].phase = "wrote"
        PROVE  job'[i].lockedBy # k
    <3>1. k # l /\ exec[k].phase = "wrote"
      BY <1>2, <2>1 DEF Inserts
    <3>2. k # Nobody
      BY DEF Lease, Nobody
    <3> QED
      BY <1>2, <1>5, <3>1, <3>2 DEF Inserts, Locked, WroteIsUnlocked
  <2> QED
    BY <2>1 DEF WroteIsUnlocked
<1> QED
  BY <1>7, <1>8 DEF Locked

(* Nothing is locked at first. *)
LEMMA InitLocked ==
  ASSUME Init
  PROVE  Locked
BY DEF Init, Locked, LockNamesItsLease, WroteIsUnlocked, NoExecution, Nobody

(* The lock of a running job names the lease inserted with it, and that    *)
(* lease was not released (the fences of provider_execution.rs, and the    *)
(* order job row, then lease, in the executors that have none).            *)
THEOREM LockCorrect == Spec => []LockNamesItsLease
<1>1. Init => Typed /\ Locked
  BY InitTyped, InitLocked DEF Typed
<1>2. Typed /\ Locked /\ [Next]_vars => (Typed /\ Locked)'
  <2> SUFFICES ASSUME Typed, Locked, [Next]_vars
               PROVE  Typed' /\ Locked'
    OBVIOUS
  <2>1. Typed'
    BY StepTyped DEF Typed
  <2>2. Locked'
    BY StepKeeps, StepLocks, KeepsLocked, ClaimLocked DEF Typed
  <2> QED
    BY <2>1, <2>2
<1>3. Typed /\ Locked => LockNamesItsLease
  BY DEF Locked
<1> QED
  BY <1>1, <1>2, <1>3, PTL DEF Spec

-----------------------------------------------------------------------------
(* Targets and pools. *)

(* When leases only end, fewer are active, under the same names. *)
LEMMA KeptLeases ==
  ASSUME Typed, NEW t, KeepsTo(t)
  PROVE  /\ Active(t) \subseteq Active(lease)
         /\ \A l \in Active(t) : /\ t[l].target = lease[l].target
                                 /\ t[l].pool = lease[l].pool
         /\ \A p \in Pool : PoolActive(t, p) \subseteq PoolActive(lease, p)
BY DEF KeepsTo, Active, PoolActive

(* The active leases of a pool can be counted. *)
LEMMA PoolActiveFinite ==
  ASSUME NEW t, NEW p
  PROVE  IsFiniteSet(PoolActive(t, p)) /\ Cardinality(PoolActive(t, p)) \in Nat
<1>1. IsFiniteSet(Lease)
  BY FS_Interval, BoundAssumption DEF Lease
<1>2. PoolActive(t, p) \subseteq Lease
  BY DEF PoolActive, Active
<1> QED
  BY <1>1, <1>2, FS_Subset, FS_CardinalityType

(* A capacity is a number. *)
LEMMA CapacityType ==
  ASSUME NEW p \in Pool
  PROVE  Capacity(p) \in Nat
<1>1. Cardinality(PoolTargets[p]) \in Nat
  BY PoolAssumption, FS_CardinalityType
<1>2. PoolMax[p] \in Nat
  BY PoolAssumption
<1> QED
  BY <1>1, <1>2 DEF Capacity

(* Leases that end leave targets exclusive and pools within capacity. *)
LEMMA KeepsAllotted ==
  ASSUME Typed, Allotted, Keeps
  PROVE  Allotted'
<1>1. KeepsTo(lease')
  BY DEF Keeps
<1>2. TargetExclusive'
  BY <1>1, KeptLeases DEF Allotted, TargetExclusive
<1>3. ASSUME NEW p \in Pool
      PROVE  Cardinality(PoolActive(lease', p)) <= Capacity(p)
  <2>1. PoolActive(lease', p) \subseteq PoolActive(lease, p)
    BY <1>1, KeptLeases
  <2>2. Cardinality(PoolActive(lease', p)) <= Cardinality(PoolActive(lease, p))
    BY <2>1, PoolActiveFinite, FS_Subset
  <2>3. Cardinality(PoolActive(lease, p)) <= Capacity(p)
    BY DEF Allotted, PoolWithinCapacity
  <2> QED
    BY <2>2, <2>3, PoolActiveFinite, CapacityType
<1>4. PoolWithinCapacity'
  BY <1>3 DEF PoolWithinCapacity
<1> QED
  BY <1>2, <1>4 DEF Allotted

(* A claim takes a free target, and a slot below capacity. *)
LEMMA ClaimAllotted ==
  ASSUME Typed, Allotted, NEW p \in Pool, NEW covering \in BOOLEAN, ClaimJob(p, covering)
  PROVE  Allotted'
<1>1. PICK j \in Job, x \in PoolTargets[p], l \in Lease : Claims(p, covering, j, x, l)
  BY ClaimClaims DEF Typed
<1>2. Inserts(p, covering, j, x, l)
  BY <1>1, ClaimRows DEF Typed
<1> DEFINE t == Recovered(p)
<1>3. KeepsTo(t)
  BY ClaimRecovery DEF Typed
<1>4. /\ lease'[l].target = x /\ lease'[l].pool = p
      /\ \A k \in Lease \ {l} : lease'[k] = t[k]
      /\ l \notin Active(t)
  <2>1. t[l].status = "free"
    BY <1>1, <1>3 DEF Claims, KeepsTo
  <2> QED
    BY <1>2, <2>1 DEF Inserts, Active
<1>5. /\ \A k \in Active(t) : t[k].target # x
      /\ ~Full(p)
  BY <1>1 DEF Claims, FreeTargets
<1> HIDE DEF t
<1>6. \A k, m \in Active(t) : t[k].target = t[m].target => k = m
  BY <1>3, KeptLeases DEF Allotted, TargetExclusive
<1>7. \A k \in Active(lease') : k = l \/ (k \in Active(t) /\ lease'[k] = t[k])
  BY <1>4 DEF Active
<1>8. TargetExclusive'
  BY <1>4, <1>5, <1>6, <1>7 DEF TargetExclusive
<1>9. ASSUME NEW q \in Pool
      PROVE  Cardinality(PoolActive(lease', q)) <= Capacity(q)
  <2>1. Cardinality(PoolActive(lease, q)) <= Capacity(q)
    BY DEF Allotted, PoolWithinCapacity
  <2>2. CASE q = p
    <3>1. PoolActive(lease', p) \subseteq PoolActive(t, p) \cup {l}
      BY <1>4, <1>7 DEF PoolActive, Active
    <3>2. Cardinality(PoolActive(t, p)) < Capacity(p)
      BY <1>5, PoolActiveFinite, CapacityType DEF Full, t
    <3>3. /\ IsFiniteSet(PoolActive(t, p) \cup {l})
          /\ Cardinality(PoolActive(t, p) \cup {l}) <= Cardinality(PoolActive(t, p)) + 1
      <4> DEFINE S == PoolActive(t, p)
      <4>1. IsFiniteSet(S) /\ Cardinality(S) \in Nat
        BY PoolActiveFinite
      <4> HIDE DEF S
      <4>2. /\ IsFiniteSet(S \cup {l})
            /\ Cardinality(S \cup {l}) = IF l \in S THEN Cardinality(S) ELSE Cardinality(S) + 1
        BY <4>1, FS_AddElement
      <4>3. Cardinality(S \cup {l}) <= Cardinality(S) + 1
        BY <4>1, <4>2
      <4> QED
        BY <4>2, <4>3 DEF S
    <3>4. Cardinality(PoolActive(lease', p)) <= Cardinality(PoolActive(t, p) \cup {l})
      BY <3>1, <3>3, FS_Subset
    <3>5. Cardinality(PoolActive(t, p) \cup {l}) \in Nat
      BY <3>3, FS_CardinalityType
    <3> QED
      BY <2>2, <3>2, <3>3, <3>4, <3>5, PoolActiveFinite, CapacityType
  <2>3. CASE q # p
    <3>1. PoolActive(lease', q) \subseteq PoolActive(lease, q)
      <4>1. PoolActive(lease', q) \subseteq PoolActive(t, q)
        BY <1>4, <1>7, <2>3 DEF PoolActive
      <4> QED
        BY <1>3, <4>1, KeptLeases
    <3>2. Cardinality(PoolActive(lease', q)) <= Cardinality(PoolActive(lease, q))
      BY <3>1, PoolActiveFinite, FS_Subset
    <3> QED
      BY <2>1, <3>2, PoolActiveFinite, CapacityType
  <2> QED
    BY <2>2, <2>3
<1>10. PoolWithinCapacity'
  BY <1>9 DEF PoolWithinCapacity
<1> QED
  BY <1>8, <1>10 DEF Allotted

(* No target is held at first. *)
LEMMA InitAllotted ==
  ASSUME Init
  PROVE  Allotted
<1>1. Active(lease) = {}
  BY DEF Init, Active, FreeRow
<1>2. \A p \in Pool : PoolActive(lease, p) = {}
  BY <1>1 DEF PoolActive
<1> QED
  BY <1>1, <1>2, FS_EmptySet, CapacityType DEF Allotted, TargetExclusive, PoolWithinCapacity

(* The inductive invariant behind the next two theorems. *)
LEMMA AllottedInvariant == Spec => [](Typed /\ Allotted)
<1>1. Init => Typed /\ Allotted
  BY InitTyped, InitAllotted DEF Typed
<1>2. Typed /\ Allotted /\ [Next]_vars => (Typed /\ Allotted)'
  BY StepTyped, StepKeeps, KeepsAllotted, ClaimAllotted DEF Typed
<1> QED
  BY <1>1, <1>2, PTL DEF Spec

(* No target is held by two active leases, whichever pools share it. *)
THEOREM TargetsExclusive == Spec => []TargetExclusive
<1>1. Typed /\ Allotted => TargetExclusive
  BY DEF Allotted
<1> QED
  BY <1>1, AllottedInvariant, PTL

(* No pool exceeds its capacity. *)
THEOREM PoolsWithinCapacity == Spec => []PoolWithinCapacity
<1>1. Typed /\ Allotted => PoolWithinCapacity
  BY DEF Allotted
<1> QED
  BY <1>1, AllottedInvariant, PTL

-----------------------------------------------------------------------------
(* Paused lanes. *)

(* Steps that start no job keep a paused lane quiet. *)
LEMMA QuietKept ==
  ASSUME Typed, PausedLaneIsQuiet, LocksKept, [Next]_vars
  PROVE  PausedLaneIsQuiet'
<1>1. \A j \in Job : job'[j].status = "running" => job[j].status = "running"
  BY DEF LocksKept, LockKept
<1>2. CASE lanePaused' \ pausing' \subseteq lanePaused \ pausing
  BY <1>1, <1>2 DEF PausedLaneIsQuiet
<1>3. CASE ~(lanePaused' \ pausing' \subseteq lanePaused \ pausing)
  <2>1. \E q \in Queue : PauseRunning(q)
    BY <1>3 DEF Next, Work, Claim, ClaimNothing, ClaimJob, Execute, StartGuard, LoadFinding,
      ReturnSetupFailure, PersistFinding, HeartbeatStrict, HeartbeatLenient, LoadCovering,
      KeepCoveringWaiting, ReleaseCovering, StartCoveringThread, FinishCovering,
      PersistCovering, BeginDetached, ResolveTarget, WriteLegacy, ReleaseLegacy, Maintain,
      MaintainInterrupted, LeaveTick, Die, Operate, PauseJob, ResumeJob, RetryJob, PauseLane,
      ResumeLane, Tick, operator, vars
  <2>2. PICK q \in Queue : PauseRunning(q)
    BY <2>1
  <2>3. lanePaused' \ pausing' \subseteq (lanePaused \ pausing) \cup {q}
    BY <2>2 DEF PauseRunning
  <2>4. ASSUME NEW j \in Job, QueueOf[j] = q
        PROVE  job'[j].status # "running"
    <3>1. CASE job[j].status = "running"
      <4>1. job'[j] = [job[j] EXCEPT !.status = "paused", !.due = 0,
                                     !.lockedBy = Nobody, !.beat = 0]
        BY <2>2, <2>4, <3>1 DEF PauseRunning, RecoverJobs
      <4> QED
        BY <4>1 DEF Typed, TypeOK, JobRow
    <3>2. CASE job[j].status # "running"
      BY <1>1, <3>2
    <3> QED
      BY <3>1, <3>2
  <2> QED
    BY <1>1, <2>3, <2>4 DEF PausedLaneIsQuiet
<1> QED
  BY <1>2, <1>3

(* A claim takes no job of a paused lane. *)
LEMMA QuietClaim ==
  ASSUME Typed, PausedLaneIsQuiet, NEW p \in Pool, NEW covering \in BOOLEAN,
         ClaimJob(p, covering)
  PROVE  PausedLaneIsQuiet'
<1>1. PICK j \in Job, x \in PoolTargets[p], l \in Lease : Claims(p, covering, j, x, l)
  BY ClaimClaims DEF Typed
<1>2. Inserts(p, covering, j, x, l)
  BY <1>1, ClaimRows DEF Typed
<1>3. UNCHANGED <<lanePaused, pausing>> /\ QueueOf[j] \notin lanePaused
  BY <1>1 DEF Claims, operator
<1>4. ASSUME NEW i \in Job \ {j}, job'[i].status = "running"
      PROVE  job[i].status = "running"
  <2>1. job'[i] = Requeued(p, covering)[i]
    BY <1>2 DEF Inserts
  <2> DEFINE row == [job[i] EXCEPT !.status = "paused", !.due = 0,
                                   !.lockedBy = Nobody, !.beat = 0]
  <2>2. job'[i] = job[i] \/ job'[i] = row
    BY <2>1 DEF Requeued, RecoverJobs
  <2>3. row.status = "paused"
    BY DEF Typed, TypeOK, JobRow
  <2> HIDE DEF row
  <2> QED
    BY <1>4, <2>2, <2>3
<1> QED
  BY <1>3, <1>4 DEF PausedLaneIsQuiet

(* Once its pause is applied, a lane has no running job until it is        *)
(* resumed, whatever claims and results of other executions come in.       *)
THEOREM PausedLanesAreQuiet == Spec => []PausedLaneIsQuiet
<1> DEFINE Inv == Typed /\ Locked /\ PausedLaneIsQuiet
<1>1. Init => Inv
  BY InitTyped, InitLocked DEF Typed, Init, PausedLaneIsQuiet
<1>2. Inv /\ [Next]_vars => Inv'
  <2> SUFFICES ASSUME Typed, Locked, PausedLaneIsQuiet, [Next]_vars
               PROVE  Inv'
    OBVIOUS
  <2>1. Typed'
    BY StepTyped DEF Typed
  <2>2. Locked'
    BY StepKeeps, StepLocks, KeepsLocked, ClaimLocked DEF Typed
  <2>3. PausedLaneIsQuiet'
    BY StepLocks, QuietKept, QuietClaim
  <2> QED
    BY <2>1, <2>2, <2>3
<1>3. Inv => PausedLaneIsQuiet
  OBVIOUS
<1> QED
  BY <1>1, <1>2, <1>3, PTL DEF Spec

-----------------------------------------------------------------------------
(* The leases implement TargetSlots. *)

HolderIn(t, x) ==
  IF \E l \in Active(t) : t[l].target = x
  THEN CHOOSE l \in Active(t) : t[l].target = x
  ELSE Nobody

(* The active lease on a target is its holder. *)
LEMMA HolderNamed ==
  ASSUME NEW t, NEW x, NEW l \in Active(t), t[l].target = x,
         \A k, m \in Active(t) : t[k].target = t[m].target => k = m
  PROVE  HolderIn(t, x) = l
<1>1. \A k \in Active(t) : t[k].target = x => k = l
  OBVIOUS
<1>2. (CHOOSE k \in Active(t) : t[k].target = x) = l
  BY <1>1
<1> QED
  BY <1>2 DEF HolderIn

(* Without one, nobody holds it. *)
LEMMA HolderNobody ==
  ASSUME NEW t, NEW x, \A l \in Active(t) : t[l].target # x
  PROVE  HolderIn(t, x) = Nobody
BY DEF HolderIn

(* When leases only end, a target keeps its holder or loses it. *)
LEMMA HolderKept ==
  ASSUME Typed, TargetExclusive, NEW t, KeepsTo(t), NEW x
  PROVE  HolderIn(t, x) = IF \E l \in Active(t) : t[l].target = x
                          THEN HolderIn(lease, x) ELSE Nobody
<1>1. /\ Active(t) \subseteq Active(lease)
      /\ \A l \in Active(t) : t[l].target = lease[l].target
  BY KeptLeases
<1>2. \A k, m \in Active(t) : t[k].target = t[m].target => k = m
  BY <1>1 DEF TargetExclusive
<1>3. CASE \E l \in Active(t) : t[l].target = x
  <2>1. PICK l \in Active(t) : t[l].target = x
    BY <1>3
  <2>2. HolderIn(t, x) = l
    BY <1>2, <2>1, HolderNamed
  <2>3. l \in Active(lease) /\ lease[l].target = x
    BY <1>1, <2>1
  <2>4. HolderIn(lease, x) = l
    BY <2>3, HolderNamed DEF TargetExclusive
  <2> QED
    BY <1>3, <2>2, <2>4
<1>4. CASE ~ \E l \in Active(t) : t[l].target = x
  BY <1>4, HolderNobody
<1> QED
  BY <1>3, <1>4

(* A step that inserts no lease row frees targets, or none. *)
LEMMA KeepsFrees ==
  ASSUME Typed, TargetExclusive, Keeps
  PROVE  Slots!Free
<1> DEFINE freed == {x \in Target : ~ \E l \in Active(lease') : lease'[l].target = x}
<1>1. KeepsTo(lease')
  BY DEF Keeps
<1>2. \A x \in Target : HolderIn(lease', x) = IF x \in freed THEN Nobody
                                              ELSE HolderIn(lease, x)
  BY <1>1, HolderKept
<1>3. \A x \in Target : Holder(x) = HolderIn(lease, x) /\ Holder(x)' = HolderIn(lease', x)
  BY DEF Holder, HolderIn, Active
<1>4. [x \in Target |-> Holder(x)]' = [x \in Target |-> IF x \in freed THEN Nobody
                                                       ELSE Holder(x)]
  <2> HIDE DEF freed
  <2> QED
    BY <1>2, <1>3
<1>5. {l \in Lease : lease[l].status # "free"}' = {l \in Lease : lease[l].status # "free"}
  BY <1>1 DEF KeepsTo
<1> QED
  BY <1>4, <1>5 DEF Slots!Free, Slots!Without

(* A claim frees what it recovers and acquires one target. *)
LEMMA ClaimAcquires ==
  ASSUME Typed, Allotted, NEW p \in Pool, NEW covering \in BOOLEAN, ClaimJob(p, covering)
  PROVE  Slots!Acquire
<1>1. PICK j \in Job, x \in PoolTargets[p], l \in Lease : Claims(p, covering, j, x, l)
  BY ClaimClaims DEF Typed
<1>2. Inserts(p, covering, j, x, l)
  BY <1>1, ClaimRows DEF Typed
<1>3. KeepsTo(Recovered(p))
  BY ClaimRecovery DEF Typed
<1>4. Allotted' /\ x \in Target
  BY ClaimAllotted, PoolAssumption
<1> DEFINE t == Recovered(p)
<1> DEFINE freed == {y \in Target : ~ \E k \in Active(t) : t[k].target = y}
<1>5. x \in freed
  BY <1>1, <1>4 DEF Claims, FreeTargets
<1>6. \A y \in Target : HolderIn(t, y) = IF y \in freed THEN Nobody ELSE HolderIn(lease, y)
  BY <1>3, HolderKept DEF Allotted
<1>7. /\ lease'[l].target = x /\ l \in Active(lease') /\ l \notin Active(t)
      /\ \A k \in Lease \ {l} : lease'[k] = t[k]
      /\ lease[l].status = "free" /\ lease'[l].status # "free"
  <2>1. lease[l].status = "free" /\ t[l].status = "free"
    BY <1>1, <1>3 DEF Claims, KeepsTo
  <2> QED
    BY <1>2, <2>1 DEF Inserts, Active
<1> HIDE DEF t
<1>8. HolderIn(lease', x) = l
  <2>1. \A k, m \in Active(lease') : lease'[k].target = lease'[m].target => k = m
    BY <1>4 DEF Allotted, TargetExclusive
  <2> QED
    BY <1>7, <2>1, HolderNamed
<1>9. ASSUME NEW y \in Target \ {x}
      PROVE  HolderIn(lease', y) = HolderIn(t, y)
  <2>1. \A k \in Lease : (k \in Active(lease') /\ lease'[k].target = y)
                          <=> (k \in Active(t) /\ t[k].target = y)
    BY <1>7 DEF Active
  <2>2. {k \in Active(lease') : lease'[k].target = y} = {k \in Active(t) : t[k].target = y}
    BY <2>1 DEF Active
  <2>3. \A k, m \in Active(lease') : lease'[k].target = lease'[m].target => k = m
    BY <1>4 DEF Allotted, TargetExclusive
  <2>4. CASE \E k \in Active(lease') : lease'[k].target = y
    <3>1. PICK k \in Active(lease') : lease'[k].target = y
      BY <2>4
    <3>2. HolderIn(lease', y) = k
      BY <2>3, <3>1, HolderNamed
    <3>3. k \in Active(t) /\ t[k].target = y
      BY <2>2, <3>1
    <3>4. \A m \in Active(t) : t[m].target = y => m = k
      BY <2>2, <2>3, <3>1
    <3>5. HolderIn(t, y) = k
      BY <3>3, <3>4 DEF HolderIn
    <3> QED
      BY <3>2, <3>5
  <2>5. CASE ~ \E k \in Active(lease') : lease'[k].target = y
    BY <2>2, <2>5, HolderNobody
  <2> QED
    BY <2>4, <2>5
<1>10. \A y \in Target : Holder(y) = HolderIn(lease, y) /\ Holder(y)' = HolderIn(lease', y)
  BY DEF Holder, HolderIn, Active
<1> DEFINE without == [y \in Target |-> IF y \in freed THEN Nobody ELSE Holder(y)]
<1> HIDE DEF freed
<1>11. without[x] = Nobody
  BY <1>4, <1>5
<1>12. [y \in Target |-> Holder(y)]' = [without EXCEPT ![x] = l]
  BY <1>4, <1>6, <1>8, <1>9, <1>10
<1>13. {k \in Lease : lease[k].status # "free"}'
         = {k \in Lease : lease[k].status # "free"} \cup {l}
  <2>1. \A k \in Lease \ {l} : (lease'[k].status = "free") <=> (lease[k].status = "free")
    BY <1>3, <1>7 DEF KeepsTo, t
  <2> QED
    BY <1>7, <2>1
<1>14. l \in Lease \ {k \in Lease : lease[k].status # "free"}
  BY <1>7
<1>15. freed \in SUBSET Target
  BY DEF freed
<1>16. Slots!Without(freed) = without
  BY DEF Slots!Without
<1> HIDE DEF without
<1>17. /\ Slots!Without(freed)[x] = Nobody
       /\ [y \in Target |-> Holder(y)]' = [Slots!Without(freed) EXCEPT ![x] = l]
  BY <1>11, <1>12, <1>16
<1> QED
  BY <1>4, <1>13, <1>14, <1>15, <1>17 DEF Slots!Acquire

(* Every step of the queue, of whichever executor, is a step of            *)
(* TargetSlots or leaves the allocation of targets alone.                  *)
THEOREM ImplementsTargetSlots == Spec => SlotsSpec
<1>1. Init => Slots!Init
  <2> SUFFICES ASSUME Init PROVE Slots!Init
    OBVIOUS
  <2>1. Active(lease) = {}
    BY DEF Init, Active, FreeRow
  <2>2. \A x \in Target : Holder(x) = Nobody
    BY <2>1 DEF Holder
  <2>3. {l \in Lease : lease[l].status # "free"} = {}
    BY DEF Init, FreeRow
  <2> QED
    BY <2>2, <2>3 DEF Slots!Init
<1>2. Typed /\ Allotted /\ [Next]_vars => Slots!Next
  BY StepKeeps, KeepsFrees, ClaimAcquires DEF Typed, Allotted, Slots!Next
<1> QED
  BY <1>1, <1>2, AllottedInvariant, PTL DEF Spec, SlotsSpec, Slots!Spec

-----------------------------------------------------------------------------
(* What an execution knows of its job and of the writer.  The mode of an   *)
(* execution never changes, so the definitions take it with the phase.     *)

(* The count of attempts has been read, and is written with the result.    *)
Counted(mode, phase) ==
  \/ mode = "split" /\ phase = "running"
  \/ mode = "covering" /\ phase \in {"loaded", "running", "finished"}

(* The execution is within its writer job. *)
InWriter(mode, phase) ==
  \/ mode \in {"covering", "generic"} /\ phase \in {"claimed", "wrote"}
  \/ mode \in Legacy /\ phase \in {"running", "wrote"}

(* While it holds the lock of its job, nobody else counts an attempt.      *)
CountIsKnown ==
  \A l \in Lease :
    (exec[l].phase # "none" /\ Counted(ModeOf(l), exec[l].phase) /\ Row(l).lockedBy = l)
      => exec[l].attempts = Row(l).attempts

(* It has the writer from its claim, or from its second job, to its end.   *)
KeepsWriter ==
  \A l \in Lease :
    (exec[l].phase # "none" /\ InWriter(ModeOf(l), exec[l].phase)) => writer = l

(* What was claimed in this writer job is still its own, until it writes.  *)
WriterOwnsJob ==
  \A l \in Lease :
    (/\ ModeOf(l) # "detached" /\ exec[l].phase \notin {"none", "wrote"}
     /\ InWriter(ModeOf(l), exec[l].phase))
      => Row(l).status = "running" /\ Row(l).lockedBy = l

(* So is its lease, until it is released. *)
WriterHoldsLease ==
  \A l \in Lease :
    (/\ ModeOf(l) = "covering" /\ exec[l].phase # "none"
     /\ InWriter(ModeOf(l), exec[l].phase))
      => lease[l].status = "active"

(* A settled job waits for no date, so time leaves its row alone. *)
SettledUndated == \A j \in Job : job[j].status \in Settled => job[j].due = NoDate

(* The invariant behind the action properties. *)
Owned == CountIsKnown /\ KeepsWriter /\ WriterOwnsJob /\ WriterHoldsLease /\ SettledUndated

-----------------------------------------------------------------------------
(* What a step makes of the row of a job. *)

RowKept(j) ==
  /\ job'[j].status = job[j].status
  /\ job'[j].lockedBy = job[j].lockedBy
  /\ job'[j].attempts = job[j].attempts
  /\ job[j].due = NoDate => job'[j].due = NoDate
  /\ job'[j] # job[j] => job[j].status = "running" \/ job[j].due > 0

RowRequeued(j) ==
  /\ writer = Nobody
  /\ job[j].status = "running"
  /\ job'[j].status = "paused"
  /\ job'[j].lockedBy = Nobody
  /\ job'[j].attempts = job[j].attempts

RowReturned(j, l) ==
  /\ writer \in {Nobody, l}
  /\ exec[l].phase \notin {"ended", "wrote"}
  /\ exec'[l].phase \in {"ended", "wrote"}
  /\ Mode[QueueOf[j]] # "detached" => job[j].status = "running" /\ job[j].lockedBy = l
  /\ job'[j].lockedBy = Nobody
  /\ job'[j].attempts >= job[j].attempts
  /\ job'[j].status \in Settled => job'[j].due = NoDate

RowClaimed(j, l) ==
  /\ writer = Nobody
  /\ job[j].status = "running" \/ Runnable(job[j])
  /\ job'[j].status = "running"
  /\ job'[j].lockedBy = l
  /\ job'[j].attempts = job[j].attempts
  /\ exec'[l].phase = "claimed"

RowOperated(j) ==
  /\ writer = Nobody
  /\ UNCHANGED <<lease, exec, writer, operator>>
  /\ job'[j].lockedBy = Nobody
  /\ \/ /\ job[j].status \in {"pending", "running"}
        /\ job'[j].status = "paused"
        /\ job'[j].attempts = job[j].attempts
     \/ /\ job[j].status # "running"
        /\ job'[j].status = "pending"
        /\ job'[j].attempts \in {0, job[j].attempts}

RowStep(j) ==
  \/ RowKept(j) \/ RowRequeued(j) \/ RowOperated(j)
  \/ \E l \in Lease : RowReturned(j, l) \/ RowClaimed(j, l)

RowSteps == \A j \in Job : RowStep(j)

(* A failure is counted, never forgotten. *)
LEMMA FailedCounts ==
  ASSUME NEW n \in Nat
  PROVE  Failed(n) >= n /\ Failed(n) \in Nat
BY DEF Failed

(* A verdict keeps or raises the count, and settles without a date. *)
Raises(verdict, n) ==
  /\ verdict.attempts >= n
  /\ verdict.status \in Settled => verdict.due = NoDate

(* The verdict of a finding job does. *)
LEMMA FindingVerdictRaises ==
  ASSUME NEW n \in Nat,
         NEW outcome \in {"done", "unsupported", "unavailable", "failed"}
  PROVE  Raises(FindingVerdict(outcome, n), n)
<1>1. /\ Failed(n) >= n
      /\ Failed(n) >= MaxAttempts <=> ~(Failed(n) < MaxAttempts)
  BY FailedCounts, BoundAssumption
<1>2. n >= n
  BY BoundAssumption
<1>3. CASE outcome = "done"
  BY <1>2, <1>3 DEF FindingVerdict, Raises, Settled
<1>4. CASE outcome = "unsupported"
  BY <1>2, <1>4 DEF FindingVerdict, Raises, Settled
<1>5. CASE outcome = "failed"
  BY <1>1, <1>5 DEF FindingVerdict, Raises, Settled
<1>6. CASE outcome = "unavailable" /\ Failed(n) >= MaxAttempts
  BY <1>1, <1>6 DEF FindingVerdict, Raises, Settled
<1>7. CASE outcome = "unavailable" /\ Failed(n) < MaxAttempts
  BY <1>1, <1>7 DEF FindingVerdict, Raises, Settled
<1> QED
  BY <1>1, <1>3, <1>4, <1>5, <1>6, <1>7

(* So does the verdict of a covering job. *)
LEMMA CoveringVerdictRaises ==
  ASSUME NEW n \in Nat, NEW outcome \in Outcomes
  PROVE  Raises(CoveringVerdict(outcome, n), n)
<1>1. /\ Failed(n) >= n
      /\ Failed(n) >= MaxAttempts <=> ~(Failed(n) < MaxAttempts)
  BY FailedCounts, BoundAssumption
<1>2. CASE outcome = "done"
  BY <1>1, <1>2 DEF CoveringVerdict, Raises, Settled
<1>3. CASE outcome # "done" /\ Failed(n) < MaxAttempts
  BY <1>1, <1>3 DEF CoveringVerdict, Raises, Settled
<1>4. CASE outcome # "done" /\ Failed(n) >= MaxAttempts
  BY <1>1, <1>4 DEF CoveringVerdict, Raises, Settled
<1> QED
  BY <1>1, <1>2, <1>3, <1>4

(* The rows that a statement leaves alone. *)
LEMMA RowsSame ==
  ASSUME Typed, job' = job
  PROVE  RowSteps
BY DEF RowSteps, RowStep, RowKept

(* Running jobs are put back by recovery or by a pause. *)
LEMMA RowsRequeued ==
  ASSUME Typed, writer = Nobody,
         NEW S \in SUBSET {j \in Job : job[j].status = "running"}, job' = RecoverJobs(S)
  PROVE  RowSteps
<1>1. ASSUME NEW j \in S
      PROVE  RowRequeued(j)
  <2>1. job'[j] = [job[j] EXCEPT !.status = "paused", !.due = 0,
                                 !.lockedBy = Nobody, !.beat = 0]
    BY DEF RecoverJobs
  <2> QED
    BY <2>1 DEF RowRequeued, Typed, TypeOK, JobRow
<1>2. ASSUME NEW j \in Job \ S
      PROVE  RowKept(j)
  BY DEF RecoverJobs, RowKept
<1> QED
  BY <1>1, <1>2 DEF RowSteps, RowStep

(* An execution writes the row of its job. *)
LEMMA RowsReturned ==
  ASSUME Typed, NEW l \in Lease, NEW verdict,
         exec[l].phase \notin {"none", "ended", "wrote"},
         exec'[l].phase \in {"ended", "wrote"},
         writer \in {Nobody, l},
         ModeOf(l) # "detached" => Row(l).status = "running" /\ Row(l).lockedBy = l,
         Raises(verdict, Row(l).attempts),
         job' = Return(lease[l].job, verdict.status, verdict.due, verdict.attempts)
  PROVE  RowSteps
<1> DEFINE mine == lease[l].job
<1>1. mine \in Job
  BY RowType DEF Typed
<1>2. job'[mine] = [status |-> verdict.status, lockedBy |-> Nobody, beat |-> 0,
                    due |-> verdict.due, attempts |-> verdict.attempts]
  BY <1>1 DEF Return, Typed, TypeOK
<1>3. RowReturned(mine, l)
  BY <1>2 DEF RowReturned, Raises, ModeOf, Row
<1>4. ASSUME NEW j \in Job \ {mine}
      PROVE  RowKept(j)
  BY DEF Return, Typed, TypeOK, RowKept
<1> QED
  BY <1>1, <1>3, <1>4 DEF RowSteps, RowStep

(* A fenced transaction writes it, or nothing. *)
LEMMA RowsFenced ==
  ASSUME Typed, NEW l \in Lease, NEW verdict,
         exec[l].phase \notin {"none", "ended", "wrote"},
         writer = Nobody, exec' = End(l), Fenced(l, verdict),
         Owns(l) => Raises(verdict, Row(l).attempts)
  PROVE  RowSteps
<1>1. exec'[l].phase \in {"ended", "wrote"}
  BY DEF End, NoExecution, Typed, TypeOK
<1>2. CASE Owns(l)
  BY <1>1, <1>2, RowsReturned DEF Fenced, Owns, Row
<1>3. CASE ~Owns(l)
  BY <1>3, RowsSame DEF Fenced, db
<1> QED
  BY <1>2, <1>3

(* The three fenced transactions. *)
LEMMA FencedRows ==
  ASSUME Typed, Owned, NEW l \in Lease,
         ReturnSetupFailure(l) \/ PersistFinding(l) \/ PersistCovering(l)
  PROVE  RowSteps
<1>1. /\ exec[l].phase \notin {"none", "ended", "wrote"}
      /\ writer = Nobody /\ exec' = End(l)
  BY DEF ReturnSetupFailure, PersistFinding, PersistCovering, In
<1>2. Row(l).attempts \in Nat /\ exec[l].attempts \in Nat
  BY <1>1, RowType DEF Typed
<1>3. CASE ReturnSetupFailure(l)
  <2> DEFINE verdict == [status |-> "pending", due |-> Backoff,
                         attempts |-> Row(l).attempts, reason |-> "worker_setup_failed"]
  <2>1. Raises(verdict, Row(l).attempts)
    BY <1>2 DEF Raises, Settled
  <2>2. Fenced(l, verdict)
    BY <1>3 DEF ReturnSetupFailure
  <2> HIDE DEF verdict
  <2> QED
    BY <1>1, <2>1, <2>2, RowsFenced
<1>4. CASE PersistFinding(l)
  <2>1. PICK outcome \in {"done", "unsupported", "unavailable", "failed"} :
          Fenced(l, FindingVerdict(outcome, exec[l].attempts))
    BY <1>4 DEF PersistFinding
  <2>2. Owns(l) => exec[l].attempts = Row(l).attempts
    BY <1>4 DEF PersistFinding, In, Owned, CountIsKnown, Counted, Owns, Row
  <2>3. Raises(FindingVerdict(outcome, exec[l].attempts), exec[l].attempts)
    BY <1>2, FindingVerdictRaises
  <2> QED
    BY <1>1, <2>1, <2>2, <2>3, RowsFenced
<1>5. CASE PersistCovering(l)
  <2>1. exec[l].outcome \in Outcomes
    BY <1>1, <1>5 DEF PersistCovering, In, Typed, Resulted, ResultOf
  <2>2. Owns(l) => exec[l].attempts = Row(l).attempts
    BY <1>5 DEF PersistCovering, In, Owned, CountIsKnown, Counted, Owns, Row
  <2>3. Raises(CoveringVerdict(exec[l].outcome, exec[l].attempts), exec[l].attempts)
    BY <1>2, <2>1, CoveringVerdictRaises
  <2> QED
    BY <1>1, <1>5, <2>2, <2>3, RowsFenced DEF PersistCovering
<1> QED
  BY <1>3, <1>4, <1>5

(* The two unfenced writes of a job row. *)
LEMMA WrittenRows ==
  ASSUME Typed, Owned, NEW l \in Lease, KeepCoveringWaiting(l) \/ WriteLegacy(l)
  PROVE  RowSteps
<1>1. /\ exec[l].phase \notin {"none", "ended", "wrote"}
      /\ exec'[l].phase = "wrote"
  BY DEF KeepCoveringWaiting, WriteLegacy, In, Become, Typed, TypeOK, Execution
<1>2. Row(l).attempts \in Nat
  BY <1>1, RowType DEF Typed
<1>3. writer = l
  BY DEF KeepCoveringWaiting, WriteLegacy, In, Owned, KeepsWriter, InWriter, Legacy
<1>4. ModeOf(l) # "detached" => Row(l).status = "running" /\ Row(l).lockedBy = l
  BY <1>1, <1>3 DEF KeepCoveringWaiting, WriteLegacy, In, Owned, WriterOwnsJob, InWriter, Legacy
<1>5. CASE KeepCoveringWaiting(l)
  <2> DEFINE verdict == [status |-> "pending", due |-> Backoff, attempts |-> Row(l).attempts]
  <2>1. Raises(verdict, Row(l).attempts)
    BY <1>2 DEF Raises, Settled
  <2>2. job' = Return(lease[l].job, verdict.status, verdict.due, verdict.attempts)
    BY <1>5 DEF KeepCoveringWaiting
  <2> HIDE DEF verdict
  <2> QED
    BY <1>1, <1>3, <1>4, <2>1, <2>2, RowsReturned
<1>6. CASE WriteLegacy(l)
  <2>1. PICK outcome \in {"done", "unavailable", "failed"} :
          job' = Return(lease[l].job, FindingVerdict(outcome, Row(l).attempts).status,
                        FindingVerdict(outcome, Row(l).attempts).due,
                        FindingVerdict(outcome, Row(l).attempts).attempts)
    BY <1>6 DEF WriteLegacy
  <2>2. Raises(FindingVerdict(outcome, Row(l).attempts), Row(l).attempts)
    BY <1>2, FindingVerdictRaises
  <2> QED
    BY <1>1, <1>3, <1>4, <2>1, <2>2, RowsReturned
<1> QED
  BY <1>5, <1>6

(* The steps of an execution that write no job row, or only its heartbeat. *)
LEMMA QuietRows ==
  ASSUME Typed, NEW l \in Lease,
         \/ StartGuard(l) \/ LoadFinding(l) \/ LoadCovering(l) \/ StartCoveringThread(l)
         \/ FinishCovering(l) \/ BeginDetached(l) \/ ResolveTarget(l)
         \/ LeaveTick(l) \/ Die(l)
         \/ ReleaseCovering(l) \/ ReleaseLegacy(l)
         \/ HeartbeatStrict(l) \/ HeartbeatLenient(l)
  PROVE  RowSteps
<1>1. CASE HeartbeatStrict(l) \/ HeartbeatLenient(l)
  <2>1. CASE job' = job
    BY <2>1, RowsSame
  <2>2. CASE Owns(l) /\ job' = [job EXCEPT ![lease[l].job].beat = 0]
    <3>1. lease[l].job \in Job /\ job[lease[l].job].status = "running"
      BY <2>2, OwnsJob DEF Owns, Typed
    <3>2. \A j \in Job : RowKept(j)
      BY <2>2, <3>1 DEF Typed, TypeOK, JobRow, RowKept
    <3> QED
      BY <3>2 DEF RowSteps, RowStep
  <2> QED
    BY <1>1, <2>1, <2>2 DEF HeartbeatStrict, HeartbeatLenient, db
<1>2. CASE ~(HeartbeatStrict(l) \/ HeartbeatLenient(l))
  <2>1. job' = job
    BY <1>2 DEF StartGuard, LoadFinding, LoadCovering, StartCoveringThread, FinishCovering,
      BeginDetached, ResolveTarget, LeaveTick, Die, ReleaseCovering, ReleaseLegacy, db
  <2> QED
    BY <2>1, RowsSame
<1> QED
  BY <1>1, <1>2

(* Every step of an execution. *)
LEMMA ExecuteRows ==
  ASSUME Typed, Owned, NEW l \in Lease, Execute(l) \/ LeaveTick(l) \/ Die(l)
  PROVE  RowSteps
BY FencedRows, WrittenRows, QuietRows DEF Execute

(* A claim, with what it recovers before. *)
LEMMA ClaimRowSteps ==
  ASSUME Typed, NEW p \in Pool, NEW covering \in BOOLEAN, ClaimJob(p, covering)
  PROVE  RowSteps
<1> DEFINE S == {j \in StaleJobs(JobStale) : QueueOf[j] \in ClaimQueues(p, covering)}
<1>1. S \in SUBSET {j \in Job : job[j].status = "running"}
  BY DEF StaleJobs
<1> HIDE DEF S
<1>2. Requeued(p, covering) = RecoverJobs(S)
  BY DEF Requeued, S
<1>3. writer = Nobody
  BY DEF ClaimJob
<1>4. PICK j \in Candidates(p, covering), l \in Lease :
        /\ job' = [Requeued(p, covering) EXCEPT
                     ![j] = [@ EXCEPT !.status = "running", !.lockedBy = l, !.beat = 0]]
        /\ exec' = [exec EXCEPT ![l].phase = "claimed"]
  BY DEF ClaimJob
<1>5. j \in Job /\ Runnable(Requeued(p, covering)[j])
  BY DEF Candidates
<1>6. exec'[l].phase = "claimed"
  BY <1>4 DEF Typed, TypeOK, Execution
<1>7. ASSUME NEW i \in Job, i \in S
      PROVE  /\ job[i].status = "running"
             /\ Requeued(p, covering)[i] \in JobRow
             /\ Requeued(p, covering)[i].status = "paused"
             /\ Requeued(p, covering)[i].lockedBy = Nobody
             /\ Requeued(p, covering)[i].attempts = job[i].attempts
  <2>1. Requeued(p, covering)[i] = [job[i] EXCEPT !.status = "paused", !.due = 0,
                                                  !.lockedBy = Nobody, !.beat = 0]
    BY <1>2, <1>7 DEF RecoverJobs
  <2>2. Requeued(p, covering)[i] \in JobRow
    BY ClaimRecovery DEF Typed
  <2>3. job[i].status = "running"
    BY <1>1, <1>7
  <2> QED
    BY <2>1, <2>2, <2>3 DEF Typed, TypeOK, JobRow
<1>8. ASSUME NEW i \in Job, i \notin S
      PROVE  Requeued(p, covering)[i] = job[i]
  BY <1>2, <1>8 DEF RecoverJobs
<1>9. ASSUME NEW i \in Job \ {j}
      PROVE  job'[i] = Requeued(p, covering)[i]
  BY <1>4 DEF Requeued, RecoverJobs
<1>10. job'[j] = [Requeued(p, covering)[j] EXCEPT !.status = "running", !.lockedBy = l, !.beat = 0]
  BY <1>4, <1>5 DEF Requeued, RecoverJobs
<1>11. RowClaimed(j, l)
  <2>1. CASE j \in S
    BY <1>3, <1>5, <1>6, <1>7, <1>10, <2>1 DEF RowClaimed, JobRow
  <2>2. CASE j \notin S
    BY <1>3, <1>5, <1>6, <1>8, <1>10, <2>2 DEF RowClaimed, Typed, TypeOK, JobRow
  <2> QED
    BY <2>1, <2>2
<1>12. ASSUME NEW i \in Job \ {j}
       PROVE  RowKept(i) \/ RowRequeued(i)
  <2>1. CASE i \in S
    BY <1>3, <1>7, <1>9, <2>1 DEF RowRequeued
  <2>2. CASE i \notin S
    BY <1>8, <1>9, <2>2 DEF RowKept
  <2> QED
    BY <2>1, <2>2
<1> QED
  BY <1>5, <1>11, <1>12 DEF RowSteps, RowStep

(* Claims that find nothing, maintenance, the operator, and time. *)
LEMMA OtherRows ==
  ASSUME Typed,
         \/ \E p \in Pool, covering \in BOOLEAN : ClaimNothing(p, covering)
         \/ Maintain \/ MaintainInterrupted \/ Operate \/ Tick
  PROVE  RowSteps
<1>1. CASE \E p \in Pool, covering \in BOOLEAN : ClaimNothing(p, covering)
  <2>1. PICK p \in Pool, covering \in BOOLEAN : ClaimNothing(p, covering)
    BY <1>1
  <2> DEFINE S == {j \in StaleJobs(JobStale) : QueueOf[j] \in ClaimQueues(p, covering)}
  <2>2. S \in SUBSET {j \in Job : job[j].status = "running"}
    BY DEF StaleJobs
  <2>3. writer = Nobody /\ (job' = job \/ job' = RecoverJobs(S))
    BY <2>1 DEF ClaimNothing, Requeued
  <2> HIDE DEF S
  <2> QED
    BY <2>2, <2>3, RowsSame, RowsRequeued
<1>2. CASE Maintain
  <2>1. StaleJobs(MaintStale) \in SUBSET {j \in Job : job[j].status = "running"}
    BY DEF StaleJobs
  <2> QED
    BY <1>2, <2>1, RowsRequeued DEF Maintain
<1>3. CASE MaintainInterrupted
  BY <1>3, RowsSame DEF MaintainInterrupted
<1>4. CASE Operate
  <2>1. ASSUME NEW j \in Job, PauseJob(j) \/ ResumeJob(j) \/ RetryJob(j)
        PROVE  RowSteps
    <3>1. PICK status \in {"paused", "pending"}, attempts \in {0, job[j].attempts} :
            /\ writer = Nobody
            /\ job' = Return(j, status, NoDate, attempts)
            /\ UNCHANGED <<lease, exec, writer, operator>>
            /\ \/ /\ status = "paused" /\ job[j].status \in {"pending", "running"}
                  /\ attempts = job[j].attempts
               \/ status = "pending" /\ job[j].status # "running"
      BY <2>1 DEF PauseJob, ResumeJob, RetryJob
    <3>2. job'[j] = [status |-> status, lockedBy |-> Nobody, beat |-> 0,
                     due |-> NoDate, attempts |-> attempts]
      BY <3>1 DEF Return, Typed, TypeOK
    <3>3. RowOperated(j)
      BY <3>1, <3>2 DEF RowOperated
    <3>4. \A i \in Job \ {j} : RowKept(i)
      BY <3>1 DEF Return, Typed, TypeOK, RowKept
    <3> QED
      BY <3>3, <3>4 DEF RowSteps, RowStep
  <2>2. ASSUME NEW q \in Queue, PauseLane(q) \/ ResumeLane(q)
        PROVE  RowSteps
    BY <2>2, RowsSame DEF PauseLane, ResumeLane, db
  <2>3. ASSUME NEW q \in Queue, PauseRunning(q)
        PROVE  RowSteps
    <3> DEFINE S == {j \in Job : QueueOf[j] = q /\ job[j].status = "running"}
    <3>1. S \in SUBSET {j \in Job : job[j].status = "running"}
      OBVIOUS
    <3>2. writer = Nobody /\ job' = RecoverJobs(S)
      BY <2>3 DEF PauseRunning
    <3> HIDE DEF S
    <3> QED
      BY <3>1, <3>2, RowsRequeued
  <2> QED
    BY <1>4, <2>1, <2>2, <2>3 DEF Operate
<1>5. CASE Tick
  <2>1. ASSUME NEW j \in Job
        PROVE  RowKept(j)
    <3> DEFINE beat == IF job[j].status = "running" THEN Older(job[j].beat) ELSE job[j].beat
               due == IF job[j].due > 0 THEN job[j].due - 1 ELSE job[j].due
    <3>1. job'[j] = [job[j] EXCEPT !.beat = beat, !.due = due]
      BY <1>5 DEF Tick
    <3>2. /\ job[j].status # "running" => beat = job[j].beat
          /\ ~(job[j].due > 0) => due = job[j].due
      OBVIOUS
    <3> HIDE DEF beat, due
    <3>3. ~(NoDate > 0)
      BY DEF NoDate
    <3> QED
      BY <3>1, <3>2, <3>3 DEF RowKept, Typed, TypeOK, JobRow
  <2> QED
    BY <2>1 DEF RowSteps, RowStep
<1> QED
  BY <1>1, <1>2, <1>3, <1>4, <1>5

(* Every step treats every row in one of these ways. *)
LEMMA NextRows ==
  ASSUME Typed, Owned, [Next]_vars
  PROVE  RowSteps
BY ExecuteRows, ClaimRowSteps, OtherRows, RowsSame DEF Next, Work, Claim, vars

-----------------------------------------------------------------------------
(* What a step makes of an execution that goes on. *)

Proceeds(l) ==
  /\ Counted(ModeOf(l), exec'[l].phase) =>
       \/ Counted(ModeOf(l), exec[l].phase) /\ exec'[l].attempts = exec[l].attempts
       \/ exec'[l].attempts = Row(l).attempts
  /\ InWriter(ModeOf(l), exec'[l].phase) => writer' = l
  /\ (/\ ModeOf(l) # "detached" /\ exec'[l].phase # "wrote"
      /\ InWriter(ModeOf(l), exec'[l].phase)) =>
       InWriter(ModeOf(l), exec[l].phase) /\ exec[l].phase # "wrote"
  /\ (ModeOf(l) = "covering" /\ InWriter(ModeOf(l), exec'[l].phase)) =>
       InWriter(ModeOf(l), exec[l].phase) /\ lease'[l].status = lease[l].status

(* An execution that the step leaves alone. *)
LEMMA ProceedsUntouched ==
  ASSUME Owned, NEW l \in Lease, exec[l].phase # "none", exec'[l] = exec[l],
         writer = l => writer' = l /\ lease'[l].status = lease[l].status
  PROVE  Proceeds(l)
BY DEF Proceeds, Owned, KeepsWriter

(* An execution that ends needs nothing any more. *)
LEMMA ProceedsEnded ==
  ASSUME NEW l \in Lease, exec'[l].phase = "ended"
  PROVE  Proceeds(l)
BY DEF Proceeds, Counted, InWriter, Legacy

(* The steps of other executions. *)
LEMMA ProceedsBeside ==
  ASSUME Typed, Owned, NEW k \in Lease, Execute(k) \/ LeaveTick(k) \/ Die(k),
         NEW l \in Lease \ {k}, exec[l].phase # "none"
  PROVE  Proceeds(l)
<1>1. exec'[l] = exec[l]
  BY DEF Execute, StartGuard, LoadFinding, ReturnSetupFailure, PersistFinding,
    HeartbeatStrict, HeartbeatLenient, LoadCovering, KeepCoveringWaiting, ReleaseCovering,
    StartCoveringThread, FinishCovering, PersistCovering, BeginDetached, ResolveTarget,
    WriteLegacy, ReleaseLegacy, LeaveTick, Die, End, Become, Typed, TypeOK
<1>2. ASSUME writer = l
      PROVE  writer' = l /\ lease'[l].status = lease[l].status
  <2>1. writer # Nobody /\ writer # k
    BY <1>2 DEF Nobody, Lease
  <2>2. exec[k].phase = "none" \/ ~InWriter(ModeOf(k), exec[k].phase)
    BY <2>1 DEF Owned, KeepsWriter
  <2>3. ~(ReleaseLegacy(k) \/ ResolveTarget(k) \/ WriteLegacy(k))
    BY <2>2 DEF ReleaseLegacy, ResolveTarget, WriteLegacy, In, InWriter, Legacy
  <2>4. \/ StartGuard(k) \/ LoadFinding(k) \/ StartCoveringThread(k) \/ FinishCovering(k)
        \/ LeaveTick(k) \/ Die(k)
    BY <2>1, <2>3 DEF Execute, ReturnSetupFailure, PersistFinding, HeartbeatStrict,
      HeartbeatLenient, LoadCovering, KeepCoveringWaiting, ReleaseCovering, PersistCovering,
      BeginDetached
  <2> QED
    BY <1>2, <2>1, <2>4 DEF StartGuard, LoadFinding, StartCoveringThread, FinishCovering,
      LeaveTick, Die, db
<1> QED
  BY <1>1, <1>2, ProceedsUntouched

(* Its own steps. *)
LEMMA ProceedsOwn ==
  ASSUME Typed, Owned, NEW l \in Lease, Execute(l) \/ LeaveTick(l) \/ Die(l),
         exec[l].phase # "none"
  PROVE  Proceeds(l)
<1>1. CASE exec' = End(l)
  <2>1. exec'[l].phase = "ended"
    BY <1>1 DEF End, NoExecution, Typed, TypeOK
  <2> QED
    BY <2>1, ProceedsEnded
<1>2. CASE StartGuard(l) \/ LoadFinding(l)
  BY <1>2 DEF StartGuard, LoadFinding, In, Proceeds, Counted, InWriter, Legacy, Typed, TypeOK,
    Execution
<1>3. CASE HeartbeatStrict(l) \/ HeartbeatLenient(l)
  <2>1. exec'[l].phase = exec[l].phase /\ exec'[l].attempts = exec[l].attempts
    BY <1>3 DEF HeartbeatStrict, HeartbeatLenient, Typed, TypeOK, Execution
  <2>2. writer = Nobody /\ l # Nobody
    BY <1>3 DEF HeartbeatStrict, HeartbeatLenient, Nobody, Lease
  <2>3. ~InWriter(ModeOf(l), exec[l].phase)
    BY <2>2 DEF Owned, KeepsWriter
  <2> QED
    BY <2>1, <2>3 DEF Proceeds
<1>4. CASE LoadCovering(l) \/ StartCoveringThread(l) \/ FinishCovering(l)
  BY <1>4 DEF LoadCovering, StartCoveringThread, FinishCovering, In, Proceeds, Counted,
    InWriter, Legacy, Typed, TypeOK, Execution
<1>5. CASE KeepCoveringWaiting(l)
  BY <1>5 DEF KeepCoveringWaiting, Become, In, Proceeds, Counted, InWriter, Legacy, Typed,
    TypeOK, Execution
<1>6. CASE BeginDetached(l)
  BY <1>6 DEF BeginDetached, Become, In, Proceeds, Counted, InWriter, Legacy, Typed, TypeOK,
    Execution
<1>7. CASE ResolveTarget(l) /\ Become(l, "running") /\ UNCHANGED writer
  <2>1. writer = l
    BY <1>7 DEF ResolveTarget, In, Owned, KeepsWriter, InWriter
  <2> QED
    BY <1>7, <2>1 DEF ResolveTarget, Become, In, Proceeds, Counted, InWriter, Legacy, Typed,
      TypeOK, Execution
<1>8. CASE WriteLegacy(l)
  <2>1. writer = l /\ ModeOf(l) \in Legacy /\ exec[l].phase = "running"
    BY <1>8 DEF WriteLegacy, In, Owned, KeepsWriter, InWriter, Legacy
  <2>2. exec'[l].phase = "wrote" /\ writer' = writer
    BY <1>8 DEF WriteLegacy, Typed, TypeOK, Execution
  <2> QED
    BY <2>1, <2>2 DEF Proceeds, Counted, InWriter, Legacy
<1> QED
  BY <1>1, <1>2, <1>3, <1>4, <1>5, <1>6, <1>7, <1>8 DEF Execute, ReturnSetupFailure,
    PersistFinding, ReleaseCovering, PersistCovering, ReleaseLegacy, ResolveTarget, LeaveTick,
    Die

(* Everything but a claim. *)
LEMMA NextProceeds ==
  ASSUME Typed, Owned, [Next]_vars, NEW l \in Lease, exec[l].phase # "none"
  PROVE  \/ Proceeds(l)
         \/ \E p \in Pool, covering \in BOOLEAN : ClaimJob(p, covering)
<1>1. CASE \E k \in Lease : Execute(k) \/ LeaveTick(k) \/ Die(k)
  BY <1>1, ProceedsBeside, ProceedsOwn
<1>2. CASE MaintainInterrupted
  <2>1. exec'[l] = End(l)[l]
    BY <1>2 DEF MaintainInterrupted
  <2>2. exec'[l].phase = "ended"
    BY <2>1 DEF End, NoExecution, Typed, TypeOK
  <2> QED
    BY <2>2, ProceedsEnded
<1>3. CASE \/ \E p \in Pool, covering \in BOOLEAN : ClaimNothing(p, covering)
           \/ Maintain \/ Operate
  <2>1. exec' = exec /\ (writer = Nobody \/ lease' = lease) /\ writer' = writer
    BY <1>3 DEF ClaimNothing, Maintain, Operate, PauseJob, ResumeJob, RetryJob, PauseLane,
      PauseRunning, ResumeLane, db
  <2> QED
    BY <2>1, ProceedsUntouched DEF Nobody, Lease
<1>4. CASE Tick
  <2>1. exec' = exec /\ writer' = writer
    BY <1>4 DEF Tick
  <2>2. lease'[l].status = lease[l].status
    <3>1. CASE Dated(l)
      <4>1. lease[l] \in HeldRow
        BY <3>1, HeldLeases DEF Dated, Typed
      <4>2. lease'[l] = [lease[l] EXCEPT !.age = Older(lease[l].age)]
        BY <1>4, <3>1 DEF Tick
      <4> QED
        BY <4>1, <4>2 DEF HeldRow
    <3>2. CASE ~Dated(l)
      BY <1>4, <3>2 DEF Tick
    <3> QED
      BY <3>1, <3>2
  <2> QED
    BY <2>1, <2>2, ProceedsUntouched
<1>5. CASE UNCHANGED vars
  BY <1>5, ProceedsUntouched DEF vars
<1> QED
  BY <1>1, <1>2, <1>3, <1>4, <1>5 DEF Next, Work, Claim

-----------------------------------------------------------------------------
(* The invariant holds. *)

(* A row stays owned while its owner is within its writer job. *)
LEMMA CountStays ==
  ASSUME Typed, Owned, RowSteps, NEW l \in Lease, exec[l].phase # "none",
         lease[l].job \in Job, Proceeds(l),
         Counted(ModeOf(l), exec'[l].phase), job'[lease[l].job].lockedBy = l
  PROVE  exec'[l].attempts = job'[lease[l].job].attempts
<1> DEFINE j == lease[l].job
<1>1. RowStep(j) /\ l # Nobody /\ exec'[l].phase # "claimed"
  BY DEF RowSteps, Nobody, Lease, Counted
<1>2. job'[j].lockedBy = job[j].lockedBy /\ job'[j].attempts = job[j].attempts
  BY <1>1 DEF RowStep, RowKept, RowRequeued, RowReturned, RowClaimed, RowOperated
<1>3. Counted(ModeOf(l), exec[l].phase) => exec[l].attempts = Row(l).attempts
  BY <1>2 DEF Owned, CountIsKnown, Row
<1> QED
  BY <1>2, <1>3 DEF Proceeds, Row

(* Nobody takes a job from an execution within its writer job. *)
LEMMA WriterStays ==
  ASSUME Typed, Owned, RowSteps, NEW l \in Lease, exec[l].phase # "none",
         lease[l].job \in Job, Proceeds(l),
         ModeOf(l) # "detached", exec'[l].phase # "wrote", InWriter(ModeOf(l), exec'[l].phase)
  PROVE  job'[lease[l].job].status = "running" /\ job'[lease[l].job].lockedBy = l
<1> DEFINE j == lease[l].job
<1>1. InWriter(ModeOf(l), exec[l].phase) /\ exec[l].phase # "wrote"
  BY DEF Proceeds
<1>2. writer = l /\ l # Nobody /\ job[j].status = "running" /\ job[j].lockedBy = l
  BY <1>1 DEF Owned, KeepsWriter, WriterOwnsJob, Row, Nobody, Lease
<1>3. RowStep(j)
  BY DEF RowSteps
<1>4. exec'[l].phase \notin {"ended", "wrote"}
  BY DEF InWriter, Legacy
<1>5. RowKept(j)
  BY <1>2, <1>3, <1>4 DEF RowStep, RowRequeued, RowReturned, RowClaimed, RowOperated
<1> QED
  BY <1>2, <1>5 DEF RowKept

(* A settled job has no date. *)
LEMMA UndatedStays ==
  ASSUME Typed, Owned, RowSteps
  PROVE  SettledUndated'
<1> SUFFICES ASSUME NEW j \in Job, job'[j].status \in Settled
             PROVE  job'[j].due = NoDate
  BY DEF SettledUndated
<1>1. RowStep(j)
  BY DEF RowSteps
<1> QED
  BY <1>1 DEF RowStep, RowKept, RowRequeued, RowReturned, RowClaimed, RowOperated, Settled,
    Owned, SettledUndated

(* A step that is no claim. *)
LEMMA KeepsOwned ==
  ASSUME Typed, Owned, RowSteps, Keeps, \A l \in Lease : exec[l].phase # "none" => Proceeds(l)
  PROVE  Owned'
<1>1. ASSUME NEW l \in Lease, exec'[l].phase # "none"
      PROVE  /\ exec[l].phase # "none" /\ lease[l].job \in Job
             /\ Proceeds(l)
             /\ ModeOf(l)' = ModeOf(l)
             /\ Row(l)' = job'[lease[l].job]
  <2>1. exec[l].phase # "none"
    BY <1>1 DEF Keeps, ExecKeeps
  <2>2. lease[l].status # "free" /\ lease[l].job \in Job
    BY <2>1, RowType DEF Typed
  <2>3. lease'[l].job = lease[l].job
    BY <2>2 DEF Keeps, KeepsTo
  <2> QED
    BY <2>1, <2>2, <2>3 DEF ModeOf, Row
<1>2. CountIsKnown'
  BY <1>1, CountStays DEF CountIsKnown
<1>3. KeepsWriter'
  BY <1>1 DEF KeepsWriter, Proceeds
<1>4. WriterOwnsJob'
  BY <1>1, WriterStays DEF WriterOwnsJob
<1>5. WriterHoldsLease'
  BY <1>1 DEF WriterHoldsLease, Proceeds, Owned
<1> QED
  BY <1>2, <1>3, <1>4, <1>5, UndatedStays DEF Owned

(* A claim. *)
LEMMA ClaimOwned ==
  ASSUME Typed, Owned, RowSteps, NEW p \in Pool, NEW covering \in BOOLEAN,
         ClaimJob(p, covering)
  PROVE  Owned'
<1>1. PICK j \in Job, x \in PoolTargets[p], l \in Lease : Claims(p, covering, j, x, l)
  BY ClaimClaims DEF Typed
<1>2. Inserts(p, covering, j, x, l)
  BY <1>1, ClaimRows DEF Typed
<1>3. /\ lease'[l].job = j /\ lease'[l].status = "active"
      /\ exec'[l].phase = "claimed"
      /\ job'[j].status = "running" /\ job'[j].lockedBy = l
      /\ writer = Nobody
      /\ writer' = IF Mode[QueueOf[j]] \in {"covering", "generic"} THEN l ELSE Nobody
  BY <1>1, <1>2 DEF Inserts, Claims
<1>4. ~Counted(ModeOf(l)', "claimed")
  BY DEF Counted
<1>5. InWriter(ModeOf(l)', "claimed") => writer' = l
  BY <1>3 DEF InWriter, ModeOf
<1>6. ASSUME NEW k \in Lease \ {l}, exec'[k].phase # "none"
      PROVE  /\ exec'[k] = exec[k] /\ exec[k].phase # "none" /\ lease[k].job \in Job
             /\ ModeOf(k)' = ModeOf(k)
             /\ Row(k)' = job'[lease[k].job]
             /\ ~InWriter(ModeOf(k), exec[k].phase)
             /\ Proceeds(k)
  <2>1. exec'[k] = exec[k] /\ exec[k].phase # "none"
    BY <1>2, <1>6 DEF Inserts
  <2>2. lease[k].job \in Job /\ lease[k].status # "free"
    BY <2>1, RowType DEF Typed
  <2>3. lease'[k].job = lease[k].job
    BY <1>2, <2>2, ClaimRecovery DEF Inserts, KeepsTo, Typed
  <2>4. ~InWriter(ModeOf(k), exec[k].phase)
    BY <1>3, <2>1 DEF Owned, KeepsWriter, Nobody, Lease
  <2> QED
    BY <2>1, <2>2, <2>3, <2>4 DEF ModeOf, Row, Proceeds
<1>7. CountIsKnown'
  <2> SUFFICES ASSUME NEW k \in Lease, exec'[k].phase # "none",
                      Counted(ModeOf(k)', exec'[k].phase), Row(k)'.lockedBy = k
               PROVE  exec'[k].attempts = Row(k)'.attempts
    BY DEF CountIsKnown
  <2>1. k # l
    BY <1>3, <1>4
  <2> QED
    BY <1>6, <2>1, CountStays
<1>8. KeepsWriter'
  BY <1>3, <1>5, <1>6 DEF KeepsWriter
<1>9. WriterOwnsJob'
  BY <1>3, <1>6 DEF WriterOwnsJob, Row
<1>10. WriterHoldsLease'
  BY <1>3, <1>6 DEF WriterHoldsLease
<1> QED
  BY <1>7, <1>8, <1>9, <1>10, UndatedStays DEF Owned

(* Every step keeps the invariant. *)
LEMMA StepOwned ==
  ASSUME Typed, Owned, [Next]_vars
  PROVE  Owned'
BY NextRows, NextProceeds, StepKeeps, KeepsOwned, ClaimOwned DEF Typed

(* It holds at first. *)
LEMMA InitOwned ==
  ASSUME Init
  PROVE  Owned
<1>1. \A l \in Lease : exec[l].phase = "none"
  BY DEF Init, NoExecution
<1>2. \A j \in Job : job[j].status \notin Settled
  BY DEF Init, Settled
<1> QED
  BY <1>1, <1>2 DEF Owned, CountIsKnown, KeepsWriter, WriterOwnsJob, WriterHoldsLease,
    SettledUndated

(* It holds in every reachable state. *)
LEMMA OwnedInvariant == Spec => [](Typed /\ Owned)
<1>1. Init => Typed /\ Owned
  BY InitTyped, InitOwned DEF Typed
<1>2. Typed /\ Owned /\ [Next]_vars => (Typed /\ Owned)'
  BY StepTyped, StepOwned DEF Typed
<1> QED
  BY <1>1, <1>2, PTL DEF Spec

-----------------------------------------------------------------------------
(* What a step makes of the leases that have ended. *)

Over == {"released", "stale_recovered"}
LeasesStand ==
  \A l \in Lease :
    lease[l].status \in Over =>
      lease'[l].status = lease[l].status /\ lease'[l].reason = lease[l].reason

(* Recovery ends active leases only. *)
LEMMA RecoveryStands ==
  ASSUME Typed, NEW S \in SUBSET Active(lease), NEW l \in Lease, lease[l].status \in Over
  PROVE  RecoverLeases(S)[l] = lease[l]
BY DEF RecoverLeases, Active, Over

(* The release of an active lease. *)
LEMMA ReleaseStands ==
  ASSUME Typed, NEW l \in Lease, lease[l].status = "active", NEW reason,
         lease' = Release(l, reason)
  PROVE  LeasesStand
BY DEF LeasesStand, Release, Over, Typed, TypeOK

(* An execution releases its lease while it is active. *)
LEMMA ExecuteStands ==
  ASSUME Typed, Owned, NEW l \in Lease, Execute(l) \/ LeaveTick(l) \/ Die(l)
  PROVE  LeasesStand
<1>1. CASE lease' = lease
  BY <1>1 DEF LeasesStand
<1>2. CASE lease[l].status = "active" /\ lease' = [lease EXCEPT ![l].age = 0]
  BY <1>2 DEF LeasesStand, Over, Typed, TypeOK
<1>3. CASE lease[l].status = "active" /\ \E reason : lease' = Release(l, reason)
  BY <1>3, ReleaseStands
<1>4. CASE ReturnSetupFailure(l) \/ PersistFinding(l) \/ PersistCovering(l)
  <2>1. \E verdict : Fenced(l, verdict)
    BY <1>4 DEF ReturnSetupFailure, PersistFinding, PersistCovering
  <2> QED
    BY <1>1, <1>3, <2>1 DEF Fenced, Owns, db
<1>5. CASE ReleaseCovering(l)
  <2>1. lease[l].status = "active"
    BY <1>5 DEF ReleaseCovering, In, Owned, WriterHoldsLease, InWriter
  <2> QED
    BY <1>3, <1>5, <2>1 DEF ReleaseCovering
<1>6. CASE ReleaseLegacy(l)
  BY <1>1, <1>3, <1>6 DEF ReleaseLegacy
<1>7. CASE HeartbeatStrict(l) \/ HeartbeatLenient(l)
  BY <1>1, <1>2, <1>7 DEF HeartbeatStrict, HeartbeatLenient, Owns, db
<1> QED
  BY <1>1, <1>4, <1>5, <1>6, <1>7 DEF Execute, StartGuard, LoadFinding, LoadCovering,
    KeepCoveringWaiting, StartCoveringThread, FinishCovering, BeginDetached, ResolveTarget,
    WriteLegacy, LeaveTick, Die, db

(* Claims, maintenance, the operator, and time. *)
LEMMA OtherStands ==
  ASSUME Typed,
         \/ \E p \in Pool : Claim(p)
         \/ Maintain \/ MaintainInterrupted \/ Operate \/ Tick
  PROVE  LeasesStand
<1>1. CASE \E S \in SUBSET Active(lease) : lease' = RecoverLeases(S)
  BY <1>1, RecoveryStands DEF LeasesStand
<1>2. CASE \E p \in Pool, covering \in BOOLEAN : ClaimJob(p, covering)
  <2>1. PICK p \in Pool, covering \in BOOLEAN : ClaimJob(p, covering)
    BY <1>2
  <2>2. PICK j \in Job, x \in PoolTargets[p], l \in Lease : Claims(p, covering, j, x, l)
    BY <2>1, ClaimClaims DEF Typed
  <2>3. Inserts(p, covering, j, x, l) /\ lease[l].status = "free"
    BY <2>2, ClaimRows DEF Typed, Claims
  <2>4. \E S \in SUBSET Active(lease) : Recovered(p) = RecoverLeases(S)
    BY StaleRecovery DEF Recovered, Typed
  <2> QED
    BY <2>3, <2>4, RecoveryStands DEF LeasesStand, Inserts, Over
<1>3. CASE \E p \in Pool, covering \in BOOLEAN : ClaimNothing(p, covering)
  BY <1>1, <1>3, StaleRecovery DEF ClaimNothing, Recovered, Typed
<1>4. CASE Maintain \/ MaintainInterrupted
  BY <1>1, <1>4, StaleRecovery DEF Maintain, MaintainInterrupted, Typed
<1>5. CASE Operate
  BY <1>5 DEF Operate, PauseJob, ResumeJob, RetryJob, PauseLane, PauseRunning, ResumeLane, db,
    LeasesStand
<1>6. CASE Tick
  <2>1. ASSUME NEW l \in Lease, lease[l].status \in Over
        PROVE  lease'[l].status = lease[l].status /\ lease'[l].reason = lease[l].reason
    <3>1. lease[l] \in HeldRow
      BY <2>1, HeldLeases DEF Over, Typed
    <3>2. CASE Dated(l)
      <4>1. lease'[l] = [lease[l] EXCEPT !.age = Older(lease[l].age)]
        BY <1>6, <3>2 DEF Tick
      <4> QED
        BY <3>1, <4>1 DEF HeldRow
    <3>3. CASE ~Dated(l)
      BY <1>6, <3>3 DEF Tick
    <3> QED
      BY <3>2, <3>3
  <2> QED
    BY <2>1 DEF LeasesStand
<1> QED
  BY <1>2, <1>3, <1>4, <1>5, <1>6 DEF Claim

(* Every step leaves them alone. *)
LEMMA NextStands ==
  ASSUME Typed, Owned, [Next]_vars
  PROVE  LeasesStand
<1>1. CASE UNCHANGED vars
  BY <1>1 DEF vars, LeasesStand
<1> QED
  BY <1>1, ExecuteStands, OtherStands DEF Next, Work

-----------------------------------------------------------------------------
(* The action properties. *)

(* The end of a lease is recorded once, whoever releases and recovers: no  *)
(* second release and no recovery rewrites the status or the reason that   *)
(* the cooldown of the target is computed from.                            *)
THEOREM LeasesEndOnce == Spec => LeaseEndsOnce
<1>1. Typed /\ Owned /\ [Next]_vars =>
        [\A l \in Lease :
           lease[l].status \in {"released", "stale_recovered"} =>
             /\ lease'[l].status = lease[l].status
             /\ lease'[l].reason = lease[l].reason]_vars
  BY NextStands DEF LeasesStand, Over
<1> QED
  BY <1>1, OwnedInvariant, PTL DEF Spec, LeaseEndsOnce

(* A failed attempt is never forgotten, in whichever mode its lane is      *)
(* executed: only the operator's retry lowers the count.                   *)
THEOREM AttemptsAreCounted == Spec => AttemptsNeverLost
<1>1. Typed /\ Owned /\ [Next]_vars =>
        [\A j \in Job :
           job'[j].attempts < job[j].attempts =>
             /\ job'[j].attempts = 0 /\ job'[j].status = "pending"
             /\ UNCHANGED <<lease, exec, writer, operator>>]_vars
  <2> SUFFICES ASSUME Typed, Owned, [Next]_vars, NEW j \in Job,
                      job'[j].attempts < job[j].attempts
               PROVE  /\ job'[j].attempts = 0 /\ job'[j].status = "pending"
                      /\ UNCHANGED <<lease, exec, writer, operator>>
    OBVIOUS
  <2>1. RowStep(j)
    BY NextRows DEF RowSteps
  <2>2. job[j].attempts \in Nat /\ job'[j].attempts \in Nat
    BY StepTyped DEF Typed, TypeOK, JobRow
  <2>3. ~(job'[j].attempts >= job[j].attempts) /\ job'[j].attempts # job[j].attempts
    BY <2>2, BoundAssumption
  <2> QED
    BY <2>1, <2>3 DEF RowStep, RowKept, RowRequeued, RowReturned, RowClaimed, RowOperated
<1> QED
  BY <1>1, OwnedInvariant, PTL DEF Spec, AttemptsNeverLost

(* The detached lanes of the rollback modes write a job by its id in a     *)
(* writer job of their own, whoever has it by then.  All other executions  *)
(* own what they write.                                                    *)
Attached(j) == Mode[QueueOf[j]] # "detached"

\* What the properties ask of one job or one lease.
ByItsOwner(j) ==
  (job[j].status = "running" /\ job'[j].lockedBy # job[j].lockedBy) =>
    \/ exec'[job[j].lockedBy] # exec[job[j].lockedBy]
    \/ job'[j].status \in {"paused", "running"} /\ job'[j].attempts = job[j].attempts
LeftAlone(j) ==
  (/\ \/ job[j].status \in Settled
      \/ job[j].status = "paused" /\ job[j].due = NoDate
   /\ job'[j] # job[j]) =>
    /\ job'[j].status = "pending"
    /\ UNCHANGED <<lease, exec, writer, operator>>

(* The row of such a job is returned by the holder of its lock only. *)
LEMMA AttachedReturns ==
  ASSUME NEW j \in Job, Attached(j), NEW l \in Lease, RowReturned(j, l)
  PROVE  job[j].status = "running" /\ job[j].lockedBy = l
BY DEF Attached, RowReturned

(* In every lane that is not detached, and whatever the modes of the other *)
(* lanes, only its owner, recovery and the operator take a running job     *)
(* from its lock.                                                          *)
THEOREM AttachedJobsAreOwned ==
  Spec => [][\A j \in Job : Attached(j) => ByItsOwner(j)]_vars
<1>1. Typed /\ Owned /\ [Next]_vars => [\A j \in Job : Attached(j) => ByItsOwner(j)]_vars
  <2> SUFFICES ASSUME Typed, Owned, [Next]_vars, NEW j \in Job, Attached(j),
                      job[j].status = "running", job'[j].lockedBy # job[j].lockedBy
               PROVE  \/ exec'[job[j].lockedBy] # exec[job[j].lockedBy]
                      \/ /\ job'[j].status \in {"paused", "running"}
                         /\ job'[j].attempts = job[j].attempts
    BY DEF ByItsOwner
  <2>1. RowStep(j)
    BY NextRows DEF RowSteps
  <2>2. ASSUME NEW l \in Lease, RowReturned(j, l)
        PROVE  exec'[job[j].lockedBy] # exec[job[j].lockedBy]
    BY <2>2, AttachedReturns DEF RowReturned
  <2> QED
    BY <2>1, <2>2 DEF RowStep, RowKept, RowRequeued, RowClaimed, RowOperated
<1> QED
  BY <1>1, OwnedInvariant, PTL DEF Spec

(* So it is for all jobs where no lane is detached. *)
THEOREM OnlyOwnersReturnJobs ==
  ASSUME \A j \in Job : Attached(j)
  PROVE  Spec => OnlyOwnerReturnsJob
<1>1. [\A j \in Job : Attached(j) => ByItsOwner(j)]_vars =>
        [\A j \in Job :
           (job[j].status = "running" /\ job'[j].lockedBy # job[j].lockedBy) =>
             \/ exec'[job[j].lockedBy] # exec[job[j].lockedBy]
             \/ job'[j].status \in {"paused", "running"} /\ job'[j].attempts = job[j].attempts]_vars
  BY DEF ByItsOwner
<1> QED
  BY <1>1, AttachedJobsAreOwned, PTL DEF OnlyOwnerReturnsJob

(* In every lane that is not detached, a job that is settled or parked is  *)
(* left so by every late result, recovery and claim.                       *)
THEOREM AttachedJobsStay ==
  Spec => [][\A j \in Job : Attached(j) => LeftAlone(j)]_vars
<1>1. Typed /\ Owned /\ [Next]_vars => [\A j \in Job : Attached(j) => LeftAlone(j)]_vars
  <2> SUFFICES ASSUME Typed, Owned, [Next]_vars, NEW j \in Job, Attached(j),
                      \/ job[j].status \in Settled
                      \/ job[j].status = "paused" /\ job[j].due = NoDate,
                      job'[j] # job[j]
               PROVE  /\ job'[j].status = "pending"
                      /\ UNCHANGED <<lease, exec, writer, operator>>
    BY DEF LeftAlone
  <2>1. RowStep(j)
    BY NextRows DEF RowSteps
  <2>2. job[j].status \notin {"pending", "running"} /\ job[j].due = NoDate
    BY DEF Settled, Owned, SettledUndated
  <2>3. ~(NoDate > 0) /\ NoDate # 0
    BY DEF NoDate
  <2>4. ~RowKept(j) /\ ~RowRequeued(j)
    BY <2>2, <2>3 DEF RowKept, RowRequeued
  <2>5. \A l \in Lease : ~RowReturned(j, l) /\ ~RowClaimed(j, l)
    BY <2>2, <2>3, AttachedReturns DEF RowClaimed, Runnable
  <2> QED
    BY <2>1, <2>2, <2>4, <2>5 DEF RowStep, RowOperated
<1> QED
  BY <1>1, OwnedInvariant, PTL DEF Spec

(* So it is for all jobs where no lane is detached. *)
THEOREM SettledJobsStay ==
  ASSUME \A j \in Job : Attached(j)
  PROVE  Spec => SettledStaysSettled
<1>1. [\A j \in Job : Attached(j) => LeftAlone(j)]_vars =>
        [\A j \in Job :
           (/\ \/ job[j].status \in Settled
               \/ job[j].status = "paused" /\ job[j].due = NoDate
            /\ job'[j] # job[j]) =>
             /\ job'[j].status = "pending"
             /\ UNCHANGED <<lease, exec, writer, operator>>]_vars
  BY DEF LeftAlone
<1> QED
  BY <1>1, AttachedJobsStay, PTL DEF SettledStaysSettled

-----------------------------------------------------------------------------
(* What a step makes of a claim that its execution has left behind. *)

Aged(l) ==
  /\ job'[lease[l].job].beat >= job[lease[l].job].beat
  /\ lease'[l].age >= lease[l].age

LeftBehind(l) == exec[l].phase = "ended" /\ Owns(l) /\ Owns(l)'

(* Rows that the step leaves alone, or makes older, have aged. *)
LEMMA SameAged ==
  ASSUME Typed, NEW l \in Lease, LeftBehind(l), lease'[l] = lease[l],
         job'[lease[l].job] = job[lease[l].job]
  PROVE  Aged(l)
<1>1. lease[l] \in HeldRow /\ lease[l].job \in Job
  BY HeldLeases, OwnsJob DEF LeftBehind, Owns, Typed
<1>2. lease[l].age \in Nat /\ job[lease[l].job].beat \in Nat
  BY <1>1, BoundAssumption DEF HeldRow, Typed, TypeOK, JobRow
<1> QED
  BY <1>2 DEF Aged

(* A job that is written for the last time, or recovered, has no owner. *)
LEMMA ReturnedIsNotOwned ==
  ASSUME Typed, NEW l \in Lease, LeftBehind(l), lease'[l].job = lease[l].job,
         job'[lease[l].job].lockedBy = Nobody
  PROVE  FALSE
BY DEF LeftBehind, Owns, Nobody, Lease

\* Writing the row of one job, and recovering those of several.
Returned(i) == \E s, d, n : job' = Return(i, s, d, n)

(* The last write to a job, whoever makes it. *)
LEMMA ReturnAged ==
  ASSUME Typed, NEW l \in Lease, LeftBehind(l), lease'[l] = lease[l], NEW i \in Job,
         Returned(i)
  PROVE  Aged(l)
<1>1. lease[l].job \in Job
  BY OwnsJob DEF LeftBehind, Owns, Typed
<1>2. CASE i = lease[l].job
  <2>1. job'[i].lockedBy = Nobody
    BY DEF Returned, Return, Typed, TypeOK
  <2> QED
    BY <1>2, <2>1, ReturnedIsNotOwned
<1>3. CASE i # lease[l].job
  <2>1. job'[lease[l].job] = job[lease[l].job]
    BY <1>1, <1>3 DEF Returned, Return, Typed, TypeOK
  <2> QED
    BY <2>1, SameAged
<1> QED
  BY <1>2, <1>3

(* The recovery of jobs leaves a job alone or without a lock. *)
LEMMA RequeueAged ==
  ASSUME Typed, NEW S, NEW l \in Lease, LeftBehind(l), lease'[l] = lease[l],
         job' = RecoverJobs(S)
  PROVE  Aged(l)
<1>1. lease[l].job \in Job
  BY OwnsJob DEF LeftBehind, Owns, Typed
<1>2. CASE lease[l].job \in S
  <2>1. job'[lease[l].job].lockedBy = Nobody
    BY <1>1, <1>2 DEF RecoverJobs, Typed, TypeOK, JobRow
  <2> QED
    BY <2>1, ReturnedIsNotOwned
<1>3. CASE lease[l].job \notin S
  BY <1>1, <1>3, SameAged DEF RecoverJobs
<1> QED
  BY <1>2, <1>3

(* The recovery of leases leaves an active one alone. *)
LEMMA RecoveryAged ==
  ASSUME Typed, NEW S, NEW l \in Lease, LeftBehind(l), lease'[l] = RecoverLeases(S)[l]
  PROVE  lease'[l] = lease[l]
<1>1. lease[l] \in HeldRow
  BY HeldLeases DEF LeftBehind, Owns, Typed
<1>2. CASE l \in S
  BY <1>1, <1>2 DEF RecoverLeases, LeftBehind, Owns, HeldRow
<1>3. CASE l \notin S
  BY <1>3 DEF RecoverLeases
<1> QED
  BY <1>2, <1>3

(* An execution that is over does nothing, and another one can only take   *)
(* the job away.                                                           *)
LEMMA ExecuteAged ==
  ASSUME Typed, NEW k \in Lease, Execute(k) \/ LeaveTick(k) \/ Die(k),
         NEW l \in Lease, LeftBehind(l)
  PROVE  Aged(l)
<1>1. k # l
  <2> SUFFICES ASSUME k = l PROVE FALSE
    OBVIOUS
  <2>1. exec[k].phase = "ended" /\ ~exec[k].guard
    BY DEF LeftBehind, Typed, TypeOK, GuardJoined
  <2> QED
    BY <2>1 DEF Execute, StartGuard, LoadFinding, ReturnSetupFailure, PersistFinding,
      HeartbeatStrict, HeartbeatLenient, LoadCovering, KeepCoveringWaiting, ReleaseCovering,
      StartCoveringThread, FinishCovering, PersistCovering, BeginDetached, ResolveTarget,
      WriteLegacy, ReleaseLegacy, LeaveTick, Die, In
<1>2. lease[l].job \in Job /\ job[lease[l].job].lockedBy = l
  BY OwnsJob DEF LeftBehind, Owns, Typed
<1>3. Owns(k) => lease[k].job # lease[l].job
  BY <1>1, <1>2 DEF Owns
<1>4. CASE job' = job /\ lease'[l] = lease[l]
  BY <1>4, SameAged
<1>5. CASE ReturnSetupFailure(k) \/ PersistFinding(k) \/ PersistCovering(k)
  <2>1. PICK verdict : Fenced(k, verdict)
    BY <1>5 DEF ReturnSetupFailure, PersistFinding, PersistCovering
  <2>2. CASE Owns(k)
    <3>1. lease'[l] = lease[l]
      BY <1>1, <2>1, <2>2 DEF Fenced, Release, Typed, TypeOK
    <3>2. job'[lease[l].job] = job[lease[l].job]
      BY <1>2, <1>3, <2>1, <2>2 DEF Fenced, Return, Typed, TypeOK
    <3> QED
      BY <3>1, <3>2, SameAged
  <2>3. CASE ~Owns(k)
    BY <1>4, <2>1, <2>3 DEF Fenced, db
  <2> QED
    BY <2>2, <2>3
<1>6. CASE HeartbeatStrict(k) \/ HeartbeatLenient(k)
  <2>1. lease'[l] = lease[l]
    BY <1>1, <1>6 DEF HeartbeatStrict, HeartbeatLenient, db, Typed, TypeOK
  <2>2. \/ job' = job
        \/ Owns(k) /\ job' = [job EXCEPT ![lease[k].job].beat = 0]
    BY <1>6 DEF HeartbeatStrict, HeartbeatLenient, db
  <2>3. job'[lease[l].job] = job[lease[l].job]
    BY <1>2, <1>3, <2>2 DEF Typed, TypeOK
  <2> QED
    BY <2>1, <2>3, SameAged
<1>7. CASE KeepCoveringWaiting(k) \/ WriteLegacy(k)
  <2>1. lease' = lease
    BY <1>7 DEF KeepCoveringWaiting, WriteLegacy
  <2>2. Returned(lease[k].job)
    BY <1>7 DEF KeepCoveringWaiting, WriteLegacy, Returned
  <2>3. lease[k].job \in Job
    BY <1>7, RowType DEF KeepCoveringWaiting, WriteLegacy, In, Typed
  <2> QED
    BY <2>1, <2>2, <2>3, ReturnAged
<1>8. CASE ReleaseCovering(k) \/ ReleaseLegacy(k)
  BY <1>1, <1>4, <1>8 DEF ReleaseCovering, ReleaseLegacy, Release, Typed, TypeOK
<1> QED
  BY <1>4, <1>5, <1>6, <1>7, <1>8 DEF Execute, StartGuard, LoadFinding, LoadCovering,
    StartCoveringThread, FinishCovering, BeginDetached, ResolveTarget, LeaveTick, Die, db

(* A claim recovers rows, and takes a job that nobody runs. *)
LEMMA ClaimAged ==
  ASSUME Typed, NEW p \in Pool, NEW covering \in BOOLEAN,
         ClaimNothing(p, covering) \/ ClaimJob(p, covering),
         NEW l \in Lease, LeftBehind(l)
  PROVE  Aged(l)
<1> DEFINE S == {i \in StaleLeases(LeaseStale) : lease[i].pool = p}
           T == {j \in StaleJobs(JobStale) : QueueOf[j] \in ClaimQueues(p, covering)}
<1>1. Recovered(p) = RecoverLeases(S) /\ Requeued(p, covering) = RecoverJobs(T)
  BY DEF Recovered, Requeued
<1> HIDE DEF S, T
<1>2. CASE ClaimNothing(p, covering)
  <2>1. lease'[l] = lease[l]
    BY <1>1, <1>2, RecoveryAged DEF ClaimNothing
  <2>2. job' = job \/ job' = RecoverJobs(T)
    BY <1>1, <1>2 DEF ClaimNothing
  <2> QED
    BY <2>1, <2>2, SameAged, RequeueAged
<1>3. CASE ClaimJob(p, covering)
  <2>1. PICK j \in Job, x \in PoolTargets[p], k \in Lease : Claims(p, covering, j, x, k)
    BY <1>3, ClaimClaims DEF Typed
  <2>2. Inserts(p, covering, j, x, k) /\ lease[k].status = "free"
    BY <2>1, ClaimRows DEF Typed, Claims
  <2>3. k # l
    BY <2>2 DEF LeftBehind, Owns
  <2>4. lease'[l] = lease[l]
    BY <1>1, <2>2, <2>3, RecoveryAged DEF Inserts
  <2>5. lease[l].job # j
    BY <2>2, <2>3, <2>4 DEF Inserts, LeftBehind, Owns
  <2>6. lease[l].job \in Job
    BY OwnsJob DEF LeftBehind, Owns, Typed
  <2>7. job'[lease[l].job] = RecoverJobs(T)[lease[l].job]
    BY <1>1, <2>2, <2>5, <2>6 DEF Inserts
  <2>8. CASE lease[l].job \in T
    <3>1. job'[lease[l].job].lockedBy = Nobody
      BY <2>6, <2>7, <2>8 DEF RecoverJobs, Typed, TypeOK, JobRow
    <3> QED
      BY <2>4, <3>1, ReturnedIsNotOwned
  <2>9. CASE lease[l].job \notin T
    BY <2>4, <2>6, <2>7, <2>9, SameAged DEF RecoverJobs
  <2> QED
    BY <2>8, <2>9
<1> QED
  BY <1>2, <1>3

(* Maintenance and the operator. *)
LEMMA RecoveredAged ==
  ASSUME Typed, Maintain \/ MaintainInterrupted \/ Operate, NEW l \in Lease, LeftBehind(l)
  PROVE  Aged(l)
<1>1. CASE Maintain
  <2>1. lease'[l] = lease[l] /\ \E S : job' = RecoverJobs(S)
    BY <1>1, RecoveryAged DEF Maintain
  <2> QED
    BY <2>1, RequeueAged
<1>2. CASE MaintainInterrupted
  <2>1. lease'[l] = lease[l] /\ job' = job
    BY <1>2, RecoveryAged DEF MaintainInterrupted
  <2> QED
    BY <2>1, SameAged
<1>3. CASE Operate
  <2>1. lease' = lease
    BY <1>3 DEF Operate, PauseJob, ResumeJob, RetryJob, PauseLane, PauseRunning, ResumeLane, db
  <2>2. \/ job' = job \/ \E S : job' = RecoverJobs(S) \/ \E i \in Job : Returned(i)
    BY <1>3 DEF Operate, PauseJob, ResumeJob, RetryJob, PauseLane, PauseRunning, ResumeLane,
      Returned, db
  <2> QED
    BY <2>1, <2>2, SameAged, RequeueAged, ReturnAged
<1> QED
  BY <1>1, <1>2, <1>3

(* Time makes both rows older. *)
LEMMA TickAged ==
  ASSUME Typed, Tick, NEW l \in Lease, LeftBehind(l)
  PROVE  Aged(l)
<1>1. lease[l] \in HeldRow /\ lease[l].job \in Job
  BY HeldLeases, OwnsJob DEF LeftBehind, Owns, Typed
<1>2. lease[l].age \in Nat /\ job[lease[l].job] \in JobRow
  BY <1>1, BoundAssumption DEF HeldRow, Typed, TypeOK
<1>3. \A n \in Nat : Older(n) >= n
  BY BoundAssumption DEF Older
<1>4. lease'[l].age >= lease[l].age
  <2>1. lease'[l] = [lease[l] EXCEPT !.age = Older(lease[l].age)] \/ lease'[l] = lease[l]
    BY DEF Tick
  <2> QED
    BY <1>1, <1>2, <1>3, <2>1 DEF HeldRow
<1>5. job'[lease[l].job].beat >= job[lease[l].job].beat
  <2> DEFINE r == job[lease[l].job]
             due == IF r.due > 0 THEN r.due - 1 ELSE r.due
             beat == IF r.status = "running" THEN Older(r.beat) ELSE r.beat
  <2>1. job'[lease[l].job] = [r EXCEPT !.beat = beat, !.due = due]
    BY <1>1 DEF Tick
  <2>2. r \in JobRow /\ r.beat \in Nat /\ beat >= r.beat
    BY <1>2, <1>3, BoundAssumption DEF JobRow
  <2> HIDE DEF r, due, beat
  <2>3. job'[lease[l].job].beat = beat
    BY <2>1, <2>2 DEF JobRow
  <2> QED
    BY <2>2, <2>3 DEF r
<1> QED
  BY <1>4, <1>5 DEF Aged

(* Whatever the modes of the lanes, and however an execution left its      *)
(* claim behind, by a crash or by an error: nobody refreshes the claim's   *)
(* heartbeats any more, so it comes under the eyes of stale recovery.      *)
THEOREM AbandonedClaimsAge == Spec => AbandonedClaimAges
<1>1. Typed /\ [Next]_vars =>
        [\A l \in Lease :
           (exec[l].phase = "ended" /\ Owns(l) /\ Owns(l)') =>
             /\ job'[lease[l].job].beat >= job[lease[l].job].beat
             /\ lease'[l].age >= lease[l].age]_vars
  <2> SUFFICES ASSUME Typed, Next, NEW l \in Lease, LeftBehind(l)
               PROVE  Aged(l)
    BY DEF LeftBehind, Aged
  <2> QED
    BY ExecuteAged, ClaimAged, RecoveredAged, TickAged DEF Next, Work, Claim
<1> QED
  BY <1>1, OwnedInvariant, PTL DEF Spec, AbandonedClaimAges
=============================================================================
