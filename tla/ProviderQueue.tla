--------------------------- MODULE ProviderQueue ---------------------------
(***************************************************************************)
(* The provider queue of context-stilld: the queue tables, the table       *)
(* llm_provider_leases, and the transactions by which executors, the       *)
(* maintenance pass and the operator move them.  Every action below is one *)
(* job of the single SQLite writer, or one stretch of an executor between  *)
(* two such jobs; the writer makes each of them atomic.                    *)
(*                                                                         *)
(* Nothing here says who calls what in which order: any number of          *)
(* executors may interleave.  What holds here therefore holds under every  *)
(* scheduler that uses these transactions.                                 *)
(*                                                                         *)
(* A claim creates one worker id and one lease row together, and both are  *)
(* unique (unique_suffix), so a lease row number stands for the worker id, *)
(* the lease id and the rowid.                                             *)
(***************************************************************************)
EXTENDS Integers, FiniteSets, Sequences

CONSTANTS
  Job,          \* queue jobs
  Queue,        \* queue lanes that use provider pools
  Pool,         \* provider pools
  Target,       \* provider targets: local models, cloud deployments
  QueueOf,      \* the lane of a job
  Rank,         \* queue_order of a lane: the lower is served first
  Mode,         \* how a lane is executed, see Modes
  PoolQueues,   \* the lanes a pool serves
  PoolTargets,  \* the targets of a pool
  PoolMax,      \* max_concurrent of a pool
  Prefer,       \* preferred_target_ids of a job, a sequence; <<>>: any target
  JobStale,     \* queue_stale_seconds of a claim, in ticks
  LeaseStale,   \* stale_lease_seconds of a pool, in ticks
  MaintStale,   \* CONTEXT_STILL_QUEUE_STALE_SECONDS of the maintenance pass
  Cooldown,     \* PROVIDER_UNAVAILABLE_TARGET_COOLDOWN_SECONDS, in ticks
  Backoff,      \* the delay of a retried job, in ticks
  MaxAttempts,  \* the failed attempts from which a job is not retried; an
                \* operator may resume it, and the count goes on
  AgeCap,       \* bound: an age is not counted further, being past every limit
  MaxLeases     \* bound: the number of lease rows ever inserted, and with it
                \* the number of attempts that can fail

(***************************************************************************)
(* split     finding jobs between fenced writer jobs                       *)
(* covering  covering jobs, run in parallel threads                        *)
(* generic   finding jobs run inside one writer job with their claim       *)
(* detached  finding jobs claimed by one writer job, run inside the next   *)
(***************************************************************************)
Modes == {"split", "covering", "generic", "detached"}

ASSUME QueueAssumption ==
  /\ QueueOf \in [Job -> Queue]
  /\ Rank \in [Queue -> Nat]
  /\ Mode \in [Queue -> Modes]
  /\ Prefer \in [Job -> Seq(Target)]

ASSUME PoolAssumption ==
  /\ PoolQueues \in [Pool -> SUBSET Queue]
  /\ PoolTargets \in [Pool -> SUBSET Target]
  /\ PoolMax \in [Pool -> Nat]
  /\ \A p \in Pool : IsFiniteSet(PoolTargets[p])

ASSUME BoundAssumption ==
  /\ AgeCap \in Nat
  /\ {JobStale, LeaseStale, MaintStale, Cooldown} \subseteq 0..(AgeCap - 1)
  /\ {Backoff, MaxAttempts} \subseteq Nat \ {0}
  /\ MaxLeases \in Nat

Lease == 1..MaxLeases
Nobody == 0            \* locked_by is null; the writer is free
NoDate == -1           \* next_run_at is null
Statuses == {"pending", "running", "paused", "completed", "failed"}
Settled == {"completed", "failed"}
Reasons == {"none", "stale_heartbeat", "worker_finished", "worker_failed",
            "worker_setup_failed", "worker_capability_missing",
            "provider_unavailable_retry"}
Outcomes == {"done", "unsupported", "unavailable", "retry", "failed"}

VARIABLES
  job,         \* the row of a queue job
  lease,       \* the rows of llm_provider_leases, by rowid
  exec,        \* the execution that a claim started, in its executor
  writer,      \* the execution that keeps the writer between statements
  lanePaused,  \* queue.controls.v1: the paused lanes
  pausing      \* lanes whose pause is stored but not yet applied to jobs

vars == <<job, lease, exec, writer, lanePaused, pausing>>
db == <<job, lease>>
operator == <<lanePaused, pausing>>

JobRow == [status : Statuses, lockedBy : Lease \cup {Nobody}, beat : 0..AgeCap,
           due : NoDate..Backoff, attempts : Nat]

FreeRow == [status |-> "free"]
HeldRow == [status : {"active", "released", "stale_recovered"}, pool : Pool,
            target : Target, job : Job, age : 0..AgeCap, reason : Reasons]
LeaseRow == {FreeRow} \cup HeldRow

(***************************************************************************)
(* claimed   the claim is committed                                        *)
(* loaded    (covering) the job is read, its thread has not started        *)
(* guarded   (split) the heartbeat runs, the job is not read yet           *)
(* running   the provider is being asked                                   *)
(* finished  (covering) the thread ended and its heartbeat with it; the    *)
(*           result waits until every thread of the batch has ended        *)
(* wrote     the job row is written, the lease is not released yet         *)
(* ended     the execution is over, normally or not                        *)
(***************************************************************************)
Phases == {"none", "claimed", "loaded", "guarded", "running", "finished",
           "wrote", "ended"}

Execution == [phase : Phases, guard : BOOLEAN, attempts : Nat,
              outcome : Outcomes \cup {"none"}]

(* A heartbeat thread lives only as long as the execution that keeps its   *)
(* guard: it is stopped and joined when the guard is dropped.              *)
GuardJoined(e) == e.guard => e.phase \in {"guarded", "running"}

NoExecution == [phase |-> "none", guard |-> FALSE, attempts |-> 0,
                outcome |-> "none"]

TypeOK ==
  /\ job \in [Job -> JobRow]
  /\ lease \in [Lease -> LeaseRow]
  /\ exec \in [Lease -> Execution]
  /\ \A l \in Lease : GuardJoined(exec[l])
  /\ writer \in Lease \cup {Nobody}
  /\ lanePaused \subseteq Queue
  /\ pausing \subseteq Queue

Init ==
  /\ job = [j \in Job |-> [status |-> "pending", lockedBy |-> Nobody,
                           beat |-> 0, due |-> NoDate, attempts |-> 0]]
  /\ lease = [l \in Lease |-> FreeRow]
  /\ exec = [l \in Lease |-> NoExecution]
  /\ writer = Nobody
  /\ lanePaused = {}
  /\ pausing = {}

-----------------------------------------------------------------------------
(* What the statements read. *)

Active(t) == {l \in Lease : t[l].status = "active"}
ModeOf(l) == Mode[QueueOf[lease[l].job]]

(* Mutations of Owns: the worker id, or lease and worker id, not compared. *)
OwnsWithoutWorker(l) ==
  lease[l].status = "active" /\ job[lease[l].job].status = "running"
OwnsByStatus(l) == job[lease[l].job].status = "running"

(* owns_provider_execution *)
Owns(l) ==
  /\ lease[l].status = "active"
  /\ job[lease[l].job].status = "running"
  /\ job[lease[l].job].lockedBy = l

(* Mutation of Runnable: a paused job without a date counts as due. *)
RunnableUndated(r) == r.status \in {"pending", "paused"} /\ r.due <= 0

Runnable(r) ==
  \/ r.status = "pending" /\ r.due <= 0
  \/ r.status = "paused" /\ r.due = 0

(* The coalesced heartbeat lies more than the threshold back. *)
StaleLeases(limit) == {l \in Active(lease) : lease[l].age > limit}
StaleJobs(limit) == {j \in Job : job[j].status = "running" /\ job[j].beat > limit}

PoolActive(t, p) == {l \in Active(t) : t[l].pool = p}

Capacity(p) ==
  LET most == IF PoolMax[p] = 0 THEN 1 ELSE PoolMax[p]
      targets == Cardinality(PoolTargets[p])
  IN  IF most < targets THEN most ELSE targets

(* A target whose last released call found the provider unavailable rests, *)
(* unless a later call to it finished.                                     *)
Cooling(t, target) ==
  \E l \in Lease :
    /\ t[l].status = "released"
    /\ t[l].target = target
    /\ t[l].reason = "provider_unavailable_retry"
    /\ t[l].age <= Cooldown
    /\ ~ \E k \in Lease : /\ k > l
                          /\ t[k].status = "released"
                          /\ t[k].target = target
                          /\ t[k].reason = "worker_finished"

(* Mutation of FreeTargets: only the leases of the pool itself count. *)
FreeTargetsOfPool(t, p) ==
  {x \in PoolTargets[p] : /\ \A l \in PoolActive(t, p) : t[l].target # x
                          /\ ~Cooling(t, x)}

FreeTargets(t, p) ==
  {x \in PoolTargets[p] : /\ \A l \in Active(t) : t[l].target # x
                          /\ ~Cooling(t, x)}

(* max(rowid) over the leases of a target: x was not used after y. *)
NotUsedAfter(t, x, y) ==
  \A l \in Lease :
    (t[l].status # "free" /\ t[l].target = x) =>
      \E k \in Lease : k >= l /\ t[k].status # "free" /\ t[k].target = y

(* select_target_for_candidate over the least-recently-used order; the     *)
(* configured order, which breaks ties, is left open.                      *)
Selects(t, j, free, x) ==
  /\ x \in free
  /\ IF Prefer[j] = <<>>
     THEN \A y \in free : x = y \/ NotUsedAfter(t, x, y)
     ELSE \E i \in DOMAIN Prefer[j] :
            /\ Prefer[j][i] = x
            /\ \A k \in DOMAIN Prefer[j] : k < i => Prefer[j][k] \notin free

Placeable(j, free) ==
  Prefer[j] = <<>> \/ \E i \in DOMAIN Prefer[j] : Prefer[j][i] \in free

-----------------------------------------------------------------------------
(* What the statements write. *)

RecoverLeases(S) ==
  [l \in Lease |-> IF l \in S
                   THEN [lease[l] EXCEPT !.status = "stale_recovered",
                                         !.reason = "stale_heartbeat", !.age = 0]
                   ELSE lease[l]]

(* Mutation of RecoverJobs: the lock columns are not cleared. *)
RecoverJobsLocked(S) ==
  [j \in Job |-> IF j \in S
                 THEN [job[j] EXCEPT !.status = "paused", !.due = 0] ELSE job[j]]

(* stale_recovery_sql: the job is runnable again at once. *)
RecoverJobs(S) ==
  [j \in Job |-> IF j \in S
                 THEN [job[j] EXCEPT !.status = "paused", !.due = 0,
                                     !.lockedBy = Nobody, !.beat = 0]
                 ELSE job[j]]

Release(l, reason) ==
  [lease EXCEPT ![l] = [@ EXCEPT !.status = "released", !.reason = reason,
                                 !.age = 0]]

(* The columns of a job that a worker's last statement writes. *)
Return(j, status, due, attempts) ==
  [job EXCEPT ![j] = [status |-> status, lockedBy |-> Nobody, beat |-> 0,
                      due |-> due, attempts |-> attempts]]

(* Mutation of End: the heartbeat thread is not stopped. *)
EndUnguarded(l) == [exec EXCEPT ![l].phase = "ended"]

(* The end of an execution drops its guard and so joins the heartbeat. *)
End(l) == [exec EXCEPT ![l] = [NoExecution EXCEPT !.phase = "ended"]]

(* The attempt count after a failure.  It has no limit of its own: an      *)
(* operator may resume a job whose attempts are exhausted.                 *)
Failed(n) == n + 1

(* What a result does to its job, given the attempts read with the job.    *)
FindingVerdict(outcome, n) ==
  CASE outcome = "done" ->
         [status |-> "completed", due |-> NoDate, attempts |-> n,
          reason |-> "worker_finished"]
    [] outcome = "unsupported" ->
         [status |-> "paused", due |-> NoDate, attempts |-> n,
          reason |-> "worker_capability_missing"]
    [] outcome = "unavailable" /\ Failed(n) >= MaxAttempts ->
         [status |-> "paused", due |-> NoDate, attempts |-> Failed(n),
          reason |-> "provider_unavailable_retry"]
    [] outcome = "unavailable" /\ Failed(n) < MaxAttempts ->
         [status |-> "pending", due |-> Backoff, attempts |-> Failed(n),
          reason |-> "provider_unavailable_retry"]
    [] outcome = "failed" ->
         [status |-> "failed", due |-> NoDate, attempts |-> Failed(n),
          reason |-> "worker_failed"]

CoveringVerdict(outcome, n) ==
  CASE outcome = "done" ->
         [status |-> "completed", due |-> NoDate, attempts |-> Failed(n),
          reason |-> "worker_finished"]
    [] outcome # "done" /\ Failed(n) < MaxAttempts ->
         [status |-> "pending", due |-> Backoff, attempts |-> Failed(n),
          reason |-> IF outcome = "unavailable" THEN "provider_unavailable_retry"
                                                ELSE "worker_finished"]
    [] outcome # "done" /\ Failed(n) >= MaxAttempts ->
         [status |-> "failed", due |-> NoDate, attempts |-> Failed(n),
          reason |-> "worker_failed"]

-----------------------------------------------------------------------------
(* Claiming: claim_next_job_with_provider_lease_for_connection.            *)

(* Mutation of ClaimQueues: the lane controls are not read. *)
ClaimQueuesUncontrolled(p, covering) ==
  {q \in PoolQueues[p] : (Mode[q] = "covering") = covering}

(* The covering executor and the provider executor claim separate lanes.   *)
(* Both read the paused lanes in the writer job that claims.               *)
ClaimQueues(p, covering) ==
  {q \in PoolQueues[p] \ lanePaused : (Mode[q] = "covering") = covering}

Recovered(p) == RecoverLeases({l \in StaleLeases(LeaseStale) : lease[l].pool = p})

Requeued(p, covering) ==
  RecoverJobs({j \in StaleJobs(JobStale) : QueueOf[j] \in ClaimQueues(p, covering)})

(* Mutation of Full: off by one. *)
FullBeyond(p) == Cardinality(PoolActive(Recovered(p), p)) > Capacity(p)

Full(p) == Cardinality(PoolActive(Recovered(p), p)) >= Capacity(p)

Candidates(p, covering) ==
  {j \in Job : /\ QueueOf[j] \in ClaimQueues(p, covering)
               /\ Runnable(Requeued(p, covering)[j])
               /\ Placeable(j, FreeTargets(Recovered(p), p))}

(* Early returns commit what was recovered until then. *)
ClaimNothing(p, covering) ==
  /\ writer = Nobody
  /\ ClaimQueues(p, covering) # {}
  /\ lease' = Recovered(p)
  /\ \/ /\ Full(p) \/ FreeTargets(Recovered(p), p) = {}
        /\ UNCHANGED job
     \/ /\ ~Full(p)
        /\ FreeTargets(Recovered(p), p) # {}
        /\ Candidates(p, covering) = {}
        /\ job' = Requeued(p, covering)
  /\ UNCHANGED <<exec, writer, operator>>

(* Within a lane the order (aging, priority, creation) is left open.  A    *)
(* covering or generic executor keeps the writer after its claim.          *)
ClaimJob(p, covering) ==
  /\ writer = Nobody
  /\ ~Full(p)
  /\ \E j \in Candidates(p, covering), x \in PoolTargets[p], l \in Lease :
       /\ \A i \in Candidates(p, covering) : Rank[QueueOf[j]] <= Rank[QueueOf[i]]
       /\ Selects(Recovered(p), j, FreeTargets(Recovered(p), p), x)
       /\ lease[l].status = "free"
       /\ \A k \in Lease : k < l => lease[k].status # "free"
       /\ job' = [Requeued(p, covering) EXCEPT
                    ![j] = [@ EXCEPT !.status = "running", !.lockedBy = l,
                                     !.beat = 0]]
       /\ lease' = [Recovered(p) EXCEPT
                      ![l] = [status |-> "active", pool |-> p, target |-> x,
                              job |-> j, age |-> 0, reason |-> "none"]]
       /\ exec' = [exec EXCEPT ![l].phase = "claimed"]
       /\ writer' = IF Mode[QueueOf[j]] \in {"covering", "generic"}
                    THEN l ELSE Nobody
  /\ UNCHANGED operator

Claim(p) == \E covering \in BOOLEAN : ClaimNothing(p, covering) \/ ClaimJob(p, covering)

-----------------------------------------------------------------------------
(* Executing.  l is an execution; its job is lease[l].job.                 *)

Row(l) == job[lease[l].job]
In(l, mode, phase) == exec[l].phase = phase /\ ModeOf(l) = mode
Become(l, phase) == exec' = [exec EXCEPT ![l].phase = phase]
Fenced(l, verdict) ==
  IF Owns(l)
  THEN /\ job' = Return(lease[l].job, verdict.status, verdict.due, verdict.attempts)
       /\ lease' = Release(l, verdict.reason)
  ELSE UNCHANGED db

(* ProviderExecutionHeartbeatGuard::start comes before the job is read. *)
StartGuard(l) ==
  /\ In(l, "split", "claimed")
  /\ exec' = [exec EXCEPT ![l].phase = "guarded", ![l].guard = TRUE]
  /\ UNCHANGED <<db, writer, operator>>

(* load_claimed_finding_execution reads the job whoever owns it by now. *)
LoadFinding(l) ==
  /\ In(l, "split", "guarded")
  /\ exec' = [exec EXCEPT ![l].phase = "running", ![l].attempts = Row(l).attempts]
  /\ UNCHANGED <<db, writer, operator>>

(* The guard did not start or the job could not be read.  Without the      *)
(* claim nothing is written, and the tick ends with the error.             *)
ReturnSetupFailure(l) ==
  /\ writer = Nobody
  /\ In(l, "split", "claimed") \/ In(l, "split", "guarded")
  /\ Fenced(l, [status |-> "pending", due |-> Backoff,
                attempts |-> Row(l).attempts, reason |-> "worker_setup_failed"])
  /\ exec' = End(l)
  /\ UNCHANGED <<writer, operator>>

(* Mutation of HeartbeatStrict: the status of the lease is not checked. *)
HeartbeatRevives(l) ==
  /\ writer = Nobody
  /\ exec[l].guard /\ ModeOf(l) = "split"
  /\ lease' = [lease EXCEPT ![l].age = 0, ![l].status = "active"]
  /\ UNCHANGED <<job, exec, writer, operator>>

(* Mutation of HeartbeatStrict: the thread is not joined with its guard.   *)
HeartbeatDetached(l) ==
  /\ writer = Nobody
  /\ exec[l].guard \/ exec[l].phase = "ended"
  /\ ModeOf(l) = "split" /\ Owns(l)
  /\ job' = [job EXCEPT ![lease[l].job].beat = 0]
  /\ lease' = [lease EXCEPT ![l].age = 0]
  /\ UNCHANGED <<exec, writer, operator>>

(* One transaction refreshes both rows or neither; a failure ends the      *)
(* heartbeat thread.                                                       *)
HeartbeatStrict(l) ==
  /\ writer = Nobody
  /\ exec[l].guard /\ ModeOf(l) = "split"
  /\ IF Owns(l)
     THEN /\ job' = [job EXCEPT ![lease[l].job].beat = 0]
          /\ lease' = [lease EXCEPT ![l].age = 0]
          /\ UNCHANGED exec
     ELSE /\ exec' = [exec EXCEPT ![l].guard = FALSE]
          /\ UNCHANGED db
  /\ UNCHANGED <<writer, operator>>

(* Mutation of HeartbeatLenient: the thread goes on without the claim. *)
HeartbeatForever(l) ==
  /\ writer = Nobody
  /\ exec[l].guard /\ ModeOf(l) = "covering"
  /\ job' = IF Owns(l) THEN [job EXCEPT ![lease[l].job].beat = 0] ELSE job
  /\ lease' = IF lease[l].status = "active"
              THEN [lease EXCEPT ![l].age = 0] ELSE lease
  /\ UNCHANGED <<exec, writer, operator>>

(* The covering heartbeat commits what it could refresh, so an active      *)
(* lease whose job is lost is refreshed once more before the thread stops. *)
HeartbeatLenient(l) ==
  /\ writer = Nobody
  /\ exec[l].guard /\ ModeOf(l) = "covering"
  /\ job' = IF Owns(l) THEN [job EXCEPT ![lease[l].job].beat = 0] ELSE job
  /\ lease' = IF lease[l].status = "active"
              THEN [lease EXCEPT ![l].age = 0] ELSE lease
  /\ exec' = [exec EXCEPT ![l].guard = Owns(l)]
  /\ UNCHANGED <<writer, operator>>

(* persist_finding_result.  A result whose claim is lost is discarded, and *)
(* its lease, if still active, is left to stale recovery.                  *)
PersistFinding(l) ==
  /\ writer = Nobody
  /\ In(l, "split", "running")
  /\ \E outcome \in {"done", "unsupported", "unavailable", "failed"} :
       Fenced(l, FindingVerdict(outcome, exec[l].attempts))
  /\ exec' = End(l)
  /\ UNCHANGED <<writer, operator>>

(* claim_covering_with_connection goes on to read the job it claimed. *)
LoadCovering(l) ==
  /\ writer = l
  /\ In(l, "covering", "claimed")
  /\ exec' = [exec EXCEPT ![l].phase = "loaded", ![l].attempts = Row(l).attempts]
  /\ writer' = Nobody
  /\ UNCHANGED <<db, operator>>

(* When that fails, two statements of their own undo the claim. *)
KeepCoveringWaiting(l) ==
  /\ writer = l
  /\ In(l, "covering", "claimed")
  /\ job' = Return(lease[l].job, "pending", Backoff, Row(l).attempts)
  /\ Become(l, "wrote")
  /\ UNCHANGED <<lease, writer, operator>>

ReleaseCovering(l) ==
  /\ writer = l
  /\ In(l, "covering", "wrote")
  /\ lease' = Release(l, "worker_setup_failed")
  /\ exec' = End(l)
  /\ writer' = Nobody
  /\ UNCHANGED <<job, operator>>

StartCoveringThread(l) ==
  /\ In(l, "covering", "loaded")
  /\ exec' = [exec EXCEPT ![l].phase = "running", ![l].guard = TRUE]
  /\ UNCHANGED <<db, writer, operator>>

(* The thread ends: its guard is dropped before its result is persisted.   *)
(* A thread or guard that does not start yields a tool failure.            *)
FinishCovering(l) ==
  /\ \E outcome \in {"done", "unavailable", "retry"} :
       /\ \/ In(l, "covering", "running")
          \/ In(l, "covering", "loaded") /\ outcome = "retry"
       /\ exec' = [exec EXCEPT ![l].phase = "finished", ![l].guard = FALSE,
                               ![l].outcome = outcome]
  /\ UNCHANGED <<db, writer, operator>>

(* persist_negative_covering_result *)
PersistCovering(l) ==
  /\ writer = Nobody
  /\ In(l, "covering", "finished")
  /\ Fenced(l, CoveringVerdict(exec[l].outcome, exec[l].attempts))
  /\ exec' = End(l)
  /\ UNCHANGED <<writer, operator>>

(* run_claimed_legacy_provider_execution is the next writer job. *)
BeginDetached(l) ==
  /\ writer = Nobody
  /\ In(l, "detached", "claimed")
  /\ Become(l, "running")
  /\ writer' = l
  /\ UNCHANGED <<db, operator>>

(* The generic tick resolves the claimed target after the claim; an error  *)
(* leaves the tick at once and writes nothing.                             *)
ResolveTarget(l) ==
  /\ In(l, "generic", "claimed")
  /\ \/ Become(l, "running") /\ UNCHANGED writer
     \/ exec' = End(l) /\ writer' = Nobody
  /\ UNCHANGED <<db, operator>>

(* run_finding_candidate_job_for_connection asks the provider and writes   *)
(* the job by id, without looking at its lock.                             *)
WriteLegacy(l) ==
  /\ In(l, "generic", "running") \/ In(l, "detached", "running")
  /\ \E outcome \in {"done", "unavailable", "failed"} :
       LET verdict == FindingVerdict(outcome, Row(l).attempts)
       IN  /\ job' = Return(lease[l].job, verdict.status, verdict.due,
                            verdict.attempts)
           /\ exec' = [exec EXCEPT ![l].phase = "wrote", ![l].outcome = outcome]
  /\ UNCHANGED <<lease, writer, operator>>

(* Mutation of ReleaseLegacy: the lease is released whatever its status. *)
ReleaseLegacyBlindly(l) ==
  /\ In(l, "generic", "wrote") \/ In(l, "detached", "wrote")
  /\ lease' = Release(l, FindingVerdict(exec[l].outcome, 0).reason)
  /\ exec' = End(l)
  /\ writer' = Nobody
  /\ UNCHANGED <<job, operator>>

ReleaseLegacy(l) ==
  /\ In(l, "generic", "wrote") \/ In(l, "detached", "wrote")
  /\ lease' = IF lease[l].status = "active"
              THEN Release(l, FindingVerdict(exec[l].outcome, 0).reason)
              ELSE lease
  /\ exec' = End(l)
  /\ writer' = Nobody
  /\ UNCHANGED <<job, operator>>

(* A statement or a request to the writer fails and the error leaves the   *)
(* tick by `?`, with the claim still in the tables: the persist request of *)
(* a finding or covering result, a setup failure that cannot be given      *)
(* back, a later claim of the same covering batch, a statement of a legacy *)
(* execution.  Threads of a covering batch are always joined first.        *)
LeaveTick(l) ==
  /\ exec[l].phase \notin {"none", "ended"}
  /\ ~In(l, "covering", "running") /\ ~In(l, "generic", "claimed")
  /\ exec' = End(l)
  /\ writer' = IF writer = l THEN Nobody ELSE writer
  /\ UNCHANGED <<db, operator>>

(* A crash of the executor's process or of the machine.  Committed rows    *)
(* stay as they are.                                                       *)
Die(l) ==
  /\ exec[l].phase \notin {"none", "ended"}
  /\ exec' = End(l)
  /\ writer' = IF writer = l THEN Nobody ELSE writer
  /\ UNCHANGED <<db, operator>>

Execute(l) ==
  \/ StartGuard(l) \/ LoadFinding(l) \/ ReturnSetupFailure(l) \/ PersistFinding(l)
  \/ HeartbeatStrict(l) \/ HeartbeatLenient(l)
  \/ LoadCovering(l) \/ KeepCoveringWaiting(l) \/ ReleaseCovering(l)
  \/ StartCoveringThread(l) \/ FinishCovering(l) \/ PersistCovering(l)
  \/ BeginDetached(l) \/ ResolveTarget(l) \/ WriteLegacy(l) \/ ReleaseLegacy(l)

-----------------------------------------------------------------------------
(* Maintenance, the operator, and time. *)

(* Mutation of Maintain: the queue tables are forgotten. *)
MaintainLeases ==
  /\ writer = Nobody
  /\ lease' = RecoverLeases(StaleLeases(MaintStale))
  /\ UNCHANGED <<job, exec, writer, operator>>

(* run_maintenance_once_report: leases, then jobs.  The two statements are *)
(* not one transaction: a crash between them keeps the first.              *)
Maintain ==
  /\ writer = Nobody
  /\ lease' = RecoverLeases(StaleLeases(MaintStale))
  /\ job' = RecoverJobs(StaleJobs(MaintStale))
  /\ UNCHANGED <<exec, writer, operator>>

MaintainInterrupted ==
  /\ writer = Nobody
  /\ lease' = RecoverLeases(StaleLeases(MaintStale))
  /\ exec' = [l \in Lease |-> IF exec[l].phase = "none" THEN exec[l] ELSE End(l)[l]]
  /\ UNCHANGED <<job, writer, operator>>

PauseJob(j) ==
  /\ writer = Nobody
  /\ job[j].status \in {"pending", "running"}
  /\ job' = Return(j, "paused", NoDate, job[j].attempts)
  /\ UNCHANGED <<lease, exec, writer, operator>>

ResumeJob(j) ==
  /\ writer = Nobody
  /\ job[j].status \in {"paused", "failed", "completed"}
  /\ job' = Return(j, "pending", NoDate, job[j].attempts)
  /\ UNCHANGED <<lease, exec, writer, operator>>

RetryJob(j) ==
  /\ writer = Nobody
  /\ job[j].status # "running"
  /\ job' = Return(j, "pending", NoDate, 0)
  /\ UNCHANGED <<lease, exec, writer, operator>>

(* pauseQueueLane stores the pause, then pauses the running jobs. *)
PauseLane(q) ==
  /\ writer = Nobody
  /\ lanePaused' = lanePaused \cup {q}
  /\ pausing' = pausing \cup {q}
  /\ UNCHANGED <<db, exec, writer>>

PauseRunning(q) ==
  /\ writer = Nobody
  /\ q \in pausing
  /\ job' = RecoverJobs({j \in Job : QueueOf[j] = q /\ job[j].status = "running"})
  /\ pausing' = pausing \ {q}
  /\ UNCHANGED <<lease, exec, writer, lanePaused>>

ResumeLane(q) ==
  /\ writer = Nobody
  /\ q \in lanePaused
  /\ lanePaused' = lanePaused \ {q}
  /\ UNCHANGED <<db, exec, writer, pausing>>

Older(n) == IF n < AgeCap THEN n + 1 ELSE n

(* The dates that are still read: the heartbeat of an active lease, and    *)
(* when a target was found unavailable.                                    *)
Dated(l) ==
  /\ lease[l].status # "free"
  /\ lease[l].status = "active" \/ lease[l].reason = "provider_unavailable_retry"

(* Time also passes while an execution keeps the writer. *)
Tick ==
  /\ job' = [j \in Job |->
               [job[j] EXCEPT !.beat = IF job[j].status = "running" THEN Older(@) ELSE @,
                              !.due = IF @ > 0 THEN @ - 1 ELSE @]]
  /\ lease' = [l \in Lease |-> IF Dated(l) THEN [lease[l] EXCEPT !.age = Older(@)]
                                          ELSE lease[l]]
  /\ UNCHANGED <<exec, writer, operator>>

Operate ==
  \/ \E j \in Job : PauseJob(j) \/ ResumeJob(j) \/ RetryJob(j)
  \/ \E q \in Queue : PauseLane(q) \/ PauseRunning(q) \/ ResumeLane(q)

Work ==
  \/ \E p \in Pool : Claim(p)
  \/ \E l \in Lease : Execute(l)
  \/ Maintain

Next ==
  \/ Work
  \/ \E l \in Lease : LeaveTick(l) \/ Die(l)
  \/ MaintainInterrupted
  \/ Operate
  \/ Tick

Spec == Init /\ [][Next]_vars

(***************************************************************************)
(* Time passes.  The resident thread runs the maintenance pass again and   *)
(* again, for every provider request it waits for has a timeout, and       *)
(* heartbeat threads wake by their own timers.  A writer job, once         *)
(* submitted, waits in a FIFO queue for the writer to be free, hence       *)
(* strong fairness.  An execution that keeps the writer comes to its end.  *)
(* Nothing is assumed of claims, of other executions, of the operator, of  *)
(* errors and of crashes.                                                  *)
(***************************************************************************)
Fairness ==
  /\ WF_vars(Tick)
  /\ SF_vars(Maintain)
  /\ \A l \in Lease :
       /\ SF_vars(HeartbeatStrict(l) \/ HeartbeatLenient(l))
       /\ WF_vars(writer = l /\ Execute(l))

FairSpec == Spec /\ Fairness

-----------------------------------------------------------------------------
(* Safety. *)

(* No provider target is held by two active leases, also when two pools    *)
(* share it: the claim looks at the leases of every pool, and the unique   *)
(* index on active targets would turn a second one into an error.          *)
TargetExclusive ==
  \A k, l \in Active(lease) : lease[k].target = lease[l].target => k = l

(* A pool never has more active leases than max_concurrent and its targets *)
(* allow, whoever claims, recovers and releases in between.                *)
PoolWithinCapacity ==
  \A p \in Pool : Cardinality(PoolActive(lease, p)) <= Capacity(p)

(* The lock of a running job names the lease that was inserted with it,    *)
(* and that lease was not released: a worker that ended normally, or was   *)
(* set aside, leaves no running job behind.  Only a lease lost to stale    *)
(* recovery may still be named by a job whose own recovery is due.         *)
LockNamesItsLease ==
  \A j \in Job :
    /\ job[j].status = "running" <=> job[j].lockedBy # Nobody
    /\ job[j].lockedBy # Nobody =>
         /\ lease[job[j].lockedBy].status \in {"active", "stale_recovered"}
         /\ lease[job[j].lockedBy].job = j

(* Once the pause of a lane is applied, no job of the lane runs until the  *)
(* lane is resumed, although claims, recoveries and results of executions  *)
(* started before the pause still come in.                                 *)
PausedLaneIsQuiet ==
  \A j \in Job : QueueOf[j] \in lanePaused \ pausing => job[j].status # "running"

(* A running job is taken from its lock holder only by the holder itself,  *)
(* by stale recovery or by the operator; a result of another execution     *)
(* never settles, retries or parks it (the fence of the persist and setup  *)
(* transactions, provider_execution.rs).                                   *)
OnlyOwnerReturnsJob ==
  [][\A j \in Job :
       (job[j].status = "running" /\ job'[j].lockedBy # job[j].lockedBy) =>
         \/ exec'[job[j].lockedBy] # exec[job[j].lockedBy]
         \/ job'[j].status \in {"paused", "running"} /\ job'[j].attempts = job[j].attempts]_vars

(* A job the queue has settled or parked leaves that state only by the     *)
(* operator's resume or retry, a step that touches nothing else: no late   *)
(* result, recovery or claim revives it.                                   *)
SettledStaysSettled ==
  [][\A j \in Job :
       (/\ \/ job[j].status \in Settled
           \/ job[j].status = "paused" /\ job[j].due = NoDate
        /\ job'[j] # job[j]) =>
         /\ job'[j].status = "pending"
         /\ UNCHANGED <<lease, exec, writer, operator>>]_vars

(* A failed attempt is never forgotten: the count a job has reached goes   *)
(* down only when the operator's retry resets it, although every result    *)
(* writes the count its execution read when it started.                    *)
AttemptsNeverLost ==
  [][\A j \in Job :
       job'[j].attempts < job[j].attempts =>
         /\ job'[j].attempts = 0 /\ job'[j].status = "pending"
         /\ UNCHANGED <<lease, exec, writer, operator>>]_vars

(* The end of a lease is recorded once: a release that comes after stale   *)
(* recovery, or twice, rewrites neither the status nor the reason from     *)
(* which the cooldown of the target is computed.                           *)
LeaseEndsOnce ==
  [][\A l \in Lease :
       lease[l].status \in {"released", "stale_recovered"} =>
         /\ lease'[l].status = lease[l].status
         /\ lease'[l].reason = lease[l].reason]_vars

(* A claim that its execution leaves behind, by a crash or by an error     *)
(* that leaves the tick, is not kept alive by anybody: as long as the job  *)
(* stays under the lock of that lease, neither heartbeat is refreshed, so  *)
(* the stale recovery of claims and maintenance can find both rows.        *)
AbandonedClaimAges ==
  [][\A l \in Lease :
       (exec[l].phase = "ended" /\ Owns(l) /\ Owns(l)') =>
         /\ job'[lease[l].job].beat >= job[lease[l].job].beat
         /\ lease'[l].age >= lease[l].age]_vars

(* A setup that fails after the claim gives the claim back: no job is left *)
(* running and no target is left held for a worker that does not exist     *)
(* (the comment at executor.rs:727).  Steps of an execution are meant; a   *)
(* crash, or an error of the writer that also stops the give-back, may     *)
(* leave the claim (AbandonedClaimAges says what becomes of it).           *)
NoClaimLeftBehind ==
  [][\A l \in Lease :
       exec[l].phase # "ended" /\ exec'[l].phase = "ended" /\ Owns(l)'
         => ~Execute(l)]_vars

-----------------------------------------------------------------------------
(* Liveness. *)

(* A lease whose job was taken from it does not hold its target for ever,  *)
(* whatever its execution does: the heartbeat stops, and the lease goes    *)
(* stale and is recovered.                                                 *)
LostLeaseIsFreed ==
  \A l \in Lease : (lease[l].status = "active" /\ ~Owns(l)) ~> lease[l].status # "active"

(* A job whose execution is gone does not stay running under its lock.     *)
DeadClaimIsReturned ==
  \A l \in Lease, j \in Job :
    (job[j].lockedBy = l /\ exec[l].phase = "ended") ~> job[j].lockedBy # l

-----------------------------------------------------------------------------
(* The leases implement the abstract allocation of targets. *)

Holder(t) ==
  IF \E l \in Active(lease) : lease[l].target = t
  THEN CHOOSE l \in Active(lease) : lease[l].target = t
  ELSE Nobody

Slots == INSTANCE TargetSlots WITH
           holder <- [t \in Target |-> Holder(t)],
           spent <- {l \in Lease : lease[l].status # "free"}

(* Every transaction of the queue is a step of TargetSlots or leaves the   *)
(* allocation alone: a lease gets its target once, from nobody else.       *)
SlotsSpec == Slots!Spec
=============================================================================
