---------------------------- MODULE OneShotQueue ----------------------------
(***************************************************************************)
(* The TypeScript queue core: the supervisor that claims jobs of the       *)
(* lanes, with a provider lease (claimNextJobWithProviderLease) or without *)
(* one (claimNextQueueJob), the worker that runs a claimed job and settles *)
(* it (runQueueWorkerOnce), and the operator's commands on jobs and lanes. *)
(* Several supervisors may run against the same SQLite file, so a worker   *)
(* here is a task slot of any of them.  A SQLite statement or transaction  *)
(* is one step; nothing is atomic across two awaited calls.                *)
(*                                                                         *)
(* What a handler computes is abstracted to the class of its outcome; its  *)
(* writes to other tables are the subject of DistillPipeline.  Attempt     *)
(* counters only decide between another attempt and a failed job, so that  *)
(* choice is left open.  The control row itself is in LaneControls.  The   *)
(* retries that the catch block schedules for curation and merge jobs are  *)
(* left out, and so is the order of the jobs within a lane.  Of the        *)
(* events that are logged about a job only those count that a handler      *)
(* writes after the row: when that fails, the settled job goes through     *)
(* the catch block as a failed one.                                        *)
(***************************************************************************)
EXTENDS Naturals, FiniteSets, Sequences

CONSTANTS
  Workers,      \* task slots of the running supervisors
  Jobs, Lanes,
  LaneOf,       \* [Jobs -> Lanes]
  Retryable,    \* the lanes whose handler may ask for another attempt
  FromSource,   \* the lanes whose handler reads a source that may be gone
  Reporting,    \* the lanes whose handler logs an event after its last write
  Pools, Targets,
  TargetsOf,    \* [Pools -> SUBSET Targets]
  LanesOf,      \* [Pools -> Seq(Lanes)]: the lanes a pool serves, by priority
  MaxConcurrent,\* [Pools -> Nat]
  Preferred,    \* [Jobs -> SUBSET Targets]: targets named by the job's route
  MaxEvents,    \* bound: commands, crashes and lost events of one behaviour
  Nothing

ASSUME OneShotAssumption ==
  /\ LaneOf \in [Jobs -> Lanes]
  /\ TargetsOf \in [Pools -> SUBSET Targets]
  /\ Preferred \in [Jobs -> SUBSET Targets]
  /\ MaxConcurrent \in [Pools -> Nat]
  /\ \A p \in Pools : IsFiniteSet(TargetsOf[p]) /\ LanesOf[p] \in Seq(Lanes)
  /\ MaxEvents \in Nat
  /\ Nothing \notin Jobs /\ Nothing \notin Pools /\ Nothing \notin Targets
  /\ Nothing \notin [pool : Pools, job : Jobs, by : Workers]

VARIABLES
  job,        \* [Jobs -> row]: status and when it may run
  late,       \* running jobs whose heartbeat is older than the stale cutoff
  lease,      \* [Targets -> the active lease of the target, or Nothing]
  lateLease,  \* targets whose active lease has an old heartbeat
  paused,     \* the lanes paused in the control row
  sweeping,   \* lanes just paused whose running jobs are still to be put back
  worker,     \* [Workers -> what the task is doing]
  events,
  reopened,   \* history: jobs put back while a live worker still runs them
  lapsed,     \* history: workers whose lease was recovered under them
  strays      \* history: <<worker, lane>>: a claim made although the lane was paused

rows == <<job, late>>
leases == <<lease, lateLease>>
controls == <<paused, sweeping>>
history == <<reopened, lapsed, strays>>
vars == <<rows, leases, controls, worker, events, history>>

Statuses == {"absent", "pending", "running", "paused", "completed", "failed"}
Times    == {"now", "later", "never"}
Errors   == {"abort", "unavailable", "missing", "error"}
Served(p) == {LanesOf[p][i] : i \in 1..Len(LanesOf[p])}
Unpooled == {l \in Lanes : \A p \in Pools : l \notin Served(p)}

IdleTask == [pc |-> "idle", job |-> Nothing, pool |-> Nothing, target |-> Nothing,
             seen |-> {}, open |-> {}, out |-> "ok"]

-----------------------------------------------------------------------------
(* Rows, leases and who is at work. *)

Row(st, when) == [st |-> st, when |-> when]

\* Mutant: a claim that takes whatever is due.
RunnableByTime(row) == row.st \notin {"completed", "failed"} /\ row.when = "now"

\* The runnable predicate of both claims: pending and due, or paused and due.
Runnable(row) == row.st \in {"pending", "paused"} /\ row.when = "now"

\* The workers that may still write the row of the job (a handler that has
\* settled it may yet fail), and those that use the target they leased.
OnJob(j) == {w \in Workers : /\ worker[w].pc \in {"working", "written", "failing", "caught", "pausing"}
                             /\ worker[w].job = j}
Using(w) == worker[w].pc \in {"working", "written", "failing"} /\ worker[w].target # Nothing

\* Stale running jobs of the given lanes go back as paused and due.
StaleJobs(ls) == {j \in late : LaneOf[j] \in ls}
PutBack(js)   == [j \in Jobs |-> IF j \in js THEN Row("paused", "now") ELSE job[j]]

StaleLeases(p) == {t \in lateLease : lease[t].pool = p}
Kept(p)        == [t \in Targets |-> IF t \in StaleLeases(p) THEN Nothing ELSE lease[t]]
Held(p, ls)    == {t \in Targets : ls[t] # Nothing /\ ls[t].pool = p}
ActivePoolCapacity(p) ==
  LET n == Cardinality(TargetsOf[p])
      m == IF MaxConcurrent[p] < n THEN MaxConcurrent[p] ELSE n
  IN  IF m < 1 THEN 1 ELSE m

\* Mutants: targets that only this pool's leases keep busy; a pool that is
\* full one lease too late; a lane that is never found busy.
FreeTargetsOfPool(p) == {t \in TargetsOf[p] : t \notin Held(p, Kept(p))}
HasRoomForOneMore(p) == Cardinality(Held(p, Kept(p))) <= ActivePoolCapacity(p)
LaneIdleUnchecked(ls, after) == TRUE

FreeTargets(p) == {t \in TargetsOf[p] : Kept(p)[t] = Nothing}
HasRoom(p) == Cardinality(Held(p, Kept(p))) < ActivePoolCapacity(p)
LaneIdle(ls, after) ==
  \A k \in Jobs : LaneOf[k] \in ls => after[k].st # "running"

\* The preferred targets of the job, or any target when it prefers none here.
EligibleTargets(p, j, free) ==
  IF Preferred[j] \cap TargetsOf[p] = {} THEN free ELSE free \cap Preferred[j]

\* Recovering the stale leases of a pool, as the supervisor does when it
\* counts slots and again inside the claim.
RecoverLeases(p) ==
  /\ lateLease' = lateLease \ StaleLeases(p)
  /\ lapsed' = lapsed \cup {w \in Workers : /\ Using(w)
                                            /\ worker[w].target \in StaleLeases(p)
                                            /\ lease[worker[w].target].by = w}

\* Jobs in js that somebody is still running stay marked until they are left.
Reopening(js) == reopened \cup {j \in js : OnJob(j) # {}}
Left(w)       == {j \in {worker[w].job} : OnJob(j) \subseteq {w}}
Strays(w, j)  == strays' = strays \cup ({<<w, LaneOf[j]>>} \cap (Workers \X paused))

-----------------------------------------------------------------------------
(* The supervisor's claim with a provider lease. *)

\* Mutant: the control row is not looked at.
IsOpenUnread(l) == TRUE

\* isQueuePaused, negated.
IsOpen(l) == l \notin paused

\* countAvailableProviderPoolSlots: stale leases of the pool are recovered,
\* and a pool without a slot is left alone.
OpenPool(w, p) ==
  /\ worker[w].pc = "idle"
  /\ lease' = Kept(p)
  /\ RecoverLeases(p)
  /\ worker' = IF HasRoom(p)
               THEN [worker EXCEPT ![w].pc = "reading", ![w].pool = p]
               ELSE worker
  /\ UNCHANGED <<rows, controls, events, reopened, strays>>

\* One of the concurrent isQueuePaused reads, made before BEGIN IMMEDIATE.
ReadLane(w, l) ==
  /\ worker[w].pc = "reading"
  /\ l \in Served(worker[w].pool) \ worker[w].seen
  /\ worker' = [worker EXCEPT ![w].seen = @ \cup {l},
                              ![w].open = IF IsOpen(l) THEN @ \cup {l} ELSE @]
  /\ UNCHANGED <<rows, leases, controls, events, history>>

\* The jobs of the first lane, in priority order, with a job that has a target.
Candidates(w, after, free) ==
  LET p == worker[w].pool
      Of(i) == {j \in Jobs : /\ LaneOf[j] = LanesOf[p][i] /\ LaneOf[j] \in worker[w].open
                             /\ Runnable(after[j]) /\ EligibleTargets(p, j, free) # {}}
      Full  == {i \in 1..Len(LanesOf[p]) : Of(i) # {}}
  IN  UNION {Of(i) : i \in {i \in Full : \A k \in Full : i <= k}}

\* The transaction: stale leases, capacity and free targets, then the stale
\* jobs of the lanes read as open, the pick, the row and the lease.
ClaimWithLease(w) ==
  LET p     == worker[w].pool
      free  == FreeTargets(p)
      room  == HasRoom(p) /\ free # {}
      back  == IF room THEN StaleJobs(worker[w].open) ELSE {}
      after == PutBack(back)
      pick  == IF room THEN Candidates(w, after, free) ELSE {}
  IN  /\ worker[w].pc = "reading"
      /\ worker[w].seen = Served(p)
      /\ RecoverLeases(p)
      /\ late' = late \ back
      /\ reopened' = Reopening(back)
      /\ \/ /\ pick = {}
            /\ job' = after /\ lease' = Kept(p)
            /\ worker' = [worker EXCEPT ![w] = IdleTask]
            /\ UNCHANGED strays
         \/ \E j \in pick : \E t \in EligibleTargets(p, j, free) :
              /\ job' = [after EXCEPT ![j] = Row("running", "now")]
              /\ lease' = [Kept(p) EXCEPT ![t] = [pool |-> p, job |-> j, by |-> w]]
              /\ worker' = [worker EXCEPT ![w] = [IdleTask EXCEPT
                   !.pc = "working", !.job = j, !.pool = p, !.target = t]]
              /\ Strays(w, j)
      /\ UNCHANGED <<controls, events>>

-----------------------------------------------------------------------------
(* The claim of a lane that no pool serves. *)

\* isQueuePaused, read by the worker and again by claimNextQueueJob.
OpenLane(w, l) ==
  /\ worker[w].pc = "idle" /\ l \in Unpooled /\ IsOpen(l)
  /\ worker' = [worker EXCEPT ![w].pc = "opened", ![w].open = {l}]
  /\ UNCHANGED <<rows, leases, controls, events, history>>

\* The transaction: stale jobs go back, and a job starts only when none runs.
ClaimInLane(w) ==
  LET back  == StaleJobs(worker[w].open)
      after == PutBack(back)
      pick  == {j \in Jobs : /\ LaneOf[j] \in worker[w].open /\ Runnable(after[j])
                             /\ LaneIdle(worker[w].open, after)}
  IN  /\ worker[w].pc = "opened"
      /\ late' = late \ back
      /\ reopened' = Reopening(back)
      /\ \/ /\ pick = {}
            /\ job' = after
            /\ worker' = [worker EXCEPT ![w] = IdleTask]
            /\ UNCHANGED strays
         \/ \E j \in pick :
              /\ job' = [after EXCEPT ![j] = Row("running", "now")]
              /\ worker' = [worker EXCEPT ![w] = [IdleTask EXCEPT !.pc = "working", !.job = j]]
              /\ Strays(w, j)
      /\ UNCHANGED <<leases, controls, events, lapsed>>

-----------------------------------------------------------------------------
(* The worker: heartbeats, the outcome of the handler, the catch block. *)

\* What MaxEvents bounds.
Event == events < MaxEvents /\ events' = events + 1

\* The interval of runWithHeartbeat: by lease id, and by job id while running.
Beat(w) ==
  LET t == worker[w].target
      j == worker[w].job
  IN  /\ worker[w].pc \in {"working", "written", "failing"}
      /\ late' = late \ {j}
      /\ lateLease' = IF w \in lapsed THEN lateLease ELSE lateLease \ {t}
      /\ UNCHANGED <<job, lease, controls, worker, events, history>>

\* Mutant: the write leaves the lock's heartbeat behind.
SettleKeepsLock(w, row) ==
  /\ job' = [job EXCEPT ![worker[w].job] = row]
  /\ late' = late

\* A write of the job's row by its id alone, as every handler makes it.
Settle(w, row) ==
  /\ job' = [job EXCEPT ![worker[w].job] = row]
  /\ late' = late \ {worker[w].job}

\* The task ends and its slot is free again.
Leave(w) ==
  /\ worker' = [worker EXCEPT ![w] = IdleTask]
  /\ lapsed' = lapsed \ {w}
  /\ reopened' = reopened \ Left(w)

\* The last write of a handler settles the job: completed (or skipped),
\* failed, or, in a retryable lane, another attempt with a backoff, which
\* puts the job back while its worker is still there.
Handle(w) ==
  /\ worker[w].pc = "working"
  /\ \/ /\ Settle(w, Row("completed", "now")) \/ Settle(w, Row("failed", "now"))
        /\ UNCHANGED reopened
     \/ /\ LaneOf[worker[w].job] \in Retryable
        /\ Settle(w, Row("pending", "later"))
        /\ reopened' = Reopening({worker[w].job})
  /\ worker' = [worker EXCEPT ![w].pc = "written"]
  /\ UNCHANGED <<leases, controls, events, lapsed, strays>>

\* The handler throws: a provider or a dependency is away, the source is
\* missing, its signal was aborted by the timeout or by the poll that saw the
\* lane paused, or anything else.
Throw(w, e) ==
  /\ worker[w].pc = "working"
  /\ e = "missing" => LaneOf[worker[w].job] \in FromSource
  /\ worker' = [worker EXCEPT ![w].pc = "failing", ![w].out = e]
  /\ UNCHANGED <<rows, leases, controls, events, history>>

\* The event that a handler logs after its last write is not stored: the
\* handler throws although its result is in the row.
LoseEvent(w, e) ==
  /\ worker[w].pc = "written" /\ LaneOf[worker[w].job] \in Reporting
  /\ e # "abort" /\ (e = "missing" => LaneOf[worker[w].job] \in FromSource)
  /\ Event
  /\ worker' = [worker EXCEPT ![w].pc = "failing", ![w].out = e]
  /\ UNCHANGED <<rows, leases, controls, history>>

\* The finally block gives the lease back, by its id and while it is active,
\* before the catch block looks at the error.
Release(w) ==
  LET mine == {worker[w].target} \ (IF w \in lapsed THEN Targets ELSE {})
  IN  /\ worker[w].pc \in {"written", "failing"}
      /\ lease' = [t \in Targets |-> IF t \in mine THEN Nothing ELSE lease[t]]
      /\ lateLease' = lateLease \ mine
      /\ IF worker[w].pc = "written"
         THEN Leave(w)
         ELSE /\ worker' = [worker EXCEPT ![w].pc = "caught", ![w].target = Nothing]
              /\ lapsed' = lapsed \ {w}
              /\ UNCHANGED reopened
      /\ UNCHANGED <<rows, controls, events, strays>>

\* An aborted handler reads the control row: a paused lane pauses the job, and
\* otherwise the error is classified again by its message.
CatchAbort(w) ==
  /\ worker[w].pc = "caught" /\ worker[w].out = "abort"
  /\ IF LaneOf[worker[w].job] \in paused
     THEN worker' = [worker EXCEPT ![w].pc = "pausing"]
     ELSE \E e \in {"unavailable", "error"} : worker' = [worker EXCEPT ![w].out = e]
  /\ UNCHANGED <<rows, leases, controls, events, history>>

\* pauseQueueJob: only a pending or running row, and not due until resumed.
PausedRow(row) == IF row.st \in {"pending", "running"} THEN Row("paused", "never") ELSE row

PauseAborted(w) ==
  /\ worker[w].pc = "pausing"
  /\ Settle(w, PausedRow(job[worker[w].job]))
  /\ Leave(w)
  /\ UNCHANGED <<leases, controls, events, strays>>

\* Mutant: the row is delayed by its id alone.
WaitingRowById(row) == Row("pending", "later")

\* keepQueueJobWaitingForProvider and keepQueueJobWaitingForWorker: a running
\* row goes back to pending with a delay.
WaitingRow(row) == IF row.st = "running" THEN Row("pending", "later") ELSE row

CatchUnavailable(w) ==
  /\ worker[w].pc = "caught" /\ worker[w].out = "unavailable"
  /\ Settle(w, WaitingRow(job[worker[w].job]))
  /\ Leave(w)
  /\ UNCHANGED <<leases, controls, events, strays>>

\* A missing source skips a finding job; any other error fails the job. Both
\* write by id, whatever the row has become, the worker's own result included.
CatchFinal(w) ==
  /\ worker[w].pc = "caught"
  /\ \/ worker[w].out = "missing" /\ Settle(w, Row("completed", "now"))
     \/ worker[w].out = "error" /\ Settle(w, Row("failed", "now"))
  /\ Leave(w)
  /\ UNCHANGED <<leases, controls, events, strays>>

WorkerStep(w) ==
  \/ \E l \in Lanes : ReadLane(w, l)
  \/ ClaimWithLease(w)
  \/ ClaimInLane(w)
  \/ Handle(w)
  \/ \E e \in Errors : Throw(w, e) \/ LoseEvent(w, e)
  \/ Release(w)
  \/ CatchAbort(w)
  \/ PauseAborted(w)
  \/ CatchUnavailable(w)
  \/ CatchFinal(w)

-----------------------------------------------------------------------------
(* The operator, time and crashes. *)

Command(j, row) ==
  /\ Event
  /\ job' = [job EXCEPT ![j] = row]
  /\ late' = late \ {j}
  /\ reopened' = Reopening({j})
  /\ UNCHANGED <<leases, controls, worker, lapsed, strays>>

\* enqueueFindingJob: a row is inserted for a new source, and the row of a
\* known one is reset whatever its status.
Enqueue(j)   == LaneOf[j] \in FromSource /\ Command(j, Row("pending", "now"))
PauseJob(j)  == job[j].st \in {"pending", "running"} /\ Command(j, PausedRow(job[j]))
ResumeJob(j) == job[j].st \in {"paused", "failed", "completed"} /\ Command(j, Row("pending", "now"))
RetryJob(j)  == job[j].st \notin {"absent", "running"} /\ Command(j, Row("pending", "now"))

\* pauseQueueLane writes the control row and then puts the running jobs of
\* the lane back; resumeQueueLane only writes the control row.
PauseLane(l) ==
  /\ Event
  /\ paused' = paused \cup {l} /\ sweeping' = sweeping \cup {l}
  /\ UNCHANGED <<rows, leases, worker, history>>

SweepLane(l) ==
  LET hit == {j \in Jobs : LaneOf[j] = l /\ job[j].st = "running"}
  IN  /\ l \in sweeping
      /\ job' = PutBack(hit)
      /\ late' = late \ hit
      /\ reopened' = Reopening(hit)
      /\ sweeping' = sweeping \ {l}
      /\ UNCHANGED <<leases, paused, worker, events, lapsed, strays>>

ResumeLane(l) ==
  /\ l \in paused /\ Event
  /\ paused' = paused \ {l}
  /\ strays' = strays \ (Workers \X {l})
  /\ UNCHANGED <<rows, leases, sweeping, worker, reopened, lapsed>>

\* A heartbeat grows older than the cutoff; a delayed next_run_at passes.
AgeJob(j) ==
  /\ job[j].st = "running" /\ late' = late \cup {j}
  /\ UNCHANGED <<job, leases, controls, worker, events, history>>

AgeLease(t) ==
  /\ lease[t] # Nothing /\ lateLease' = lateLease \cup {t}
  /\ UNCHANGED <<rows, lease, controls, worker, events, history>>

Due(j) ==
  /\ job[j].when = "later"
  /\ job' = [job EXCEPT ![j].when = "now"]
  /\ UNCHANGED <<late, leases, controls, worker, events, history>>

\* The process of the task dies (or is forced to exit); its row and lease stay.
Crash(w) ==
  /\ worker[w].pc # "idle" /\ Event
  /\ Leave(w)
  /\ UNCHANGED <<rows, leases, controls, strays>>

Init ==
  /\ job \in [Jobs -> {Row("absent", "never"), Row("pending", "now")}]
  /\ lease = [t \in Targets |-> Nothing]
  /\ worker = [w \in Workers |-> IdleTask]
  /\ late = {} /\ lateLease = {} /\ paused = {} /\ sweeping = {}
  /\ events = 0 /\ reopened = {} /\ lapsed = {} /\ strays = {}

Next ==
  \/ \E w \in Workers : \/ \E p \in Pools : OpenPool(w, p)
                        \/ \E l \in Lanes : OpenLane(w, l)
                        \/ WorkerStep(w)
                        \/ Beat(w)
                        \/ Crash(w)
  \/ \E j \in Jobs : \/ Enqueue(j) \/ PauseJob(j) \/ ResumeJob(j) \/ RetryJob(j)
                     \/ AgeJob(j) \/ Due(j)
  \/ \E l \in Lanes : PauseLane(l) \/ SweepLane(l) \/ ResumeLane(l)
  \/ \E t \in Targets : AgeLease(t)

Spec == Init /\ [][Next]_vars

-----------------------------------------------------------------------------
(* Properties. *)

TaskOK(t) ==
  /\ t.pc \in {"idle", "reading", "opened", "working", "written", "failing", "caught", "pausing"}
  /\ t.target \in Targets \cup {Nothing}
  /\ t.seen \subseteq Lanes /\ t.open \subseteq Lanes
  /\ t.out \in Errors \cup {"ok"}
  /\ (t.pc \in {"working", "written", "failing", "caught", "pausing"} => t.job \in Jobs)
  /\ (t.pc = "reading" => t.pool \in Pools)

\* The types of the variables; a stale mark is only on a running row, and
\* only an active lease is late.
QueueTypeOK ==
  /\ job \in [Jobs -> [st : Statuses, when : Times]]
  /\ late \subseteq {j \in Jobs : job[j].st = "running"}
  /\ lease \in [Targets -> [pool : Pools, job : Jobs, by : Workers] \cup {Nothing}]
  /\ lateLease \subseteq {t \in Targets : lease[t] # Nothing}
  /\ paused \subseteq Lanes /\ sweeping \subseteq Lanes
  /\ DOMAIN worker = Workers /\ \A w \in Workers : TaskOK(worker[w])
  /\ events \in 0..MaxEvents
  /\ reopened \subseteq Jobs /\ lapsed \subseteq Workers /\ strays \subseteq Workers \X paused

\* A worker writes its result by job id, without a fence, and may write the
\* row again when what follows the result fails.  What keeps two workers off
\* the same row is that the claims take only rows which are neither running
\* nor settled: two can hold a job only if it was put back under the first
\* one, by the recovery of a heartbeat that came too late, by an operator or
\* by the retry that the first one itself has just written.
OneWorkerPerJob ==
  \A j \in Jobs : \A v, w \in OnJob(j) : v # w => j \in reopened

\* A settled job is not run again unless somebody asks for it: without a
\* command, and unless the job was put back under a worker that lives, a
\* settled row stays settled.  The only one who then replaces the result by
\* another is the worker that wrote it, when its handler fails after that:
\* the catch block must not delay or pause a job that has a result.
ResultStands ==
  [][\A j \in Jobs :
       job[j].st \in {"completed", "failed"} /\ job'[j].st # job[j].st
         => \/ j \in reopened \/ events' # events
            \/ /\ job'[j].st \in {"completed", "failed"}
               /\ \E w \in OnJob(j) : worker[w].pc = "caught" /\ worker'[w].pc = "idle"]_vars

\* A provider target serves one live worker at a time, whatever pools share
\* it, unless the lease of one of them was recovered under it.
TargetUsedOnce ==
  \A v, w \in Workers :
    v # w /\ Using(v) /\ Using(w) /\ worker[v].target = worker[w].target
      => v \in lapsed \/ w \in lapsed

\* No pool has more active leases than its capacity, with several
\* supervisors that count its slots before they claim.
LeasesWithinCapacity ==
  \A p \in Pools : Cardinality(Held(p, lease)) <= ActivePoolCapacity(p)

\* A lane no pool serves has at most one running job, whichever supervisors
\* claim from it and whatever was recovered or resumed in between.
OneRunningPerLane ==
  \A j, k \in Jobs :
    /\ j # k /\ LaneOf[j] = LaneOf[k] /\ LaneOf[j] \in Unpooled
    => ~(job[j].st = "running" /\ job[k].st = "running")

\* The lanes are read before the transaction that claims, so a claim can
\* still take a job of a lane that was paused in between.  Each task does so
\* at most once for a pause: what it reads next shows the lane as paused.
StrayClaimOnce ==
  [][\A w \in Workers :
       worker[w].pc # "working" /\ worker'[w].pc = "working"
         => LaneOf[worker'[w].job] \notin paused
            \/ <<w, LaneOf[worker'[w].job]>> \notin strays]_vars
=============================================================================
