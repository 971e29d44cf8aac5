------------------------- MODULE OneShotQueueProofs -------------------------
(***************************************************************************)
(* The steps of OneShotQueue, each said once in the terms its invariants   *)
(* need (what it makes of its own task, of the rows and of the leases),    *)
(* type correctness from them, and then the safety properties: one running *)
(* job in a lane without a pool, one live worker per target, no more       *)
(* leases than a pool may have, one worker per job, results that stand,    *)
(* and one stray claim per pause; all this for every number of workers,    *)
(* jobs, lanes, pools and targets, and of operator commands and crashes.   *)
(***************************************************************************)
EXTENDS OneShotQueue, FiniteSetTheorems, TLAPS

RowSet   == [st : Statuses, when : Times]
LeaseRow == [pool : Pools, job : Jobs, by : Workers]
TaskPcs  == {"idle", "reading", "opened", "working", "written", "failing", "caught", "pausing"}
TaskRecord ==
  [pc : TaskPcs, job : Jobs \cup {Nothing}, pool : Pools \cup {Nothing},
   target : Targets \cup {Nothing}, seen : SUBSET Lanes, open : SUBSET Lanes,
   out : Errors \cup {"ok"}]

Tasks == {t \in TaskRecord : TaskOK(t)}

\* QueueTypeOK, and all fields of a task, which no property needs.
Typed == QueueTypeOK /\ worker \in [Workers -> Tasks]

-----------------------------------------------------------------------------
(* Tasks. *)

(* A step of one task, and what it leaves of the others.                   *)
Others(w) == \A v \in Workers \ {w} : worker'[v] = worker[v]
Moved(w, t) == worker'[w] = t /\ Others(w) /\ worker' \in [Workers -> Tasks]

(* The task at its next stage, with its job and its target.                *)
Stays(w, pcs) ==
  /\ Others(w) /\ worker' \in [Workers -> Tasks] /\ worker'[w].pc \in pcs
  /\ worker'[w].job = worker[w].job /\ worker'[w].target = worker[w].target
  /\ worker'[w].open = worker[w].open

(* The task begins to work on a job, with a target or without one.         *)
Starts(w, j, t) ==
  /\ Others(w) /\ worker' \in [Workers -> Tasks] /\ worker'[w].pc = "working"
  /\ worker'[w].job = j /\ worker'[w].target = t /\ worker'[w].open = {}

(* An assignment of one task leaves the others.                            *)
LEMMA MoveTask ==
  ASSUME Typed, NEW w \in Workers, NEW t \in Tasks, worker' = [worker EXCEPT ![w] = t]
  PROVE  Moved(w, t)
BY DEF Typed, Moved, Others

(* An idle task, and one that was just given a job.                        *)
LEMMA IdleTyped ==
  /\ IdleTask \in Tasks /\ IdleTask.pc = "idle" /\ IdleTask.open = {}
  /\ IdleTask.job = Nothing /\ IdleTask.target = Nothing
BY DEF IdleTask, Tasks, TaskRecord, TaskPcs, TaskOK, Errors

(* What a claim assigns begins a task.                                     *)
LEMMA StartTask ==
  ASSUME Typed, NEW w \in Workers, NEW j \in Jobs
  PROVE  /\ worker' = [worker EXCEPT ![w] = [IdleTask EXCEPT !.pc = "working", !.job = j]]
              => Starts(w, j, Nothing)
         /\ \A p \in Pools, t \in Targets :
              worker' = [worker EXCEPT ![w] = [IdleTask EXCEPT
                           !.pc = "working", !.job = j, !.pool = p, !.target = t]]
                => Starts(w, j, t)
<1>1. ASSUME worker' = [worker EXCEPT ![w] = [IdleTask EXCEPT !.pc = "working", !.job = j]]
      PROVE  Starts(w, j, Nothing)
  <2> DEFINE task == [IdleTask EXCEPT !.pc = "working", !.job = j]
  <2>1. /\ task \in Tasks /\ task.pc = "working" /\ task.job = j /\ task.target = Nothing
        /\ task.open = {}
    BY DEF IdleTask, Tasks, TaskRecord, TaskPcs, TaskOK, Errors
  <2> HIDE DEF task
  <2> QED
    BY <1>1, <2>1, MoveTask DEF Moved, Starts, task
<1>2. ASSUME NEW p \in Pools, NEW t \in Targets,
             worker' = [worker EXCEPT ![w] = [IdleTask EXCEPT
                          !.pc = "working", !.job = j, !.pool = p, !.target = t]]
      PROVE  Starts(w, j, t)
  <2> DEFINE task == [IdleTask EXCEPT !.pc = "working", !.job = j, !.pool = p, !.target = t]
  <2>1. /\ task \in Tasks /\ task.pc = "working" /\ task.job = j /\ task.target = t
        /\ task.open = {}
    BY DEF IdleTask, Tasks, TaskRecord, TaskPcs, TaskOK, Errors
  <2>2. worker' = [worker EXCEPT ![w] = task]
    BY <1>2
  <2> HIDE DEF task
  <2> QED
    BY <2>1, <2>2, MoveTask DEF Moved, Starts
<1> QED
  BY <1>1, <1>2

(* What each step of a task that has a job makes of it.                    *)
LEMMA TaskStays ==
  ASSUME Typed, NEW w \in Workers
  PROVE  /\ Handle(w) => Stays(w, {"written"}) /\ worker[w].pc = "working"
         /\ (\E e \in Errors : Throw(w, e)) => Stays(w, {"failing"}) /\ worker[w].pc = "working"
         /\ (\E e \in Errors : LoseEvent(w, e)) => Stays(w, {"failing"}) /\ worker[w].pc = "written"
         /\ CatchAbort(w) => Stays(w, {"caught", "pausing"}) /\ worker[w].pc = "caught"
<1>1. worker[w] \in Tasks
  BY DEF Typed
<1>2. ASSUME Handle(w) PROVE Stays(w, {"written"}) /\ worker[w].pc = "working"
  <2> DEFINE t == [worker[w] EXCEPT !.pc = "written"]
  <2>1. /\ worker[w].pc = "working" /\ worker' = [worker EXCEPT ![w] = t]
    BY <1>2 DEF Handle
  <2>2. /\ t \in Tasks /\ t.pc = "written" /\ t.job = worker[w].job
        /\ t.target = worker[w].target /\ t.open = worker[w].open
    BY <1>1, <2>1 DEF Tasks, TaskRecord, TaskPcs, TaskOK
  <2> HIDE DEF t
  <2> QED
    BY <2>1, <2>2, MoveTask DEF Moved, Stays
<1>3. ASSUME NEW e \in Errors, Throw(w, e) \/ LoseEvent(w, e)
      PROVE  /\ Stays(w, {"failing"})
             /\ Throw(w, e) => worker[w].pc = "working"
             /\ LoseEvent(w, e) => worker[w].pc = "written"
  <2> DEFINE t == [worker[w] EXCEPT !.pc = "failing", !.out = e]
  <2>1. /\ worker[w].pc \in {"working", "written"} /\ worker' = [worker EXCEPT ![w] = t]
        /\ Throw(w, e) => worker[w].pc = "working"
        /\ LoseEvent(w, e) => worker[w].pc = "written"
    BY <1>1, <1>3 DEF Throw, LoseEvent, Typed
  <2>2. /\ t \in Tasks /\ t.pc = "failing" /\ t.job = worker[w].job
        /\ t.target = worker[w].target /\ t.open = worker[w].open
    BY <1>1, <2>1 DEF Tasks, TaskRecord, TaskPcs, TaskOK, Errors
  <2> HIDE DEF t
  <2> QED
    BY <2>1, <2>2, MoveTask DEF Moved, Stays
<1>4. ASSUME CatchAbort(w)
      PROVE  Stays(w, {"caught", "pausing"}) /\ worker[w].pc = "caught"
  <2>1. worker[w].pc = "caught"
    BY <1>4 DEF CatchAbort
  <2>2. ASSUME NEW t \in {[worker[w] EXCEPT !.pc = "pausing"]} \cup
                         {[worker[w] EXCEPT !.out = e] : e \in {"unavailable", "error"}},
               worker' = [worker EXCEPT ![w] = t]
        PROVE  Stays(w, {"caught", "pausing"})
    <3>1. /\ t \in Tasks /\ t.pc \in {"caught", "pausing"} /\ t.job = worker[w].job
          /\ t.target = worker[w].target /\ t.open = worker[w].open
      BY <1>1, <2>1 DEF Tasks, TaskRecord, TaskPcs, TaskOK, Errors
    <3> QED
      BY <2>2, <3>1, MoveTask DEF Moved, Stays
  <2> QED
    BY <1>4, <2>1, <2>2 DEF CatchAbort
<1> QED
  BY <1>2, <1>3, <1>4

(* A task that leaves is idle.                                             *)
LEMMA TaskLeaves ==
  ASSUME Typed, NEW w \in Workers, Leave(w)
  PROVE  Moved(w, IdleTask)
BY MoveTask, IdleTyped DEF Leave

(* The release ends a task that has written, or leaves its error to be     *)
(* caught, without a target.                                               *)
LEMMA TaskReleases ==
  ASSUME Typed, NEW w \in Workers, Release(w)
  PROVE  \/ worker[w].pc = "written" /\ Leave(w) /\ Moved(w, IdleTask)
         \/ /\ worker[w].pc = "failing" /\ Others(w) /\ worker' \in [Workers -> Tasks]
            /\ worker'[w].pc = "caught" /\ worker'[w].job = worker[w].job
            /\ worker'[w].open = worker[w].open
            /\ lapsed' = lapsed \ {w} /\ reopened' = reopened
<1>1. CASE worker[w].pc = "written"
  BY <1>1, TaskLeaves DEF Release
<1>2. CASE worker[w].pc = "failing"
  <2> DEFINE t == [worker[w] EXCEPT !.pc = "caught", !.target = Nothing]
  <2>1. worker' = [worker EXCEPT ![w] = t] /\ lapsed' = lapsed \ {w} /\ reopened' = reopened
    BY <1>2 DEF Release, Typed
  <2>2. t \in Tasks /\ t.pc = "caught" /\ t.job = worker[w].job /\ t.open = worker[w].open
    BY <1>2 DEF Typed, Tasks, TaskRecord, TaskPcs, TaskOK
  <2> HIDE DEF t
  <2> QED
    BY <1>2, <2>1, <2>2, MoveTask DEF Moved
<1> QED
  BY <1>1, <1>2 DEF Release

(* A task on its way to a claim has no job yet.                            *)
LEMMA TaskOpens ==
  ASSUME Typed, NEW w \in Workers
  PROVE  /\ \A p \in Pools : OpenPool(w, p) =>
              \/ worker' = worker
              \/ Others(w) /\ worker' \in [Workers -> Tasks] /\ worker'[w].pc = "reading"
                 /\ worker'[w].open = worker[w].open /\ worker[w].pc = "idle"
         /\ \A l \in Lanes : OpenLane(w, l) =>
              Others(w) /\ worker' \in [Workers -> Tasks] /\ worker'[w].pc = "opened"
              /\ worker'[w].open = {l} /\ worker[w].pc = "idle"
         /\ \A l \in Lanes : ReadLane(w, l) =>
              Others(w) /\ worker' \in [Workers -> Tasks] /\ worker'[w].pc = "reading"
              /\ worker'[w].open \subseteq worker[w].open \cup ({l} \ paused)
              /\ worker[w].pc = "reading"
<1>1. worker[w] \in Tasks
  BY DEF Typed
<1>2. ASSUME NEW p \in Pools, OpenPool(w, p), worker' # worker
      PROVE  Others(w) /\ worker' \in [Workers -> Tasks] /\ worker'[w].pc = "reading"
             /\ worker'[w].open = worker[w].open /\ worker[w].pc = "idle"
  <2> DEFINE t == [worker[w] EXCEPT !.pc = "reading", !.pool = p]
  <2>1. worker' = [worker EXCEPT ![w] = t] /\ worker[w].pc = "idle"
    BY <1>1, <1>2 DEF OpenPool, Typed
  <2>2. t \in Tasks /\ t.pc = "reading" /\ t.open = worker[w].open
    BY <1>1, <2>1 DEF Tasks, TaskRecord, TaskPcs, TaskOK
  <2> HIDE DEF t
  <2> QED
    BY <2>1, <2>2, MoveTask DEF Moved
<1>3. ASSUME NEW l \in Lanes, OpenLane(w, l)
      PROVE  Others(w) /\ worker' \in [Workers -> Tasks] /\ worker'[w].pc = "opened"
             /\ worker'[w].open = {l} /\ worker[w].pc = "idle"
  <2> DEFINE t == [worker[w] EXCEPT !.pc = "opened", !.open = {l}]
  <2>1. worker' = [worker EXCEPT ![w] = t] /\ worker[w].pc = "idle"
    BY <1>1, <1>3 DEF OpenLane, Typed
  <2>2. t \in Tasks /\ t.pc = "opened" /\ t.open = {l}
    BY <1>1, <2>1 DEF Tasks, TaskRecord, TaskPcs, TaskOK
  <2> HIDE DEF t
  <2> QED
    BY <2>1, <2>2, MoveTask DEF Moved
<1>4. ASSUME NEW l \in Lanes, ReadLane(w, l)
      PROVE  Others(w) /\ worker' \in [Workers -> Tasks] /\ worker'[w].pc = "reading"
             /\ worker'[w].open \subseteq worker[w].open \cup ({l} \ paused)
             /\ worker[w].pc = "reading"
  <2> DEFINE now == IF IsOpen(l) THEN worker[w].open \cup {l} ELSE worker[w].open
             t   == [worker[w] EXCEPT !.seen = @ \cup {l}, !.open = now]
  <2>1. worker' = [worker EXCEPT ![w] = t] /\ worker[w].pc = "reading"
    BY <1>1, <1>4 DEF ReadLane, Typed, Tasks, TaskRecord
  <2>2. now \subseteq worker[w].open \cup ({l} \ paused) /\ now \subseteq Lanes
    BY <1>1 DEF IsOpen, Tasks, TaskRecord
  <2> HIDE DEF now
  <2>3. t \in Tasks /\ t.pc = "reading" /\ t.open = now
    BY <1>1, <2>1, <2>2 DEF Tasks, TaskRecord, TaskPcs, TaskOK
  <2> HIDE DEF t
  <2> QED
    BY <2>1, <2>2, <2>3, MoveTask DEF Moved
<1> QED
  BY <1>2, <1>3, <1>4

-----------------------------------------------------------------------------
(* Claims. *)

(* A claim puts stale jobs back and may take a job that is not running     *)
(* then, in a lane the task has read as open.                              *)
Takes(w, back, j) ==
  /\ Runnable(PutBack(back)[j]) /\ LaneOf[j] \in worker[w].open
  /\ job' = [PutBack(back) EXCEPT ![j] = Row("running", "now")]
  /\ Strays(w, j)

Claims(w) ==
  /\ worker[w].pc \in {"reading", "opened"} /\ paused' = paused /\ events' = events
  /\ \E back \in SUBSET late :
       /\ late' = late \ back /\ reopened' = Reopening(back)
       /\ \/ job' = PutBack(back) /\ Moved(w, IdleTask) /\ strays' = strays
          \/ \E j \in Jobs, t \in Targets \cup {Nothing} :
               Takes(w, back, j) /\ Starts(w, j, t)

(* Without a lease: a job is taken only when none of its lane is running.  *)
LEMMA ClaimsInLane ==
  ASSUME Typed, NEW w \in Workers, ClaimInLane(w)
  PROVE  /\ Claims(w)
         /\ \/ Moved(w, IdleTask)
            \/ \E j \in Jobs : Starts(w, j, Nothing)
         /\ \/ \E back \in SUBSET late : job' = PutBack(back)
            \/ \E back \in SUBSET late, j \in Jobs :
                 /\ job' = [PutBack(back) EXCEPT ![j] = Row("running", "now")]
                 /\ LaneOf[j] \in worker[w].open
                 /\ LaneIdle(worker[w].open, PutBack(back))
<1> DEFINE back  == StaleJobs(worker[w].open)
           after == PutBack(back)
<1>1. /\ worker[w].pc = "opened" /\ late' = late \ back /\ reopened' = Reopening(back)
      /\ paused' = paused /\ events' = events /\ back \in SUBSET late
  BY DEF ClaimInLane, StaleJobs, controls
<1>2. CASE /\ job' = after /\ strays' = strays
           /\ worker' = [worker EXCEPT ![w] = IdleTask]
  <2>1. Moved(w, IdleTask)
    BY <1>2, MoveTask, IdleTyped
  <2> QED
    BY <1>1, <1>2, <2>1 DEF Claims
<1>3. ASSUME NEW j \in Jobs, LaneOf[j] \in worker[w].open, Runnable(after[j]),
             LaneIdle(worker[w].open, after), Strays(w, j),
             job' = [after EXCEPT ![j] = Row("running", "now")],
             worker' = [worker EXCEPT ![w] = [IdleTask EXCEPT !.pc = "working", !.job = j]]
      PROVE  /\ Claims(w) /\ Starts(w, j, Nothing)
             /\ \E b \in SUBSET late, k \in Jobs :
                  /\ job' = [PutBack(b) EXCEPT ![k] = Row("running", "now")]
                  /\ LaneOf[k] \in worker[w].open
                  /\ LaneIdle(worker[w].open, PutBack(b))
  <2>2. Starts(w, j, Nothing)
    BY <1>3, StartTask
  <2>3. Takes(w, back, j)
    BY <1>3 DEF Takes
  <2> HIDE DEF back
  <2> QED
    BY <1>1, <1>3, <2>2, <2>3 DEF Claims
<1> QED
  BY <1>1, <1>2, <1>3 DEF ClaimInLane

(* With a lease: the stale leases of the pool are recovered, and a job is  *)
(* taken only with a free target of a pool that has room.                  *)
LEMMA ClaimsWithLease ==
  ASSUME Typed, NEW w \in Workers, ClaimWithLease(w)
  PROVE  /\ Claims(w) /\ worker[w].pool \in Pools
         /\ RecoverLeases(worker[w].pool)
         /\ \/ /\ lease' = Kept(worker[w].pool) /\ Moved(w, IdleTask)
               /\ \E back \in SUBSET late : job' = PutBack(back)
            \/ \E back \in SUBSET late, j \in Jobs, t \in FreeTargets(worker[w].pool) :
                 /\ HasRoom(worker[w].pool) /\ LaneOf[j] \in Served(worker[w].pool)
                 /\ job' = [PutBack(back) EXCEPT ![j] = Row("running", "now")]
                 /\ lease' = [Kept(worker[w].pool) EXCEPT
                                ![t] = [pool |-> worker[w].pool, job |-> j, by |-> w]]
                 /\ Starts(w, j, t)
<1> DEFINE p     == worker[w].pool
           free  == FreeTargets(p)
           room  == HasRoom(p) /\ free # {}
           back  == IF room THEN StaleJobs(worker[w].open) ELSE {}
           after == PutBack(back)
           pick  == IF room THEN Candidates(w, after, free) ELSE {}
<1>1. /\ worker[w].pc = "reading" /\ p \in Pools /\ RecoverLeases(p)
      /\ late' = late \ back /\ reopened' = Reopening(back)
      /\ paused' = paused /\ events' = events /\ back \in SUBSET late
  BY DEF ClaimWithLease, StaleJobs, controls, Typed, QueueTypeOK, TaskOK
<1>2. CASE /\ job' = after /\ lease' = Kept(p) /\ strays' = strays
           /\ worker' = [worker EXCEPT ![w] = IdleTask]
  <2>1. Moved(w, IdleTask)
    BY <1>2, MoveTask, IdleTyped
  <2> HIDE DEF back
  <2> QED
    BY <1>1, <1>2, <2>1 DEF Claims
<1>3. ASSUME NEW j \in pick, NEW t \in EligibleTargets(p, j, free), Strays(w, j),
             job' = [after EXCEPT ![j] = Row("running", "now")],
             lease' = [Kept(p) EXCEPT ![t] = [pool |-> p, job |-> j, by |-> w]],
             worker' = [worker EXCEPT ![w] = [IdleTask EXCEPT
                          !.pc = "working", !.job = j, !.pool = p, !.target = t]]
      PROVE  /\ Claims(w)
             /\ \E b \in SUBSET late, k \in Jobs, u \in free :
                  /\ HasRoom(p) /\ LaneOf[k] \in Served(p)
                  /\ job' = [PutBack(b) EXCEPT ![k] = Row("running", "now")]
                  /\ lease' = [Kept(p) EXCEPT ![u] = [pool |-> p, job |-> k, by |-> w]]
                  /\ Starts(w, k, u)
  <2>1. room /\ j \in Candidates(w, after, free)
    BY <1>3
  <2>2. /\ j \in Jobs /\ LaneOf[j] \in worker[w].open /\ Runnable(after[j])
        /\ LaneOf[j] \in Served(p)
    <3> HIDE DEF after, free
    <3> QED
      BY <2>1 DEF Candidates, Served
  <2>3. t \in free /\ t \in Targets
    <3>1. TargetsOf[p] \subseteq Targets
      BY <1>1, OneShotAssumption
    <3> QED
      BY <3>1 DEF EligibleTargets, FreeTargets
  <2>4. Starts(w, j, t)
    BY <1>1, <1>3, <2>2, <2>3, StartTask
  <2>5. Takes(w, back, j)
    BY <1>3, <2>2 DEF Takes
  <2> HIDE DEF back, free, p
  <2> QED
    BY <1>1, <1>3, <2>1, <2>2, <2>3, <2>4, <2>5 DEF Claims
<1>4. \/ /\ job' = after /\ lease' = Kept(p) /\ strays' = strays
         /\ worker' = [worker EXCEPT ![w] = IdleTask]
      \/ \E j \in pick : \E t \in EligibleTargets(p, j, free) :
           /\ job' = [after EXCEPT ![j] = Row("running", "now")]
           /\ lease' = [Kept(p) EXCEPT ![t] = [pool |-> p, job |-> j, by |-> w]]
           /\ worker' = [worker EXCEPT ![w] = [IdleTask EXCEPT
                            !.pc = "working", !.job = j, !.pool = p, !.target = t]]
           /\ Strays(w, j)
  BY DEF ClaimWithLease
<1>5. back \in SUBSET late
  BY <1>1
<1> HIDE DEF back, pick, free
<1>6. ASSUME NEW j \in pick, NEW t \in EligibleTargets(p, j, free), Strays(w, j),
             job' = [after EXCEPT ![j] = Row("running", "now")],
             lease' = [Kept(p) EXCEPT ![t] = [pool |-> p, job |-> j, by |-> w]],
             worker' = [worker EXCEPT ![w] = [IdleTask EXCEPT
                          !.pc = "working", !.job = j, !.pool = p, !.target = t]]
      PROVE  /\ Claims(w)
             /\ \E b \in SUBSET late, k \in Jobs, u \in FreeTargets(p) :
                  /\ HasRoom(p) /\ LaneOf[k] \in Served(p)
                  /\ job' = [PutBack(b) EXCEPT ![k] = Row("running", "now")]
                  /\ lease' = [Kept(p) EXCEPT ![u] = [pool |-> p, job |-> k, by |-> w]]
                  /\ Starts(w, k, u)
  BY <1>3, <1>6 DEF free
<1> HIDE DEF after
<1> QED
  BY <1>1, <1>2, <1>4, <1>6

-----------------------------------------------------------------------------
(* What the other steps make of the rows. *)

(* The pieces of QueueTypeOK. *)
RowsTyped     == job \in [Jobs -> RowSet] /\ late \subseteq {j \in Jobs : job[j].st = "running"}
LeasesTyped   == /\ lease \in [Targets -> LeaseRow \cup {Nothing}]
                 /\ lateLease \subseteq {t \in Targets : lease[t] # Nothing}
ControlsTyped == paused \subseteq Lanes /\ sweeping \subseteq Lanes
HistoryTyped  == /\ reopened \subseteq Jobs /\ lapsed \subseteq Workers
                 /\ strays \subseteq Workers \X paused

(* Typed is the conjunction of its pieces.                                 *)
LEMMA TypedParts ==
  /\ Typed => /\ RowsTyped /\ LeasesTyped /\ ControlsTyped /\ HistoryTyped
              /\ worker \in [Workers -> Tasks] /\ events \in 0..MaxEvents
  /\ RowsTyped /\ LeasesTyped /\ ControlsTyped /\ HistoryTyped
       /\ worker \in [Workers -> Tasks] /\ events \in 0..MaxEvents => Typed
<1>1. worker \in [Workers -> Tasks] => DOMAIN worker = Workers /\ \A w \in Workers : TaskOK(worker[w])
  BY DEF Tasks
<1> QED
  BY <1>1 DEF Typed, QueueTypeOK, RowsTyped, LeasesTyped, ControlsTyped, HistoryTyped, RowSet, LeaseRow

(* The rows that are written are rows.                                     *)
LEMMA RowTyped ==
  ASSUME NEW st \in Statuses, NEW when \in Times
  PROVE  Row(st, when) \in RowSet /\ Row(st, when).st = st /\ Row(st, when).when = when
BY DEF Row, RowSet

(* The rows after some are put back.                                       *)
LEMMA PutBackRows ==
  ASSUME Typed, NEW js \in SUBSET Jobs
  PROVE  /\ PutBack(js) \in [Jobs -> RowSet]
         /\ \A j \in Jobs : PutBack(js)[j] = IF j \in js THEN Row("paused", "now") ELSE job[j]
         /\ Row("paused", "now").st = "paused"
BY TypedParts, RowTyped DEF PutBack, RowsTyped, Statuses, Times

(* A job that is taken was not running, or was put back by the same claim. *)
LEMMA TakenRows ==
  ASSUME Typed, NEW back \in SUBSET late, NEW j \in Jobs,
         job' = [PutBack(back) EXCEPT ![j] = Row("running", "now")]
  PROVE  /\ job' \in [Jobs -> RowSet] /\ job'[j].st = "running"
         /\ \A k \in Jobs \ {j} : job'[k] = PutBack(back)[k]
<1>1. back \in SUBSET Jobs /\ "running" \in Statuses /\ "now" \in Times
  BY TypedParts DEF RowsTyped, Statuses, Times
<1>2. Row("running", "now") \in RowSet /\ Row("running", "now").st = "running"
  BY <1>1, RowTyped
<1>3. PutBack(back) \in [Jobs -> RowSet]
  BY <1>1, PutBackRows
<1> QED
  BY <1>2, <1>3

(* A handler or the catch block settles the job of its own task.           *)
IdleRows == {row \in RowSet : row.st # "running"}

Settles(w) ==
  /\ w \in OnJob(worker[w].job) /\ worker[w].job \in Jobs
  /\ \E row \in IdleRows : Settle(w, row)
  /\ Others(w) /\ worker' \in [Workers -> Tasks] /\ events' = events
  /\ \/ /\ worker[w].pc \in {"caught", "pausing"}
        /\ worker'[w].pc = "idle" /\ reopened' = reopened \ Left(w)
        /\ \/ job'[worker[w].job].st = job[worker[w].job].st
           \/ job[worker[w].job].st \notin {"completed", "failed"}
           \/ worker[w].pc = "caught" /\ job'[worker[w].job].st \in {"completed", "failed"}
     \/ /\ worker[w].pc = "working" /\ worker'[w].pc = "written"
        /\ worker'[w].job = worker[w].job
        /\ \/ reopened' = reopened /\ job'[worker[w].job].st \in {"completed", "failed"}
           \/ reopened' = reopened \cup {worker[w].job}

(* The handler's statements and the catch block's all settle.              *)
LEMMA SettlesJob ==
  ASSUME Typed, NEW w \in Workers,
         Handle(w) \/ PauseAborted(w) \/ CatchUnavailable(w) \/ CatchFinal(w)
  PROVE  Settles(w)
<1>1. /\ worker[w].pc \in {"working", "caught", "pausing"}
      /\ worker[w].job \in Jobs /\ w \in OnJob(worker[w].job)
  BY DEF Handle, PauseAborted, CatchUnavailable, CatchFinal, Typed, Tasks, TaskOK, OnJob
<1>2. job[worker[w].job] \in RowSet /\ job \in [Jobs -> RowSet]
  BY <1>1, TypedParts DEF RowsTyped
<1>3. \A st \in {"completed", "failed", "pending", "paused"}, when \in Times :
        Row(st, when) \in IdleRows /\ Row(st, when).st = st
  BY RowTyped DEF Statuses, IdleRows
<1>4. "now" \in Times /\ "later" \in Times /\ "never" \in Times
  BY DEF Times
<1>5. ASSUME NEW row, Settle(w, row) PROVE job'[worker[w].job] = row
  BY <1>1, <1>2, <1>5 DEF Settle
<1>6. CASE Handle(w)
  <2>1. /\ Others(w) /\ worker' \in [Workers -> Tasks] /\ worker'[w].pc = "written"
        /\ worker'[w].job = worker[w].job /\ worker[w].pc = "working"
    BY <1>6, TaskStays DEF Stays
  <2>2. \/ /\ Settle(w, Row("completed", "now")) \/ Settle(w, Row("failed", "now"))
           /\ reopened' = reopened
        \/ /\ Settle(w, Row("pending", "later"))
           /\ reopened' = reopened \cup {worker[w].job}
    BY <1>1, <1>6 DEF Handle, Reopening
  <2>3. \E row \in IdleRows : Settle(w, row)
    BY <1>3, <1>4, <2>2
  <2>4. \/ reopened' = reopened /\ job'[worker[w].job].st \in {"completed", "failed"}
        \/ reopened' = reopened \cup {worker[w].job}
    BY <1>3, <1>4, <1>5, <2>2
  <2>5. events' = events
    BY <1>6 DEF Handle
  <2> QED
    BY <1>1, <2>1, <2>3, <2>4, <2>5 DEF Settles
<1>7. ASSUME Leave(w), events' = events, worker[w].pc \in {"caught", "pausing"},
             NEW row \in IdleRows, Settle(w, row),
             \/ row.st = job[worker[w].job].st
             \/ job[worker[w].job].st \notin {"completed", "failed"}
             \/ worker[w].pc = "caught" /\ row.st \in {"completed", "failed"}
      PROVE  Settles(w)
  <2>1. Others(w) /\ worker' \in [Workers -> Tasks] /\ worker'[w].pc = "idle"
    BY <1>7, TaskLeaves, IdleTyped DEF Moved
  <2>2. reopened' = reopened \ Left(w)
    BY <1>7 DEF Leave
  <2>3. job'[worker[w].job] = row
    BY <1>5, <1>7
  <2> QED
    BY <1>1, <1>7, <2>1, <2>2, <2>3 DEF Settles
<1>8. CASE PauseAborted(w)
  <2>1. /\ PausedRow(job[worker[w].job]) \in IdleRows
        /\ \/ PausedRow(job[worker[w].job]) = job[worker[w].job]
           \/ job[worker[w].job].st \notin {"completed", "failed"}
    BY <1>2, <1>3, <1>4 DEF PausedRow, IdleRows
  <2> QED
    BY <1>7, <1>8, <2>1 DEF PauseAborted
<1>9. CASE CatchUnavailable(w)
  <2>1. /\ WaitingRow(job[worker[w].job]) \in IdleRows
        /\ \/ WaitingRow(job[worker[w].job]) = job[worker[w].job]
           \/ job[worker[w].job].st \notin {"completed", "failed"}
    BY <1>2, <1>3, <1>4 DEF WaitingRow, IdleRows
  <2> QED
    BY <1>7, <1>9, <2>1 DEF CatchUnavailable
<1>10. CASE CatchFinal(w)
  BY <1>3, <1>4, <1>7, <1>10 DEF CatchFinal
<1> QED
  BY <1>6, <1>8, <1>9, <1>10

(* Settling writes one row.                                                *)
LEMMA SettledRows ==
  ASSUME Typed, NEW w \in Workers, NEW row \in RowSet, worker[w].job \in Jobs, Settle(w, row)
  PROVE  /\ RowsTyped' /\ job'[worker[w].job] = row
         /\ \A k \in Jobs \ {worker[w].job} : job'[k] = job[k]
<1>1. /\ job' \in [Jobs -> RowSet] /\ job'[worker[w].job] = row
      /\ \A k \in Jobs \ {worker[w].job} : job'[k] = job[k]
  BY TypedParts DEF Settle, RowsTyped
<1> QED
  BY <1>1, TypedParts DEF Settle, RowsTyped

(* A command of the operator writes one row.                               *)
Commands(j) == \E row \in IdleRows : Command(j, row)

(* The operator's commands write rows that are not running.                *)
LEMMA OperatorCommands ==
  ASSUME Typed, NEW j \in Jobs, Enqueue(j) \/ PauseJob(j) \/ ResumeJob(j) \/ RetryJob(j)
  PROVE  Commands(j)
<1>1. Row("pending", "now") \in IdleRows /\ Row("paused", "never") \in IdleRows
  BY RowTyped DEF Statuses, Times, IdleRows
<1>2. PausedRow(job[j]) \in IdleRows
  BY <1>1, TypedParts DEF PausedRow, RowsTyped, IdleRows
<1> QED
  BY <1>1, <1>2 DEF Enqueue, PauseJob, ResumeJob, RetryJob, Commands

-----------------------------------------------------------------------------
(* Type correctness. *)

(* The steps of a task, and those of the operator and of time.             *)
TaskNext ==
  \E w \in Workers : \/ \E p \in Pools : OpenPool(w, p)
                     \/ \E l \in Lanes : OpenLane(w, l)
                     \/ WorkerStep(w) \/ Beat(w) \/ Crash(w)
OtherNext ==
  \/ \E j \in Jobs : Commands(j) \/ AgeJob(j) \/ Due(j)
  \/ \E l \in Lanes : PauseLane(l) \/ SweepLane(l) \/ ResumeLane(l)
  \/ \E t \in Targets : AgeLease(t)

(* Every step is one of a task, of the operator or of time.                *)
LEMMA NextSplits ==
  ASSUME Typed, Next
  PROVE  TaskNext \/ OtherNext
BY OperatorCommands DEF Next, TaskNext, OtherNext

(* Each step of a task keeps the tasks, whatever else it does.             *)
LEMMA TasksKept ==
  ASSUME Typed, TaskNext
  PROVE  worker' \in [Workers -> Tasks]
<1> SUFFICES ASSUME NEW w \in Workers,
                    \/ \E p \in Pools : OpenPool(w, p)
                    \/ \E l \in Lanes : OpenLane(w, l)
                    \/ WorkerStep(w) \/ Beat(w) \/ Crash(w)
             PROVE  worker' \in [Workers -> Tasks]
  BY DEF TaskNext
<1>1. worker \in [Workers -> Tasks]
  BY TypedParts
<1>2. CASE \/ \E p \in Pools : OpenPool(w, p)
           \/ \E l \in Lanes : OpenLane(w, l) \/ ReadLane(w, l)
  BY <1>1, <1>2, TaskOpens
<1>3. CASE ClaimWithLease(w) \/ ClaimInLane(w)
  BY <1>3, ClaimsWithLease, ClaimsInLane DEF Moved, Starts
<1>4. CASE Handle(w) \/ PauseAborted(w) \/ CatchUnavailable(w) \/ CatchFinal(w)
  BY <1>4, SettlesJob DEF Settles
<1>5. CASE (\E e \in Errors : Throw(w, e) \/ LoseEvent(w, e)) \/ CatchAbort(w)
  BY <1>5, TaskStays DEF Stays
<1>6. CASE Release(w)
  BY <1>6, TaskReleases DEF Moved
<1>7. CASE Crash(w)
  BY <1>7, TaskLeaves DEF Crash, Moved
<1>8. CASE Beat(w)
  BY <1>1, <1>8 DEF Beat
<1> QED
  BY <1>2, <1>3, <1>4, <1>5, <1>6, <1>7, <1>8 DEF WorkerStep

(* The rows stay rows, and only running ones are late.                     *)
LEMMA RowsKept ==
  ASSUME Typed, TaskNext \/ OtherNext
  PROVE  RowsTyped'
<1>0. RowsTyped
  BY TypedParts
<1>1. CASE UNCHANGED rows
  BY <1>0, <1>1 DEF rows, RowsTyped
<1>2. ASSUME NEW w \in Workers, Claims(w) PROVE RowsTyped'
  <2>1. PICK back \in SUBSET late :
          /\ late' = late \ back
          /\ \/ job' = PutBack(back)
             \/ \E j \in Jobs : job' = [PutBack(back) EXCEPT ![j] = Row("running", "now")]
    BY <1>2 DEF Claims, Takes
  <2>2. back \in SUBSET Jobs
    BY <1>0 DEF RowsTyped
  <2>3. CASE job' = PutBack(back)
    BY <1>0, <2>1, <2>2, <2>3, PutBackRows DEF RowsTyped
  <2>4. ASSUME NEW j \in Jobs, job' = [PutBack(back) EXCEPT ![j] = Row("running", "now")]
        PROVE  RowsTyped'
    <3>1. /\ job' \in [Jobs -> RowSet] /\ job'[j].st = "running"
          /\ \A k \in Jobs \ {j} : job'[k] = PutBack(back)[k]
      BY <2>4, TakenRows
    <3>2. \A k \in late \ back : job'[k].st = "running"
      BY <1>0, <2>2, <3>1, PutBackRows DEF RowsTyped
    <3> QED
      BY <1>0, <2>1, <3>1, <3>2 DEF RowsTyped
  <2> QED
    BY <2>1, <2>3, <2>4
<1>3. ASSUME NEW w \in Workers, Settles(w) PROVE RowsTyped'
  BY <1>3, SettledRows DEF Settles, IdleRows
<1>4. ASSUME NEW w \in Workers, Beat(w) PROVE RowsTyped'
  BY <1>0, <1>4 DEF Beat, RowsTyped
<1>5. ASSUME NEW j \in Jobs, Commands(j) PROVE RowsTyped'
  BY <1>0, <1>5 DEF Commands, Command, RowsTyped, IdleRows
<1>6. ASSUME NEW j \in Jobs, AgeJob(j) PROVE RowsTyped'
  BY <1>0, <1>6 DEF AgeJob, RowsTyped
<1>7. ASSUME NEW j \in Jobs, Due(j) PROVE RowsTyped'
  <2>1. "now" \in Times
    BY DEF Times
  <2>2. [job[j] EXCEPT !.when = "now"] \in RowSet /\ [job[j] EXCEPT !.when = "now"].st = job[j].st
    BY <1>0, <2>1 DEF RowsTyped, RowSet
  <2>3. job' = [job EXCEPT ![j] = [job[j] EXCEPT !.when = "now"]] /\ late' = late
    BY <1>7 DEF Due
  <2> QED
    BY <1>0, <2>2, <2>3 DEF RowsTyped
<1>8. ASSUME NEW l \in Lanes, SweepLane(l) PROVE RowsTyped'
  <2> DEFINE hit == {j \in Jobs : LaneOf[j] = l /\ job[j].st = "running"}
  <2>1. job' = PutBack(hit) /\ late' = late \ hit /\ hit \in SUBSET Jobs
    BY <1>8 DEF SweepLane
  <2> HIDE DEF hit
  <2> QED
    BY <1>0, <2>1, PutBackRows DEF RowsTyped
<1>9. ASSUME TaskNext PROVE RowsTyped'
  <2>1. ASSUME NEW w \in Workers, ClaimWithLease(w) \/ ClaimInLane(w) PROVE RowsTyped'
    BY <1>2, <2>1, ClaimsWithLease, ClaimsInLane
  <2>2. ASSUME NEW w \in Workers,
               Handle(w) \/ PauseAborted(w) \/ CatchUnavailable(w) \/ CatchFinal(w)
        PROVE  RowsTyped'
    BY <1>3, <2>2, SettlesJob
  <2> QED
    BY <1>1, <1>4, <1>9, <2>1, <2>2 DEF TaskNext, WorkerStep, OpenPool, OpenLane, ReadLane, Throw,
         LoseEvent, Release, CatchAbort, Crash
<1> QED
  BY <1>1, <1>5, <1>6, <1>7, <1>8, <1>9 DEF OtherNext, PauseLane, ResumeLane, AgeLease

(* What the recovery keeps of the leases.                                  *)
LEMMA KeptLeases ==
  ASSUME Typed, NEW p
  PROVE  /\ Kept(p) \in [Targets -> LeaseRow \cup {Nothing}]
         /\ lateLease \ StaleLeases(p) \subseteq {t \in Targets : Kept(p)[t] # Nothing}
         /\ StaleLeases(p) \subseteq Targets
         /\ \A t \in Targets : Kept(p)[t] = IF t \in StaleLeases(p) THEN Nothing ELSE lease[t]
BY TypedParts DEF LeasesTyped, Kept, StaleLeases

(* A lease row is not the absence of one.                                  *)
LEMMA NewLease ==
  ASSUME NEW p \in Pools, NEW j \in Jobs, NEW w \in Workers
  PROVE  /\ [pool |-> p, job |-> j, by |-> w] \in LeaseRow
         /\ [pool |-> p, job |-> j, by |-> w] # Nothing
BY OneShotAssumption DEF LeaseRow

(* The leases stay leases, and only active ones are late.                  *)
LEMMA LeasesKept ==
  ASSUME Typed, TaskNext \/ OtherNext
  PROVE  LeasesTyped'
<1>0. LeasesTyped
  BY TypedParts
<1>1. CASE UNCHANGED leases
  BY <1>0, <1>1 DEF leases, LeasesTyped
<1>2. ASSUME NEW w \in Workers, NEW p \in Pools, OpenPool(w, p) PROVE LeasesTyped'
  <2>1. lease' = Kept(p) /\ lateLease' = lateLease \ StaleLeases(p)
    BY <1>2 DEF OpenPool, RecoverLeases
  <2> QED
    BY <2>1, KeptLeases DEF LeasesTyped
<1>3. ASSUME NEW w \in Workers, ClaimWithLease(w) PROVE LeasesTyped'
  <2> DEFINE p == worker[w].pool
  <2>1. p \in Pools /\ lateLease' = lateLease \ StaleLeases(p)
    BY <1>3, ClaimsWithLease DEF RecoverLeases
  <2>2. CASE lease' = Kept(p)
    BY <2>1, <2>2, KeptLeases DEF LeasesTyped
  <2>3. ASSUME NEW j \in Jobs, NEW t \in FreeTargets(p),
               lease' = [Kept(p) EXCEPT ![t] = [pool |-> p, job |-> j, by |-> w]]
        PROVE  LeasesTyped'
    <3> HIDE DEF p
    <3>1. /\ Kept(p) \in [Targets -> LeaseRow \cup {Nothing}]
          /\ lateLease' \subseteq {x \in Targets : Kept(p)[x] # Nothing}
      BY <2>1, KeptLeases
    <3>2. /\ [pool |-> p, job |-> j, by |-> w] \in LeaseRow
          /\ [pool |-> p, job |-> j, by |-> w] # Nothing
      BY <2>1, NewLease
    <3> QED
      BY <2>3, <3>1, <3>2 DEF LeasesTyped
  <2> QED
    BY <1>3, <2>2, <2>3, ClaimsWithLease
<1>4. ASSUME NEW w \in Workers, Release(w) PROVE LeasesTyped'
  <2> DEFINE mine == {worker[w].target} \ (IF w \in lapsed THEN Targets ELSE {})
  <2>1. /\ lease' = [t \in Targets |-> IF t \in mine THEN Nothing ELSE lease[t]]
        /\ lateLease' = lateLease \ mine
    BY <1>4 DEF Release
  <2> HIDE DEF mine
  <2> QED
    BY <1>0, <2>1 DEF LeasesTyped
<1>5. ASSUME NEW w \in Workers, Beat(w) PROVE LeasesTyped'
  BY <1>0, <1>5 DEF Beat, LeasesTyped
<1>6. ASSUME NEW t \in Targets, AgeLease(t) PROVE LeasesTyped'
  BY <1>0, <1>6 DEF AgeLease, LeasesTyped
<1> QED
  BY <1>1, <1>2, <1>3, <1>4, <1>5, <1>6 DEF TaskNext, OtherNext, WorkerStep, OpenLane, ReadLane,
       ClaimInLane, Handle, Throw, LoseEvent, CatchAbort, PauseAborted, CatchUnavailable, CatchFinal, Crash,
       Commands, Command, AgeJob, Due, PauseLane, SweepLane, ResumeLane

(* The control row, the histories and the bound keep their types.          *)
LEMMA HistoryKept ==
  ASSUME Typed, TaskNext \/ OtherNext
  PROVE  ControlsTyped' /\ HistoryTyped' /\ events' \in 0..MaxEvents
<1>0. ControlsTyped /\ HistoryTyped /\ events \in 0..MaxEvents /\ RowsTyped
  BY TypedParts
<1>1. Event => events' \in 0..MaxEvents
  BY <1>0, OneShotAssumption DEF Event
<1>2. \A js \in SUBSET Jobs : Reopening(js) \subseteq Jobs
  BY <1>0 DEF Reopening, HistoryTyped
<1>3. ASSUME NEW w \in Workers, Claims(w), sweeping' = sweeping, lapsed' \subseteq Workers
      PROVE  ControlsTyped' /\ HistoryTyped' /\ events' \in 0..MaxEvents
  <2>1. reopened' \subseteq Jobs
    BY <1>0, <1>2, <1>3 DEF Claims, RowsTyped
  <2>2. strays' \subseteq Workers \X paused'
    BY <1>0, <1>3 DEF Claims, Takes, Strays, HistoryTyped
  <2> QED
    BY <1>0, <1>3, <2>1, <2>2 DEF Claims, ControlsTyped, HistoryTyped
<1>4. ASSUME NEW w \in Workers, ClaimWithLease(w) \/ ClaimInLane(w)
      PROVE  ControlsTyped' /\ HistoryTyped' /\ events' \in 0..MaxEvents
  <2>1. Claims(w)
    BY <1>4, ClaimsWithLease, ClaimsInLane
  <2>2. sweeping' = sweeping
    BY <1>4 DEF ClaimWithLease, ClaimInLane, controls
  <2>3. lapsed' \subseteq Workers
    BY <1>0, <1>4 DEF ClaimWithLease, ClaimInLane, RecoverLeases, HistoryTyped
  <2> QED
    BY <1>3, <2>1, <2>2, <2>3
<1>5. ASSUME UNCHANGED controls, UNCHANGED strays, lapsed' \subseteq Workers,
             reopened' \subseteq Jobs, events' = events \/ Event
      PROVE  ControlsTyped' /\ HistoryTyped' /\ events' \in 0..MaxEvents
  BY <1>0, <1>1, <1>5 DEF controls, ControlsTyped, HistoryTyped
<1>6. ASSUME TaskNext
      PROVE  ControlsTyped' /\ HistoryTyped' /\ events' \in 0..MaxEvents
  <2>1. ASSUME NEW w \in Workers, Leave(w)
        PROVE  lapsed' \subseteq Workers /\ reopened' \subseteq Jobs
    BY <1>0, <2>1 DEF Leave, HistoryTyped
  <2>2. ASSUME NEW w \in Workers, NEW p \in Pools, OpenPool(w, p)
        PROVE  ControlsTyped' /\ HistoryTyped' /\ events' \in 0..MaxEvents
    BY <1>0, <1>5, <2>2 DEF OpenPool, RecoverLeases, HistoryTyped
  <2>3. ASSUME NEW w \in Workers, Release(w)
        PROVE  ControlsTyped' /\ HistoryTyped' /\ events' \in 0..MaxEvents
    <3>1. UNCHANGED controls /\ UNCHANGED strays /\ events' = events
      BY <2>3 DEF Release
    <3>2. lapsed' \subseteq Workers /\ reopened' \subseteq Jobs
      BY <1>0, <2>1, <2>3, TaskReleases DEF HistoryTyped
    <3> QED
      BY <1>5, <3>1, <3>2
  <2>4. ASSUME NEW w \in Workers,
               PauseAborted(w) \/ CatchUnavailable(w) \/ CatchFinal(w) \/ Crash(w)
        PROVE  ControlsTyped' /\ HistoryTyped' /\ events' \in 0..MaxEvents
    <3>1. Leave(w) /\ UNCHANGED controls /\ UNCHANGED strays /\ (events' = events \/ Event)
      BY <2>4 DEF PauseAborted, CatchUnavailable, CatchFinal, Crash
    <3> QED
      BY <1>5, <2>1, <3>1
  <2>5. ASSUME NEW w \in Workers, Handle(w)
        PROVE  ControlsTyped' /\ HistoryTyped' /\ events' \in 0..MaxEvents
    <3>1. UNCHANGED controls /\ UNCHANGED strays /\ lapsed' = lapsed /\ events' = events
      BY <2>5 DEF Handle
    <3>2. reopened' \subseteq Jobs
      BY <1>0, <2>5, SettlesJob DEF Settles, HistoryTyped
    <3> QED
      BY <1>0, <1>5, <3>1, <3>2 DEF HistoryTyped
  <2>6. ASSUME UNCHANGED <<controls, history>>, events' = events \/ Event
        PROVE  ControlsTyped' /\ HistoryTyped' /\ events' \in 0..MaxEvents
    BY <1>0, <1>5, <2>6 DEF history, HistoryTyped
  <2> QED
    BY <1>4, <1>6, <2>2, <2>3, <2>4, <2>5, <2>6 DEF TaskNext, WorkerStep, OpenLane, ReadLane, Beat,
         Throw, LoseEvent, Event, CatchAbort
<1>7. ASSUME OtherNext
      PROVE  ControlsTyped' /\ HistoryTyped' /\ events' \in 0..MaxEvents
  <2>1. ASSUME NEW j \in Jobs, Commands(j) \/ AgeJob(j) \/ Due(j)
        PROVE  ControlsTyped' /\ HistoryTyped' /\ events' \in 0..MaxEvents
    <3>1. reopened' \subseteq Jobs /\ lapsed' = lapsed /\ UNCHANGED controls /\ UNCHANGED strays
          /\ (events' = events \/ Event)
      BY <1>0, <1>2, <2>1 DEF Commands, Command, AgeJob, Due, history, HistoryTyped
    <3> QED
      BY <1>0, <1>5, <3>1 DEF HistoryTyped
  <2>2. ASSUME NEW l \in Lanes, PauseLane(l)
        PROVE  ControlsTyped' /\ HistoryTyped' /\ events' \in 0..MaxEvents
    BY <1>0, <1>1, <2>2 DEF PauseLane, history, ControlsTyped, HistoryTyped
  <2>3. ASSUME NEW l \in Lanes, SweepLane(l)
        PROVE  ControlsTyped' /\ HistoryTyped' /\ events' \in 0..MaxEvents
    BY <1>0, <1>2, <2>3 DEF SweepLane, ControlsTyped, HistoryTyped
  <2>4. ASSUME NEW l \in Lanes, ResumeLane(l)
        PROVE  ControlsTyped' /\ HistoryTyped' /\ events' \in 0..MaxEvents
    BY <1>0, <1>1, <2>4 DEF ResumeLane, ControlsTyped, HistoryTyped
  <2>5. ASSUME NEW t \in Targets, AgeLease(t)
        PROVE  ControlsTyped' /\ HistoryTyped' /\ events' \in 0..MaxEvents
    BY <1>0, <1>5, <2>5 DEF AgeLease, history, HistoryTyped
  <2> QED
    BY <1>7, <2>1, <2>2, <2>3, <2>4, <2>5 DEF OtherNext
<1> QED
  BY <1>6, <1>7

(* The types hold initially.                                               *)
LEMMA TypedInit == Init => Typed
<1> SUFFICES ASSUME Init PROVE Typed
  OBVIOUS
<1>1. Row("absent", "never") \in RowSet /\ Row("pending", "now") \in RowSet
  BY RowTyped DEF Statuses, Times
<1>2. RowsTyped /\ LeasesTyped /\ ControlsTyped /\ HistoryTyped
  BY <1>1 DEF Init, RowsTyped, LeasesTyped, ControlsTyped, HistoryTyped
<1>3. worker \in [Workers -> Tasks] /\ events \in 0..MaxEvents
  BY IdleTyped, OneShotAssumption DEF Init
<1> QED
  BY <1>2, <1>3, TypedParts

(* Every step keeps them.                                                  *)
LEMMA TypedStep ==
  ASSUME Typed, TaskNext \/ OtherNext
  PROVE  Typed'
<1>1. worker' \in [Workers -> Tasks]
  <2>1. CASE TaskNext
    BY <2>1, TasksKept
  <2>2. CASE OtherNext
    BY <2>2, TypedParts DEF OtherNext, Commands, Command, AgeJob, Due, PauseLane, SweepLane,
         ResumeLane, AgeLease
  <2> QED
    BY <2>1, <2>2
<1>2. RowsTyped' /\ LeasesTyped'
  BY RowsKept, LeasesKept
<1>3. ControlsTyped' /\ HistoryTyped' /\ events' \in 0..MaxEvents
  BY HistoryKept
<1>4. DOMAIN worker' = Workers /\ \A w \in Workers : TaskOK(worker'[w])
  BY <1>1 DEF Tasks
<1> QED
  BY <1>1, <1>2, <1>3, <1>4 DEF Typed, QueueTypeOK, RowsTyped, LeasesTyped, ControlsTyped,
       HistoryTyped, RowSet, LeaseRow, TaskOK

(* So does a step that changes nothing.                                    *)
LEMMA TypedStutter ==
  ASSUME Typed, UNCHANGED vars
  PROVE  Typed'
BY DEF Typed, QueueTypeOK, vars, rows, leases, controls, history, TaskOK

(* The state stays within its types.                                       *)
LEMMA TypedAlways == Spec => []Typed
<1>1. Typed /\ [Next]_vars => Typed'
  BY NextSplits, TypedStep, TypedStutter
<1> QED
  BY <1>1, TypedInit, PTL DEF Spec

(* The queue's type invariant: the rows, the leases and the tasks keep     *)
(* their types, only running rows are marked late, and only active leases. *)
THEOREM QueueTypesCorrect == Spec => []QueueTypeOK
<1>1. Typed => QueueTypeOK
  BY DEF Typed
<1> QED
  BY <1>1, TypedAlways, PTL

-----------------------------------------------------------------------------
(* Lanes that no pool serves. *)

(* Only a claim makes a job running.                                       *)
NoneStarts == \A j \in Jobs : job'[j].st = "running" => job[j].st = "running"

(* No step but a claim makes a job running.                                *)
LEMMA NoneStartsStep ==
  ASSUME Typed, TaskNext \/ OtherNext,
         \A w \in Workers : ~ClaimWithLease(w) /\ ~ClaimInLane(w)
  PROVE  NoneStarts
<1>0. job \in [Jobs -> RowSet]
  BY TypedParts DEF RowsTyped
<1>1. CASE job' = job
  BY <1>1 DEF NoneStarts
<1>2. ASSUME NEW w \in Workers, Settles(w) PROVE NoneStarts
  BY <1>2, SettledRows DEF Settles, IdleRows, NoneStarts
<1>3. ASSUME NEW j \in Jobs, Commands(j) PROVE NoneStarts
  BY <1>0, <1>3 DEF Commands, Command, IdleRows, NoneStarts
<1>4. ASSUME NEW j \in Jobs, Due(j) PROVE NoneStarts
  <2>1. [job[j] EXCEPT !.when = "now"].st = job[j].st
    BY <1>0 DEF RowSet
  <2>2. job' = [job EXCEPT ![j] = [job[j] EXCEPT !.when = "now"]]
    BY <1>4 DEF Due
  <2> QED
    BY <1>0, <2>1, <2>2 DEF NoneStarts
<1>5. ASSUME NEW l \in Lanes, SweepLane(l) PROVE NoneStarts
  <2> DEFINE hit == {j \in Jobs : LaneOf[j] = l /\ job[j].st = "running"}
  <2>1. job' = PutBack(hit) /\ hit \in SUBSET Jobs
    BY <1>5 DEF SweepLane
  <2> HIDE DEF hit
  <2> QED
    BY <2>1, PutBackRows DEF NoneStarts
<1>6. CASE OtherNext
  BY <1>1, <1>3, <1>4, <1>5, <1>6 DEF OtherNext, AgeJob, PauseLane, ResumeLane, AgeLease, rows
<1>7. CASE TaskNext
  <2>1. ASSUME NEW w \in Workers,
               Handle(w) \/ PauseAborted(w) \/ CatchUnavailable(w) \/ CatchFinal(w)
        PROVE  NoneStarts
    BY <1>2, <2>1, SettlesJob
  <2> QED
    BY <1>1, <1>7, <2>1 DEF TaskNext, WorkerStep, OpenPool, OpenLane, ReadLane, Beat, Throw, LoseEvent,
         Release, CatchAbort, Crash, rows
<1> QED
  BY <1>6, <1>7

(* What a claim puts back is not running afterwards.                       *)
LEMMA PutBackStops ==
  ASSUME Typed, NEW back \in SUBSET late, NEW k \in Jobs, PutBack(back)[k].st = "running"
  PROVE  job[k].st = "running"
<1>1. back \in SUBSET Jobs
  BY TypedParts DEF RowsTyped
<1> QED
  BY <1>1, PutBackRows

(* A claim makes one job running, of a pool's lane or of an idle lane.     *)
LEMMA OneRunningStep ==
  ASSUME Typed, OneRunningPerLane, TaskNext \/ OtherNext
  PROVE  OneRunningPerLane'
<1>1. ASSUME NoneStarts PROVE OneRunningPerLane'
  BY <1>1 DEF NoneStarts, OneRunningPerLane, Unpooled, Served
<1>2. ASSUME NEW back \in SUBSET late, job' = PutBack(back) PROVE NoneStarts
  BY <1>2, PutBackStops DEF NoneStarts
<1>3. ASSUME NEW w \in Workers, ClaimWithLease(w) PROVE OneRunningPerLane'
  <2>1. ASSUME NEW back \in SUBSET late, NEW j \in Jobs, LaneOf[j] \in Served(worker[w].pool),
               worker[w].pool \in Pools,
               job' = [PutBack(back) EXCEPT ![j] = Row("running", "now")]
        PROVE  OneRunningPerLane'
    <3>1. LaneOf[j] \notin Unpooled
      BY <2>1 DEF Unpooled
    <3>2. \A k \in Jobs \ {j} : job'[k].st = "running" => job[k].st = "running"
      BY <2>1, TakenRows, PutBackStops
    <3> QED
      BY <3>1, <3>2 DEF OneRunningPerLane, Unpooled, Served
  <2> QED
    BY <1>1, <1>2, <1>3, <2>1, ClaimsWithLease
<1>4. ASSUME NEW w \in Workers, ClaimInLane(w) PROVE OneRunningPerLane'
  <2>1. ASSUME NEW back \in SUBSET late, NEW j \in Jobs, LaneOf[j] \in worker[w].open,
               LaneIdle(worker[w].open, PutBack(back)),
               job' = [PutBack(back) EXCEPT ![j] = Row("running", "now")]
        PROVE  OneRunningPerLane'
    <3>1. \A k \in Jobs \ {j} : LaneOf[k] = LaneOf[j] => job'[k].st # "running"
      BY <2>1, TakenRows DEF LaneIdle
    <3>2. \A k \in Jobs \ {j} : job'[k].st = "running" => job[k].st = "running"
      BY <2>1, TakenRows, PutBackStops
    <3> QED
      BY <3>1, <3>2 DEF OneRunningPerLane, Unpooled, Served
  <2> QED
    BY <1>1, <1>2, <1>4, <2>1, ClaimsInLane
<1> QED
  BY <1>1, <1>3, <1>4, NoneStartsStep

(* A lane that no pool serves has at most one running job: the claim looks *)
(* for a running one in the transaction that starts another.               *)
THEOREM LanesRunOne == Spec => []OneRunningPerLane
<1>1. Init => OneRunningPerLane
  BY DEF Init, OneRunningPerLane, Row
<1>2. Typed /\ OneRunningPerLane /\ [Next]_vars => OneRunningPerLane'
  <2>1. Typed /\ OneRunningPerLane /\ Next => OneRunningPerLane'
    BY NextSplits, OneRunningStep
  <2>2. OneRunningPerLane /\ UNCHANGED vars => OneRunningPerLane'
    BY DEF OneRunningPerLane, vars, rows, Unpooled, Served
  <2> QED
    BY <2>1, <2>2
<1> QED
  BY <1>1, <1>2, TypedAlways, PTL DEF Spec

-----------------------------------------------------------------------------
(* Targets and pools. *)

(* A worker that uses a target and whose lease was not recovered under it  *)
(* still holds the active lease of that target.                            *)
UsersHold ==
  \A w \in Workers : Using(w) /\ w \notin lapsed =>
    /\ worker[w].target \in Targets
    /\ lease[worker[w].target] # Nothing /\ lease[worker[w].target].by = w

(* Nobody begins to use a target.                                          *)
NoneBegins ==
  /\ \A v \in Workers : Using(v)' /\ v \notin lapsed' =>
       Using(v) /\ v \notin lapsed /\ worker'[v].target = worker[v].target

(* Steps that touch no lease and begin no use.                             *)
LEMMA UseStays ==
  ASSUME Typed, TaskNext \/ OtherNext,
         \A w \in Workers : ~ClaimWithLease(w) /\ ~Release(w) /\ \A p \in Pools : ~OpenPool(w, p)
  PROVE  NoneBegins /\ lease' = lease
<1>1. ASSUME worker' = worker, lapsed' = lapsed PROVE NoneBegins
  <2>1. \A v \in Workers : Using(v)' => Using(v)
    BY <1>1 DEF Using
  <2> QED
    BY <1>1, <2>1 DEF NoneBegins
<1>2. CASE OtherNext
  BY <1>1, <1>2 DEF OtherNext, Commands, Command, AgeJob, Due, PauseLane, SweepLane, ResumeLane,
       AgeLease, leases, history
<1>3. ASSUME NEW w \in Workers, Others(w), lapsed \ {w} \subseteq lapsed',
             worker'[w].pc \in {"idle", "reading", "opened", "caught", "pausing"}
      PROVE  NoneBegins
  BY <1>3 DEF NoneBegins, Using, Others
<1>4. ASSUME NEW w \in Workers, Others(w), lapsed \ {w} \subseteq lapsed', worker'[w].target = Nothing
      PROVE  NoneBegins
  BY <1>4 DEF NoneBegins, Using, Others
<1>5. ASSUME NEW w \in Workers, Stays(w, {"written", "failing"}),
             worker[w].pc \in {"working", "written"}, lapsed' = lapsed
      PROVE  NoneBegins
  BY <1>5 DEF NoneBegins, Using, Others, Stays
<1>6. ASSUME NEW w \in Workers, \E l \in Lanes : OpenLane(w, l) \/ ReadLane(w, l)
      PROVE  NoneBegins /\ lease' = lease
  BY <1>3, <1>6, TaskOpens DEF OpenLane, ReadLane, leases, history
<1>7. ASSUME NEW w \in Workers, ClaimInLane(w) PROVE NoneBegins /\ lease' = lease
  <2>1. lapsed' = lapsed /\ lease' = lease
    BY <1>7 DEF ClaimInLane, leases
  <2> QED
    BY <1>3, <1>4, <1>7, <2>1, ClaimsInLane, IdleTyped DEF Moved, Starts
<1>8. ASSUME NEW w \in Workers, Handle(w) \/ \E e \in Errors : Throw(w, e) \/ LoseEvent(w, e)
      PROVE  NoneBegins /\ lease' = lease
  <2>1. lapsed' = lapsed /\ lease' = lease
    BY <1>8 DEF Handle, Throw, LoseEvent, leases, history
  <2> QED
    BY <1>5, <1>8, <2>1, TaskStays DEF Stays
<1>9. ASSUME NEW w \in Workers, CatchAbort(w) PROVE NoneBegins /\ lease' = lease
  <2>1. lapsed' = lapsed /\ lease' = lease
    BY <1>9 DEF CatchAbort, leases, history
  <2> QED
    BY <1>3, <1>9, <2>1, TaskStays DEF Stays
<1>10. ASSUME NEW w \in Workers,
              PauseAborted(w) \/ CatchUnavailable(w) \/ CatchFinal(w) \/ Crash(w)
       PROVE  NoneBegins /\ lease' = lease
  <2>1. Leave(w) /\ lease' = lease
    BY <1>10 DEF PauseAborted, CatchUnavailable, CatchFinal, Crash, leases
  <2> QED
    BY <1>3, <2>1, TaskLeaves, IdleTyped DEF Moved, Leave
<1>11. ASSUME NEW w \in Workers, Beat(w) PROVE NoneBegins /\ lease' = lease
  BY <1>1, <1>11 DEF Beat, history
<1>12. CASE TaskNext
  BY <1>6, <1>7, <1>8, <1>9, <1>10, <1>11, <1>12 DEF TaskNext, WorkerStep
<1>13. OtherNext => lease' = lease
  BY DEF OtherNext, Commands, Command, AgeJob, Due, PauseLane, SweepLane, ResumeLane, AgeLease, leases
<1> QED
  BY <1>2, <1>12, <1>13

(* A recovery marks the users whose leases it takes away.                  *)
LEMMA RecoveryMarks ==
  ASSUME Typed, UsersHold, NEW p \in Pools, RecoverLeases(p), NEW v \in Workers,
         Using(v), v \notin lapsed'
  PROVE  /\ v \notin lapsed /\ worker[v].target \in Targets
         /\ Kept(p)[worker[v].target] = lease[worker[v].target]
         /\ lease[worker[v].target] # Nothing /\ lease[worker[v].target].by = v
<1>1. v \notin lapsed
  BY DEF RecoverLeases
<1>2. /\ worker[v].target \in Targets /\ lease[worker[v].target] # Nothing
      /\ lease[worker[v].target].by = v
  BY <1>1 DEF UsersHold
<1>3. worker[v].target \notin StaleLeases(p)
  BY <1>2 DEF RecoverLeases
<1> QED
  BY <1>1, <1>2, <1>3, KeptLeases

(* The users keep their leases through every step.                         *)
LEMMA UsersHoldStep ==
  ASSUME Typed, UsersHold, TaskNext \/ OtherNext
  PROVE  UsersHold'
<1>1. CASE NoneBegins /\ lease' = lease
  BY <1>1 DEF NoneBegins, UsersHold
<1>2. ASSUME NEW w \in Workers, NEW p \in Pools, OpenPool(w, p) PROVE UsersHold'
  <2>1. lease' = Kept(p) /\ RecoverLeases(p)
    BY <1>2 DEF OpenPool
  <2>2. \A v \in Workers : Using(v)' => Using(v) /\ worker'[v].target = worker[v].target
    BY <1>2, TaskOpens DEF Using, Others
  <2> QED
    BY <2>1, <2>2, RecoveryMarks DEF UsersHold
<1>3. ASSUME NEW w \in Workers, ClaimWithLease(w) PROVE UsersHold'
  <2> DEFINE p == worker[w].pool
  <2>1. p \in Pools /\ RecoverLeases(p)
    BY <1>3, ClaimsWithLease
  <2> HIDE DEF p
  <2>2. ASSUME lease' = Kept(p), Moved(w, IdleTask) PROVE UsersHold'
    <3>1. \A v \in Workers : Using(v)' => Using(v) /\ worker'[v].target = worker[v].target
      BY <2>2, IdleTyped DEF Using, Others, Moved
    <3> QED
      BY <2>1, <2>2, <3>1, RecoveryMarks DEF UsersHold
  <2>3. ASSUME NEW j \in Jobs, NEW t \in FreeTargets(p), Starts(w, j, t),
               lease' = [Kept(p) EXCEPT ![t] = [pool |-> p, job |-> j, by |-> w]]
        PROVE  UsersHold'
    <3>1. t \in Targets /\ Kept(p)[t] = Nothing
      BY <2>1, OneShotAssumption DEF FreeTargets
    <3>2. Kept(p) \in [Targets -> LeaseRow \cup {Nothing}]
      BY KeptLeases
    <3>3. [pool |-> p, job |-> j, by |-> w] # Nothing /\ [pool |-> p, job |-> j, by |-> w].by = w
      BY <2>1, NewLease
    <3>4. lease'[t] # Nothing /\ lease'[t].by = w
      BY <2>3, <3>1, <3>2, <3>3
    <3>5. \A u \in Targets \ {t} : lease'[u] = Kept(p)[u]
      BY <2>3, <3>2
    <3>6. \A v \in Workers \ {w} : Using(v)' => Using(v) /\ worker'[v].target = worker[v].target
      BY <2>3 DEF Using, Others, Starts
    <3>7. ASSUME NEW v \in Workers \ {w}, Using(v)', v \notin lapsed'
          PROVE  /\ worker'[v].target \in Targets
                 /\ lease'[worker'[v].target] # Nothing /\ lease'[worker'[v].target].by = v
      <4>1. Using(v) /\ worker'[v].target = worker[v].target
        BY <3>6, <3>7
      <4>2. /\ worker[v].target \in Targets
            /\ Kept(p)[worker[v].target] = lease[worker[v].target]
            /\ lease[worker[v].target] # Nothing /\ lease[worker[v].target].by = v
        BY <2>1, <3>7, <4>1, RecoveryMarks
      <4>3. worker[v].target # t
        BY <3>1, <4>2
      <4> QED
        BY <3>5, <4>1, <4>2, <4>3
    <3>8. worker'[w].target = t
      BY <2>3 DEF Starts
    <3> QED
      BY <3>1, <3>4, <3>7, <3>8 DEF UsersHold
  <2> QED
    BY <1>3, <2>2, <2>3, ClaimsWithLease DEF p
<1>4. ASSUME NEW w \in Workers, Release(w) PROVE UsersHold'
  <2> DEFINE mine == {worker[w].target} \ (IF w \in lapsed THEN Targets ELSE {})
  <2>1. lease' = [t \in Targets |-> IF t \in mine THEN Nothing ELSE lease[t]]
    BY <1>4 DEF Release
  <2>2. lapsed' = lapsed \ {w} /\ Others(w) /\ worker'[w].pc \in {"idle", "caught"}
    BY <1>4, TaskReleases, IdleTyped DEF Moved, Leave
  <2>3. worker[w].pc \in {"written", "failing"}
    BY <1>4 DEF Release
  <2>4. \A v \in Workers : Using(v)' =>
          Using(v) /\ v # w /\ worker'[v].target = worker[v].target
    BY <2>2 DEF Using, Others
  <2>5. ASSUME NEW v \in Workers \ {w}, Using(v), v \notin lapsed
        PROVE  worker[v].target \in Targets \ mine
    <3>1. /\ worker[v].target \in Targets /\ lease[worker[v].target].by = v
      BY <2>5 DEF UsersHold
    <3>2. ASSUME worker[v].target = worker[w].target, w \notin lapsed PROVE FALSE
      <4>1. Using(w)
        BY <2>3, <3>1, <3>2, OneShotAssumption DEF Using
      <4> QED
        BY <3>1, <3>2, <4>1, <2>5 DEF UsersHold
    <3> QED
      BY <3>1, <3>2
  <2> HIDE DEF mine
  <2> QED
    BY <2>1, <2>2, <2>4, <2>5 DEF UsersHold
<1> QED
  BY <1>1, <1>2, <1>3, <1>4, UseStays

(* A target serves one live worker at a time, unless the lease of one was  *)
(* recovered under it: each of the others still holds the target's lease,  *)
(* and a target has one.                                                   *)
THEOREM TargetsUsedOnce == Spec => []TargetUsedOnce
<1>1. Init => UsersHold
  BY IdleTyped DEF Init, UsersHold, Using
<1>2. Typed /\ UsersHold /\ [Next]_vars => UsersHold'
  <2>1. Typed /\ UsersHold /\ Next => UsersHold'
    BY NextSplits, UsersHoldStep
  <2>2. UsersHold /\ UNCHANGED vars => UsersHold'
    BY DEF UsersHold, vars, leases, history, Using
  <2> QED
    BY <2>1, <2>2
<1>3. UsersHold => TargetUsedOnce
  BY DEF UsersHold, TargetUsedOnce
<1> QED
  BY <1>1, <1>2, <1>3, TypedAlways, PTL DEF Spec

(* The leases of a pool are on its own targets, and no more than it may    *)
(* have.                                                                   *)
PoolsBounded ==
  \A p \in Pools : /\ Held(p, lease) \subseteq TargetsOf[p]
                   /\ Cardinality(Held(p, lease)) <= ActivePoolCapacity(p)

(* The capacity of a pool is a number, and at least one.                   *)
LEMMA CapacityType ==
  ASSUME NEW p \in Pools
  PROVE  ActivePoolCapacity(p) \in Nat /\ ActivePoolCapacity(p) >= 1
<1>1. Cardinality(TargetsOf[p]) \in Nat
  BY OneShotAssumption, FS_CardinalityType
<1>2. MaxConcurrent[p] \in Nat
  BY OneShotAssumption
<1> HIDE DEF ActivePoolCapacity
<1> QED
  BY <1>1, <1>2 DEF ActivePoolCapacity

(* Taking leases away keeps the pools within their bounds.                 *)
LEMMA FewerLeases ==
  ASSUME PoolsBounded, NEW p \in Pools, NEW ls, Held(p, ls) \subseteq Held(p, lease)
  PROVE  /\ Held(p, ls) \subseteq TargetsOf[p] /\ IsFiniteSet(Held(p, ls))
         /\ Cardinality(Held(p, ls)) \in Nat
         /\ Cardinality(Held(p, ls)) <= ActivePoolCapacity(p)
<1>1. IsFiniteSet(Held(p, lease))
  BY OneShotAssumption, FS_Subset DEF PoolsBounded
<1>2. /\ IsFiniteSet(Held(p, ls)) /\ Cardinality(Held(p, ls)) <= Cardinality(Held(p, lease))
  BY <1>1, FS_Subset
<1>3. Cardinality(Held(p, ls)) \in Nat /\ Cardinality(Held(p, lease)) \in Nat
  BY <1>1, <1>2, FS_CardinalityType
<1> QED
  BY <1>2, <1>3, CapacityType DEF PoolsBounded

(* One more element is at most one more.                                   *)
LEMMA OneMore ==
  ASSUME NEW S, NEW x, IsFiniteSet(S)
  PROVE  IsFiniteSet(S \cup {x}) /\ Cardinality(S \cup {x}) <= Cardinality(S) + 1
<1>1. /\ IsFiniteSet(S \cup {x})
      /\ Cardinality(S \cup {x}) = IF x \in S THEN Cardinality(S) ELSE Cardinality(S) + 1
  BY FS_AddElement
<1>2. Cardinality(S) \in Nat
  BY FS_CardinalityType
<1> QED
  BY <1>1, <1>2

(* Every step but a claim only takes leases away.                          *)
LEMMA PoolsBoundedStep ==
  ASSUME Typed, PoolsBounded, TaskNext \/ OtherNext
  PROVE  PoolsBounded'
<1>1. ASSUME \A p \in Pools : Held(p, lease') \subseteq Held(p, lease) PROVE PoolsBounded'
  BY <1>1, FewerLeases DEF PoolsBounded
<1>2. \A p, q \in Pools : Held(p, Kept(q)) \subseteq Held(p, lease)
  BY KeptLeases DEF Held
<1>3. ASSUME NEW w \in Workers, NEW p \in Pools, OpenPool(w, p) PROVE PoolsBounded'
  BY <1>1, <1>2, <1>3 DEF OpenPool
<1>4. ASSUME NEW w \in Workers, Release(w) PROVE PoolsBounded'
  <2> DEFINE mine == {worker[w].target} \ (IF w \in lapsed THEN Targets ELSE {})
  <2>1. lease' = [t \in Targets |-> IF t \in mine THEN Nothing ELSE lease[t]]
    BY <1>4 DEF Release
  <2> HIDE DEF mine
  <2> QED
    BY <1>1, <2>1 DEF Held
<1>5. ASSUME NEW w \in Workers, ClaimWithLease(w) PROVE PoolsBounded'
  <2> DEFINE p == worker[w].pool
  <2>1. p \in Pools
    BY <1>5, ClaimsWithLease
  <2> HIDE DEF p
  <2>2. CASE lease' = Kept(p)
    BY <1>1, <1>2, <2>1, <2>2
  <2>3. ASSUME HasRoom(p), NEW j \in Jobs, NEW t \in FreeTargets(p),
               lease' = [Kept(p) EXCEPT ![t] = [pool |-> p, job |-> j, by |-> w]]
        PROVE  PoolsBounded'
    <3>1. t \in Targets /\ t \in TargetsOf[p]
      BY <2>1, OneShotAssumption DEF FreeTargets
    <3>2. Kept(p) \in [Targets -> LeaseRow \cup {Nothing}]
      BY KeptLeases
    <3>3. [pool |-> p, job |-> j, by |-> w].pool = p
      OBVIOUS
    <3>4. lease'[t].pool = p /\ \A u \in Targets \ {t} : lease'[u] = Kept(p)[u]
      BY <2>3, <3>1, <3>2, <3>3
    <3>5. \A q \in Pools \ {p} : Held(q, lease') \subseteq Held(q, Kept(p))
      BY <3>4 DEF Held
    <3>6. Held(p, lease') \subseteq Held(p, Kept(p)) \cup {t}
      BY <3>4 DEF Held
    <3>7. /\ Held(p, Kept(p)) \subseteq TargetsOf[p] /\ IsFiniteSet(Held(p, Kept(p)))
          /\ Cardinality(Held(p, Kept(p))) \in Nat
      BY <1>2, <2>1, FewerLeases
    <3>8. /\ IsFiniteSet(Held(p, Kept(p)) \cup {t})
          /\ Cardinality(Held(p, Kept(p)) \cup {t}) <= Cardinality(Held(p, Kept(p))) + 1
      BY <3>7, OneMore
    <3>9. Cardinality(Held(p, lease')) <= Cardinality(Held(p, Kept(p)) \cup {t})
      BY <3>6, <3>8, FS_Subset
    <3>10. Cardinality(Held(p, Kept(p)) \cup {t}) \in Nat /\ Cardinality(Held(p, lease')) \in Nat
      BY <3>6, <3>8, FS_Subset, FS_CardinalityType
    <3>11. Cardinality(Held(p, Kept(p))) < ActivePoolCapacity(p)
      BY <2>3 DEF HasRoom
    <3>12. Cardinality(Held(p, lease')) <= ActivePoolCapacity(p)
      BY <2>1, <3>7, <3>8, <3>9, <3>10, <3>11, CapacityType
    <3>13. ASSUME NEW q \in Pools \ {p}
           PROVE  /\ Held(q, lease') \subseteq TargetsOf[q]
                  /\ Cardinality(Held(q, lease')) <= ActivePoolCapacity(q)
      BY <1>2, <2>1, <3>5, FewerLeases
    <3> QED
      BY <3>1, <3>6, <3>7, <3>12, <3>13 DEF PoolsBounded
  <2> QED
    BY <1>5, <2>2, <2>3, ClaimsWithLease DEF p
<1>6. CASE lease' = lease
  BY <1>1, <1>6
<1> QED
  BY <1>3, <1>4, <1>5, <1>6, UseStays

(* No pool has more active leases than its capacity: a claim counts them   *)
(* and adds its own in one transaction.                                    *)
THEOREM CapacityKept == Spec => []LeasesWithinCapacity
<1>1. Init => PoolsBounded
  <2> SUFFICES ASSUME Init PROVE PoolsBounded
    OBVIOUS
  <2>1. \A p \in Pools : Held(p, lease) = {}
    BY DEF Init, Held
  <2> QED
    BY <2>1, FS_EmptySet, CapacityType DEF PoolsBounded
<1>2. Typed /\ PoolsBounded /\ [Next]_vars => PoolsBounded'
  <2>1. Typed /\ PoolsBounded /\ Next => PoolsBounded'
    BY NextSplits, PoolsBoundedStep
  <2>2. PoolsBounded /\ UNCHANGED vars => PoolsBounded'
    BY DEF PoolsBounded, vars, leases, Held
  <2> QED
    BY <2>1, <2>2
<1>3. PoolsBounded => LeasesWithinCapacity
  BY DEF PoolsBounded, LeasesWithinCapacity
<1> QED
  BY <1>1, <1>2, <1>3, TypedAlways, PTL DEF Spec

-----------------------------------------------------------------------------
(* Jobs and the workers that write them. *)

(* Unless it was put back under a worker, the job a worker holds is        *)
(* running while the handler works, running or settled after that, and no  *)
(* other worker holds it.                                                  *)
AtWork(w) == worker[w].pc = "working"
HeldRow(j, w) ==
  /\ job[j].st \in {"running", "completed", "failed"}
  /\ AtWork(w) => job[j].st = "running"

JobsHeld ==
  /\ \A j \in Jobs : \A w \in OnJob(j) : j \notin reopened => HeldRow(j, w)
  /\ OneWorkerPerJob

(* A step after which no job has a worker it did not have, and what it     *)
(* puts back under a worker is marked.                                     *)
LEMMA HeldIfNoneJoins ==
  ASSUME JobsHeld, reopened \subseteq reopened',
         \A j \in Jobs : \A w \in OnJob(j)' : w \in OnJob(j) /\ (AtWork(w)' => AtWork(w)),
         \A j \in Jobs : \/ job'[j].st = job[j].st \/ j \in reopened' \/ OnJob(j) = {}
  PROVE  JobsHeld'
<1>1. ASSUME NEW j \in Jobs, NEW w \in OnJob(j)', j \notin reopened' PROVE HeldRow(j, w)'
  <2>1. w \in OnJob(j) /\ (AtWork(w)' => AtWork(w)) /\ HeldRow(j, w)
    BY <1>1 DEF JobsHeld
  <2>2. job'[j].st = job[j].st
    BY <1>1, <2>1
  <2> QED
    BY <2>1, <2>2 DEF HeldRow
<1>2. OneWorkerPerJob'
  BY DEF JobsHeld, OneWorkerPerJob
<1> QED
  BY <1>1, <1>2 DEF JobsHeld

(* A worker leaves its job, whose row it may have written: a job that      *)
(* another worker holds too was put back, and stays marked.                *)
LEMMA HeldIfOneLeaves ==
  ASSUME Typed, JobsHeld, NEW w \in Workers, Others(w), worker'[w].pc = "idle",
         reopened' = reopened \ Left(w),
         \A j \in Jobs : job'[j].st = job[j].st \/ w \in OnJob(j)
  PROVE  JobsHeld'
<1>1. \A j \in Jobs : OnJob(j)' \subseteq OnJob(j) \ {w}
  BY DEF OnJob, Others
<1>2. \A j \in Jobs : OnJob(j) \ {w} # {} => (j \in reopened <=> j \in reopened')
  BY DEF Left
<1>3. ASSUME NEW j \in Jobs, NEW v \in OnJob(j)', j \notin reopened' PROVE HeldRow(j, v)'
  <2>1. v \in OnJob(j) /\ v # w /\ j \notin reopened
    BY <1>1, <1>2, <1>3
  <2>2. w \notin OnJob(j)
    BY <2>1 DEF JobsHeld, OneWorkerPerJob
  <2>3. HeldRow(j, v) /\ job'[j].st = job[j].st /\ worker'[v] = worker[v]
    BY <2>1, <2>2 DEF JobsHeld, Others, OnJob
  <2> QED
    BY <2>3 DEF HeldRow, AtWork
<1>4. OneWorkerPerJob'
  BY <1>1, <1>2 DEF JobsHeld, OneWorkerPerJob
<1> QED
  BY <1>3, <1>4 DEF JobsHeld

(* A handler makes its last write: a result, or a retry, which is marked.  *)
LEMMA HeldIfOneWrites ==
  ASSUME Typed, JobsHeld, NEW w \in Workers, Settles(w), worker[w].pc = "working"
  PROVE  JobsHeld'
<1> DEFINE i == worker[w].job
<1>1. /\ w \in OnJob(i) /\ i \in Jobs /\ Others(w) /\ worker'[w].pc = "written"
      /\ worker'[w].job = i /\ reopened \subseteq reopened'
      /\ i \in reopened' \/ job'[i].st \in {"completed", "failed"}
  BY DEF Settles
<1>2. \A k \in Jobs \ {i} : job'[k] = job[k]
  BY SettledRows DEF Settles, IdleRows
<1> HIDE DEF i
<1>3. \A j \in Jobs : OnJob(j)' \subseteq OnJob(j)
  BY <1>1 DEF OnJob, Others, i
<1>4. ASSUME NEW j \in Jobs, NEW v \in OnJob(j)', j \notin reopened' PROVE HeldRow(j, v)'
  <2>1. v \in OnJob(j) /\ j \notin reopened /\ HeldRow(j, v)
    BY <1>1, <1>3, <1>4 DEF JobsHeld
  <2>2. CASE j = i
    <3>1. v = w
      BY <1>1, <2>1, <2>2 DEF JobsHeld, OneWorkerPerJob
    <3> QED
      BY <1>1, <1>4, <2>2, <3>1 DEF HeldRow, AtWork
  <2>3. CASE j # i
    <3>1. v # w
      BY <2>1, <2>3 DEF OnJob, i
    <3>2. job'[j] = job[j] /\ worker'[v] = worker[v]
      BY <1>1, <1>2, <2>1, <2>3, <3>1 DEF Others, OnJob
    <3> QED
      BY <2>1, <3>2 DEF HeldRow, AtWork
  <2> QED
    BY <2>2, <2>3
<1>5. OneWorkerPerJob'
  BY <1>1, <1>3 DEF JobsHeld, OneWorkerPerJob
<1> QED
  BY <1>4, <1>5 DEF JobsHeld

(* A claim takes a job nobody holds, or one it marks.                      *)
LEMMA HeldIfOneClaims ==
  ASSUME Typed, JobsHeld, NEW w \in Workers, Claims(w)
  PROVE  JobsHeld'
<1>1. PICK back \in SUBSET late :
        /\ reopened' = Reopening(back)
        /\ \/ job' = PutBack(back) /\ Moved(w, IdleTask)
           \/ \E j \in Jobs, t \in Targets \cup {Nothing} : Takes(w, back, j) /\ Starts(w, j, t)
  BY DEF Claims
<1>2. back \in SUBSET Jobs
  BY TypedParts DEF RowsTyped
<1>3. \A k \in Jobs : PutBack(back)[k].st # job[k].st => k \in back
  BY <1>2, PutBackRows
<1>4. reopened \subseteq reopened' /\ \A k \in back : OnJob(k) # {} => k \in reopened'
  BY <1>1 DEF Reopening
<1>5. CASE job' = PutBack(back) /\ Moved(w, IdleTask)
  <2>1. \A k \in Jobs : \A v \in OnJob(k)' : v \in OnJob(k) /\ (AtWork(v)' => AtWork(v))
    BY <1>5, IdleTyped DEF Moved, OnJob, Others, AtWork
  <2> QED
    BY <1>3, <1>4, <1>5, <2>1, HeldIfNoneJoins
<1>6. ASSUME NEW j \in Jobs, NEW t, Takes(w, back, j), Starts(w, j, t) PROVE JobsHeld'
  <2>1. /\ job'[j].st = "running" /\ \A k \in Jobs \ {j} : job'[k] = PutBack(back)[k]
    BY <1>6, TakenRows DEF Takes
  <2>2. OnJob(j) # {} => j \in reopened'
    <3>1. PutBack(back)[j].st \notin {"running", "completed", "failed"}
      BY <1>6 DEF Takes, Runnable
    <3> QED
      BY <1>3, <1>4, <3>1 DEF JobsHeld, HeldRow
  <2>3. OnJob(j)' \subseteq OnJob(j) \cup {w} /\ \A k \in Jobs \ {j} : OnJob(k)' \subseteq OnJob(k)
    BY <1>6 DEF Starts, OnJob, Others
  <2>4. ASSUME NEW k \in Jobs, NEW v \in OnJob(k)', k \notin reopened'
        PROVE  HeldRow(k, v)'
    <3>1. CASE k = j
      BY <2>1, <3>1 DEF HeldRow
    <3>2. CASE k # j
      <4>1. v \in OnJob(k) /\ k \notin back /\ k \notin reopened
        BY <1>4, <2>3, <2>4, <3>2
      <4>2. v # w /\ worker'[v] = worker[v]
        BY <1>6, <2>4, <3>2 DEF Starts, OnJob, Others
      <4>3. job'[k].st = job[k].st
        BY <1>3, <2>1, <3>2, <4>1
      <4> QED
        BY <4>1, <4>2, <4>3 DEF JobsHeld, HeldRow, AtWork
    <3> QED
      BY <3>1, <3>2
  <2>5. ASSUME NEW k \in Jobs, NEW u \in OnJob(k)', NEW v \in OnJob(k)', u # v
        PROVE  k \in reopened'
    <3>1. CASE k = j
      BY <2>2, <2>3, <2>5, <3>1
    <3>2. CASE k # j
      BY <1>4, <2>3, <2>5, <3>2 DEF JobsHeld, OneWorkerPerJob
    <3> QED
      BY <3>1, <3>2
  <2> QED
    BY <2>4, <2>5 DEF JobsHeld, OneWorkerPerJob
<1> QED
  BY <1>1, <1>5, <1>6

(* A step of the operator or of time: what it puts back is marked.         *)
LEMMA OtherHeld ==
  ASSUME Typed, JobsHeld, OtherNext
  PROVE  JobsHeld'
<1>0. job \in [Jobs -> RowSet]
  BY TypedParts DEF RowsTyped
<1>1. worker' = worker
  BY DEF OtherNext, Commands, Command, AgeJob, Due, PauseLane, SweepLane, ResumeLane, AgeLease
<1>2. \A j \in Jobs : \A w \in OnJob(j)' : w \in OnJob(j) /\ (AtWork(w)' => AtWork(w))
  BY <1>1 DEF OnJob, AtWork
<1>3. ASSUME NEW j \in Jobs, Commands(j) PROVE JobsHeld'
  <2>1. reopened' = Reopening({j}) /\ \A k \in Jobs \ {j} : job'[k] = job[k]
    BY <1>0, <1>3 DEF Commands, Command
  <2>2. reopened \subseteq reopened' /\ (OnJob(j) # {} => j \in reopened')
    BY <2>1 DEF Reopening
  <2> QED
    BY <1>2, <2>1, <2>2, HeldIfNoneJoins
<1>4. ASSUME NEW l \in Lanes, SweepLane(l) PROVE JobsHeld'
  <2> DEFINE hit == {j \in Jobs : LaneOf[j] = l /\ job[j].st = "running"}
  <2>1. job' = PutBack(hit) /\ reopened' = Reopening(hit) /\ hit \in SUBSET Jobs
    BY <1>4 DEF SweepLane
  <2> HIDE DEF hit
  <2>2. reopened \subseteq reopened' /\ \A k \in hit : OnJob(k) # {} => k \in reopened'
    BY <2>1 DEF Reopening
  <2>3. \A k \in Jobs \ hit : job'[k] = job[k]
    BY <2>1, PutBackRows
  <2> QED
    BY <1>2, <2>2, <2>3, HeldIfNoneJoins
<1>5. ASSUME NEW j \in Jobs, Due(j) PROVE JobsHeld'
  <2>1. [job[j] EXCEPT !.when = "now"].st = job[j].st
    BY <1>0 DEF RowSet
  <2>2. job' = [job EXCEPT ![j] = [job[j] EXCEPT !.when = "now"]] /\ reopened' = reopened
    BY <1>5 DEF Due, history
  <2>3. \A k \in Jobs : job'[k].st = job[k].st
    BY <1>0, <2>1, <2>2
  <2> QED
    BY <1>2, <2>2, <2>3, HeldIfNoneJoins
<1>6. CASE job' = job /\ reopened' = reopened
  BY <1>2, <1>6, HeldIfNoneJoins
<1> QED
  BY <1>3, <1>4, <1>5, <1>6 DEF OtherNext, AgeJob, PauseLane, ResumeLane, AgeLease, rows, history

(* A step of a task.                                                       *)
LEMMA TaskHeld ==
  ASSUME Typed, JobsHeld, TaskNext
  PROVE  JobsHeld'
<1>1. ASSUME NEW w \in Workers, Others(w), job' = job, reopened' = reopened,
             \/ worker'[w].pc \in {"idle", "reading", "opened"}
             \/ /\ worker'[w].job = worker[w].job /\ worker'[w].pc # "working"
                /\ worker[w].pc \in {"working", "written", "failing", "caught", "pausing"}
      PROVE  JobsHeld'
  <2>1. \A j \in Jobs : \A v \in OnJob(j)' : v \in OnJob(j) /\ (AtWork(v)' => AtWork(v))
    BY <1>1 DEF OnJob, Others, AtWork
  <2> QED
    BY <1>1, <2>1, HeldIfNoneJoins
<1>2. CASE worker' = worker /\ job' = job /\ reopened' = reopened
  <2>1. \A j \in Jobs : \A v \in OnJob(j)' : v \in OnJob(j) /\ (AtWork(v)' => AtWork(v))
    BY <1>2 DEF OnJob, AtWork
  <2> QED
    BY <1>2, <2>1, HeldIfNoneJoins
<1>3. ASSUME NEW w \in Workers, NEW p \in Pools, OpenPool(w, p) PROVE JobsHeld'
  BY <1>1, <1>2, <1>3, TaskOpens DEF OpenPool, rows
<1>4. ASSUME NEW w \in Workers, NEW l \in Lanes, OpenLane(w, l) \/ ReadLane(w, l) PROVE JobsHeld'
  BY <1>1, <1>4, TaskOpens DEF OpenLane, ReadLane, rows, history
<1>5. ASSUME NEW w \in Workers, ClaimWithLease(w) \/ ClaimInLane(w) PROVE JobsHeld'
  BY <1>5, ClaimsWithLease, ClaimsInLane, HeldIfOneClaims
<1>6. ASSUME NEW w \in Workers, (\E e \in Errors : Throw(w, e) \/ LoseEvent(w, e)) \/ CatchAbort(w)
      PROVE  JobsHeld'
  <2>1. job' = job /\ reopened' = reopened
    BY <1>6 DEF Throw, LoseEvent, CatchAbort, rows, history
  <2> QED
    BY <1>1, <1>6, <2>1, TaskStays DEF Stays
<1>7. ASSUME NEW w \in Workers,
             Handle(w) \/ PauseAborted(w) \/ CatchUnavailable(w) \/ CatchFinal(w)
      PROVE  JobsHeld'
  <2>1. Settles(w)
    BY <1>7, SettlesJob
  <2>2. \A j \in Jobs : job'[j] = job[j] \/ w \in OnJob(j)
    BY <2>1, SettledRows DEF Settles, IdleRows
  <2>3. CASE worker[w].pc = "working"
    BY <2>1, <2>3, HeldIfOneWrites
  <2>4. CASE worker[w].pc # "working"
    BY <2>1, <2>2, <2>4, HeldIfOneLeaves DEF Settles
  <2> QED
    BY <2>3, <2>4
<1>8. ASSUME NEW w \in Workers, Leave(w), job' = job PROVE JobsHeld'
  <2>1. Others(w) /\ worker'[w].pc = "idle"
    BY <1>8, TaskLeaves, IdleTyped DEF Moved
  <2> QED
    BY <1>8, <2>1, HeldIfOneLeaves DEF Leave
<1>9. ASSUME NEW w \in Workers, Release(w) PROVE JobsHeld'
  <2>1. job' = job
    BY <1>9 DEF Release, rows
  <2> QED
    BY <1>1, <1>8, <1>9, <2>1, TaskReleases
<1>10. ASSUME NEW w \in Workers, Crash(w) PROVE JobsHeld'
  BY <1>8, <1>10 DEF Crash, rows
<1>11. ASSUME NEW w \in Workers, Beat(w) PROVE JobsHeld'
  BY <1>2, <1>11 DEF Beat, history
<1> QED
  BY <1>3, <1>4, <1>5, <1>6, <1>7, <1>9, <1>10, <1>11 DEF TaskNext, WorkerStep

(* JobsHeld in every state.                                                *)
LEMMA JobsHeldAlways == Spec => []JobsHeld
<1>1. Init => JobsHeld
  BY IdleTyped DEF Init, JobsHeld, OneWorkerPerJob, OnJob
<1>2. Typed /\ JobsHeld /\ [Next]_vars => JobsHeld'
  <2>1. Typed /\ JobsHeld /\ Next => JobsHeld'
    BY NextSplits, OtherHeld, TaskHeld
  <2>2. JobsHeld /\ UNCHANGED vars => JobsHeld'
    BY DEF JobsHeld, HeldRow, AtWork, OneWorkerPerJob, OnJob, vars, rows, history
  <2> QED
    BY <2>1, <2>2
<1> QED
  BY <1>1, <1>2, TypedAlways, PTL DEF Spec

(* Two workers hold the same job only if it was put back under the first:  *)
(* a claim takes a running row only if it recovers it, and marks it then.  *)
THEOREM WorkersApart == Spec => []OneWorkerPerJob
<1>1. JobsHeld => OneWorkerPerJob
  BY DEF JobsHeld
<1> QED
  BY <1>1, JobsHeldAlways, PTL

(* A settled row is only written again by a command of the operator, by a  *)
(* worker of a job that was put back under it, or by the catch block of    *)
(* the worker that settled it, which leaves it settled.                    *)
LEMMA SettledStays ==
  ASSUME Typed, JobsHeld, TaskNext \/ OtherNext, NEW j \in Jobs,
         job[j].st \in {"completed", "failed"}, job'[j].st # job[j].st
  PROVE  \/ j \in reopened \/ events' # events
         \/ /\ job'[j].st \in {"completed", "failed"}
            /\ \E w \in OnJob(j) : worker[w].pc = "caught" /\ worker'[w].pc = "idle"
<1>0. RowsTyped /\ events \in Nat
  BY TypedParts DEF RowsTyped
<1>1. job' # job
  OBVIOUS
<1>2. ASSUME NEW w \in Workers, Settles(w)
      PROVE  \/ j \in reopened
             \/ /\ job'[j].st \in {"completed", "failed"}
                /\ \E v \in OnJob(j) : worker[v].pc = "caught" /\ worker'[v].pc = "idle"
  <2>1. j = worker[w].job /\ w \in OnJob(j)
    BY <1>2, SettledRows DEF Settles, IdleRows
  <2>2. worker[w].pc = "working" => j \in reopened
    BY <2>1 DEF JobsHeld, HeldRow, AtWork
  <2> QED
    BY <1>2, <2>1, <2>2 DEF Settles
<1>3. ASSUME NEW w \in Workers, Claims(w) PROVE FALSE
  <2>1. PICK back \in SUBSET late :
          job' = PutBack(back) \/ \E k \in Jobs : Takes(w, back, k)
    BY <1>3 DEF Claims
  <2>2. back \in SUBSET Jobs /\ j \notin back
    BY <1>0 DEF RowsTyped
  <2>3. PutBack(back)[j] = job[j]
    BY <2>2, PutBackRows
  <2>4. ASSUME NEW k \in Jobs, Takes(w, back, k) PROVE FALSE
    <3>1. k # j
      BY <2>3, <2>4 DEF Takes, Runnable
    <3> QED
      BY <2>3, <2>4, <3>1, TakenRows DEF Takes
  <2> QED
    BY <2>1, <2>3, <2>4
<1>4. ASSUME NEW k \in Jobs, Commands(k) PROVE events' # events
  BY <1>0, <1>4 DEF Commands, Command, Event
<1>5. ASSUME NEW k \in Jobs, Due(k) PROVE FALSE
  <2>1. [job[k] EXCEPT !.when = "now"].st = job[k].st
    BY <1>0 DEF RowsTyped, RowSet
  <2>2. job' = [job EXCEPT ![k] = [job[k] EXCEPT !.when = "now"]]
    BY <1>5 DEF Due
  <2> QED
    BY <1>0, <2>1, <2>2 DEF RowsTyped
<1>6. ASSUME NEW l \in Lanes, SweepLane(l) PROVE FALSE
  <2> DEFINE hit == {k \in Jobs : LaneOf[k] = l /\ job[k].st = "running"}
  <2>1. job' = PutBack(hit) /\ hit \in SUBSET Jobs /\ j \notin hit
    BY <1>6 DEF SweepLane
  <2> HIDE DEF hit
  <2> QED
    BY <2>1, PutBackRows
<1>7. CASE OtherNext
  BY <1>1, <1>4, <1>5, <1>6, <1>7 DEF OtherNext, AgeJob, PauseLane, ResumeLane, AgeLease, rows
<1>8. CASE TaskNext
  <2>1. ASSUME NEW w \in Workers, ClaimWithLease(w) \/ ClaimInLane(w) PROVE FALSE
    BY <1>3, <2>1, ClaimsWithLease, ClaimsInLane
  <2>2. ASSUME NEW w \in Workers,
               Handle(w) \/ PauseAborted(w) \/ CatchUnavailable(w) \/ CatchFinal(w)
        PROVE  \/ j \in reopened
               \/ /\ job'[j].st \in {"completed", "failed"}
                  /\ \E v \in OnJob(j) : worker[v].pc = "caught" /\ worker'[v].pc = "idle"
    BY <1>2, <2>2, SettlesJob
  <2> QED
    BY <1>1, <1>8, <2>1, <2>2 DEF TaskNext, WorkerStep, OpenPool, OpenLane, ReadLane, Beat, Throw,
         LoseEvent, Release, CatchAbort, Crash, rows
<1> QED
  BY <1>7, <1>8

(* A settled job stays settled until an operator asks for it again, unless *)
(* it was put back under a worker; only the catch block of the worker that *)
(* settled it, whose handler failed after its last write, may turn the     *)
(* result into another one.                                                *)
THEOREM ResultsStand == Spec => ResultStands
<1>1. Typed /\ JobsHeld /\ [Next]_vars =>
        [\A j \in Jobs :
           job[j].st \in {"completed", "failed"} /\ job'[j].st # job[j].st
             => \/ j \in reopened \/ events' # events
                \/ /\ job'[j].st \in {"completed", "failed"}
                   /\ \E w \in OnJob(j) : worker[w].pc = "caught" /\ worker'[w].pc = "idle"]_vars
  BY NextSplits, SettledStays
<1> QED
  BY <1>1, TypedAlways, JobsHeldAlways, PTL DEF Spec, ResultStands

-----------------------------------------------------------------------------
(* Claims of a paused lane. *)

(* A task that took a job of a paused lane does not see the lane as open   *)
(* again before it is resumed.                                             *)
StraysSee == \A w \in Workers, l \in Lanes : <<w, l>> \in strays => l \notin worker[w].open

(* A task that took such a job is given an empty set of open lanes.        *)
LEMMA StraysSeeStep ==
  ASSUME Typed, StraysSee, TaskNext \/ OtherNext
  PROVE  StraysSee'
<1>0. strays \subseteq Workers \X paused
  BY TypedParts DEF HistoryTyped
<1>1. CASE worker' = worker /\ strays' \subseteq strays
  BY <1>1 DEF StraysSee
<1>2. CASE OtherNext
  BY <1>1, <1>2 DEF OtherNext, Commands, Command, AgeJob, Due, PauseLane, SweepLane, ResumeLane,
       AgeLease, history
<1>3. ASSUME NEW w \in Workers, Others(w), strays' = strays,
             worker'[w].open \subseteq worker[w].open \cup (Lanes \ paused)
      PROVE  StraysSee'
  BY <1>0, <1>3 DEF StraysSee, Others
<1>4. ASSUME NEW w \in Workers, Claims(w) PROVE StraysSee'
  <2>1. \/ Moved(w, IdleTask) /\ strays' = strays
        \/ \E j \in Jobs, t \in Targets \cup {Nothing} : Starts(w, j, t) /\ Strays(w, j)
    BY <1>4 DEF Claims, Takes
  <2>2. ASSUME NEW j \in Jobs, NEW t, Starts(w, j, t), Strays(w, j) PROVE StraysSee'
    BY <2>2 DEF Strays, Starts, StraysSee, Others
  <2> QED
    BY <1>3, <2>1, <2>2, IdleTyped DEF Moved
<1>5. ASSUME NEW w \in Workers, NEW p \in Pools, OpenPool(w, p) PROVE StraysSee'
  BY <1>1, <1>3, <1>5, TaskOpens DEF OpenPool
<1>6. ASSUME NEW w \in Workers, NEW l \in Lanes, OpenLane(w, l) \/ ReadLane(w, l) PROVE StraysSee'
  <2>1. strays' = strays /\ (OpenLane(w, l) => l \notin paused)
    BY <1>6 DEF OpenLane, ReadLane, history, IsOpen
  <2> QED
    BY <1>3, <1>6, <2>1, TaskOpens
<1>7. ASSUME NEW w \in Workers,
             Handle(w) \/ (\E e \in Errors : Throw(w, e) \/ LoseEvent(w, e)) \/ CatchAbort(w)
      PROVE  StraysSee'
  <2>1. strays' = strays
    BY <1>7 DEF Handle, Throw, LoseEvent, CatchAbort, history
  <2> QED
    BY <1>3, <1>7, <2>1, TaskStays DEF Stays
<1>8. ASSUME NEW w \in Workers, Leave(w), strays' = strays PROVE StraysSee'
  BY <1>3, <1>8, TaskLeaves, IdleTyped DEF Moved
<1>9. ASSUME NEW w \in Workers, Release(w) PROVE StraysSee'
  <2>1. strays' = strays
    BY <1>9 DEF Release
  <2> QED
    BY <1>3, <1>8, <1>9, <2>1, TaskReleases
<1>10. ASSUME NEW w \in Workers,
              PauseAborted(w) \/ CatchUnavailable(w) \/ CatchFinal(w) \/ Crash(w)
       PROVE  StraysSee'
  BY <1>8, <1>10 DEF PauseAborted, CatchUnavailable, CatchFinal, Crash
<1>11. ASSUME NEW w \in Workers, Beat(w) PROVE StraysSee'
  BY <1>1, <1>11 DEF Beat, history
<1>12. ASSUME NEW w \in Workers, ClaimWithLease(w) \/ ClaimInLane(w) PROVE StraysSee'
  BY <1>4, <1>12, ClaimsWithLease, ClaimsInLane
<1> QED
  BY <1>2, <1>5, <1>6, <1>7, <1>9, <1>10, <1>11, <1>12 DEF TaskNext, WorkerStep

(* A task begins to work only by a claim, of a lane it has read as open.   *)
LEMMA WorkBegins ==
  ASSUME Typed, TaskNext \/ OtherNext, NEW w \in Workers,
         worker[w].pc # "working", worker'[w].pc = "working"
  PROVE  worker'[w].job \in Jobs /\ LaneOf[worker'[w].job] \in worker[w].open
<1>0. worker' # worker
  OBVIOUS
<1>1. ASSUME NEW v \in Workers, Others(v) PROVE v = w
  BY <1>1 DEF Others
<1>2. ASSUME NEW v \in Workers, Claims(v)
      PROVE  worker'[w].job \in Jobs /\ LaneOf[worker'[w].job] \in worker[w].open
  BY <1>1, <1>2, IdleTyped DEF Claims, Takes, Starts, Moved
<1>3. ASSUME NEW v \in Workers, Others(v), worker'[v].pc # "working" PROVE FALSE
  BY <1>1, <1>3
<1>4. ASSUME NEW v \in Workers, Leave(v) PROVE FALSE
  BY <1>3, <1>4, TaskLeaves, IdleTyped DEF Moved
<1>5. ASSUME NEW v \in Workers, Release(v) PROVE FALSE
  BY <1>3, <1>4, <1>5, TaskReleases
<1>6. ASSUME NEW v \in Workers,
             Handle(v) \/ (\E e \in Errors : Throw(v, e) \/ LoseEvent(v, e)) \/ CatchAbort(v)
      PROVE  FALSE
  BY <1>3, <1>6, TaskStays DEF Stays
<1>7. ASSUME NEW v \in Workers, NEW p \in Pools, OpenPool(v, p) PROVE FALSE
  BY <1>0, <1>3, <1>7, TaskOpens
<1>8. ASSUME NEW v \in Workers, NEW l \in Lanes, OpenLane(v, l) \/ ReadLane(v, l) PROVE FALSE
  BY <1>3, <1>8, TaskOpens
<1>9. ASSUME NEW v \in Workers, ClaimWithLease(v) \/ ClaimInLane(v) PROVE Claims(v)
  BY <1>9, ClaimsWithLease, ClaimsInLane
<1>10. ASSUME NEW v \in Workers,
              PauseAborted(v) \/ CatchUnavailable(v) \/ CatchFinal(v) \/ Crash(v)
       PROVE  FALSE
  BY <1>4, <1>10 DEF PauseAborted, CatchUnavailable, CatchFinal, Crash
<1>11. ~OtherNext
  BY <1>0 DEF OtherNext, Commands, Command, AgeJob, Due, PauseLane, SweepLane, ResumeLane, AgeLease
<1>12. TaskNext
  BY <1>11
<1>13. \A v \in Workers : ~Beat(v)
  BY <1>0 DEF Beat
<1> QED
  BY <1>2, <1>5, <1>6, <1>7, <1>8, <1>9, <1>10, <1>12, <1>13 DEF TaskNext, WorkerStep

(* A task takes a job of a paused lane at most once for a pause: it has    *)
(* read the lane as open before, and cannot read that again.               *)
THEOREM StraysOnce == Spec => StrayClaimOnce
<1>1. Init => StraysSee
  BY DEF Init, StraysSee
<1>2. Typed /\ StraysSee /\ [Next]_vars => StraysSee'
  <2>1. Typed /\ StraysSee /\ Next => StraysSee'
    BY NextSplits, StraysSeeStep
  <2>2. StraysSee /\ UNCHANGED vars => StraysSee'
    BY DEF StraysSee, vars, history
  <2> QED
    BY <2>1, <2>2
<1>3. Typed /\ StraysSee /\ [Next]_vars =>
        [\A w \in Workers :
           worker[w].pc # "working" /\ worker'[w].pc = "working"
             => LaneOf[worker'[w].job] \notin paused
                \/ <<w, LaneOf[worker'[w].job]>> \notin strays]_vars
  <2> SUFFICES ASSUME Typed, StraysSee, Next, NEW w \in Workers,
                      worker[w].pc # "working", worker'[w].pc = "working"
               PROVE  <<w, LaneOf[worker'[w].job]>> \notin strays
    OBVIOUS
  <2>1. worker'[w].job \in Jobs /\ LaneOf[worker'[w].job] \in worker[w].open
    BY NextSplits, WorkBegins
  <2>2. LaneOf[worker'[w].job] \in Lanes
    BY <2>1, OneShotAssumption
  <2> QED
    BY <2>1, <2>2 DEF StraysSee
<1> QED
  BY <1>1, <1>2, <1>3, TypedAlways, PTL DEF Spec, StrayClaimOnce
=============================================================================
