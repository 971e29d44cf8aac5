# Verification of memoryRouter

This directory holds TLA+ specifications of memoryRouter: of `context-stilld`,
its resident process, and of the TypeScript components that work on the same
tables. With them are the TLC configurations that check them on small instances,
and TLAPS proofs of their main properties for every instance. `PROJECT.json`
maps each definition to the lines it models and lists the runs, hazards and
theorems.

In this file `D` is `src/crates/context-stilld/src/domains`, `Q` is
`D/queue_lifecycle` and `M` is `src/src/modules`.

## The system

memoryRouter turns agent logs, sources and findings into knowledge with the
help of LLM providers. The work is organised in queues, SQLite tables whose
rows are jobs. One resident Rust process owns the database; a TypeScript admin
API, a web UI and command line tools talk to it.

| Component | State it keeps | Operations | Interacts with |
|---|---|---|---|
| Provider queue (`Q/provider_lease.rs`, `Q/claim.rs`) | queue rows; `llm_provider_leases` | claim with lease, heartbeat, release, stale recovery | executors, maintenance, operator |
| Queue state commands (`Q/state.rs`, `src/api/modules/queue/queue.repository.ts`) | queue rows, `queue.controls.v1` | pause, resume, retry, pause or resume a lane | operator, through the writer |
| Maintenance (`Q/maintenance.rs`) | none of its own | recover stale leases and jobs | every reconcile pass |
| Executor tick (`Q/executor.rs`) | none between ticks | finalize first, then covering batches, then finding/episode | resident thread |
| Finding executor (`Q/finding_executor.rs`) | finding rows, candidates, covering jobs | load, ask the provider, persist under the fence | heartbeat thread |
| Covering executor (`Q/covering_executor/`) | covering rows, evidence revisions, finalize jobs | a thread per job, join barrier, persist under the fence | heartbeat threads |
| Finalize lane (`Q/finalize_executor.rs`) | finalize rows, knowledge | apply a covering revision | covering executor |
| Episode executor (`Q/episode_executor/`) | episode rows, progress | resumable steps under the fence | heartbeat thread |
| Curation executor (`Q/curation_*.rs`) | landscape curation rows | enqueue, evaluate, persist | executor tick |
| Dynamic provider routes (`Q/dynamic_provider.rs`, `D/provider_connection/`) | connection table in memory | plan, check out, claim, heartbeat, release | executor tick |
| SQLite writer (`D/sqlite_writer/`) | one connection, a FIFO of requests, remote transactions | execute a writer job, begin/commit/rollback for a client | everything that writes |
| Resident runtime, process lifecycle (`D/resident_runtime/`, `D/process_lifecycle/`) | process state files, owned surfaces | start, reconcile, stop | operating system |
| Agent log sync (`D/agent_log_sync/`, `M/agent-log-sync/`) | file cursors, `vibe_memories` | scan, ingest, advance | the agents that write the logs, the other sync |
| MCP endpoint (`D/mcp_lifecycle/`) | HTTP sessions | admit, serve, expire | writer for mutations |
| TypeScript queue core (`M/queue/core/`, `src/src/cli/queue-supervisor.ts`) | the same tables | claim, run, settle; pause, resume, retry | other supervisors, operator |
| TypeScript handlers (`M/queue/core/worker.ts`, `M/finalizeDistille/`) | candidates, evidence, finalize jobs, knowledge | find, cover, finalize | the queue core |
| Knowledge merges (`M/landscape/`) | knowledge items, merge reviews, merge jobs, curation jobs | review, queue, merge, report | users who edit items, the queue core |
| Candidate batch ingress (`M/security-intelligence/`) | receipts, batch items, the pipeline's first rows | receive once per key | producers that send again |

Compile, retrieval, embeddings, the CRUD services, the web UI, backup and
diagnostics are not modelled: they compute over data and have no protocol.

### What is concurrent

The resident thread is sequential: `D/resident_runtime/service.rs` reconciles
every 5 s and runs maintenance and then one executor tick. Beside it run

* heartbeat threads of executions and the threads of a covering batch, which
  write through the single writer;
* the operator, whose commands reach the writer through the admin API at any
  moment;
* the TypeScript supervisors and one-shot commands ("TypeScript one-shot commands
  remain available as manual recovery tools",
  `src/spec/docs/pub/operations.md:110`), each a process with several task
  slots; the admin API and the log sync, which await between their statements;
* the clock: a suspended machine or a slow provider lets claims go stale while
  their executions are alive, and a crash leaves rows behind for the next start.

So a claim can be taken from a live execution, handed out again, and the first
result still arrives. What must hold then is what the modules state.

### What makes each component correct

* Provider queue: a target has one user, a pool stays within its capacity, a
  running job names a lease inserted with it, an ended lease is not rewritten,
  every claim is given back or recovered.
* State commands: parked and settled work is not revived by late results; a
  paused lane is quiet.
* Executors: only the owner of a claim writes its job; attempts are counted; a
  setup that fails gives the claim back; a claim that a crash or an error leaves
  behind is not kept alive by anybody.
* Tick: covering and the other provider lanes take turns; none starves another.
* Writer: a remote transaction is atomic, and a client that disappears cannot
  hold the writer.
* Process lifecycle: one owner of the database.
* Agent log sync: every complete line is ingested once over restarts.
* TypeScript queue core: the same of claims, targets and capacity, without a
  fence; a settled job is not run again until somebody asks for it.
* Handlers: no stage ends before its work is handed on, and nothing is handed on
  twice.
* Merges: what a deprecated item said is still said by an active one, as far as
  nobody else wrote the items meanwhile.
* Ingress: a candidate is accepted once, and the answers to a key are the same.

## Modules

| Module | What it is |
|---|---|
| `TargetSlots` | Abstract specification: targets, their holders, and that a lease holds one target once. |
| `ProviderQueue` | Queue rows, leases, executions, the operator, maintenance, crashes and time. |
| `MCProviderQueue` | Instances of `ProviderQueue` for TLC. |
| `ProviderQueueProofs` | Lemmas on the helpers, and type correctness. |
| `ProviderQueueSafety` | Lock invariant, exclusive targets, capacity, quiet lanes, the refinement of `TargetSlots`, and the action properties. |
| `SessionStore` | Abstract specification: a store with one session at a time, whose transactions take effect at once or not at all. |
| `SqliteWriter` | The writer thread, its queues, remote clients with unreliable calls, shutdown, crash and restart. |
| `MCSqliteWriter` | Instances of `SqliteWriter` for TLC. |
| `SqliteWriterProofs` | Type correctness, one session per transaction, the refinement of `SessionStore`, and what callers may believe. |
| `OneShotQueue` | The TypeScript supervisors: claims, workers, the operator, crashes and time. |
| `LaneControls` | The control row that pauses lanes, with overlapping and broken requests. |
| `DistillPipeline` | What the finding, covering and finalize handlers write, statement by statement. |
| `AgentLogSync` | Cursors, chunks and keys of the log import while the agents write. |
| `MergeActivation` | Reviews, merge jobs, direct application and edits of items. |
| `BatchReceipts` | Abstract specification: a batch is received in one step, once for its key. |
| `CandidateBatches` | The Postgres transaction of the ingress, with its locks and unique keys. |
| `ResidentTick` | The order in which a tick of the resident thread serves the lanes, claim by claim. |
| `MCParts` | One small instance of each of the seven modules from `OneShotQueue` to `ResidentTick`, for TLC. |
| `MCAgentLogSync`, `MCResidentTick` | The instances of the two runs that expect a violation in these modules. |
| `OneShotQueueProofs` | What each step of `OneShotQueue` does to its task, the rows and the leases; type correctness, and the safety properties. |
| `LaneProofs` | The control row agrees with what was asked; the lanes take turns. |
| `AgentLogSyncProofs` | A cursor leaves nothing behind; no line is stored twice. |
| `CandidateBatchesProofs` | One acceptance, answers that agree, and the refinement of `BatchReceipts`. |
| `KnowledgeProofs` | `DistillPipeline`: stages hand on, and nothing is stored twice. `MergeActivation`: nothing is merged away, and applied duplicates are reported. |

### ProviderQueue

An action is one job of the SQLite writer, or a stretch of an executor between
two such jobs. It does not say who calls what in which order: any number of
executors may interleave, so what holds here holds for the sequential resident
thread, for several of them, and for the offline executor.

* `job` is a queue row: status, `locked_by`, age of `heartbeat_at`, time to
  `next_run_at`, `attempt_count`. Priorities and payload are left out; the
  claim takes any runnable job of the first lane that has one.
* `lease` is `llm_provider_leases`. A row number stands for rowid, lease id and
  worker id, which one claim creates together and which are unique
  (`unique_suffix`).
* `exec` is the executor's side of a claim: its stage, whether its heartbeat
  thread runs, the attempt count it read, the provider's answer. It is indexed
  by the lease; the job is the one the lease names. The count has no limit of its
  own: it is compared with one when a result is written, and an operator may
  resume the job after that.
* `writer` is the execution that keeps the writer between two statements (the
  legacy executions do their whole work inside one writer job; a covering claim
  goes on to read its job).
* `lanePaused` and `pausing`: a lane pause is stored in `queue.controls.v1`
  first and applied to the running jobs by a second request.

A lane has one of four modes, which are the code's ways to execute a job:
`split` (`run_split_provider_executor_tick_for_path`), `covering` (threads and
join barrier), `generic` (claim and execution in one writer job) and `detached`
(a claim of the split tick executed by `run_claimed_legacy_provider_execution`
in the next one).

Provider answers are arbitrary outcomes. Time is a `Tick` that ages heartbeats
and dates; it may pass while an execution holds the writer. A crash (`Die`) ends
one execution in any stage; what is committed stays. `Die` of each execution in
turn is the crash of the process. An error of a statement or of a request to the
writer leaves the tick by `?` (`LeaveTick`): a persist request that fails
(`Q/executor.rs:366`, `:596`), a setup failure that cannot be given back, a later
claim of a covering batch (`:297`), a statement of a legacy execution (`:648`).
It leaves the claim in the tables as a crash does, and stops the heartbeat.

### The refinement

`Slots!Spec` of `TargetSlots` is implemented under the mapping
`holder[t] = ` the active lease on `t`, `spent = ` the inserted lease rows.
A claim is one `Acquire`, which may first free targets by stale recovery;
release, recovery and setup failure are `Free`; everything else stutters.

### SqliteWriter

`ProviderQueue` takes a job of the writer as one step. `SqliteWriter` is what it
relies on: one thread owns the writable connection and runs one command at a
time (`D/sqlite_writer/service.rs`).

* `outbox`, `channel`, `deferred` are where a command can be: on its way or
  blocked in the send to the full channel; in the bounded channel; set aside by
  the loop because somebody else owns the transaction.
* `owner` and `held` are `transaction_owner` and the time since
  `transaction_started_at`. `inTx`, `undo` and `db` are the connection: whether
  it has a transaction open, what that has written, what is durable. SQLite may
  end a transaction by itself when a statement fails, so owner and connection
  can disagree.
* `caller` is the callers' side. A thread of the daemon submits whole jobs; a
  client (`src/src/db/sqlite/remote-client.ts`) sends BEGIN, its writes and
  COMMIT one call at a time, and ROLLBACK after a failed call behind BEGIN or
  when its callback throws; or it sends a single mutation.

`Execute` is the statement, the change of ownership and the answer in one step;
the answer counts only if the caller still waits for it. Every statement may
fail. A call may be lost before it arrives (`Lose`) or broken while the command
is on its way, so that it is executed later than anything the client sends next
(`GiveUp`). A client may end anywhere (`Die`). `Crash` is the end of the daemon,
or of its writer thread by a panic: SQLite drops the open transaction and keeps
the committed state.

Left out: reads, which a client does on its own connection; nested BEGINs;
commands of one client object from two threads (the client blocks its process
in each call); the timeout of 250 ms in which the loop looks at the deadline (a
command may be served before the loop notices that the deadline has passed).

`SessionStore` is implemented under `holder = ` the owner while a transaction is
open, `pending = undo`, `durable = db`. Commands that change nothing, refused
and deferred ones, and all of the transport stutter.

Three properties are about what a client may believe. They except clients that
lost an answer (`sure`), for a reason found here: a late ROLLBACK and BEGIN of
an abandoned unit can replace the transaction of the next one, and a lost
ROLLBACK leaves a transaction open in which the client's next mutation is
acknowledged and later rolled back. `AllOrNothing` also excepts transactions cut
by the deadline or a restart (`broken`), since the client goes on and its
remaining writes take effect one by one; `CommittedIsWhole` shows that such a
client is at least not told that its COMMIT succeeded.

### OneShotQueue and LaneControls

`worker` is a task slot of any supervisor process, and its `pc` says where
`runQueueWorkerOnce` is: `reading` (the `isQueuePaused` reads before
`BEGIN IMMEDIATE`), `opened` (a lane that no pool serves was found open),
`working` (the handler), `written` and `failing` (it has settled the job, or
thrown), then `Release` in the `finally` block, and `caught` or `pausing` in the
`catch` block. A statement or a transaction of SQLite is a step; between two
awaited calls anything may happen. In lanes that log an event after the last
write (`Reporting`) that event can be lost (`LoseEvent`), and the worker goes
from `written` to the `catch` block with the row settled. So a worker is on its
job (`OnJob`) until it can write the row no more.

`job` is the status of a row and whether it is due; `late` and `lateLease` are
the rows and leases whose heartbeat is older than the cutoff. Unlike the
resident, this worker has no fence: it settles a job by its id, whoever has it
now. `reopened` remembers the jobs that were put back under a live worker, by
stale recovery, a lane pause, a command, or the retry that the worker itself
asks for; `lapsed` the workers whose lease was recovered. The properties say
that these are the only ways to lose exclusion. `ResultStands` does not say that
a result is final: the `catch` block writes by id, so a completed row becomes
failed when the event after it is lost. It says that a settled job stays
settled, above all that the two delays of the `catch` block, which ask for a
running row, do not bring it back.

The control row is one JSON value with every lane in it. `setQueuePaused` reads
it and writes it back in two steps, and the lane `finalizeDistille` brings
`mergeActivationFinalize` with it, so requests on different lanes can undo each
other. `torn` are the lanes where that is possible; `ControlsAgree` says that
for every other lane the row holds what was asked last.

### DistillPipeline

One source with its finding job, its candidates, and a covering and a finalize
job of each. On SQLite a handler looks for a row and inserts it in two
statements; triggers refuse a second covering job and a second evidence row
(`Refused`), and nothing refuses a second candidate, finalize job or knowledge
item. Workers are processes, can have the same job at a time (`crossed`), can
fail or die at any statement, and the job is run again. Statements that only
rewrite text are left out. `KnowledgeOnce` is about the job that is run again: a
worker finds what an earlier one has stored. Of crossed jobs it says nothing, since
two workers do store twice, and it does not count candidates.

### AgentLogSync

A line has two halves, so an odd size of a log ends in an incomplete line. A
sync reads the cursor, the size, the text, and imports in one transaction; each
of these is a step. `processCodexJsonlDelta` leaves an incomplete line to the
next sync. The other parsers move the cursor to the size they looked up, so they
may read lines beyond it twice, and what keeps those from being stored twice is
the key of the chunk. That key also collides where it should not, so `NoLineTwice`
holds in part because lines are dropped (the second finding).

### MergeActivation

What an item says is a set of statements, a hash is the set itself, and an edit
adds a statement. A review's proposal is taken to say what both items said to
the reviewer (the prompt asks for that; the code does not check it). A merge
reads both items, compares, reads the canonical one again, writes it, reads and
writes the other, settles its job and tells the curation job, each a step
(`updateKnowledgeItem` is a read and a write of the whole row). On SQLite the
direct application reads both items in one query; the model allows a step
between them there too.

`unsure` are the items about which the code cannot be expected to know: a user
changed their status, another process wrote one of the two under the merge, or
an edit fell between review and job. `NothingMergedAway` holds of all others. So
it does not say that the code is safe against these races, which it is not: it
says that their damage stays with the items that were raced for and those that say
no more, while merges that follow each other lose nothing, in whatever direction
and wherever they stop. `WriteDead` leaves `by` as it is in a direct application,
which writes no metadata.

`AppliedIsNotSkipped` asks for an active canonical item, because
`alreadyApplied` does: where a duplicate was merged into an item that was then
merged into a third, a second run of its job reports it as stale although it was
applied. Nothing is lost by that but the report.

### CandidateBatches and its refinement

`tx` is the transaction of a request: the items whose advisory lock it holds,
what it has stored, its answer. Read committed is modelled by reading `receipts`
and `targets` at each statement; a unique key makes the second insert wait for
the first transaction to end. A rollback may come at any point, a deadlock's
included. `BatchReceipts!ReceiptSpec` is implemented with the identity mapping
on `receipts` and `targets`: `CommitBatch` is a `ReceiveBatch`, all other steps
stutter. That a commit accepts exactly what nobody accepted before is the
content: the duplicates were looked up item by item, some of them long before.
The refusal `receipt_conflict` is left out: it needs a conflict on the digest
that names a receipt without a receipt of the same key, of which it is a digest.
On SQLite the whole of `receiveSqlite` is one transaction without an await, the
abstract step itself.

### ResidentTick

`ProviderQueue` lets executors interleave in any order; this module has the order
of the one resident thread (`Q/executor.rs:147`). `tick.pc` is where the tick is:
`drain` (finalize jobs are pending: the generic executor, one writer job, which
also makes a claim for the others), `cover` (batches of covering claims, each
joined and persisted before the next), `others` (the split executor, claim by
claim, or the generic one, at once). `backlog` counts the runnable jobs of a
lane, and a claim takes one; `served` are the lanes with a free target, which
`ProviderQueue` derives from leases and cooldowns and which here come and go.
`lastClaim` and `recently` are what `covering_turn_due` reads of the events.

`other` stands for the finding lane (jobs of vibe memories) and the episode lane,
which share a pool and a turn. A claim may end the tick with an error, with the
batch claimed before it left running; ticks that fail at a database error are
left out, as are curation, dynamic routes, and covering modes other than `all`.

`TurnsTaken` counts the ticks a lane was passed over although it could be served
from start to end. A chance is lost, and not counted, when the operator pauses
or resumes a lane or a provider comes or goes. Two conditions of covering are
in `Could` because the code has them: it waits for finalize jobs, and for a
backlog of the others that no pool can serve. The second is the finding below.

## Runs

Bounds: `MaxLeases` bounds the claims ever made, and with them the attempts that
can fail; `AgeCap` is one more than the
longest limit, past which an age is all the same; `Backoff` and `MaxAttempts`
are the shortest that still tell first, last and exhausted attempts apart. One
tick stands for the shortest limit in use.

| Run | Instance | Shows |
|---|---|---|
| `fenced` | one split lane, one job, two targets, three claims, claim limit above lease limit | late results, fences, settled jobs, attempts, abandoned claims, types |
| `shared_targets` | two jobs, two pools of capacity one, one over both targets and one over a target of the two | exclusive targets, capacity, refinement |
| `lanes` | a split and a covering lane on one pool of two | lock invariant, paused lanes |
| `legacy` | a detached and a generic lane, a job that prefers targets in order | the end of a lease is recorded once |
| `setup_generic` | a generic lane; expects a violation | the first finding below |
| `liveness` | a covering lane, one job, two targets, fairness | lost leases are freed, dead claims returned |
| `writer` | two clients with one unit each, two writes in a transaction, channel of one, two faults | shared transactions, deferred owners, refinement, types |
| `writer_clients` | a client with two units, a daemon thread with two jobs, two faults | what callers are told is what is durable |
| `writer_liveness` | two clients, one write in a transaction, one fault, fairness | calls and shutdown end |
| `parts` | two processes in each of the TypeScript modules, and the resident thread, one module at a time (`part`) | claims, lanes, hand-over, cursors, merges, receipts and their refinement, turns |
| `agent_log` | a Codex log and one sync; expects a violation | the second finding below |
| `resident_tick` | two claims a tick, one job of each lane at a time, fairness; expects a violation | the third finding below |

Three leases let a job be claimed, recovered, claimed again and once more while
both earlier executions are still alive; two are enough for two owners at odds,
which is what every other property needs. Two targets give a choice and a
cooldown that matters, two pools a target in common.

`liveness` assumes: time passes; maintenance runs again and again (the resident
thread waits for nothing without a timeout); a heartbeat thread gets its turn at
the writer, which serves requests in order; an execution that holds the writer
comes to its end. It assumes nothing of other executions, which may hang, of
claims, of the operator and of crashes.

In the writer runs a transaction has two writes, so that it can be cut in
between; a channel of one is full at the first command; two faults are a lost
answer and a restart, or two broken calls of one client, and two units let a
late command of the first meet the second. The state graph ends where all units
are done or the daemon stays down, so deadlock is not checked. `writer_liveness`
assumes that the loop runs, that blocked sends complete while there is room,
that time passes and that the deadline is looked at (the loop waits at most
250 ms while a transaction is owned), and that a caller whose command is gone
gets its error. It assumes nothing of the clients.

The parts of `parts` share nothing, so an initial state chooses one and the
others stay as they are; each is explored completely within its bounds. The two
pools have a target in common, one of them a second one, and each a capacity of
one, so that a target is contended while capacity is left. `MaxEvents` is one
operator command, crash or lost event: together with lateness, which is not
bounded, it puts a job back under its worker, takes its worker away or sends it
to the `catch` block with its row settled. A handler that throws
was aborted or has no source; the catch block makes the other errors of an
aborted one, so `QueueBound` loses none of its outcomes. It also pauses
only the lane that has jobs. Two candidates and
rows show a duplicate; one turn is one failure, crash or retry anywhere. Three
lines in chunks of two are a full chunk and a partial one. Two incidents are an
edit and a crash, or a crash and another run. Two merges are of one pair in both
directions, or a chain of three items with one incident, which is enough to run a
job again after its canonical item was merged away (`MergeBound`). Of three batches two share two
items in opposite orders and two share a key. Two claims a tick are a batch with
a claim before a failing one; one runnable job of a lane, which comes back at any
time, makes it wait or not, which is all that the order of lanes looks at. The
parts have no liveness property, and all but the tick may stop.

`resident_tick` assumes that the thread goes on with its tick and starts the next
one (`D/resident_runtime/service.rs:333` does so every 5 s, and no call of a tick
is without a timeout), and that the minimum interval passes. `CoveringNotStarved`
itself assumes that from some time on nothing changes but the arrival of jobs.

### Findings

1. `setup_generic`: the generic tick resolves the claimed target after the claim
   is committed (`Q/executor.rs:1479`) and leaves with `?`. The job stays running
   and its lease active until both are stale. The split claim in the same file
   states the opposite rule: "A malformed target must not leave a running job and
   active lease behind while setup unwinds" (`Q/executor.rs:727`). What becomes of
   such a claim is `AbandonedClaimAges`, of the `fenced` run.
2. `agent_log`: the key of a chunk holds its index within the messages of one
   sync (`M/agent-log-sync/sync.service.helpers.ts:368`), and the index starts at
   0 in every sync. The second sync of a session finds the key of its first chunk
   taken, takes the chunk for a duplicate, and moves the cursor past its lines. A
   line "kept for the next run" (`src/test/agent-log-sync.test.ts:146`) is
   therefore not stored by the next run. The cursor itself is right
   (`CursorLeavesNothing`).
3. `resident_tick`: covering yields to every runnable finding or episode job
   (`Q/executor.rs:1077`), and its turn comes back only with a claim of theirs
   (`Q/executor.rs:1250`). A backlog that no pool can serve, because its route is
   a connection that is away or its targets cool down, is never claimed, so after
   one covering claim there is no other. The test of the rule is named "not
   starved by other provider backlog" (`Q/executor_tests.rs:73`). While the
   backlog can be served, `TurnsTaken` shows that covering has its turns.

## Proofs

The theorems hold for every value of the constants that meets the named
assumptions of the module they are about: any number of processes, jobs, lanes,
pools, targets, lines or batches. For `ProviderQueue` these are
`QueueAssumption`, `PoolAssumption` and `BoundAssumption`.

* `TypeCorrect` (`ProviderQueueProofs`): `TypeOK`, with `Started` and `Resulted`,
  which say what execution a lease row has, is inductive. The lemmas say what each
  helper returns or keeps; there is one step per action. Attempt counts are only
  numbers, as in the code.
* `LockCorrect` (`ProviderQueueSafety`): `LockNamesItsLease`. It is not inductive
  alone. The strengthening says which stages an execution with an inserted lease
  can be in, and that an execution that released its lease had written its job
  before.
* `TargetsExclusive` and `PoolsWithinCapacity`: a claim adds one lease, on a
  free target, in a pool that is not full after its own recovery; every other
  step only removes from the active leases. The fence is what makes this true of
  heartbeats.
* `PausedLanesAreQuiet`: a claim takes its lanes from the unpaused ones, and no
  other step makes a job running.
* `ImplementsTargetSlots`: every step maps to a step of `TargetSlots` or a
  stutter.
* `LeasesEndOnce`, `AttemptsAreCounted`, `OnlyOwnersReturnJobs`,
  `SettledJobsStay` and `AbandonedClaimsAge` are about steps. Lemmas say what
  each action makes of every job row, every ended lease and every execution;
  `Owned` is the invariant of the states from which they do so. It says what an
  execution may rely on between its own steps: while it holds the lock of its
  job, the attempts it has read are those of the row; while it keeps the writer,
  its job stays running and its lease active. Without the first an update of an
  owner could set the count back; without the second a claim could be lost
  between two statements of one writer job.

  The first two hold in every mode. The next two do not hold of `detached` lanes,
  the rollback mode of the finding and episode lanes
  (`src/spec/docs/pub/configuration.md:142`), which writes the row by its id
  without looking at the lock, so that a late result of it does take a job from
  its owner. `AttachedJobsAreOwned` and `AttachedJobsStay` say that every other
  lane keeps the properties, whatever runs beside it; the two theorems named
  above follow for configurations without such a lane.

  `AbandonedClaimsAge` holds in every mode and however an execution ended. It
  needs that no heartbeat outlives its execution (`GuardJoined`, in `TypeOK`) and
  that every other writer of the job's row either owns the job, and then it is not
  this claim's, or takes the lock away. That an execution which ends normally
  gives its claim back is not a theorem: errors of the writer can prevent it in
  every mode, and that is why stale recovery, and `DeadClaimIsReturned`, matter.

* `SqliteWriterProofs`, from the named assumptions of `SqliteWriter`:
  `TypeCorrect`; `OneSession`, which is inductive given the types, because what
  the loop serves is the owner's command or finds no owner, and every end of a
  transaction and every rollback clears both the connection and the owner; and
  `ImplementsSessionStore`, whose cases are the commands, the rollback of the
  loop, and the steps that touch neither connection nor owner.

  What callers may believe rests on `CallersFollowed`: of a caller that had the
  answer to each of its calls, all queues together hold at most the one call it
  waits for, and the connection is where the caller's program says, unless its
  transaction was ended behind its back (`broken`). It is what makes a late
  command of an earlier unit impossible for such a caller, and it needs every
  place a command can be: outbox, channel, deferred ones, and what is left of a
  caller that died. From it, the types and `OneSession` follow `OwnersAreServed`,
  `CommitsAreWhole`, `ReportsAreDurable` and `TransactionsAreAtomic`.

* `OneShotQueueProofs`, from `OneShotAssumption`: `QueueTypesCorrect`. The
  lemmas before it classify the steps (`Claims`, `Settles`, `Leave`, `Stays`,
  `Commands`), so that a later proof has a case per class and not per statement.
  `LanesRunOne` is inductive
  given the types. `TargetsUsedOnce` is not: `UsersHold` says that whoever uses
  a target and is not in `lapsed` has its active lease, which a claim on a free
  target keeps and a recovery keeps by marking. `CapacityKept` needs that a
  pool's leases are on its own, finitely many targets. `WorkersApart` and
  `ResultsStand` rest on `JobsHeld`: unless it was put back, the job a worker
  holds is held by nobody else, and it is running while the handler works, running
  or settled afterwards. A claim takes neither running nor settled rows, so it
  can neither join a worker nor let one overwrite the result of another.
  `StraysOnce`: a task that took a job of a paused lane sees the lane as open
  no more until it is resumed.
* `LaneProofs`, from `ControlAssumption`: `ControlsCorrect`. The
  strengthening is about requests on their way: two that overlap make their lanes
  `torn`; for all other lanes the copy a request has read is current, but for
  the lane it is about to write, and what it writes is what was asked last.
  From `TickAssumption`: `TurnsAreTaken`. The strengthening says why a lane missed
  a tick: the other had the latest claim (`MissedIsNext`). Then it is its turn, so
  a claim of the other in a tick in which it has a chance means that it missed
  none before (`TakesTurn`); and a chance that is still open is one
  (`ChanceIsReal`).
* `AgentLogSyncProofs`, from `LogAssumption`: `CursorCorrect`. The strengthening
  says what a sync knows: what lies before its start is imported, and what it
  parsed reaches from there to its new cursor. `LinesStoredOnce` speaks of all
  chunks of a source at once. Its invariant says of a source whose syncs did not
  overlap that its chunks are numbered from zero without a gap, that at most one
  sync is at work and goes on from the cursor, and that a line which is stored
  and may be read again falls into a chunk number that is taken (`Recognised`).
  So what is read twice has a key that is there. The second finding is the
  reverse of this: a key that is there is taken for a line that is stored.
* `CandidateBatchesProofs`, from `BatchAssumption`: `CandidatesAcceptedOnce`,
  `AnswersAgree`, `ImplementsBatchReceipts`. The invariant: what two transactions
  have locked is disjoint, so what one has found to be new is new until it
  commits; and a transaction past its receipt has the key for itself.

* `KnowledgeProofs`, from `PipelineAssumption`: `StagesHandOn` and
  `KnowledgeStoredOnce`. The invariant goes along the pipeline. `FindInv`: a
  finding worker past its n-th candidate knows that n candidates have rows and
  covering jobs. `CoverInv`: evidence has a finalize job by the time its covering
  job is completed, and a worker about to insert one knows that there is none,
  unless the job was crossed. `StoreInv`: the same of a finalize job and its
  knowledge item. `Alone` says when a worker may trust what it read: a job that
  was not crossed has one worker, and only that one settles it. Tables only grow,
  and the row a select finds is the least that shows the key (`RowOfIs`), which
  is where the proofs need that numbers are well founded.

  From `MergeAssumption`: `NothingIsMergedAway`, `UndisturbedMergesKeepAll` and
  `AppliedIsReported`. `Knows`
  says what a process knows between its reads and writes: both rows are still
  what it compared, unless it was `raced`. From that every step is shown to leave
  the items alone in the sense of `Kept`: of an item that is not in doubt, a
  deprecated one stays as it is; and whatever says as much goes on saying that,
  and is deprecated only in favour of an active item that says it too
  (`Deprecates`). That is all that the first theorem needs. What it excepts is
  large: every item of a merge that was raced, and every item that says no more.
  `UndisturbedMergesKeepAll` is the other half, without exception: assume that
  no item is written under a merge that works on it, that no job is queued for an
  outdated review, and that users edit active items only; then every
  statement of every item is in an active one, through chains and cycles of
  merges, interruptions, runs again and direct applications. The third needs that
  a job which is to be skipped is `Hopeless` and stays so: its canonical item
  is gone, or its texts have changed and cannot come back, because items only
  grow (`Grown`), so the job cannot be applied later and make the report wrong.

All safety properties of the passing runs, invariants and action properties, are
stated by a theorem, and so are the three refinements. TLC checked the
strengthened invariants on small instances before they were proved; for the
merges this included chains and cycles of three items.

Only model-checked are the liveness properties, `LostLeaseIsFreed`,
`DeadClaimIsReturned`, `EveryCallEnds` and `ShutdownEnds`: they depend on
fairness, hence on `ENABLED`, which is out of reach of the prover. The three
findings are counterexamples and are TLC's alone.

## What is left

The plan began with the queue, its fence and the writer, went on with the
TypeScript components on the same tables, and ended with the order of the tick.
What a continuation would take up, in this order:

1. `ResidentTick` as a scheduler of `ProviderQueue`, so that `served` is derived
   from leases and cooldowns, with curation and dynamic routes as further lanes.
2. Episode progress under the fence; sessions of the MCP endpoint.

## Not modelled

* Compile, retrieval, embeddings, applicability, evidence by content: ranking
  and prompts, computed from data without a protocol.
* The finalize lane of the resident beyond its claim: a job runs inside one job of
  the writer, with nothing beside it. Covering results of protocol 2 request a
  revision of it (`Q/covering_executor/persistence.rs:329`), but no code writes
  protocol 2 or reads the request.
* Episode and curation executors beyond claim and fence; the connections of
  dynamic routes, which live in another process; process state files.
* The web UI, the read side of the repositories, CRUD services, backup, doctor
  and bootstrap: single rows, single requests, or file operations.
* Migrations: they run before anything else has the database.
* The Postgres branches of the queue core and of the log sync; the claim with a
  lease exists on SQLite only (`M/queue/core/provider-lease.ts:346`).
* Liveness of the TypeScript queue: it is a manual fallback
  (`src/spec/docs/pub/architecture.md:136`), so nothing schedules it.
