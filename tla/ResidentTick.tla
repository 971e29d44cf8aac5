---------------------------- MODULE ResidentTick ----------------------------
(***************************************************************************)
(* One executor tick of the resident thread, claim by claim: which lane it *)
(* serves and in which order (run_executor_tick_report).  Finalize jobs    *)
(* come first, with a turn of the provider lanes; then covering, unless it *)
(* is the turn of the others; then, if no covering job was claimed, the    *)
(* other provider lanes.  How a claim takes its row, its lease and its     *)
(* target is the subject of ProviderQueue: here a lane that is served      *)
(* gives one of its runnable jobs away.                                    *)
(*                                                                         *)
(* "other" stands for the finding and episode lanes, which share a pool    *)
(* and a turn; covering is on.  Each claim is a job of the SQLite writer,  *)
(* so that jobs arrive, lanes are paused, providers come and go and time   *)
(* passes between any two claims of a tick.                                *)
(***************************************************************************)
EXTENDS Naturals, FiniteSets

CONSTANTS
  MaxClaims,    \* max_claims: provider claims of a tick
  MaxFinalize,  \* local_finalize_max_claims
  MaxBacklog    \* bound: runnable jobs of a lane

ASSUME TickAssumption == MaxClaims \in Nat \ {0} /\ MaxFinalize \in Nat \ {0} /\ MaxBacklog \in Nat

VARIABLES
  backlog,      \* [TickLanes -> how many jobs are runnable]
  closed,       \* the paused lanes
  served,       \* the provider lanes for which a pool has a free target
  lastClaim,    \* the lane of the latest claimed event, or "none"
  recently,     \* covering was claimed within the minimum interval
  tick,         \* what the thread is doing
  took,         \* history: the lanes with a claim in this tick
  chance,       \* history: the lanes that could be served all through this tick
  passed        \* [ProviderLanes -> how many ticks with a chance since its last claim]

ProviderLanes == {"covering", "other"}
TickLanes == ProviderLanes \cup {"finalize"}

work     == <<backlog, closed, served, lastClaim, recently>>
tickVars == <<work, tick, took, chance, passed>>

\* A thread between two ticks.  made counts the claims of the loop it is in;
\* batch those that are not executed yet; drained, that the generic tick of the
\* finalize lane found nothing to do.
NoTick == [pc |-> "idle", split |-> FALSE, drained |-> FALSE, made |-> 0, batch |-> 0]

Smaller(m, n) == IF m < n THEN m ELSE n

Waiting(l)  == l \notin closed /\ backlog[l] > 0
CanServe(l) == Waiting(l) /\ l \in served

\* Mutant: covering looks at the interval only, not at who had the last turn.
TurnByInterval == ~recently

\* covering_turn_due: the last provider claim was another lane's, and the
\* minimum interval is over.
TurnDue == lastClaim # "covering" /\ ~recently

\* claim_covering_with_connection: covering yields to runnable work.
MayCover == CanServe("covering") /\ (Waiting("other") => TurnDue)

\* A lane could be served, as far as its backlog, the operator, its providers
\* and the clock go.  Covering also waits for finalize jobs, and for a backlog
\* that no pool can serve: it stays runnable, and its turn never comes.
Could(l) ==
  /\ CanServe(l)
  /\ l = "covering" => ~recently /\ (Waiting("other") => "other" \in served)

-----------------------------------------------------------------------------
(* The tick. *)

StillCould == chance' = {l \in chance : Could(l)'}

\* The tick ends, in whatever way, after claims of the lanes in claims; those
\* in missed could be served all the time.
End(claims, missed) ==
  /\ tick' = NoTick /\ took' = {} /\ chance' = {}
  /\ passed' = [l \in ProviderLanes |-> IF l \in claims THEN 0
                                        ELSE IF l \in missed THEN Smaller(passed[l] + 1, 2)
                                        ELSE passed[l]]

\* A claim and its event; an execution that fails or retries becomes runnable
\* again later (JobArrives).
ClaimFrom(l) ==
  /\ backlog' = [backlog EXCEPT ![l] = @ - 1]
  /\ lastClaim' = l
  /\ recently' = (recently \/ l = "covering")
  /\ UNCHANGED <<closed, served>>

GoesOn(next, claims) ==
  /\ tick' = next /\ took' = took \cup claims
  /\ StillCould /\ UNCHANGED passed

\* Finalize jobs are looked for whether or not their lane is paused.  A tick
\* without them runs the split or the generic executor at its end.
StartTick ==
  /\ tick = NoTick
  /\ \E split \in BOOLEAN :
       tick' = [NoTick EXCEPT !.split = split,
                              !.pc = IF backlog["finalize"] > 0 THEN "drain" ELSE "cover"]
  /\ chance' = {l \in ProviderLanes : Could(l) /\ (l = "covering" => backlog["finalize"] = 0)}
  /\ UNCHANGED <<work, took, passed>>

\* run_executor_tick_with_connection, one writer job: finalize jobs up to their
\* limit, then a claim of each pool.  At the start of a tick covering follows if
\* nothing was claimed; at its end the tick is over.
GenericTick ==
  LET finals == IF "finalize" \in closed THEN 0 ELSE Smaller(backlog["finalize"], MaxFinalize)
      others == IF CanServe("other") THEN {"other"} ELSE {}
  IN  /\ tick.pc = "drain" \/ (tick.pc = "others" /\ ~tick.split)
      /\ backlog' = [backlog EXCEPT !["finalize"] = @ - finals, !["other"] = @ - Cardinality(others)]
      /\ lastClaim' = IF others = {} THEN lastClaim ELSE "other"
      /\ UNCHANGED <<closed, served, recently>>
      /\ IF tick.pc = "drain" /\ finals = 0 /\ others = {}
         THEN GoesOn([tick EXCEPT !.pc = "cover", !.drained = TRUE], {})
         ELSE End(took \cup others, chance)

BatchHasRoom == tick.made + tick.batch < MaxClaims

\* The setup of a claim may fail: its job waits, and the error leaves the tick,
\* with what was claimed before it in the batch left running.
ClaimCovering ==
  /\ tick.pc = "cover" /\ BatchHasRoom /\ MayCover
  /\ ClaimFrom("covering")
  /\ \/ GoesOn([tick EXCEPT !.batch = @ + 1], {"covering"})
     \/ End(took \cup {"covering"}, chance)

\* The threads of the batch are joined and every result is persisted; the first
\* error of those leaves the tick afterwards.
RunBatch ==
  /\ tick.pc = "cover" /\ tick.batch > 0 /\ ~(BatchHasRoom /\ MayCover)
  /\ UNCHANGED work
  /\ \/ GoesOn([tick EXCEPT !.made = @ + tick.batch, !.batch = 0], {})
     \/ End(took, chance)

LeaveCovering ==
  /\ tick.pc = "cover" /\ tick.batch = 0 /\ ~(BatchHasRoom /\ MayCover)
  /\ UNCHANGED work
  /\ IF tick.made > 0 \/ tick.drained
     THEN End(took, chance)
     ELSE GoesOn([tick EXCEPT !.pc = "others"], {})

\* run_split_provider_executor_tick_for_path: claim, execute, and again.
ClaimOther ==
  /\ tick.pc = "others" /\ tick.split /\ tick.made < MaxClaims /\ CanServe("other")
  /\ ClaimFrom("other")
  /\ \/ GoesOn([tick EXCEPT !.made = @ + 1], {"other"})
     \/ End(took \cup {"other"}, chance)

LeaveOthers ==
  /\ tick.pc = "others" /\ tick.split /\ ~(tick.made < MaxClaims /\ CanServe("other"))
  /\ UNCHANGED work
  /\ End(took, chance)

TickStep ==
  \/ StartTick \/ GenericTick \/ ClaimCovering \/ RunBatch \/ LeaveCovering
  \/ ClaimOther \/ LeaveOthers

-----------------------------------------------------------------------------
(* Around it. *)

\* A job is enqueued, its backoff is over, or it is recovered as stale.
JobArrives(l) ==
  /\ backlog[l] < MaxBacklog
  /\ backlog' = [backlog EXCEPT ![l] = @ + 1]
  /\ UNCHANGED <<closed, served, lastClaim, recently, tick, took, passed>>
  /\ StillCould

IntervalEnds ==
  /\ recently /\ recently' = FALSE
  /\ UNCHANGED <<backlog, closed, served, lastClaim, tick, took, chance, passed>>

\* A tick during which a lane or a provider changes is no chance missed.
TogglePause(l) ==
  /\ closed' = (closed \ {l}) \cup ({l} \ closed)
  /\ chance' = {}
  /\ UNCHANGED <<backlog, served, lastClaim, recently, tick, took, passed>>

ProviderChanges(l) ==
  /\ served' = (served \ {l}) \cup ({l} \ served)
  /\ chance' = {}
  /\ UNCHANGED <<backlog, closed, lastClaim, recently, tick, took, passed>>

\* The daemon stops or dies; the events are in the database.
DaemonRestarts ==
  /\ tick # NoTick
  /\ End(took, {})
  /\ UNCHANGED work

TickInit ==
  /\ backlog = [l \in TickLanes |-> 0]
  /\ closed = {} /\ served = ProviderLanes
  /\ lastClaim = "none" /\ recently = FALSE
  /\ tick = NoTick /\ took = {} /\ chance = {}
  /\ passed = [l \in ProviderLanes |-> 0]

TickNext ==
  \/ TickStep
  \/ \E l \in TickLanes : JobArrives(l) \/ TogglePause(l)
  \/ \E l \in ProviderLanes : ProviderChanges(l)
  \/ IntervalEnds
  \/ DaemonRestarts

TickSpec == TickInit /\ [][TickNext]_tickVars

\* The resident thread ticks again and again, and time passes.
FairTickSpec == TickSpec /\ WF_tickVars(TickStep) /\ WF_tickVars(IntervalEnds)

-----------------------------------------------------------------------------
(* Properties. *)

\* The provider lanes take turns: of any two ticks in which covering, or the
\* finding and episode work, could have been served from start to end, one
\* claims a job of it, however the other lane's jobs keep coming, claims fail
\* or the daemon restarts in between.
TurnsTaken == \A l \in ProviderLanes : passed[l] < 2

\* Covering is "not starved by other provider backlog" (executor_tests.rs:73):
\* once jobs arrive and time passes but nothing else happens around the tick,
\* and covering can be served and has no finalize job before it, it is claimed
\* again and again.
CoveringNotStarved ==
  /\ <>[](CanServe("covering") /\ backlog["finalize"] = 0)
  /\ <>[][TickStep \/ IntervalEnds \/ \E l \in TickLanes : JobArrives(l)]_tickVars
  => []<><<ClaimCovering>>_tickVars
=============================================================================
