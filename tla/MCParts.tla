------------------------------ MODULE MCParts ------------------------------
(***************************************************************************)
(* Small instances of the components that keep their state in tables of    *)
(* their own: an initial state says which part runs.                       *)
(*                                                                         *)
(* The queue has two covering jobs, whose lane is served by two pools that *)
(* share a target (pooled), or a finding job or two, whose lane no pool    *)
(* serves, and the operator may enqueue the one that is missing.  The logs *)
(* are a Codex log, whose parser leaves an incomplete line, and a Claude   *)
(* log.  A merge that is queued as an exact duplicate runs beside one of    *)
(* the same pair in the other direction (merge), or beside one that merges *)
(* its canonical item into a third (merge_chain).  Of the three batches    *)
(* two share their candidates, in opposite order, and two share a key.     *)
(* The tick of the resident thread claims two jobs at most.                *)
(***************************************************************************)
EXTENDS OneShotQueue, LaneControls, DistillPipeline, AgentLogSync,
        MergeActivation, CandidateBatches, ResidentTick, TLC

CONSTANTS w1, w2, c1, c2, f1, f2, covering, finding,
          pool1, pool2, target1, target2

VARIABLE part

MCLaneOf        == [j \in Jobs |-> IF j \in {c1, c2} THEN covering ELSE finding]
MCTargetsOf     == [x \in Pools |-> IF x = pool1 THEN Targets ELSE {target2}]
MCLanesOf       == [x \in Pools |-> <<covering>>]
MCMaxConcurrent == [x \in Pools |-> 1]
MCPreferred     == [j \in Jobs |-> IF j = c1 THEN {target2} ELSE {target1}]

MCDeadOf  == [m \in Merges |-> IF m = "duplicate" THEN "older" ELSE "newer"]
MCCanonOf == [m \in Merges |-> CASE m = "duplicate" -> "newer"
                                  [] m = "reverse"   -> "older"
                                  [] m = "next"      -> "newest"]
MCSays    == [i \in Items |-> IF i = "newest" THEN {} ELSE {10}]

MCKeyOf   == [b \in Batches |-> IF b = "second" THEN "key2" ELSE "key1"]
MCItemsOf == [b \in Batches |-> CASE b = "first"  -> <<"x", "y">>
                                  [] b = "second" -> <<"y", "x">>
                                  [] b = "third"  -> <<"x">>]

Alike == Permutations({w1, w2})

MCInit ==
  /\ part \in {"pooled", "unpooled", "lanes", "pipeline", "codex_logs", "claude_logs", "merge",
             "merge_chain", "batches", "tick"}
  /\ Init /\ LaneInit /\ PipeInit /\ LogInit /\ MergeInit /\ BatchInit /\ TickInit
  /\ {j \in Jobs : job[j].st # "absent"} \in
       CASE part = "pooled"   -> {{c1, c2}}
         [] part = "unpooled" -> {{f1}, {f1, f2}}
         [] OTHER             -> {{}}

\* With the pools, covering jobs only; only the lane with the jobs is paused.
\* A handler that throws was aborted, or has no source; the catch block makes
\* the other errors of an aborted one.
QueueBound ==
  /\ {j \in {f1, f2} : part = "pooled" /\ job'[j] # job[j]} = {}
  /\ paused' \subseteq {IF part = "pooled" THEN covering ELSE finding}
  /\ {worker'[w].out : w \in {x \in Workers : worker[x].pc = "working"}}
       \subseteq {"ok", "abort", "missing"}

\* Two merges at a time, and no third item but for the chain, which has one
\* incident.
MergeBound ==
  IF part = "merge" THEN merge'["next"] = merge["next"] /\ item'["newest"] = item["newest"]
                    ELSE merge'["reverse"] = merge["reverse"] /\ incidents' < MaxIncidents

MCNext ==
  /\ UNCHANGED part
  /\ \/ /\ part \in {"pooled", "unpooled"}
        /\ UNCHANGED <<laneVars, pipeVars, logVars, mergeVars, batchVars, tickVars>>
        /\ Next
        /\ QueueBound
     \/ /\ part = "lanes"
        /\ UNCHANGED <<vars, pipeVars, logVars, mergeVars, batchVars, tickVars>>
        /\ LaneNext
     \/ /\ part = "pipeline"
        /\ UNCHANGED <<vars, laneVars, logVars, mergeVars, batchVars, tickVars>>
        /\ PipeNext
     \/ /\ part \in LogSources
        /\ UNCHANGED <<vars, laneVars, pipeVars, mergeVars, batchVars, tickVars>>
        /\ SourceStep(part)
     \/ /\ part \in {"merge", "merge_chain"}
        /\ UNCHANGED <<vars, laneVars, pipeVars, logVars, batchVars, tickVars>>
        /\ MergeNext
        /\ MergeBound
     \/ /\ part = "batches"
        /\ UNCHANGED <<vars, laneVars, pipeVars, logVars, mergeVars, tickVars>>
        /\ BatchNext
     \/ /\ part = "tick"
        /\ UNCHANGED <<vars, laneVars, pipeVars, logVars, mergeVars, batchVars>>
        /\ TickNext
=============================================================================
