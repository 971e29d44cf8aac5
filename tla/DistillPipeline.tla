--------------------------- MODULE DistillPipeline ---------------------------
(***************************************************************************)
(* What the handlers of the one-shot worker write on the way from a source *)
(* to a stored knowledge item: found candidates with their covering jobs,  *)
(* the evidence with its finalize job, the knowledge item (worker.ts and   *)
(* finalizeDistille/domain.ts on SQLite).  One source, so one finding job. *)
(*                                                                         *)
(* A handler asks for an existing row and then inserts or updates, in      *)
(* separate statements.  Covering jobs and evidence are guarded by a       *)
(* trigger that refuses a second row; found candidates, finalize jobs and  *)
(* knowledge items are not.  Workers are processes, so the statements of   *)
(* two interleave; each can fail at any statement, or die.  How a job is   *)
(* claimed is the subject of OneShotQueue: here a pending row is taken,    *)
(* and a running one may be put back under its worker.                     *)
(***************************************************************************)
EXTENDS Naturals, FiniteSets, Sequences

CONSTANTS
  Hands,        \* worker processes
  MaxFound,     \* bound: candidates one finding run returns
  MaxRows,      \* bound: rows of found_candidates and of finalize jobs
  MaxTurns      \* bound: rows put back, retried or given up

ASSUME PipelineAssumption == MaxFound \in Nat /\ MaxRows \in Nat /\ MaxTurns \in Nat

VARIABLES
  found,        \* Seq of candidate indexes: the rows of found_candidates
  status,       \* [JobIds -> status of the queue row, or "none"]
  evidence,     \* [Rows -> "none", "ready" or "other"]: the evidence of a candidate
  finals,       \* Seq of Rows: the evidence each finalize job is for
  stored,       \* Seq of Rows: the evidence each knowledge item was made from
  hand,         \* [Hands -> what the worker is doing]
  turns,
  crossed,      \* history: jobs that two workers had at a time
  complete      \* history: how many candidates the completed finding run found

tables == <<found, evidence, finals, stored>>
pipeVars == <<tables, status, hand, turns, crossed, complete>>

Rows == 1..MaxRows
FindingJob     == <<"finding", 1>>
CoveringJob(c) == <<"covering", c>>
FinalizeJob(f) == <<"finalize", f>>
JobIds == {FindingJob} \cup {CoveringJob(c) : c \in Rows} \cup {FinalizeJob(f) : f \in Rows}

IdleHand == [pc |-> "idle", job |-> FindingJob, n |-> 0, i |-> 0, row |-> 0, out |-> "completed"]

At(h, pc)   == hand[h].pc = pc
Move(h, pc) == hand' = [hand EXCEPT ![h].pc = pc]
Subject(h)  == hand[h].job[2]
Busy(j)     == {h \in Hands : ~At(h, "idle") /\ hand[h].job = j}

\* "select id ... where ... limit 1": the first row that shows key, or 0.
RowOf(table, key) ==
  LET hits == {k \in DOMAIN table : table[k] = key}
  IN  IF hits = {} THEN 0 ELSE CHOOSE k \in hits : \A m \in hits : k <= m

-----------------------------------------------------------------------------
(* Queue rows are taken, put back, given up and settled. *)

FirstStep(j) == CASE j[1] = "finding"  -> "find"
                  [] j[1] = "covering" -> "cover"
                  [] j[1] = "finalize" -> "load"

Take(h, j) ==
  /\ At(h, "idle") /\ status[j] = "pending"
  /\ status' = [status EXCEPT ![j] = "running"]
  /\ hand' = [hand EXCEPT ![h] = [IdleHand EXCEPT !.pc = FirstStep(j), !.job = j]]
  /\ crossed' = crossed \cup {x \in {j} : Busy(x) # {}}
  /\ UNCHANGED <<tables, turns, complete>>

Turn == turns < MaxTurns /\ turns' = turns + 1

\* A running row is put back (stale, or its lane is paused); a settled row is
\* retried by the operator.
Reset(j) ==
  /\ Turn /\ status[j] \notin {"none", "pending"}
  /\ status' = [status EXCEPT ![j] = "pending"]
  /\ UNCHANGED <<tables, hand, crossed, complete>>

\* The handler throws and the catch block settles the row, or the process dies
\* and leaves it as it is.
Fail(h) ==
  /\ ~At(h, "idle") /\ Turn
  /\ \E st \in {"failed", "pending", status[hand[h].job]} :
       status' = [status EXCEPT ![hand[h].job] = st]
  /\ hand' = [hand EXCEPT ![h] = IdleHand]
  /\ UNCHANGED <<tables, crossed, complete>>

\* The last statement of every handler, by the id of the job.
Mark(h) ==
  /\ At(h, "mark")
  /\ status' = [status EXCEPT ![hand[h].job] = hand[h].out]
  /\ complete' = IF hand[h].job = FindingJob THEN hand[h].n ELSE complete
  /\ hand' = [hand EXCEPT ![h] = IdleHand]
  /\ UNCHANGED <<tables, turns, crossed>>

\* The trigger refuses an insert when another process was faster; the handler
\* throws and its job fails.
Refused(h) ==
  /\ \/ At(h, "addJob") /\ status[CoveringJob(hand[h].row)] # "none"
     \/ At(h, "addEvidence") /\ evidence[Subject(h)] # "none"
  /\ status' = [status EXCEPT ![hand[h].job] = "failed"]
  /\ hand' = [hand EXCEPT ![h] = IdleHand]
  /\ UNCHANGED <<tables, turns, crossed, complete>>

-----------------------------------------------------------------------------
(* processFindingCandidate: each candidate is stored and gets its job. *)

Find(h) ==
  /\ At(h, "find")
  /\ \E n \in 0..MaxFound :
       hand' = [hand EXCEPT ![h].n = n, ![h].i = 1,
                            ![h].pc = IF n = 0 THEN "mark" ELSE "lookFound",
                            ![h].out = IF n = 0 THEN "skipped" ELSE "completed"]
  /\ UNCHANGED <<tables, status, turns, crossed, complete>>

LookFound(h) ==
  /\ At(h, "lookFound")
  /\ hand' = [hand EXCEPT ![h].row = RowOf(found, hand[h].i), ![h].pc = "saveFound"]
  /\ UNCHANGED <<tables, status, turns, crossed, complete>>

\* An existing row gets the new text, which is not modelled; otherwise a row
\* is added.
SaveFound(h) ==
  /\ At(h, "saveFound")
  /\ IF hand[h].row # 0
     THEN Move(h, "lookJob") /\ UNCHANGED found
     ELSE /\ Len(found) < MaxRows
          /\ found' = Append(found, hand[h].i)
          /\ hand' = [hand EXCEPT ![h].row = Len(found'), ![h].pc = "lookJob"]
  /\ UNCHANGED <<status, evidence, finals, stored, turns, crossed, complete>>

\* Mutant: the loop ends one candidate early.
AfterCandidateEarly(h) == IF hand[h].i + 1 >= hand[h].n THEN "mark" ELSE "lookFound"

AfterCandidate(h) == IF hand[h].i = hand[h].n THEN "mark" ELSE "lookFound"

NextCandidate(h) == hand' = [hand EXCEPT ![h].i = @ + 1, ![h].pc = AfterCandidate(h)]

LookJob(h) ==
  /\ At(h, "lookJob")
  /\ IF status[CoveringJob(hand[h].row)] # "none" THEN NextCandidate(h) ELSE Move(h, "addJob")
  /\ UNCHANGED <<tables, status, turns, crossed, complete>>

AddJob(h) ==
  LET j == CoveringJob(hand[h].row)
  IN  /\ At(h, "addJob") /\ status[j] = "none"
      /\ status' = [status EXCEPT ![j] = "pending"]
      /\ NextCandidate(h)
      /\ UNCHANGED <<tables, turns, crossed, complete>>

-----------------------------------------------------------------------------
(* processCoveringJob: whatever the result, it becomes the evidence; one   *)
(* that is knowledge_ready also asks for a finalize job, if none is there. *)

Cover(h) ==
  /\ At(h, "cover")
  /\ \E out \in {"ready", "completed", "pending", "failed"} :
       hand' = [hand EXCEPT ![h].out = out,
                            ![h].pc = IF evidence[Subject(h)] = "none" THEN "addEvidence"
                                                                       ELSE "saveEvidence"]
  /\ UNCHANGED <<tables, status, turns, crossed, complete>>

SaveEvidence(h) ==
  /\ \/ At(h, "saveEvidence")
     \/ At(h, "addEvidence") /\ evidence[Subject(h)] = "none"
  /\ evidence' = [evidence EXCEPT ![Subject(h)] = IF hand[h].out = "ready" THEN "ready" ELSE "other"]
  /\ hand' = [hand EXCEPT ![h].pc = IF hand[h].out = "ready" THEN "lookFinal" ELSE "mark",
                          ![h].out = IF @ = "ready" THEN "completed" ELSE @]
  /\ UNCHANGED <<found, status, finals, stored, turns, crossed, complete>>

\* Mutant: a finalize job that is there is not seen.
FinalUnseen(h) == 0

\* The finalize job for the evidence of this covering job.
FinalSeen(h) == RowOf(finals, Subject(h))

LookFinal(h) ==
  /\ At(h, "lookFinal")
  /\ Move(h, IF FinalSeen(h) = 0 THEN "addFinal" ELSE "mark")
  /\ UNCHANGED <<tables, status, turns, crossed, complete>>

AddFinal(h) ==
  /\ At(h, "addFinal") /\ Len(finals) < MaxRows
  /\ finals' = Append(finals, Subject(h))
  /\ status' = [status EXCEPT ![FinalizeJob(Len(finals'))] = "pending"]
  /\ Move(h, "mark")
  /\ UNCHANGED <<found, evidence, stored, turns, crossed, complete>>

-----------------------------------------------------------------------------
(* processFinalizeJob and runFinalizeDistille: evidence that is ready and  *)
(* passes the gates is stored, unless an item from it is there.            *)

Evidence(h) == finals[Subject(h)]

\* The gates (importance, quality, applicability, landscape approval) decide
\* by content; what they reject is skipped.
Load(h) ==
  /\ At(h, "load")
  /\ \/ evidence[Evidence(h)] = "ready" /\ Move(h, "lookItem")
     \/ hand' = [hand EXCEPT ![h].out = "skipped", ![h].pc = "mark"]
  /\ UNCHANGED <<tables, status, turns, crossed, complete>>

\* selectKnowledgeByFinalizeSourceUri before the embedding, and the look of
\* upsertKnowledgeFromSource after it.
Item(h) == RowOf(stored, Evidence(h))

LookItem(h) ==
  /\ At(h, "lookItem")
  /\ Move(h, IF Item(h) = 0 THEN "embed" ELSE "mark")
  /\ UNCHANGED <<tables, status, turns, crossed, complete>>

LookAgain(h) ==
  /\ At(h, "embed")
  /\ hand' = [hand EXCEPT ![h].row = Item(h), ![h].pc = "saveItem"]
  /\ UNCHANGED <<tables, status, turns, crossed, complete>>

\* The item is inserted or rewritten; its source links are not modelled.
SaveItem(h) ==
  /\ At(h, "saveItem")
  /\ stored' = IF hand[h].row = 0 THEN Append(stored, Evidence(h)) ELSE stored
  /\ Move(h, "mark")
  /\ UNCHANGED <<found, status, evidence, finals, turns, crossed, complete>>

PipeInit ==
  /\ found = <<>> /\ finals = <<>> /\ stored = <<>>
  /\ evidence = [c \in Rows |-> "none"]
  /\ status = [j \in JobIds |-> IF j = FindingJob THEN "pending" ELSE "none"]
  /\ hand = [h \in Hands |-> IdleHand]
  /\ turns = 0 /\ crossed = {} /\ complete = 0

PipeNext ==
  \/ \E j \in JobIds : Reset(j) \/ \E h \in Hands : Take(h, j)
  \/ \E h \in Hands :
       \/ Fail(h) \/ Mark(h) \/ Refused(h)
       \/ Find(h) \/ LookFound(h) \/ SaveFound(h) \/ LookJob(h) \/ AddJob(h)
       \/ Cover(h) \/ SaveEvidence(h) \/ LookFinal(h) \/ AddFinal(h)
       \/ Load(h) \/ LookItem(h) \/ LookAgain(h) \/ SaveItem(h)

PipeSpec == PipeInit /\ [][PipeNext]_pipeVars

-----------------------------------------------------------------------------
(* Properties. *)

\* No stage settles its job before it has handed its work on: the candidates
\* of a completed finding run have covering jobs; a completed covering job
\* whose evidence is ready has a finalize job, unless two workers had it; a
\* completed finalize job has its knowledge item.  Runs may have died, failed
\* or been overtaken at any statement before.
HandedOn ==
  /\ status[FindingJob] = "completed" =>
       \A i \in 1..complete : \E c \in DOMAIN found :
         found[c] = i /\ status[CoveringJob(c)] # "none"
  /\ \A c \in Rows :
       status[CoveringJob(c)] = "completed" /\ evidence[c] = "ready" =>
         RowOf(finals, c) # 0 \/ CoveringJob(c) \in crossed
  /\ \A f \in DOMAIN finals :
       status[FinalizeJob(f)] = "completed" => RowOf(stored, finals[f]) # 0

\* One evidence becomes at most one knowledge item and one finalize job,
\* through failures, crashes and retries at any statement, unless two workers
\* had its covering job or its finalize job at the same time.
KnowledgeOnce ==
  \A c \in Rows :
    CoveringJob(c) \notin crossed =>
      \A f, g \in {x \in DOMAIN finals : finals[x] = c} :
        /\ f = g
        /\ \A m, n \in {x \in DOMAIN stored : stored[x] = c} :
             m = n \/ FinalizeJob(f) \in crossed
=============================================================================
