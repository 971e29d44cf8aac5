--------------------------- MODULE KnowledgeProofs ---------------------------
(***************************************************************************)
(* What becomes of knowledge.  On the way in (DistillPipeline): a stage    *)
(* that has completed has handed its result on, and a source that no two   *)
(* workers had at a time is stored once.  Afterwards (MergeActivation):    *)
(* merging loses nothing that was said, and an applied merge is not        *)
(* reported as skipped.  For every number of workers, candidates, rows,    *)
(* items and merges, and however merges share items.                       *)
(*                                                                         *)
(* Each half says what every step does in the terms its invariants need,   *)
(* one lemma per action, and then derives the properties.                  *)
(***************************************************************************)
EXTENDS DistillPipeline, MergeActivation, WellFoundedInduction, TLAPS

-----------------------------------------------------------------------------
(* The tables. *)

\* A row of the table shows the key.
Shown(table, key) == \E k \in DOMAIN table : table[k] = key

(* A nonempty set of numbers has a least one.                              *)
LEMMA Least ==
  ASSUME NEW S \in SUBSET Nat, S # {}
  PROVE  \E k \in S : \A m \in S : k <= m
<1>1. PICK k \in S : \A m \in S : ~(<<m, k>> \in OpToRel(<, Nat))
  BY NatLessThanWellFounded, WFMin
<1>2. \A m \in S : ~(m < k)
  BY <1>1 DEF OpToRel
<1> QED
  BY <1>2

(* The select finds a row that shows the key, if there is one.             *)
LEMMA RowOfIs ==
  ASSUME NEW X, NEW table \in Seq(X), NEW key
  PROVE  /\ RowOf(table, key) \in Nat
         /\ RowOf(table, key) # 0 =>
              RowOf(table, key) \in DOMAIN table /\ table[RowOf(table, key)] = key
         /\ RowOf(table, key) = 0 <=> ~Shown(table, key)
<1> DEFINE hits == {k \in DOMAIN table : table[k] = key}
<1>1. hits \in SUBSET Nat /\ 0 \notin hits
  OBVIOUS
<1>2. CASE hits = {}
  BY <1>2 DEF RowOf, Shown
<1>3. CASE hits # {}
  <2>1. \E k \in hits : \A m \in hits : k <= m
    BY <1>1, <1>3, Least
  <2>2. RowOf(table, key) \in hits
    BY <1>3, <2>1 DEF RowOf
  <2> QED
    BY <1>1, <2>2 DEF Shown
<1> QED
  BY <1>2, <1>3

(* What an insert does to a table.                                         *)
LEMMA Inserted ==
  ASSUME NEW X, NEW table \in Seq(X), NEW x \in X, NEW t, t = Append(table, x)
  PROVE  /\ t \in Seq(X) /\ Len(t) = Len(table) + 1 /\ Len(t) \in Nat
         /\ DOMAIN t = DOMAIN table \cup {Len(t)} /\ Len(t) \notin DOMAIN table
         /\ \A k \in DOMAIN table : t[k] = table[k]
         /\ t[Len(t)] = x
<1>1. Len(table) \in Nat /\ DOMAIN table = 1..Len(table)
  OBVIOUS
<1>2. t \in Seq(X) /\ Len(t) = Len(table) + 1 /\ DOMAIN t = 1..(Len(table) + 1)
  OBVIOUS
<1>3. \A k \in 1..Len(table) : t[k] = table[k]
  OBVIOUS
<1>4. t[Len(t)] = x
  BY <1>2
<1> QED
  BY <1>1, <1>2, <1>3, <1>4

(* The jobs of the three lanes differ.                                     *)
LEMMA JobsDiffer ==
  /\ \A c, d \in Rows : /\ CoveringJob(c) = CoveringJob(d) => c = d
                        /\ FinalizeJob(c) = FinalizeJob(d) => c = d
                        /\ CoveringJob(c) # FinalizeJob(d)
                        /\ CoveringJob(c) # FindingJob /\ FinalizeJob(c) # FindingJob
                        /\ CoveringJob(c) \in JobIds /\ FinalizeJob(c) \in JobIds
                        /\ CoveringJob(c)[2] = c /\ FinalizeJob(c)[2] = c
                        /\ FirstStep(CoveringJob(c)) = "cover"
                        /\ FirstStep(FinalizeJob(c)) = "load"
  /\ FindingJob \in JobIds /\ FirstStep(FindingJob) = "find"
  /\ \A j \in JobIds : j = FindingJob \/ \E c \in Rows : j = CoveringJob(c) \/ j = FinalizeJob(c)
BY DEF CoveringJob, FinalizeJob, FindingJob, JobIds, FirstStep

-----------------------------------------------------------------------------
(* What every step of the pipeline does. *)

JobStates == {"none", "pending", "running", "completed", "skipped", "failed"}
FindPcs   == {"find", "lookFound", "saveFound", "lookJob", "addJob"}
CoverPcs  == {"cover", "addEvidence", "saveEvidence", "lookFinal", "addFinal"}
StorePcs  == {"load", "lookItem", "embed", "saveItem"}
HandRecord ==
  [pc : {"idle", "mark"} \cup FindPcs \cup CoverPcs \cup StorePcs, job : JobIds,
   n : Nat, i : Nat, row : Nat, out : {"ready", "completed", "pending", "failed", "skipped"}]

PipeTypes ==
  /\ found \in Seq(Nat) /\ Len(found) <= MaxRows
  /\ finals \in Seq(Rows) /\ Len(finals) <= MaxRows
  /\ stored \in Seq(Rows)
  /\ status \in [JobIds -> JobStates] /\ evidence \in [Rows -> {"none", "ready", "other"}]
  /\ hand \in [Hands -> HandRecord] /\ complete \in Nat

\* A worker is at the statements of its kind of job.
Staged(h) ==
  /\ hand[h].pc \in FindPcs => hand[h].job = FindingJob
  /\ hand[h].pc \in CoverPcs => \E c \in Rows : hand[h].job = CoveringJob(c)
  /\ hand[h].pc \in StorePcs => \E f \in Rows : hand[h].job = FinalizeJob(f)
  /\ hand[h].out = "ready" => hand[h].pc \in {"addEvidence", "saveEvidence"}

\* A worker has a row; a finalize job has the evidence it is for, and so has
\* a knowledge item.
HasRow(h) == ~At(h, "idle") => status[hand[h].job] # "none"
Linked ==
  /\ \A f \in Rows : status[FinalizeJob(f)] # "none" => f \in DOMAIN finals
  /\ \A m \in DOMAIN stored : Shown(finals, stored[m])

PipeShape == PipeTypes /\ Linked /\ \A h \in Hands : Staged(h) /\ HasRow(h)

\* A table only grows.
Extends(t, u) == \A k \in DOMAIN t : k \in DOMAIN u /\ u[k] = t[k]
Grows == Extends(found, found') /\ Extends(finals, finals') /\ Extends(stored, stored')

\* A worker goes on with its job, which settles no row; or it leaves its job.
OthersStay(h) == \A g \in Hands \ {h} : hand'[g] = hand[g]
Works(h) ==
  /\ ~At(h, "idle") /\ hand'[h].pc # "idle" /\ hand'[h].job = hand[h].job
  /\ OthersStay(h) /\ UNCHANGED <<crossed, complete>>
  /\ \A j \in JobIds : status[j] # "none" => status'[j] = status[j]
  /\ \A j \in JobIds : status'[j] = "completed" => status[j] = "completed"
Leaves(h) ==
  /\ ~At(h, "idle") /\ hand'[h].pc = "idle" /\ OthersStay(h) /\ UNCHANGED <<tables, crossed>>
  /\ \A j \in JobIds \ {hand[h].job} : status'[j] = status[j]
  /\ status[hand[h].job] # "none" => status'[hand[h].job] # "none"

(* The record of a worker after a step of its own.                         *)
LEMMA HandTurns ==
  ASSUME PipeTypes, NEW h \in Hands, NEW r \in HandRecord, hand' = [hand EXCEPT ![h] = r]
  PROVE  hand' \in [Hands -> HandRecord] /\ hand'[h] = r /\ OthersStay(h)
BY DEF PipeTypes, OthersStay

(* What a table shows, it goes on showing.                                 *)
LEMMA ShownStays ==
  ASSUME NEW t, NEW u, Extends(t, u), NEW key, Shown(t, key)
  PROVE  Shown(u, key)
BY DEF Extends, Shown

(* A worker that goes on keeps its row, and the others stay as they are.   *)
LEMMA WorkShape ==
  ASSUME PipeShape, NEW h \in Hands, Works(h), PipeTypes', Linked', Staged(h)'
  PROVE  PipeShape'
<1>1. \A g \in Hands : hand[g].job \in JobIds
  BY DEF PipeShape, PipeTypes, HandRecord
<1>2. ASSUME NEW g \in Hands PROVE Staged(g)' /\ HasRow(g)'
  <2>1. CASE g = h
    BY <1>1, <2>1 DEF PipeShape, Works, HasRow, At
  <2>2. CASE g # h
    BY <1>1, <2>2 DEF PipeShape, Works, OthersStay, Staged, HasRow, At
  <2> QED
    BY <2>1, <2>2
<1> QED
  BY <1>2 DEF PipeShape

(* Nothing changes but the hand.                                           *)
LEMMA QuietWork ==
  ASSUME PipeShape, NEW h \in Hands, NEW r \in HandRecord, hand' = [hand EXCEPT ![h] = r],
         UNCHANGED <<tables, status, crossed, complete>>,
         ~At(h, "idle"), r.pc # "idle", r.job = hand[h].job,
         Staged(h)'
  PROVE  PipeShape' /\ Works(h) /\ Grows /\ hand'[h] = r
<1>1. hand' \in [Hands -> HandRecord] /\ hand'[h] = r /\ OthersStay(h)
  BY HandTurns DEF PipeShape
<1>2. PipeTypes'
  BY <1>1 DEF PipeShape, PipeTypes, tables
<1>3. Works(h) /\ Grows
  BY <1>1 DEF Works, Grows, Extends, tables
<1>4. Linked'
  BY DEF PipeShape, Linked, tables
<1> QED
  BY <1>1, <1>2, <1>3, <1>4, WorkShape

(* The finding handler has found its candidates.                           *)
LEMMA FindDoes ==
  ASSUME PipeShape, NEW h \in Hands, Find(h)
  PROVE  /\ PipeShape' /\ Works(h) /\ Grows /\ UNCHANGED <<tables, status>>
         /\ hand[h].pc = "find" /\ hand'[h].i = 1
         /\ \/ hand'[h].n \in Nat \ {0} /\ hand'[h].pc = "lookFound" /\ hand'[h].out = "completed"
            \/ hand'[h].n = 0 /\ hand'[h].pc = "mark" /\ hand'[h].out = "skipped"
<1>1. PICK n \in 0..MaxFound :
        hand' = [hand EXCEPT ![h].n = n, ![h].i = 1,
                             ![h].pc = IF n = 0 THEN "mark" ELSE "lookFound",
                             ![h].out = IF n = 0 THEN "skipped" ELSE "completed"]
  BY DEF Find
<1> DEFINE r == [hand[h] EXCEPT !.n = n, !.i = 1,
                                !.pc = IF n = 0 THEN "mark" ELSE "lookFound",
                                !.out = IF n = 0 THEN "skipped" ELSE "completed"]
<1>2. n \in Nat /\ hand[h] \in HandRecord /\ hand[h].pc = "find" /\ hand[h].job = FindingJob
  BY PipelineAssumption DEF Find, At, PipeShape, PipeTypes, Staged, FindPcs
<1>3. /\ r \in HandRecord /\ r.n = n /\ r.i = 1 /\ r.job = FindingJob
      /\ r.pc = IF n = 0 THEN "mark" ELSE "lookFound"
      /\ r.out = IF n = 0 THEN "skipped" ELSE "completed"
  BY <1>2 DEF HandRecord, FindPcs
<1>4. hand' = [hand EXCEPT ![h] = r] /\ UNCHANGED <<tables, status, crossed, complete>>
  BY <1>1 DEF Find
<1> HIDE DEF r
<1>5. hand'[h] = r
  BY <1>3, <1>4, HandTurns DEF PipeShape
<1>6. Staged(h)'
  BY <1>2, <1>3, <1>5 DEF Staged, FindPcs, CoverPcs, StorePcs
<1> QED
  BY <1>2, <1>3, <1>4, <1>5, <1>6, QuietWork DEF At

(* The look for the row of a candidate.                                    *)
LEMMA LookFoundDoes ==
  ASSUME PipeShape, NEW h \in Hands, LookFound(h)
  PROVE  /\ PipeShape' /\ Works(h) /\ Grows /\ UNCHANGED <<tables, status>>
         /\ hand[h].pc = "lookFound" /\ hand'[h].pc = "saveFound"
         /\ hand'[h].row = RowOf(found, hand[h].i)
         /\ hand'[h].n = hand[h].n /\ hand'[h].i = hand[h].i /\ hand'[h].out = hand[h].out
<1> DEFINE row == RowOf(found, hand[h].i)
           r == [hand[h] EXCEPT !.row = row, !.pc = "saveFound"]
<1>1. /\ hand[h] \in HandRecord /\ hand[h].pc = "lookFound" /\ hand[h].job = FindingJob
      /\ hand[h].out # "ready"
  BY DEF LookFound, At, PipeShape, PipeTypes, Staged, FindPcs
<1>2. row \in Nat
  BY RowOfIs DEF PipeShape, PipeTypes
<1>3. hand' = [hand EXCEPT ![h] = r] /\ UNCHANGED <<tables, status, crossed, complete>>
  BY DEF LookFound
<1> HIDE DEF row
<1>4. /\ r \in HandRecord /\ r.job = FindingJob /\ r.pc = "saveFound" /\ r.row = row
      /\ r.n = hand[h].n /\ r.i = hand[h].i /\ r.out = hand[h].out
  BY <1>1, <1>2 DEF HandRecord, FindPcs
<1> HIDE DEF r
<1>5. hand'[h] = r
  BY <1>3, <1>4, HandTurns DEF PipeShape
<1>6. Staged(h)'
  BY <1>1, <1>4, <1>5 DEF Staged, FindPcs, CoverPcs, StorePcs
<1>7. PipeShape' /\ Works(h) /\ Grows
  BY <1>1, <1>3, <1>4, <1>6, QuietWork DEF At
<1> QED
  BY <1>1, <1>3, <1>4, <1>5, <1>7 DEF row

(* A candidate whose job is there is done with; else its job is added.     *)
LEMMA LookJobDoes ==
  ASSUME PipeShape, NEW h \in Hands, LookJob(h)
  PROVE  /\ PipeShape' /\ Works(h) /\ Grows /\ UNCHANGED <<tables, status>>
         /\ hand[h].pc = "lookJob"
         /\ hand'[h].n = hand[h].n /\ hand'[h].row = hand[h].row /\ hand'[h].out = hand[h].out
         /\ \/ /\ status[CoveringJob(hand[h].row)] # "none"
               /\ hand'[h].i = hand[h].i + 1 /\ hand'[h].pc = AfterCandidate(h)
            \/ hand'[h].i = hand[h].i /\ hand'[h].pc = "addJob"
<1>1. /\ hand[h] \in HandRecord /\ hand[h].pc = "lookJob" /\ hand[h].job = FindingJob
      /\ hand[h].out # "ready"
  BY DEF LookJob, At, PipeShape, PipeTypes, Staged, FindPcs
<1>2. UNCHANGED <<tables, status, crossed, complete>>
  BY DEF LookJob
<1>3. CASE status[CoveringJob(hand[h].row)] # "none"
  <2> DEFINE pc == AfterCandidate(h)
             i  == hand[h].i + 1
             r  == [hand[h] EXCEPT !.i = i, !.pc = pc]
  <2>1. pc \in {"mark", "lookFound"} /\ i \in Nat
    BY <1>1 DEF AfterCandidate, HandRecord
  <2>2. hand' = [hand EXCEPT ![h] = r]
    BY <1>3 DEF LookJob, NextCandidate
  <2> HIDE DEF pc, i
  <2>3. /\ r \in HandRecord /\ r.job = FindingJob /\ r.pc = pc /\ r.row = hand[h].row
        /\ r.n = hand[h].n /\ r.i = i /\ r.out = hand[h].out
    BY <1>1, <2>1 DEF HandRecord, FindPcs
  <2> HIDE DEF r
  <2>4. hand'[h] = r
    BY <2>2, <2>3, HandTurns DEF PipeShape
  <2>5. Staged(h)'
    BY <1>1, <2>1, <2>3, <2>4 DEF Staged, FindPcs, CoverPcs, StorePcs
  <2>6. PipeShape' /\ Works(h) /\ Grows
    BY <1>1, <1>2, <2>1, <2>2, <2>3, <2>5, QuietWork DEF At
  <2> QED
    BY <1>1, <1>2, <1>3, <2>3, <2>4, <2>6 DEF pc, i
<1>4. CASE status[CoveringJob(hand[h].row)] = "none"
  <2> DEFINE r == [hand[h] EXCEPT !.pc = "addJob"]
  <2>1. hand' = [hand EXCEPT ![h] = r]
    BY <1>4 DEF LookJob, Move
  <2>2. /\ r \in HandRecord /\ r.job = FindingJob /\ r.pc = "addJob" /\ r.row = hand[h].row
        /\ r.n = hand[h].n /\ r.i = hand[h].i /\ r.out = hand[h].out
    BY <1>1 DEF HandRecord, FindPcs
  <2> HIDE DEF r
  <2>3. hand'[h] = r
    BY <2>1, <2>2, HandTurns DEF PipeShape
  <2>4. Staged(h)'
    BY <1>1, <2>2, <2>3 DEF Staged, FindPcs, CoverPcs, StorePcs
  <2>5. PipeShape' /\ Works(h) /\ Grows
    BY <1>1, <1>2, <2>1, <2>2, <2>4, QuietWork DEF At
  <2> QED
    BY <1>1, <1>2, <2>2, <2>3, <2>5
<1> QED
  BY <1>3, <1>4

(* The covering handler has its result.                                    *)
LEMMA CoverDoes ==
  ASSUME PipeShape, NEW h \in Hands, Cover(h)
  PROVE  /\ PipeShape' /\ Works(h) /\ Grows /\ UNCHANGED <<tables, status>>
         /\ hand[h].pc = "cover" /\ hand'[h].pc \in {"addEvidence", "saveEvidence"}
<1>1. PICK out \in {"ready", "completed", "pending", "failed"} :
        hand' = [hand EXCEPT ![h].out = out,
                            ![h].pc = IF evidence[Subject(h)] = "none" THEN "addEvidence"
                                                                       ELSE "saveEvidence"]
  BY DEF Cover
<1> DEFINE pc == IF evidence[Subject(h)] = "none" THEN "addEvidence" ELSE "saveEvidence"
           r == [hand[h] EXCEPT !.out = out, !.pc = pc]
<1>2. /\ hand[h] \in HandRecord /\ hand[h].pc = "cover"
      /\ \E c \in Rows : hand[h].job = CoveringJob(c)
  BY DEF Cover, At, PipeShape, PipeTypes, Staged, CoverPcs
<1>3. hand' = [hand EXCEPT ![h] = r] /\ UNCHANGED <<tables, status, crossed, complete>>
  BY <1>1 DEF Cover
<1>4. pc \in {"addEvidence", "saveEvidence"}
  OBVIOUS
<1> HIDE DEF pc
<1>5. r \in HandRecord /\ r.job = hand[h].job /\ r.pc = pc
  BY <1>2, <1>4 DEF HandRecord, CoverPcs
<1> HIDE DEF r
<1>6. hand'[h] = r
  BY <1>3, <1>5, HandTurns DEF PipeShape
<1>7. Staged(h)'
  BY <1>2, <1>4, <1>5, <1>6 DEF Staged, FindPcs, CoverPcs, StorePcs
<1>8. PipeShape' /\ Works(h) /\ Grows
  BY <1>2, <1>3, <1>4, <1>5, <1>7, QuietWork DEF At
<1> QED
  BY <1>2, <1>3, <1>4, <1>5, <1>6, <1>8

(* The look for the finalize job of the evidence.                          *)
LEMMA LookFinalDoes ==
  ASSUME PipeShape, NEW h \in Hands, NEW c \in Rows, hand[h].job = CoveringJob(c), LookFinal(h)
  PROVE  /\ PipeShape' /\ Works(h) /\ Grows /\ UNCHANGED <<tables, status>>
         /\ hand[h].pc = "lookFinal"
         /\ \/ hand'[h].pc = "addFinal" /\ ~Shown(finals, c)
            \/ hand'[h].pc = "mark" /\ Shown(finals, c)
<1> DEFINE pc == IF FinalSeen(h) = 0 THEN "addFinal" ELSE "mark"
           r == [hand[h] EXCEPT !.pc = pc]
<1>1. hand[h] \in HandRecord /\ hand[h].pc = "lookFinal" /\ hand[h].out # "ready"
  BY DEF LookFinal, At, PipeShape, PipeTypes, Staged
<1>2. FinalSeen(h) = 0 <=> ~Shown(finals, c)
  BY JobsDiffer, RowOfIs DEF FinalSeen, Subject, PipeShape, PipeTypes
<1>3. hand' = [hand EXCEPT ![h] = r] /\ UNCHANGED <<tables, status, crossed, complete>>
  BY DEF LookFinal, Move
<1>4. (pc = "addFinal" /\ ~Shown(finals, c)) \/ (pc = "mark" /\ Shown(finals, c))
  BY <1>2
<1> HIDE DEF pc
<1>5. r \in HandRecord /\ r.job = CoveringJob(c) /\ r.pc = pc /\ r.out # "ready"
  BY <1>1, <1>4 DEF HandRecord, CoverPcs
<1> HIDE DEF r
<1>6. hand'[h] = r
  BY <1>3, <1>5, HandTurns DEF PipeShape
<1>7. Staged(h)'
  BY <1>4, <1>5, <1>6 DEF Staged, FindPcs, CoverPcs, StorePcs
<1>8. PipeShape' /\ Works(h) /\ Grows
  BY <1>1, <1>3, <1>4, <1>5, <1>7, QuietWork DEF At
<1> QED
  BY <1>1, <1>3, <1>4, <1>5, <1>6, <1>8

(* The finalize handler loads the evidence: it goes on, or skips the job.  *)
LEMMA LoadDoes ==
  ASSUME PipeShape, NEW h \in Hands, Load(h)
  PROVE  /\ PipeShape' /\ Works(h) /\ Grows /\ UNCHANGED <<tables, status>>
         /\ hand[h].pc = "load"
         /\ \/ hand'[h].pc = "lookItem"
            \/ hand'[h].pc = "mark" /\ hand'[h].out = "skipped"
<1>1. /\ hand[h] \in HandRecord /\ hand[h].pc = "load" /\ hand[h].out # "ready"
      /\ \E f \in Rows : hand[h].job = FinalizeJob(f)
  BY DEF Load, At, PipeShape, PipeTypes, Staged, StorePcs
<1>2. UNCHANGED <<tables, status, crossed, complete>>
  BY DEF Load
<1>3. PICK r \in {[hand[h] EXCEPT !.pc = "lookItem"],
                  [hand[h] EXCEPT !.out = "skipped", !.pc = "mark"]} :
        hand' = [hand EXCEPT ![h] = r]
  BY DEF Load, Move
<1>4. /\ r \in HandRecord /\ r.job = hand[h].job /\ r.out # "ready"
      /\ r.pc = "lookItem" \/ (r.pc = "mark" /\ r.out = "skipped")
  BY <1>1, <1>3 DEF HandRecord, StorePcs
<1>5. hand'[h] = r
  BY <1>3, <1>4, HandTurns DEF PipeShape
<1>6. Staged(h)'
  BY <1>1, <1>4, <1>5 DEF Staged, FindPcs, CoverPcs, StorePcs
<1>7. PipeShape' /\ Works(h) /\ Grows
  BY <1>1, <1>2, <1>3, <1>4, <1>6, QuietWork DEF At
<1> QED
  BY <1>1, <1>2, <1>4, <1>5, <1>7

(* The first look for the knowledge item.                                  *)
LEMMA LookItemDoes ==
  ASSUME PipeShape, NEW h \in Hands, NEW f \in Rows, hand[h].job = FinalizeJob(f), LookItem(h)
  PROVE  /\ PipeShape' /\ Works(h) /\ Grows /\ UNCHANGED <<tables, status>>
         /\ hand[h].pc = "lookItem"
         /\ \/ hand'[h].pc = "embed"
            \/ hand'[h].pc = "mark" /\ Shown(stored, finals[f])
<1> DEFINE pc == IF Item(h) = 0 THEN "embed" ELSE "mark"
           r == [hand[h] EXCEPT !.pc = pc]
<1>1. hand[h] \in HandRecord /\ hand[h].pc = "lookItem" /\ hand[h].out # "ready"
  BY DEF LookItem, At, PipeShape, PipeTypes, Staged
<1>2. Item(h) = 0 <=> ~Shown(stored, finals[f])
  BY JobsDiffer, RowOfIs DEF Item, Evidence, Subject, PipeShape, PipeTypes
<1>3. hand' = [hand EXCEPT ![h] = r] /\ UNCHANGED <<tables, status, crossed, complete>>
  BY DEF LookItem, Move
<1>4. pc = "embed" \/ (pc = "mark" /\ Shown(stored, finals[f]))
  BY <1>2
<1> HIDE DEF pc
<1>5. r \in HandRecord /\ r.job = FinalizeJob(f) /\ r.pc = pc /\ r.out # "ready"
  BY <1>1, <1>4 DEF HandRecord, StorePcs
<1> HIDE DEF r
<1>6. hand'[h] = r
  BY <1>3, <1>5, HandTurns DEF PipeShape
<1>7. Staged(h)'
  BY <1>4, <1>5, <1>6 DEF Staged, FindPcs, CoverPcs, StorePcs
<1>8. PipeShape' /\ Works(h) /\ Grows
  BY <1>1, <1>3, <1>4, <1>5, <1>7, QuietWork DEF At
<1> QED
  BY <1>1, <1>3, <1>4, <1>5, <1>6, <1>8

(* The look of the upsert, after the embedding.                            *)
LEMMA LookAgainDoes ==
  ASSUME PipeShape, NEW h \in Hands, NEW f \in Rows, hand[h].job = FinalizeJob(f), LookAgain(h)
  PROVE  /\ PipeShape' /\ Works(h) /\ Grows /\ UNCHANGED <<tables, status>>
         /\ hand[h].pc = "embed" /\ hand'[h].pc = "saveItem"
         /\ hand'[h].row = 0 <=> ~Shown(stored, finals[f])
<1> DEFINE row == Item(h)
           r == [hand[h] EXCEPT !.row = row, !.pc = "saveItem"]
<1>1. hand[h] \in HandRecord /\ hand[h].pc = "embed" /\ hand[h].out # "ready"
  BY DEF LookAgain, At, PipeShape, PipeTypes, Staged
<1>2. row \in Nat /\ (row = 0 <=> ~Shown(stored, finals[f]))
  BY JobsDiffer, RowOfIs DEF Item, Evidence, Subject, PipeShape, PipeTypes
<1>3. hand' = [hand EXCEPT ![h] = r] /\ UNCHANGED <<tables, status, crossed, complete>>
  BY DEF LookAgain
<1> HIDE DEF row
<1>4. /\ r \in HandRecord /\ r.job = FinalizeJob(f) /\ r.pc = "saveItem" /\ r.row = row
      /\ r.out # "ready"
  BY <1>1, <1>2 DEF HandRecord, StorePcs
<1> HIDE DEF r
<1>5. hand'[h] = r
  BY <1>3, <1>4, HandTurns DEF PipeShape
<1>6. Staged(h)'
  BY <1>4, <1>5 DEF Staged, FindPcs, CoverPcs, StorePcs
<1>7. PipeShape' /\ Works(h) /\ Grows
  BY <1>1, <1>3, <1>4, <1>6, QuietWork DEF At
<1> QED
  BY <1>1, <1>2, <1>3, <1>4, <1>5, <1>7

(* The candidate is stored, unless its row is there.                       *)
LEMMA SaveFoundDoes ==
  ASSUME PipeShape, NEW h \in Hands, SaveFound(h)
  PROVE  /\ PipeShape' /\ Works(h) /\ Grows /\ UNCHANGED <<status, evidence, finals, stored>>
         /\ hand[h].pc = "saveFound" /\ hand'[h].pc = "lookJob"
         /\ hand'[h].n = hand[h].n /\ hand'[h].i = hand[h].i /\ hand'[h].out = hand[h].out
         /\ \/ hand[h].row # 0 /\ hand'[h].row = hand[h].row
            \/ hand'[h].row \in DOMAIN found' /\ found'[hand'[h].row] = hand[h].i
<1>1. /\ hand[h] \in HandRecord /\ hand[h].pc = "saveFound" /\ hand[h].job = FindingJob
      /\ hand[h].i \in Nat /\ hand[h].row \in Nat /\ hand[h].out # "ready"
  BY DEF SaveFound, At, PipeShape, PipeTypes, Staged, FindPcs, HandRecord
<1>2. UNCHANGED <<status, evidence, finals, stored, crossed, complete>>
  BY DEF SaveFound
<1>3. found \in Seq(Nat) /\ Len(found) \in Nat /\ Len(found) <= MaxRows
  BY DEF PipeShape, PipeTypes
<1>4. \E row \in Nat :
        /\ hand' = [hand EXCEPT ![h] = [hand[h] EXCEPT !.row = row, !.pc = "lookJob"]]
        /\ found' \in Seq(Nat) /\ Len(found') <= MaxRows /\ Extends(found, found')
        /\ \/ hand[h].row # 0 /\ row = hand[h].row
           \/ row \in DOMAIN found' /\ found'[row] = hand[h].i
  <2>1. CASE hand[h].row # 0
    <3>1. found' = found /\ hand' = [hand EXCEPT ![h].pc = "lookJob"]
      BY <2>1 DEF SaveFound, Move
    <3>2. [hand[h] EXCEPT !.pc = "lookJob"] = [hand[h] EXCEPT !.row = hand[h].row, !.pc = "lookJob"]
      BY <1>1 DEF HandRecord
    <3>3. hand' = [hand EXCEPT ![h] = [hand[h] EXCEPT !.row = hand[h].row, !.pc = "lookJob"]]
      BY <3>1, <3>2
    <3> QED
      BY <1>1, <1>3, <2>1, <3>1, <3>3 DEF Extends
  <2>2. CASE hand[h].row = 0
    <3>1. /\ Len(found) < MaxRows /\ found' = Append(found, hand[h].i)
          /\ hand' = [hand EXCEPT ![h].row = Len(found'), ![h].pc = "lookJob"]
      BY <2>2 DEF SaveFound
    <3>2. /\ found' \in Seq(Nat) /\ Len(found') = Len(found) + 1
          /\ DOMAIN found' = DOMAIN found \cup {Len(found')}
          /\ \A k \in DOMAIN found : found'[k] = found[k]
          /\ found'[Len(found')] = hand[h].i
      BY <1>1, <1>3, <3>1, Inserted
    <3>3. Len(found') \in Nat /\ Len(found') <= MaxRows
      BY <1>3, <3>1, <3>2, PipelineAssumption
    <3>4. hand' = [hand EXCEPT ![h] = [hand[h] EXCEPT !.row = Len(found'), !.pc = "lookJob"]]
      BY <3>1
    <3> QED
      BY <3>2, <3>3, <3>4 DEF Extends
  <2> QED
    BY <2>1, <2>2
<1>5. PICK row \in Nat :
        /\ hand' = [hand EXCEPT ![h] = [hand[h] EXCEPT !.row = row, !.pc = "lookJob"]]
        /\ found' \in Seq(Nat) /\ Len(found') <= MaxRows /\ Extends(found, found')
        /\ \/ hand[h].row # 0 /\ row = hand[h].row
           \/ row \in DOMAIN found' /\ found'[row] = hand[h].i
  BY <1>4
<1> DEFINE r == [hand[h] EXCEPT !.row = row, !.pc = "lookJob"]
<1>6. /\ r \in HandRecord /\ r.job = FindingJob /\ r.pc = "lookJob" /\ r.row = row
      /\ r.n = hand[h].n /\ r.i = hand[h].i /\ r.out = hand[h].out
  BY <1>1 DEF HandRecord, FindPcs
<1>7. hand' = [hand EXCEPT ![h] = r]
  BY <1>5
<1> HIDE DEF r
<1>8. hand' \in [Hands -> HandRecord] /\ hand'[h] = r /\ OthersStay(h)
  BY <1>6, <1>7, HandTurns DEF PipeShape
<1>9. Staged(h)'
  BY <1>1, <1>6, <1>8 DEF Staged, FindPcs, CoverPcs, StorePcs
<1>10. Works(h) /\ Grows
  BY <1>1, <1>2, <1>5, <1>6, <1>8 DEF Works, At, Grows, Extends
<1>11. PipeTypes' /\ Linked'
  BY <1>2, <1>5, <1>8 DEF PipeShape, PipeTypes, Linked
<1> QED
  BY <1>1, <1>2, <1>5, <1>6, <1>8, <1>9, <1>10, <1>11, WorkShape

(* The covering job of a candidate is added.                               *)
LEMMA AddJobDoes ==
  ASSUME PipeShape, NEW h \in Hands, hand[h].row \in Rows, AddJob(h)
  PROVE  /\ PipeShape' /\ Works(h) /\ Grows /\ UNCHANGED tables
         /\ hand[h].pc = "addJob" /\ status'[CoveringJob(hand[h].row)] = "pending"
         /\ hand'[h].n = hand[h].n /\ hand'[h].row = hand[h].row /\ hand'[h].out = hand[h].out
         /\ hand'[h].i = hand[h].i + 1 /\ hand'[h].pc = AfterCandidate(h)
<1> DEFINE pc == AfterCandidate(h)
           i  == hand[h].i + 1
           r  == [hand[h] EXCEPT !.i = i, !.pc = pc]
           j  == CoveringJob(hand[h].row)
<1>1. /\ hand[h] \in HandRecord /\ hand[h].pc = "addJob" /\ hand[h].job = FindingJob
      /\ hand[h].out # "ready"
  BY DEF AddJob, At, PipeShape, PipeTypes, Staged, FindPcs
<1>2. pc \in {"mark", "lookFound"} /\ i \in Nat
  BY <1>1 DEF AfterCandidate, HandRecord
<1>3. /\ UNCHANGED <<tables, crossed, complete>> /\ status[j] = "none"
      /\ status' = [status EXCEPT ![j] = "pending"] /\ hand' = [hand EXCEPT ![h] = r]
  BY DEF AddJob, NextCandidate
<1>4. j \in JobIds /\ \A f \in Rows : FinalizeJob(f) # j /\ FinalizeJob(f) \in JobIds
  BY JobsDiffer
<1> HIDE DEF pc, i, j
<1>5. /\ r \in HandRecord /\ r.job = FindingJob /\ r.pc = pc /\ r.row = hand[h].row
      /\ r.n = hand[h].n /\ r.i = i /\ r.out = hand[h].out
  BY <1>1, <1>2 DEF HandRecord, FindPcs
<1> HIDE DEF r
<1>6. hand' \in [Hands -> HandRecord] /\ hand'[h] = r /\ OthersStay(h)
  BY <1>3, <1>5, HandTurns DEF PipeShape
<1>7. Staged(h)'
  BY <1>1, <1>2, <1>5, <1>6 DEF Staged, FindPcs, CoverPcs, StorePcs
<1>8. /\ status' \in [JobIds -> JobStates] /\ status'[j] = "pending"
      /\ \A k \in JobIds \ {j} : status'[k] = status[k]
  BY <1>3, <1>4 DEF PipeShape, PipeTypes, JobStates
<1>9. Works(h) /\ Grows
  BY <1>1, <1>2, <1>3, <1>5, <1>6, <1>8 DEF Works, At, Grows, Extends, tables
<1>10. PipeTypes' /\ Linked'
  BY <1>3, <1>4, <1>6, <1>8 DEF PipeShape, PipeTypes, Linked, tables
<1>11. PipeShape'
  BY <1>7, <1>9, <1>10, WorkShape
<1> QED
  BY <1>1, <1>3, <1>5, <1>6, <1>8, <1>9, <1>11 DEF pc, i, j

(* The evidence is written.                                                *)
LEMMA SaveEvidenceDoes ==
  ASSUME PipeShape, NEW h \in Hands, NEW c \in Rows, hand[h].job = CoveringJob(c), SaveEvidence(h)
  PROVE  /\ PipeShape' /\ Works(h) /\ Grows /\ UNCHANGED <<found, status, finals, stored>>
         /\ hand[h].pc \in {"saveEvidence", "addEvidence"}
         /\ \A d \in Rows \ {c} : evidence'[d] = evidence[d]
         /\ \/ hand'[h].pc = "lookFinal"
            \/ hand'[h].pc = "mark" /\ evidence'[c] = "other"
<1> DEFINE pc  == IF hand[h].out = "ready" THEN "lookFinal" ELSE "mark"
           out == IF hand[h].out = "ready" THEN "completed" ELSE hand[h].out
           r   == [hand[h] EXCEPT !.pc = pc, !.out = out]
           ev  == IF hand[h].out = "ready" THEN "ready" ELSE "other"
<1>1. hand[h] \in HandRecord /\ hand[h].pc \in {"saveEvidence", "addEvidence"}
  BY DEF SaveEvidence, At, PipeShape, PipeTypes
<1>2. UNCHANGED <<found, status, finals, stored, crossed, complete>>
  BY DEF SaveEvidence
<1>3. evidence' = [evidence EXCEPT ![c] = ev] /\ hand' = [hand EXCEPT ![h] = r]
  BY JobsDiffer DEF SaveEvidence, Subject
<1>4. /\ out \in {"completed", "pending", "failed", "skipped"}
      /\ \/ pc = "lookFinal" /\ ev = "ready"
         \/ pc = "mark" /\ ev = "other"
  BY <1>1 DEF HandRecord
<1> HIDE DEF pc, out, ev
<1>5. r \in HandRecord /\ r.job = CoveringJob(c) /\ r.pc = pc /\ r.out # "ready"
  BY <1>1, <1>4 DEF HandRecord, CoverPcs
<1> HIDE DEF r
<1>6. hand' \in [Hands -> HandRecord] /\ hand'[h] = r /\ OthersStay(h)
  BY <1>3, <1>5, HandTurns DEF PipeShape
<1>7. Staged(h)'
  BY <1>4, <1>5, <1>6 DEF Staged, FindPcs, CoverPcs, StorePcs
<1>8. /\ evidence' \in [Rows -> {"none", "ready", "other"}] /\ evidence'[c] = ev
      /\ \A d \in Rows \ {c} : evidence'[d] = evidence[d]
  BY <1>3, <1>4 DEF PipeShape, PipeTypes
<1>9. Works(h) /\ Grows
  BY <1>1, <1>2, <1>4, <1>5, <1>6 DEF Works, At, Grows, Extends
<1>10. PipeTypes' /\ Linked'
  BY <1>2, <1>6, <1>8 DEF PipeShape, PipeTypes, Linked
<1>11. PipeShape'
  BY <1>7, <1>9, <1>10, WorkShape
<1> QED
  BY <1>1, <1>2, <1>4, <1>5, <1>6, <1>8, <1>9, <1>11

(* The finalize job of the evidence is added.                              *)
LEMMA AddFinalDoes ==
  ASSUME PipeShape, NEW h \in Hands, NEW c \in Rows, hand[h].job = CoveringJob(c), AddFinal(h)
  PROVE  /\ PipeShape' /\ Works(h) /\ Grows /\ UNCHANGED <<found, evidence, stored>>
         /\ hand[h].pc = "addFinal" /\ hand'[h].pc = "mark"
         /\ \E f \in Rows :
              /\ DOMAIN finals' = DOMAIN finals \cup {f} /\ f \notin DOMAIN finals /\ finals'[f] = c
              /\ status'[FinalizeJob(f)] = "pending"
              /\ \A j \in JobIds \ {FinalizeJob(f)} : status'[j] = status[j]
<1> DEFINE f == Len(finals')
           r == [hand[h] EXCEPT !.pc = "mark"]
<1>1. /\ hand[h] \in HandRecord /\ hand[h].pc = "addFinal" /\ hand[h].out # "ready"
      /\ UNCHANGED <<found, evidence, stored, crossed, complete>>
      /\ hand' = [hand EXCEPT ![h] = r] /\ status' = [status EXCEPT ![FinalizeJob(f)] = "pending"]
  BY DEF AddFinal, At, Move, PipeShape, PipeTypes, Staged
<1>2. finals' = Append(finals, c) /\ Len(finals) < MaxRows /\ finals \in Seq(Rows)
  BY JobsDiffer DEF AddFinal, Subject, PipeShape, PipeTypes
<1>3. /\ finals' \in Seq(Rows) /\ f = Len(finals) + 1 /\ f \in Nat
      /\ DOMAIN finals' = DOMAIN finals \cup {f} /\ f \notin DOMAIN finals
      /\ \A k \in DOMAIN finals : finals'[k] = finals[k]
      /\ finals'[f] = c
  BY <1>2, Inserted
<1>4. f <= MaxRows /\ f \in Rows
  BY <1>2, <1>3, PipelineAssumption DEF Rows
<1> HIDE DEF f
<1>5. FinalizeJob(f) \in JobIds /\ \A g \in Rows : FinalizeJob(g) = FinalizeJob(f) => g = f
  BY <1>4, JobsDiffer
<1>6. status[FinalizeJob(f)] = "none"
  BY <1>3, <1>4 DEF PipeShape, Linked
<1>7. /\ status' \in [JobIds -> JobStates] /\ status'[FinalizeJob(f)] = "pending"
      /\ \A j \in JobIds \ {FinalizeJob(f)} : status'[j] = status[j]
  BY <1>1, <1>5 DEF PipeShape, PipeTypes, JobStates
<1>8. r \in HandRecord /\ r.job = CoveringJob(c) /\ r.pc = "mark" /\ r.out # "ready"
  BY <1>1 DEF HandRecord
<1> HIDE DEF r
<1>9. hand' \in [Hands -> HandRecord] /\ hand'[h] = r /\ OthersStay(h)
  BY <1>1, <1>8, HandTurns DEF PipeShape
<1>10. Staged(h)'
  BY <1>8, <1>9 DEF Staged, FindPcs, CoverPcs, StorePcs
<1>11. Works(h) /\ Grows
  BY <1>1, <1>3, <1>6, <1>7, <1>8, <1>9 DEF Works, At, Grows, Extends
<1>12. PipeTypes'
  BY <1>1, <1>3, <1>4, <1>7, <1>9 DEF PipeShape, PipeTypes, f
<1>13. Linked'
  <2>1. \A g \in Rows : status'[FinalizeJob(g)] # "none" => g \in DOMAIN finals'
    <3> SUFFICES ASSUME NEW g \in Rows, g # f, status'[FinalizeJob(g)] # "none"
                 PROVE  g \in DOMAIN finals'
      BY <1>3
    <3>1. status[FinalizeJob(g)] # "none"
      BY <1>5, <1>7, JobsDiffer
    <3> QED
      BY <1>3, <3>1 DEF PipeShape, Linked
  <2>2. \A m \in DOMAIN stored : Shown(finals', stored[m])
    BY <1>11, ShownStays DEF Grows, PipeShape, Linked
  <2> QED
    BY <1>1, <2>1, <2>2 DEF Linked
<1>14. PipeShape'
  BY <1>10, <1>11, <1>12, <1>13, WorkShape
<1> QED
  BY <1>1, <1>3, <1>4, <1>7, <1>8, <1>9, <1>11, <1>14

(* The knowledge item is written.                                          *)
LEMMA SaveItemDoes ==
  ASSUME PipeShape, NEW h \in Hands, NEW f \in DOMAIN finals, hand[h].job = FinalizeJob(f),
         SaveItem(h)
  PROVE  /\ PipeShape' /\ Works(h) /\ Grows /\ UNCHANGED <<found, status, evidence, finals>>
         /\ hand[h].pc = "saveItem" /\ hand'[h].pc = "mark"
         /\ \/ hand[h].row # 0 /\ stored' = stored
            \/ /\ hand[h].row = 0
               /\ \E m \in Nat : /\ DOMAIN stored' = DOMAIN stored \cup {m} /\ m \notin DOMAIN stored
                                 /\ stored'[m] = finals[f]
<1> DEFINE r == [hand[h] EXCEPT !.pc = "mark"]
<1>1. /\ hand[h] \in HandRecord /\ hand[h].pc = "saveItem" /\ hand[h].out # "ready"
      /\ UNCHANGED <<found, status, evidence, finals, crossed, complete>>
      /\ hand' = [hand EXCEPT ![h] = r]
  BY DEF SaveItem, At, Move, PipeShape, PipeTypes, Staged
<1>2. f \in Rows /\ finals[f] \in Rows /\ stored \in Seq(Rows)
  BY PipelineAssumption DEF PipeShape, PipeTypes, Rows
<1>3. stored' = IF hand[h].row = 0 THEN Append(stored, finals[f]) ELSE stored
  BY <1>2, JobsDiffer DEF SaveItem, Evidence, Subject
<1>4. /\ stored' \in Seq(Rows) /\ Extends(stored, stored')
      /\ \/ hand[h].row # 0 /\ stored' = stored
         \/ /\ hand[h].row = 0
            /\ \E m \in Nat : /\ DOMAIN stored' = DOMAIN stored \cup {m} /\ m \notin DOMAIN stored
                              /\ stored'[m] = finals[f]
  <2>1. CASE hand[h].row # 0
    BY <1>2, <1>3, <2>1 DEF Extends
  <2>2. CASE hand[h].row = 0
    <3>1. stored' = Append(stored, finals[f])
      BY <1>3, <2>2
    <3>2. /\ stored' \in Seq(Rows) /\ Len(stored') \in Nat
          /\ DOMAIN stored' = DOMAIN stored \cup {Len(stored')} /\ Len(stored') \notin DOMAIN stored
          /\ \A k \in DOMAIN stored : stored'[k] = stored[k]
          /\ stored'[Len(stored')] = finals[f]
      BY <1>2, <3>1, Inserted
    <3> QED
      BY <2>2, <3>2 DEF Extends
  <2> QED
    BY <2>1, <2>2
<1>5. r \in HandRecord /\ r.job = FinalizeJob(f) /\ r.pc = "mark" /\ r.out # "ready"
  BY <1>1 DEF HandRecord
<1> HIDE DEF r
<1>6. hand' \in [Hands -> HandRecord] /\ hand'[h] = r /\ OthersStay(h)
  BY <1>1, <1>5, HandTurns DEF PipeShape
<1>7. Staged(h)'
  BY <1>5, <1>6 DEF Staged, FindPcs, CoverPcs, StorePcs
<1>8. Works(h) /\ Grows
  BY <1>1, <1>4, <1>5, <1>6 DEF Works, At, Grows, Extends
<1>9. PipeTypes'
  BY <1>1, <1>4, <1>6 DEF PipeShape, PipeTypes
<1>10. Linked'
  <2>1. \A m \in DOMAIN stored' : Shown(finals, stored'[m])
    BY <1>4 DEF PipeShape, Linked, Shown, Extends
  <2> QED
    BY <1>1, <2>1 DEF PipeShape, Linked
<1>11. PipeShape'
  BY <1>7, <1>8, <1>9, <1>10, WorkShape
<1> QED
  BY <1>1, <1>4, <1>5, <1>6, <1>8, <1>11

(* A worker leaves its job in some state.                                  *)
LEMMA LeaveShape ==
  ASSUME PipeShape, NEW h \in Hands, ~At(h, "idle"), hand' = [hand EXCEPT ![h] = IdleHand],
         NEW st \in JobStates \ {"none"}, status' = [status EXCEPT ![hand[h].job] = st],
         UNCHANGED <<tables, crossed>>, complete' \in Nat
  PROVE  PipeShape' /\ Leaves(h) /\ Grows /\ status'[hand[h].job] = st
<1>1. IdleHand \in HandRecord /\ IdleHand.pc = "idle" /\ IdleHand.out # "ready"
  BY JobsDiffer DEF IdleHand, HandRecord
<1>2. hand' \in [Hands -> HandRecord] /\ hand'[h] = IdleHand /\ OthersStay(h)
  BY <1>1, HandTurns DEF PipeShape
<1>3. hand[h].job \in JobIds /\ status[hand[h].job] # "none"
  BY DEF PipeShape, PipeTypes, HandRecord, HasRow
<1>4. /\ status' \in [JobIds -> JobStates] /\ status'[hand[h].job] = st
      /\ \A j \in JobIds \ {hand[h].job} : status'[j] = status[j]
  BY <1>3 DEF PipeShape, PipeTypes
<1>5. Leaves(h) /\ Grows
  BY <1>1, <1>2, <1>4 DEF Leaves, At, Grows, Extends, tables
<1>6. PipeTypes'
  BY <1>2, <1>4 DEF PipeShape, PipeTypes, tables
<1>7. \A j \in JobIds : status'[j] # "none" <=> status[j] # "none"
  BY <1>3, <1>4
<1>8. Linked'
  BY <1>7, JobsDiffer DEF PipeShape, Linked, tables
<1>9. ASSUME NEW g \in Hands PROVE Staged(g)' /\ HasRow(g)'
  <2>1. CASE g = h
    BY <1>1, <1>2, <2>1 DEF Staged, HasRow, At, FindPcs, CoverPcs, StorePcs
  <2>2. CASE g # h
    <3>1. hand'[g] = hand[g] /\ hand[g].job \in JobIds
      BY <1>2, <2>2 DEF OthersStay, PipeShape, PipeTypes, HandRecord
    <3> QED
      BY <1>7, <3>1 DEF PipeShape, Staged, HasRow, At
  <2> QED
    BY <2>1, <2>2
<1> QED
  BY <1>4, <1>5, <1>6, <1>8, <1>9 DEF PipeShape

(* The job gets its result.                                                *)
LEMMA MarkDoes ==
  ASSUME PipeShape, NEW h \in Hands, Mark(h)
  PROVE  /\ PipeShape' /\ Leaves(h) /\ Grows /\ hand[h].pc = "mark"
         /\ status'[hand[h].job] = hand[h].out
         /\ complete' = IF hand[h].job = FindingJob THEN hand[h].n ELSE complete
<1>1. /\ hand[h] \in HandRecord /\ hand[h].pc = "mark" /\ complete \in Nat
      /\ hand[h].n \in Nat /\ hand[h].out \in JobStates \ {"none"}
  BY DEF Mark, At, PipeShape, PipeTypes, Staged, HandRecord, JobStates
<1>2. /\ hand' = [hand EXCEPT ![h] = IdleHand] /\ UNCHANGED <<tables, crossed>>
      /\ status' = [status EXCEPT ![hand[h].job] = hand[h].out]
      /\ complete' = IF hand[h].job = FindingJob THEN hand[h].n ELSE complete
  BY DEF Mark
<1>3. complete' \in Nat /\ ~At(h, "idle")
  BY <1>1, <1>2 DEF At
<1> QED
  BY <1>1, <1>2, <1>3, LeaveShape

(* The handler is refused, throws or dies: no job is completed.            *)
LEMMA GiveUpDoes ==
  ASSUME PipeShape, NEW h \in Hands, Refused(h) \/ Fail(h)
  PROVE  /\ PipeShape' /\ Leaves(h) /\ Grows /\ UNCHANGED complete
         /\ status'[hand[h].job] = "completed" => status[hand[h].job] = "completed"
<1>1. /\ ~At(h, "idle") /\ hand' = [hand EXCEPT ![h] = IdleHand]
      /\ UNCHANGED <<tables, crossed, complete>>
  BY DEF Refused, Fail, At
<1>2. hand[h].job \in JobIds /\ complete' \in Nat
      /\ status[hand[h].job] \in JobStates \ {"none"}
  BY <1>1 DEF PipeShape, PipeTypes, HandRecord, HasRow
<1>3. PICK st \in {"failed", "pending", status[hand[h].job]} :
        status' = [status EXCEPT ![hand[h].job] = st]
  BY DEF Refused, Fail
<1>4. st \in JobStates \ {"none"}
  BY <1>2, <1>3 DEF JobStates
<1>5. PipeShape' /\ Leaves(h) /\ Grows /\ status'[hand[h].job] = st
  BY <1>1, <1>2, <1>3, <1>4, LeaveShape
<1> QED
  BY <1>1, <1>3, <1>5

(* A worker takes a pending row.                                           *)
LEMMA TakeDoes ==
  ASSUME PipeShape, NEW h \in Hands, NEW j \in JobIds, Take(h, j)
  PROVE  /\ PipeShape' /\ Grows /\ UNCHANGED <<tables, complete>> /\ At(h, "idle") /\ OthersStay(h)
         /\ hand'[h].job = j /\ hand'[h].pc = FirstStep(j)
         /\ FirstStep(j) \in {"find", "cover", "load"}
         /\ crossed \subseteq crossed' /\ (Busy(j) # {} => j \in crossed')
         /\ \A k \in JobIds \ {j} : status'[k] = status[k]
         /\ status[j] = "pending" /\ status'[j] = "running"
<1> DEFINE r == [IdleHand EXCEPT !.pc = FirstStep(j), !.job = j]
<1>1. /\ At(h, "idle") /\ status[j] = "pending" /\ hand' = [hand EXCEPT ![h] = r]
      /\ status' = [status EXCEPT ![j] = "running"] /\ UNCHANGED <<tables, complete>>
      /\ crossed \subseteq crossed' /\ (Busy(j) # {} => j \in crossed')
  BY DEF Take
<1>2. \/ FirstStep(j) = "find" /\ j = FindingJob
      \/ FirstStep(j) = "cover" /\ \E c \in Rows : j = CoveringJob(c)
      \/ FirstStep(j) = "load" /\ \E f \in Rows : j = FinalizeJob(f)
  BY JobsDiffer
<1>3. r \in HandRecord /\ r.pc = FirstStep(j) /\ r.job = j /\ r.out # "ready"
  BY <1>2 DEF IdleHand, HandRecord, FindPcs, CoverPcs, StorePcs
<1> HIDE DEF r
<1>4. hand' \in [Hands -> HandRecord] /\ hand'[h] = r /\ OthersStay(h)
  BY <1>1, <1>3, HandTurns DEF PipeShape
<1>5. /\ status' \in [JobIds -> JobStates] /\ status'[j] = "running"
      /\ \A k \in JobIds \ {j} : status'[k] = status[k]
  BY <1>1 DEF PipeShape, PipeTypes, JobStates
<1>6. PipeTypes' /\ Grows
  BY <1>1, <1>4, <1>5 DEF PipeShape, PipeTypes, tables, Grows, Extends
<1>7. \A k \in JobIds : status'[k] # "none" <=> status[k] # "none"
  BY <1>1, <1>5
<1>8. Linked'
  BY <1>1, <1>7, JobsDiffer DEF PipeShape, Linked, tables
<1>9. ASSUME NEW g \in Hands PROVE Staged(g)' /\ HasRow(g)'
  <2>1. CASE g = h
    BY <1>2, <1>3, <1>4, <1>5, <2>1 DEF Staged, HasRow, At, FindPcs, CoverPcs, StorePcs
  <2>2. CASE g # h
    <3>1. hand'[g] = hand[g] /\ hand[g].job \in JobIds
      BY <1>4, <2>2 DEF OthersStay, PipeShape, PipeTypes, HandRecord
    <3> QED
      BY <1>7, <3>1 DEF PipeShape, Staged, HasRow, At
  <2> QED
    BY <2>1, <2>2
<1>10. PipeShape'
  BY <1>6, <1>8, <1>9 DEF PipeShape
<1> QED
  BY <1>1, <1>2, <1>3, <1>4, <1>5, <1>6, <1>10

(* A row is put back or retried.                                           *)
LEMMA ResetDoes ==
  ASSUME PipeShape, NEW j \in JobIds, Reset(j)
  PROVE  /\ PipeShape' /\ Grows /\ UNCHANGED <<tables, hand, crossed, complete>>
         /\ \A k \in JobIds \ {j} : status'[k] = status[k]
         /\ status[j] # "none" /\ status'[j] = "pending"
<1>1. /\ status[j] # "none" /\ status' = [status EXCEPT ![j] = "pending"]
      /\ UNCHANGED <<tables, hand, crossed, complete>>
  BY DEF Reset
<1>2. /\ status' \in [JobIds -> JobStates] /\ status'[j] = "pending"
      /\ \A k \in JobIds \ {j} : status'[k] = status[k]
  BY <1>1 DEF PipeShape, PipeTypes, JobStates
<1>3. PipeTypes' /\ Grows
  BY <1>1, <1>2 DEF PipeShape, PipeTypes, tables, Grows, Extends
<1>4. \A k \in JobIds : status'[k] # "none" <=> status[k] # "none"
  BY <1>1, <1>2
<1>5. Linked'
  BY <1>1, <1>4, JobsDiffer DEF PipeShape, Linked, tables
<1>6. \A g \in Hands : hand[g].job \in JobIds
  BY DEF PipeShape, PipeTypes, HandRecord
<1>7. \A g \in Hands : Staged(g)' /\ HasRow(g)'
  BY <1>1, <1>4, <1>6 DEF PipeShape, Staged, HasRow, At
<1> QED
  BY <1>1, <1>2, <1>3, <1>5, <1>7 DEF PipeShape

-----------------------------------------------------------------------------
(* The finding run. *)

\* A candidate is stored and has its covering job.
Queued(k) == \E c \in DOMAIN found : found[c] = k /\ status[CoveringJob(c)] # "none"

\* The candidates before the one at hand are queued, and the row at hand is
\* that of the candidate.
FindKnows(h) ==
  /\ hand[h].pc \in FindPcs \ {"find"} =>
       /\ hand[h].i \in 1..hand[h].n /\ hand[h].out = "completed"
       /\ \A k \in 1..(hand[h].i - 1) : Queued(k)
  /\ hand[h].pc = "saveFound" /\ hand[h].row # 0 =>
       hand[h].row \in DOMAIN found /\ found[hand[h].row] = hand[h].i
  /\ hand[h].pc \in {"lookJob", "addJob"} =>
       hand[h].row \in DOMAIN found /\ found[hand[h].row] = hand[h].i
  /\ hand[h].pc = "mark" /\ hand[h].job = FindingJob /\ hand[h].out = "completed" =>
       \A k \in 1..hand[h].n : Queued(k)

FindInv ==
  /\ \A h \in Hands : FindKnows(h)
  /\ status[FindingJob] = "completed" => \A k \in 1..complete : Queued(k)

FindWork(h)  == Find(h) \/ LookFound(h) \/ SaveFound(h) \/ LookJob(h) \/ AddJob(h)
CoverWork(h) == Cover(h) \/ SaveEvidence(h) \/ LookFinal(h) \/ AddFinal(h)
StoreWork(h) == Load(h) \/ LookItem(h) \/ LookAgain(h) \/ SaveItem(h)

(* What is queued stays queued: rows are never deleted.                    *)
LEMMA QueuedStays ==
  ASSUME PipeShape, Grows, \A j \in JobIds : status[j] # "none" => status'[j] # "none",
         NEW k, Queued(k)
  PROVE  Queued(k)'
<1>1. PICK c \in DOMAIN found : found[c] = k /\ status[CoveringJob(c)] # "none"
  BY DEF Queued
<1>2. c \in Rows
  BY PipelineAssumption DEF PipeShape, PipeTypes, Rows
<1>3. c \in DOMAIN found' /\ found'[c] = k
  BY <1>1 DEF Grows, Extends
<1>4. status'[CoveringJob(c)] # "none"
  BY <1>1, <1>2, JobsDiffer
<1> QED
  BY <1>3, <1>4 DEF Queued

(* A worker that does nothing knows what it knew.                          *)
LEMMA StillFinds ==
  ASSUME PipeShape, Grows, \A j \in JobIds : status[j] # "none" => status'[j] # "none",
         NEW h \in Hands, FindKnows(h), hand'[h] = hand[h]
  PROVE  FindKnows(h)'
<1>1. \A k : Queued(k) => Queued(k)'
  BY QueuedStays
<1>2. \A c \in DOMAIN found : c \in DOMAIN found' /\ found'[c] = found[c]
  BY DEF Grows, Extends
<1> QED
  BY <1>1, <1>2 DEF FindKnows

(* The steps of the finding handler.                                       *)
LEMMA FindWorkDoes ==
  ASSUME PipeShape, NEW h \in Hands, FindKnows(h), FindWork(h)
  PROVE  /\ PipeShape' /\ Works(h) /\ Grows /\ FindKnows(h)'
         /\ hand[h].job = FindingJob /\ UNCHANGED <<evidence, finals, stored>>
<1> DEFINE Done == /\ PipeShape' /\ Works(h) /\ Grows /\ FindKnows(h)'
                   /\ hand[h].job = FindingJob /\ UNCHANGED <<evidence, finals, stored>>
<1>1. hand[h] \in HandRecord /\ hand[h].i \in Nat /\ hand[h].n \in Nat
  BY DEF PipeShape, PipeTypes, HandRecord
<1>2. CASE Find(h)
  <2>1. /\ PipeShape' /\ Works(h) /\ Grows /\ UNCHANGED <<tables, status>>
        /\ hand[h].pc = "find" /\ hand'[h].i = 1
        /\ \/ hand'[h].n \in Nat \ {0} /\ hand'[h].pc = "lookFound" /\ hand'[h].out = "completed"
           \/ hand'[h].n = 0 /\ hand'[h].pc = "mark" /\ hand'[h].out = "skipped"
    BY <1>2, FindDoes
  <2>2. FindKnows(h)'
    BY <2>1 DEF FindKnows, FindPcs
  <2> QED
    BY <2>1, <2>2 DEF PipeShape, Staged, FindPcs, tables
<1>3. CASE LookFound(h)
  <2>1. /\ PipeShape' /\ Works(h) /\ Grows /\ UNCHANGED <<tables, status>>
        /\ hand[h].pc = "lookFound" /\ hand'[h].pc = "saveFound"
        /\ hand'[h].row = RowOf(found, hand[h].i)
        /\ hand'[h].n = hand[h].n /\ hand'[h].i = hand[h].i /\ hand'[h].out = hand[h].out
    BY <1>3, LookFoundDoes
  <2>2. RowOf(found, hand[h].i) # 0 =>
          RowOf(found, hand[h].i) \in DOMAIN found /\ found[RowOf(found, hand[h].i)] = hand[h].i
    BY RowOfIs DEF PipeShape, PipeTypes
  <2>3. \A k : Queued(k)' <=> Queued(k)
    BY <2>1 DEF Queued, tables
  <2>4. hand[h].i \in 1..hand[h].n /\ hand[h].out = "completed"
        /\ \A k \in 1..(hand[h].i - 1) : Queued(k)
    BY <2>1 DEF FindKnows, FindPcs
  <2>5. FindKnows(h)'
    BY <2>1, <2>2, <2>3, <2>4 DEF FindKnows, tables
  <2> QED
    BY <2>1, <2>5 DEF PipeShape, Staged, FindPcs, tables
<1>4. CASE SaveFound(h)
  <2>1. /\ PipeShape' /\ Works(h) /\ Grows /\ UNCHANGED <<status, evidence, finals, stored>>
        /\ hand[h].pc = "saveFound" /\ hand'[h].pc = "lookJob"
        /\ hand'[h].n = hand[h].n /\ hand'[h].i = hand[h].i /\ hand'[h].out = hand[h].out
        /\ \/ hand[h].row # 0 /\ hand'[h].row = hand[h].row
           \/ hand'[h].row \in DOMAIN found' /\ found'[hand'[h].row] = hand[h].i
    BY <1>4, SaveFoundDoes
  <2>2. hand'[h].row \in DOMAIN found' /\ found'[hand'[h].row] = hand[h].i
    BY <2>1 DEF FindKnows, Grows, Extends
  <2>3. \A k : Queued(k) => Queued(k)'
    BY <2>1, QueuedStays
  <2>4. hand[h].i \in 1..hand[h].n /\ hand[h].out = "completed"
        /\ \A k \in 1..(hand[h].i - 1) : Queued(k)
    BY <2>1 DEF FindKnows, FindPcs
  <2>5. FindKnows(h)'
    BY <2>1, <2>2, <2>3, <2>4 DEF FindKnows
  <2> QED
    BY <2>1, <2>5 DEF PipeShape, Staged, FindPcs
<1>5. CASE LookJob(h) \/ AddJob(h)
  <2>1. /\ hand[h].pc \in {"lookJob", "addJob"}
        /\ hand[h].row \in DOMAIN found /\ found[hand[h].row] = hand[h].i
        /\ hand[h].i \in 1..hand[h].n /\ hand[h].out = "completed"
        /\ \A k \in 1..(hand[h].i - 1) : Queued(k)
    BY <1>5 DEF LookJob, AddJob, At, FindKnows, FindPcs
  <2>2. hand[h].row \in Rows
    BY <2>1, PipelineAssumption DEF PipeShape, PipeTypes, Rows
  <2>3. /\ PipeShape' /\ Works(h) /\ Grows /\ UNCHANGED tables
        /\ hand'[h].n = hand[h].n /\ hand'[h].row = hand[h].row /\ hand'[h].out = hand[h].out
        /\ \/ /\ status'[CoveringJob(hand[h].row)] # "none"
              /\ hand'[h].i = hand[h].i + 1 /\ hand'[h].pc = AfterCandidate(h)
           \/ hand'[h].i = hand[h].i /\ hand'[h].pc = "addJob"
    <3>1. CASE LookJob(h)
      BY <3>1, LookJobDoes
    <3>2. CASE AddJob(h)
      BY <2>2, <3>2, AddJobDoes
    <3> QED
      BY <1>5, <3>1, <3>2
  <2>4. \A j \in JobIds : status[j] # "none" => status'[j] # "none"
    BY <2>3 DEF Works
  <2>5. \A k : Queued(k) => Queued(k)'
    BY <2>3, <2>4, QueuedStays
  <2>6. ASSUME hand'[h].i = hand[h].i /\ hand'[h].pc = "addJob"
        PROVE  FindKnows(h)'
    BY <2>1, <2>3, <2>5, <2>6 DEF FindKnows, tables
  <2>7. ASSUME /\ status'[CoveringJob(hand[h].row)] # "none"
               /\ hand'[h].i = hand[h].i + 1 /\ hand'[h].pc = AfterCandidate(h)
        PROVE  FindKnows(h)'
    <3>1. \A k \in Nat : k = hand[h].i => Queued(k)'
      BY <2>1, <2>3, <2>7 DEF Queued, tables
    <3>2. \A k \in 1..(hand'[h].i - 1) : Queued(k)'
      BY <1>1, <2>1, <2>5, <2>7, <3>1
    <3>3. CASE hand[h].i = hand[h].n
      <4>1. hand'[h].pc = "mark"
        BY <2>7, <3>3 DEF AfterCandidate
      <4>2. \A k \in 1..hand'[h].n : Queued(k)'
        BY <1>1, <2>3, <2>7, <3>2, <3>3
      <4> QED
        BY <4>1, <4>2 DEF FindKnows, FindPcs
    <3>4. CASE hand[h].i # hand[h].n
      <4>1. hand'[h].pc = "lookFound"
        BY <2>7, <3>4 DEF AfterCandidate
      <4>2. hand'[h].i \in 1..hand'[h].n /\ hand'[h].out = "completed"
        BY <1>1, <2>1, <2>3, <2>7, <3>4
      <4> QED
        BY <3>2, <4>1, <4>2 DEF FindKnows
    <3> QED
      BY <3>3, <3>4
  <2>8. FindKnows(h)'
    BY <2>3, <2>6, <2>7
  <2> QED
    BY <2>1, <2>3, <2>8 DEF PipeShape, Staged, FindPcs, tables
<1> QED
  BY <1>2, <1>3, <1>4, <1>5 DEF FindWork

(* The steps of the covering handler.                                      *)
LEMMA CoverWorkDoes ==
  ASSUME PipeShape, NEW h \in Hands, CoverWork(h)
  PROVE  /\ PipeShape' /\ Works(h) /\ Grows /\ UNCHANGED <<found, stored>>
         /\ \E c \in Rows :
              /\ hand[h].job = CoveringJob(c)
              /\ \A d \in Rows \ {c} : evidence'[d] = evidence[d]
              /\ \A f \in DOMAIN finals' \ DOMAIN finals : finals'[f] = c
<1>1. PICK c \in Rows : hand[h].job = CoveringJob(c)
  BY DEF CoverWork, Cover, SaveEvidence, LookFinal, AddFinal, At, PipeShape, Staged, CoverPcs
<1>2. CASE Cover(h)
  BY <1>1, <1>2, CoverDoes DEF tables
<1>3. CASE SaveEvidence(h)
  BY <1>1, <1>3, SaveEvidenceDoes
<1>4. CASE LookFinal(h)
  BY <1>1, <1>4, LookFinalDoes DEF tables
<1>5. CASE AddFinal(h)
  <2>1. PICK f \in Rows :
          DOMAIN finals' = DOMAIN finals \cup {f} /\ f \notin DOMAIN finals /\ finals'[f] = c
    BY <1>1, <1>5, AddFinalDoes
  <2>2. PipeShape' /\ Works(h) /\ Grows /\ UNCHANGED <<found, evidence, stored>>
    BY <1>1, <1>5, AddFinalDoes
  <2> QED
    BY <1>1, <2>1, <2>2
<1> QED
  BY <1>2, <1>3, <1>4, <1>5 DEF CoverWork

(* The steps of the finalize handler.                                      *)
LEMMA StoreWorkDoes ==
  ASSUME PipeShape, NEW h \in Hands, StoreWork(h)
  PROVE  /\ PipeShape' /\ Works(h) /\ Grows /\ UNCHANGED <<found, status, evidence, finals>>
         /\ \E f \in DOMAIN finals : f \in Rows /\ hand[h].job = FinalizeJob(f)
<1>1. PICK f \in Rows : hand[h].job = FinalizeJob(f)
  BY DEF StoreWork, Load, LookItem, LookAgain, SaveItem, At, PipeShape, Staged, StorePcs
<1>2. ~At(h, "idle")
  BY DEF StoreWork, Load, LookItem, LookAgain, SaveItem, At
<1>3. f \in DOMAIN finals
  BY <1>1, <1>2 DEF PipeShape, HasRow, Linked
<1>4. CASE Load(h)
  BY <1>1, <1>3, <1>4, LoadDoes DEF tables
<1>5. CASE LookItem(h)
  BY <1>1, <1>3, <1>5, LookItemDoes DEF tables
<1>6. CASE LookAgain(h)
  BY <1>1, <1>3, <1>6, LookAgainDoes DEF tables
<1>7. CASE SaveItem(h)
  BY <1>1, <1>3, <1>7, SaveItemDoes
<1> QED
  BY <1>4, <1>5, <1>6, <1>7 DEF StoreWork

(* No step takes a row away, and only the last statement of a handler      *)
(* completes its job.                                                      *)
LEMMA StepKinds ==
  ASSUME PipeShape, \A h \in Hands : FindKnows(h), PipeNext
  PROVE  /\ PipeShape' /\ Grows
         /\ \A j \in JobIds : status[j] # "none" => status'[j] # "none"
         /\ (\A h \in Hands : ~Mark(h)) =>
              /\ complete' = complete
              /\ \A j \in JobIds : status'[j] = "completed" => status[j] = "completed"
<1>0. \A h \in Hands : hand[h].job \in JobIds
  BY DEF PipeShape, PipeTypes, HandRecord
<1>1. ASSUME NEW j \in JobIds, Reset(j)
      PROVE  /\ PipeShape' /\ Grows /\ complete' = complete
             /\ \A k \in JobIds : /\ status[k] # "none" => status'[k] # "none"
                                  /\ status'[k] = "completed" => status[k] = "completed"
  <2>1. /\ PipeShape' /\ Grows /\ complete' = complete
        /\ \A k \in JobIds \ {j} : status'[k] = status[k]
        /\ status[j] # "none" /\ status'[j] = "pending"
    BY <1>1, ResetDoes
  <2> QED
    BY <2>1
<1>2. ASSUME NEW h \in Hands, NEW j \in JobIds, Take(h, j)
      PROVE  /\ PipeShape' /\ Grows /\ complete' = complete
             /\ \A k \in JobIds : /\ status[k] # "none" => status'[k] # "none"
                                  /\ status'[k] = "completed" => status[k] = "completed"
  <2>1. /\ PipeShape' /\ Grows /\ complete' = complete
        /\ \A k \in JobIds \ {j} : status'[k] = status[k]
        /\ status[j] = "pending" /\ status'[j] = "running"
    BY <1>2, TakeDoes
  <2> QED
    BY <2>1
<1>3. ASSUME NEW h \in Hands, FindWork(h) \/ CoverWork(h) \/ StoreWork(h)
      PROVE  /\ PipeShape' /\ Grows /\ complete' = complete
             /\ \A k \in JobIds : /\ status[k] # "none" => status'[k] # "none"
                                  /\ status'[k] = "completed" => status[k] = "completed"
  <2>1. PipeShape' /\ Works(h) /\ Grows
    BY <1>3, FindWorkDoes, CoverWorkDoes, StoreWorkDoes
  <2> QED
    BY <2>1 DEF Works
<1>4. ASSUME NEW h \in Hands, Refused(h) \/ Fail(h)
      PROVE  /\ PipeShape' /\ Grows /\ complete' = complete
             /\ \A k \in JobIds : /\ status[k] # "none" => status'[k] # "none"
                                  /\ status'[k] = "completed" => status[k] = "completed"
  <2>1. /\ PipeShape' /\ Leaves(h) /\ Grows /\ complete' = complete
        /\ status'[hand[h].job] = "completed" => status[hand[h].job] = "completed"
    BY <1>4, GiveUpDoes
  <2> QED
    BY <1>0, <2>1 DEF Leaves
<1>5. ASSUME NEW h \in Hands, Mark(h)
      PROVE  /\ PipeShape' /\ Grows
             /\ \A k \in JobIds : status[k] # "none" => status'[k] # "none"
  <2>1. PipeShape' /\ Leaves(h) /\ Grows
    BY <1>5, MarkDoes
  <2> QED
    BY <1>0, <2>1 DEF Leaves
<1>6. \/ \E j \in JobIds : Reset(j)
      \/ \E h \in Hands, j \in JobIds : Take(h, j)
      \/ \E h \in Hands : FindWork(h) \/ CoverWork(h) \/ StoreWork(h)
      \/ \E h \in Hands : Refused(h) \/ Fail(h)
      \/ \E h \in Hands : Mark(h)
  BY DEF PipeNext, FindWork, CoverWork, StoreWork
<1> QED
  BY <1>1, <1>2, <1>3, <1>4, <1>5, <1>6

(* Every step keeps what the finding handlers know.                        *)
LEMMA FindStep ==
  ASSUME PipeShape, FindInv, PipeNext
  PROVE  FindInv'
<1>1. /\ PipeShape' /\ Grows
      /\ \A j \in JobIds : status[j] # "none" => status'[j] # "none"
      /\ (\A h \in Hands : ~Mark(h)) =>
           /\ complete' = complete
           /\ \A j \in JobIds : status'[j] = "completed" => status[j] = "completed"
  BY StepKinds DEF FindInv
<1>2. \A k : Queued(k) => Queued(k)'
  BY <1>1, QueuedStays
<1>3. \A h \in Hands : FindKnows(h) /\ (hand'[h] = hand[h] => FindKnows(h)')
  BY <1>1, StillFinds DEF FindInv
<1>4. ASSUME NEW h \in Hands, hand'[h].pc = "idle" PROVE FindKnows(h)'
  BY <1>4 DEF FindKnows, FindPcs
<1>5. ASSUME NEW h \in Hands, Works(h) \/ Leaves(h) PROVE \A g \in Hands \ {h} : FindKnows(g)'
  BY <1>3, <1>5 DEF Works, Leaves, OthersStay
<1>6. \A h \in Hands : FindKnows(h)'
  <2>1. ASSUME NEW j \in JobIds, Reset(j) PROVE \A h \in Hands : FindKnows(h)'
    BY <1>3, <2>1, ResetDoes
  <2>2. ASSUME NEW h \in Hands, NEW j \in JobIds, Take(h, j) PROVE \A g \in Hands : FindKnows(g)'
    <3>1. OthersStay(h) /\ hand'[h].pc \in {"find", "cover", "load"}
      BY <2>2, TakeDoes
    <3>2. FindKnows(h)'
      BY <3>1 DEF FindKnows, FindPcs
    <3> QED
      BY <1>3, <3>1, <3>2 DEF OthersStay
  <2>3. ASSUME NEW h \in Hands, FindWork(h) PROVE \A g \in Hands : FindKnows(g)'
    BY <1>3, <1>5, <2>3, FindWorkDoes
  <2>4. ASSUME NEW h \in Hands, CoverWork(h) \/ StoreWork(h) PROVE \A g \in Hands : FindKnows(g)'
    <3>1. Works(h) /\ hand[h].job # FindingJob /\ PipeShape'
      BY <2>4, CoverWorkDoes, StoreWorkDoes, JobsDiffer
    <3>2. FindKnows(h)'
      <4>1. hand'[h].job # FindingJob
        BY <3>1 DEF Works
      <4>2. hand'[h].pc \notin FindPcs
        BY <3>1, <4>1 DEF PipeShape, Staged
      <4> QED
        BY <4>1, <4>2 DEF FindKnows, FindPcs
    <3> QED
      BY <1>5, <3>1, <3>2
  <2>5. ASSUME NEW h \in Hands, Refused(h) \/ Fail(h) \/ Mark(h)
        PROVE  \A g \in Hands : FindKnows(g)'
    <3>1. Leaves(h)
      BY <2>5, GiveUpDoes, MarkDoes
    <3> QED
      BY <1>4, <1>5, <3>1 DEF Leaves
  <2> QED
    BY <2>1, <2>2, <2>3, <2>4, <2>5 DEF PipeNext, FindWork, CoverWork, StoreWork
<1>7. status'[FindingJob] = "completed" => \A k \in 1..complete' : Queued(k)'
  <2>1. CASE \A h \in Hands : ~Mark(h)
    BY <1>1, <1>2, <2>1, JobsDiffer DEF FindInv
  <2>2. ASSUME NEW h \in Hands, Mark(h)
        PROVE  status'[FindingJob] = "completed" => \A k \in 1..complete' : Queued(k)'
    <3>1. /\ Leaves(h) /\ hand[h].pc = "mark" /\ status'[hand[h].job] = hand[h].out
          /\ complete' = IF hand[h].job = FindingJob THEN hand[h].n ELSE complete
      BY <2>2, MarkDoes
    <3>2. CASE hand[h].job = FindingJob
      BY <1>2, <1>3, <3>1, <3>2 DEF FindKnows
    <3>3. CASE hand[h].job # FindingJob
      <4>1. status'[FindingJob] = status[FindingJob]
        BY <3>1, <3>3, JobsDiffer DEF Leaves
      <4> QED
        BY <1>2, <3>1, <3>3, <4>1 DEF FindInv
    <3> QED
      BY <3>2, <3>3
  <2> QED
    BY <2>1, <2>2
<1> QED
  BY <1>6, <1>7 DEF FindInv

-----------------------------------------------------------------------------
(* One worker per job, unless the job was crossed. *)

\* Two workers have the same job only if it was crossed; and a job that was
\* not is settled by its worker only.
Alone ==
  \A h \in Hands : ~At(h, "idle") /\ hand[h].job \notin crossed =>
    /\ \A g \in Hands : ~At(g, "idle") /\ hand[g].job = hand[h].job => g = h
    /\ status[hand[h].job] \in {"pending", "running"}

(* Every step keeps that, and never forgets that a job was crossed.        *)
LEMMA AloneStep ==
  ASSUME PipeShape, FindInv, Alone, PipeNext
  PROVE  Alone' /\ crossed \subseteq crossed'
<1>0. \A h \in Hands : hand[h].job \in JobIds
  BY DEF PipeShape, PipeTypes, HandRecord
<1>1. ASSUME NEW h \in Hands, Works(h) PROVE Alone' /\ crossed \subseteq crossed'
  <2>1. \A g \in Hands : At(g, "idle")' <=> At(g, "idle")
    BY <1>1 DEF Works, OthersStay, At
  <2>2. \A g \in Hands : hand'[g].job = hand[g].job
    BY <1>1 DEF Works, OthersStay
  <2>3. \A j \in JobIds : status[j] \in {"pending", "running"} => status'[j] = status[j]
    BY <1>1 DEF Works
  <2> QED
    BY <1>0, <1>1, <2>1, <2>2, <2>3 DEF Alone, Works
<1>2. ASSUME NEW h \in Hands, Leaves(h) PROVE Alone' /\ crossed \subseteq crossed'
  <2>1. At(h, "idle")' /\ \A g \in Hands \ {h} : hand'[g] = hand[g] /\ (At(g, "idle")' <=> At(g, "idle"))
    BY <1>2 DEF Leaves, OthersStay, At
  <2>2. ASSUME NEW g \in Hands, ~At(g, "idle")', hand'[g].job \notin crossed'
        PROVE  /\ \A x \in Hands : ~At(x, "idle")' /\ hand'[x].job = hand'[g].job => x = g
               /\ status'[hand'[g].job] \in {"pending", "running"}
    <3>1. g # h /\ hand'[g] = hand[g] /\ ~At(g, "idle") /\ hand[g].job \notin crossed
      BY <1>2, <2>1, <2>2 DEF Leaves
    <3>2. hand[g].job # hand[h].job
      BY <1>2, <3>1 DEF Alone, Leaves
    <3>3. status'[hand[g].job] = status[hand[g].job]
      BY <1>0, <1>2, <3>2 DEF Leaves
    <3> QED
      BY <2>1, <3>1, <3>3 DEF Alone
  <2> QED
    BY <1>2, <2>2 DEF Alone, Leaves
<1>3. ASSUME NEW j \in JobIds, Reset(j) PROVE Alone' /\ crossed \subseteq crossed'
  <2>1. /\ UNCHANGED <<hand, crossed>> /\ status'[j] = "pending"
        /\ \A k \in JobIds \ {j} : status'[k] = status[k]
    BY <1>3, ResetDoes
  <2> QED
    BY <1>0, <2>1 DEF Alone, At
<1>4. ASSUME NEW h \in Hands, NEW j \in JobIds, Take(h, j)
      PROVE  Alone' /\ crossed \subseteq crossed'
  <2>1. /\ At(h, "idle") /\ OthersStay(h) /\ hand'[h].job = j
        /\ crossed \subseteq crossed' /\ (Busy(j) # {} => j \in crossed')
        /\ \A k \in JobIds \ {j} : status'[k] = status[k]
        /\ status'[j] = "running"
    BY <1>4, TakeDoes
  <2>2. \A g \in Hands \ {h} : hand'[g] = hand[g] /\ (At(g, "idle")' <=> At(g, "idle"))
    BY <2>1 DEF OthersStay, At
  <2>3. ASSUME NEW g \in Hands, ~At(g, "idle")', hand'[g].job \notin crossed'
        PROVE  /\ \A x \in Hands : ~At(x, "idle")' /\ hand'[x].job = hand'[g].job => x = g
               /\ status'[hand'[g].job] \in {"pending", "running"}
    <3>1. \A x \in Hands \ {h} : hand'[x].job = j /\ ~At(x, "idle")' => j \in crossed'
      BY <2>1, <2>2 DEF Busy
    <3>2. CASE g = h
      BY <2>1, <2>3, <3>1, <3>2
    <3>3. CASE g # h
      <4>1. hand'[g].job # j /\ hand'[g] = hand[g] /\ ~At(g, "idle") /\ hand[g].job \notin crossed
        BY <2>1, <2>2, <2>3, <3>1, <3>3
      <4>2. status'[hand[g].job] = status[hand[g].job]
        BY <1>0, <2>1, <4>1
      <4> QED
        BY <2>1, <2>2, <4>1, <4>2 DEF Alone
    <3> QED
      BY <3>2, <3>3
  <2> QED
    BY <2>1, <2>3 DEF Alone
<1>5. ASSUME NEW h \in Hands, FindWork(h) \/ CoverWork(h) \/ StoreWork(h) PROVE Works(h)
  BY <1>5, FindWorkDoes, CoverWorkDoes, StoreWorkDoes DEF FindInv
<1>6. ASSUME NEW h \in Hands, Refused(h) \/ Fail(h) \/ Mark(h) PROVE Leaves(h)
  BY <1>6, GiveUpDoes, MarkDoes
<1> QED
  BY <1>1, <1>2, <1>3, <1>4, <1>5, <1>6 DEF PipeNext, FindWork, CoverWork, StoreWork

-----------------------------------------------------------------------------
(* The covering handlers. *)

\* What holds of a candidate whose covering job was never crossed.
CoverFact(c) ==
  CoveringJob(c) \notin crossed =>
    /\ status[CoveringJob(c)] = "completed" /\ evidence[c] = "ready" => Shown(finals, c)
    /\ \A f, g \in DOMAIN finals : finals[f] = c /\ finals[g] = c => f = g
    /\ \A h \in Hands : hand[h].job = CoveringJob(c) =>
         /\ hand[h].pc = "addFinal" => ~Shown(finals, c)
         /\ hand[h].pc = "mark" /\ hand[h].out = "completed" /\ evidence[c] = "ready" =>
              Shown(finals, c)

CoverInv == \A c \in Rows : CoverFact(c)

(* A step that is not about the candidate.                                 *)
LEMMA CoverElsewhere ==
  ASSUME NEW c \in Rows, CoverFact(c), Extends(finals, finals'), crossed \subseteq crossed',
         \A f \in DOMAIN finals' \ DOMAIN finals : finals'[f] # c,
         evidence'[c] = evidence[c],
         status'[CoveringJob(c)] = "completed" => status[CoveringJob(c)] = "completed",
         \A h \in Hands : hand'[h] = hand[h] \/ hand'[h].job # CoveringJob(c)
                          \/ hand'[h].pc \notin {"addFinal", "mark"}
  PROVE  CoverFact(c)'
<1> SUFFICES ASSUME CoveringJob(c) \notin crossed' PROVE CoverFact(c)'
  BY DEF CoverFact
<1>1. Shown(finals, c) <=> Shown(finals', c)
  BY DEF Extends, Shown
<1>2. \A f, g \in DOMAIN finals' : finals'[f] = c /\ finals'[g] = c => f = g
  BY DEF Extends, CoverFact
<1>3. status'[CoveringJob(c)] = "completed" /\ evidence'[c] = "ready" => Shown(finals', c)
  BY <1>1 DEF CoverFact
<1>4. \A h \in Hands : hand'[h].job = CoveringJob(c) =>
        /\ hand'[h].pc = "addFinal" => ~Shown(finals', c)
        /\ hand'[h].pc = "mark" /\ hand'[h].out = "completed" /\ evidence'[c] = "ready" =>
             Shown(finals', c)
  BY <1>1 DEF CoverFact
<1> QED
  BY <1>2, <1>3, <1>4 DEF CoverFact

(* The covering handler of the candidate itself.                           *)
LEMMA CoverHere ==
  ASSUME PipeShape, Alone, NEW c \in Rows, CoverFact(c), NEW h \in Hands, CoverWork(h),
         hand[h].job = CoveringJob(c)
  PROVE  CoverFact(c)'
<1> SUFFICES ASSUME CoveringJob(c) \notin crossed' PROVE CoverFact(c)'
  BY DEF CoverFact
<1>1. PipeShape' /\ Works(h) /\ Grows /\ UNCHANGED <<found, stored>>
  BY CoverWorkDoes
<1>2. /\ CoveringJob(c) \notin crossed /\ ~At(h, "idle") /\ CoveringJob(c) \in JobIds
      /\ status'[CoveringJob(c)] # "completed"
  BY <1>1, JobsDiffer DEF Works, Alone
<1>3. \A g \in Hands \ {h} : hand'[g].job = CoveringJob(c) => hand'[g].pc = "idle"
  BY <1>1, <1>2 DEF Works, OthersStay, Alone, At
<1>4. CASE Cover(h)
  <2>1. UNCHANGED <<tables, status>> /\ hand'[h].pc \in {"addEvidence", "saveEvidence"}
    BY <1>4, CoverDoes
  <2> QED
    BY <1>2, <1>3, <2>1 DEF CoverFact, tables
<1>5. CASE SaveEvidence(h)
  <2>1. /\ UNCHANGED finals
        /\ \/ hand'[h].pc = "lookFinal"
           \/ hand'[h].pc = "mark" /\ evidence'[c] = "other"
    BY <1>5, SaveEvidenceDoes
  <2> QED
    BY <1>2, <1>3, <2>1 DEF CoverFact
<1>6. CASE LookFinal(h)
  <2>1. /\ UNCHANGED <<tables, status>>
        /\ \/ hand'[h].pc = "addFinal" /\ ~Shown(finals, c)
           \/ hand'[h].pc = "mark" /\ Shown(finals, c)
    BY <1>6, LookFinalDoes
  <2>2. finals' = finals
    BY <2>1 DEF tables
  <2> QED
    BY <1>2, <1>3, <2>1, <2>2 DEF CoverFact
<1>7. CASE AddFinal(h)
  <2>1. hand[h].pc = "addFinal" /\ hand'[h].pc = "mark" /\ Extends(finals, finals')
    BY <1>1, <1>7, AddFinalDoes DEF Grows
  <2>2. PICK f \in Rows :
          DOMAIN finals' = DOMAIN finals \cup {f} /\ f \notin DOMAIN finals /\ finals'[f] = c
    BY <1>7, AddFinalDoes
  <2>3. ~Shown(finals, c)
    BY <1>2, <2>1 DEF CoverFact
  <2>4. \A x \in DOMAIN finals' : finals'[x] = c => x = f
    BY <2>1, <2>2, <2>3 DEF Extends, Shown
  <2>5. Shown(finals', c)
    BY <2>2 DEF Shown
  <2> QED
    BY <1>2, <1>3, <2>1, <2>4, <2>5 DEF CoverFact
<1> QED
  BY <1>4, <1>5, <1>6, <1>7 DEF CoverWork

(* The last statement of a handler.                                        *)
LEMMA CoverMarked ==
  ASSUME PipeShape, NEW c \in Rows, CoverFact(c), NEW h \in Hands, Mark(h)
  PROVE  CoverFact(c)'
<1>1. /\ Leaves(h) /\ hand[h].pc = "mark" /\ status'[hand[h].job] = hand[h].out
      /\ UNCHANGED <<tables, crossed>> /\ OthersStay(h) /\ hand'[h].pc = "idle"
  BY MarkDoes DEF Leaves
<1>2. \A g \in Hands : hand'[g] = hand[g] \/ hand'[g].pc = "idle"
  BY <1>1 DEF OthersStay
<1>3. CASE hand[h].job = CoveringJob(c)
  BY <1>1, <1>2, <1>3 DEF CoverFact, tables
<1>4. CASE hand[h].job # CoveringJob(c)
  <2>1. status'[CoveringJob(c)] = status[CoveringJob(c)]
    BY <1>1, <1>4, JobsDiffer DEF Leaves
  <2> QED
    BY <1>1, <1>2, <2>1 DEF CoverFact, tables
<1> QED
  BY <1>3, <1>4

(* Every step keeps what holds of the candidates.                          *)
LEMMA CoverStep ==
  ASSUME PipeShape, FindInv, Alone, CoverInv, PipeNext
  PROVE  CoverInv'
<1> SUFFICES ASSUME NEW c \in Rows PROVE CoverFact(c)'
  BY DEF CoverInv
<1>1. /\ CoverFact(c) /\ crossed \subseteq crossed' /\ CoveringJob(c) \in JobIds
      /\ Extends(finals, finals')
  BY AloneStep, StepKinds, JobsDiffer DEF CoverInv, FindInv, Grows
<1>2. (\A h \in Hands : ~Mark(h)) =>
        (status'[CoveringJob(c)] = "completed" => status[CoveringJob(c)] = "completed")
  BY <1>1, StepKinds DEF FindInv
<1>3. CASE \E h \in Hands : Mark(h)
  BY <1>1, <1>3, CoverMarked
<1>4. ASSUME \A h \in Hands : ~Mark(h), UNCHANGED <<evidence, finals>>,
             \A h \in Hands : hand'[h] = hand[h] \/ hand'[h].job # CoveringJob(c)
                              \/ hand'[h].pc \notin {"addFinal", "mark"}
      PROVE  CoverFact(c)'
  BY <1>1, <1>2, <1>4, CoverElsewhere
<1>5. ASSUME \A h \in Hands : ~Mark(h), NEW j \in JobIds, Reset(j) PROVE CoverFact(c)'
  BY <1>4, <1>5, ResetDoes DEF tables
<1>6. ASSUME \A h \in Hands : ~Mark(h), NEW h \in Hands, NEW j \in JobIds, Take(h, j)
      PROVE  CoverFact(c)'
  <2>1. UNCHANGED tables /\ OthersStay(h) /\ hand'[h].pc \notin {"addFinal", "mark"}
    BY <1>6, TakeDoes
  <2> QED
    BY <1>4, <1>6, <2>1 DEF tables, OthersStay
<1>7. ASSUME \A h \in Hands : ~Mark(h), NEW h \in Hands, FindWork(h) \/ StoreWork(h)
      PROVE  CoverFact(c)'
  <2>1. Works(h) /\ UNCHANGED <<evidence, finals>> /\ hand[h].job # CoveringJob(c)
    BY <1>7, FindWorkDoes, StoreWorkDoes, JobsDiffer DEF FindInv
  <2> QED
    BY <1>4, <1>7, <2>1 DEF Works, OthersStay
<1>8. ASSUME \A h \in Hands : ~Mark(h), NEW h \in Hands, CoverWork(h) PROVE CoverFact(c)'
  <2>1. CASE hand[h].job = CoveringJob(c)
    BY <1>1, <1>8, <2>1, CoverHere
  <2>2. CASE hand[h].job # CoveringJob(c)
    <3>1. PICK d \in Rows :
            /\ hand[h].job = CoveringJob(d)
            /\ \A x \in Rows \ {d} : evidence'[x] = evidence[x]
            /\ \A f \in DOMAIN finals' \ DOMAIN finals : finals'[f] = d
      BY <1>8, CoverWorkDoes
    <3>2. Works(h) /\ c # d
      BY <1>8, <2>2, <3>1, CoverWorkDoes
    <3>3. \A g \in Hands : hand'[g] = hand[g] \/ hand'[g].job # CoveringJob(c)
      BY <2>2, <3>2 DEF Works, OthersStay
    <3> QED
      BY <1>1, <1>2, <1>8, <3>1, <3>2, <3>3, CoverElsewhere
  <2> QED
    BY <2>1, <2>2
<1>9. ASSUME \A h \in Hands : ~Mark(h), NEW h \in Hands, Refused(h) \/ Fail(h)
      PROVE  CoverFact(c)'
  <2>1. UNCHANGED tables /\ OthersStay(h) /\ hand'[h].pc = "idle"
    BY <1>9, GiveUpDoes DEF Leaves
  <2> QED
    BY <1>4, <1>9, <2>1 DEF tables, OthersStay
<1> QED
  BY <1>3, <1>5, <1>6, <1>7, <1>8, <1>9 DEF PipeNext, FindWork, CoverWork, StoreWork

-----------------------------------------------------------------------------
(* The finalize handlers. *)

\* What holds of a finalize job, and of its item if neither it nor the
\* covering job before it was crossed.
Clean(f) == FinalizeJob(f) \notin crossed /\ CoveringJob(finals[f]) \notin crossed
StoreFact(f) ==
  /\ status[FinalizeJob(f)] = "completed" => Shown(stored, finals[f])
  /\ Clean(f) => \A m, n \in DOMAIN stored :
       stored[m] = finals[f] /\ stored[n] = finals[f] => m = n
  /\ \A h \in Hands : hand[h].job = FinalizeJob(f) =>
       /\ hand[h].pc = "mark" /\ hand[h].out = "completed" => Shown(stored, finals[f])
       /\ hand[h].pc = "saveItem" /\ hand[h].row # 0 => Shown(stored, finals[f])
       /\ hand[h].pc = "saveItem" /\ hand[h].row = 0 /\ Clean(f) => ~Shown(stored, finals[f])

StoreInv == \A f \in DOMAIN finals : StoreFact(f)

(* A step that is not about the finalize job.                              *)
LEMMA StoreElsewhere ==
  ASSUME NEW f \in DOMAIN finals, StoreFact(f), Extends(finals, finals'), Extends(stored, stored'),
         crossed \subseteq crossed',
         Clean(f) => \A m \in DOMAIN stored' \ DOMAIN stored : stored'[m] # finals[f],
         status'[FinalizeJob(f)] = "completed" => status[FinalizeJob(f)] = "completed",
         \A h \in Hands : hand'[h] = hand[h] \/ hand'[h].job # FinalizeJob(f)
                          \/ hand'[h].pc \notin {"saveItem", "mark"}
  PROVE  StoreFact(f)'
<1>1. finals'[f] = finals[f] /\ (Clean(f)' => Clean(f))
  BY DEF Extends, Clean
<1>2. Shown(stored, finals[f]) => Shown(stored', finals[f])
  BY ShownStays
<1>3. Clean(f) => (Shown(stored', finals[f]) => Shown(stored, finals[f]))
  BY DEF Shown, Extends
<1>4. Clean(f) => \A m, n \in DOMAIN stored' :
        stored'[m] = finals[f] /\ stored'[n] = finals[f] => m = n
  BY DEF StoreFact, Extends
<1>5. \A h \in Hands : hand'[h].job = FinalizeJob(f) =>
        /\ hand'[h].pc = "mark" /\ hand'[h].out = "completed" => Shown(stored', finals[f])
        /\ hand'[h].pc = "saveItem" /\ hand'[h].row # 0 => Shown(stored', finals[f])
        /\ hand'[h].pc = "saveItem" /\ hand'[h].row = 0 /\ Clean(f) => ~Shown(stored', finals[f])
  BY <1>2, <1>3 DEF StoreFact
<1>6. status'[FinalizeJob(f)] = "completed" => Shown(stored', finals[f])
  BY <1>2 DEF StoreFact
<1> QED
  BY <1>1, <1>4, <1>5, <1>6 DEF StoreFact

(* The finalize handler of the job itself.                                 *)
LEMMA StoreHere ==
  ASSUME PipeShape, Alone, NEW f \in DOMAIN finals, StoreFact(f), NEW h \in Hands, StoreWork(h),
         hand[h].job = FinalizeJob(f), f \in Rows
  PROVE  StoreFact(f)'
<1>1. PipeShape' /\ Works(h) /\ Grows /\ UNCHANGED <<found, status, evidence, finals>>
  BY StoreWorkDoes
<1>2. /\ UNCHANGED crossed /\ ~At(h, "idle") /\ FinalizeJob(f) \in JobIds
      /\ (Clean(f)' <=> Clean(f))
  BY <1>1, JobsDiffer DEF Works, Clean
<1>3. \A g \in Hands \ {h} : hand'[g] = hand[g]
                             /\ (hand[g].job = FinalizeJob(f) /\ Clean(f) => hand[g].pc = "idle")
  BY <1>1, <1>2 DEF Works, OthersStay, Alone, At, Clean
<1>4. CASE Load(h)
  <2>1. /\ UNCHANGED <<tables, status>>
        /\ \/ hand'[h].pc = "lookItem"
           \/ hand'[h].pc = "mark" /\ hand'[h].out = "skipped"
    BY <1>4, LoadDoes
  <2>2. UNCHANGED <<finals, stored>>
    BY <2>1 DEF tables
  <2> QED
    BY <1>2, <1>3, <2>1, <2>2 DEF StoreFact
<1>5. CASE LookItem(h)
  <2>1. /\ UNCHANGED <<tables, status>>
        /\ \/ hand'[h].pc = "embed"
           \/ hand'[h].pc = "mark" /\ Shown(stored, finals[f])
    BY <1>5, LookItemDoes
  <2>2. UNCHANGED <<finals, stored>>
    BY <2>1 DEF tables
  <2> QED
    BY <1>2, <1>3, <2>1, <2>2 DEF StoreFact
<1>6. CASE LookAgain(h)
  <2>1. /\ UNCHANGED <<tables, status>> /\ hand'[h].pc = "saveItem"
        /\ (hand'[h].row = 0 <=> ~Shown(stored, finals[f]))
    BY <1>6, LookAgainDoes
  <2>2. UNCHANGED <<finals, stored>>
    BY <2>1 DEF tables
  <2> QED
    BY <1>2, <1>3, <2>1, <2>2 DEF StoreFact
<1>7. CASE SaveItem(h)
  <2>1. /\ hand[h].pc = "saveItem" /\ hand'[h].pc = "mark"
        /\ \/ hand[h].row # 0 /\ stored' = stored
           \/ /\ hand[h].row = 0
              /\ \E m \in Nat : /\ DOMAIN stored' = DOMAIN stored \cup {m} /\ m \notin DOMAIN stored
                                /\ stored'[m] = finals[f]
    BY <1>7, SaveItemDoes
  <2>2. CASE hand[h].row # 0 /\ stored' = stored
    BY <1>1, <1>2, <1>3, <2>1, <2>2 DEF StoreFact
  <2>3. CASE hand[h].row = 0
    <3>1. PICK m \in Nat : /\ DOMAIN stored' = DOMAIN stored \cup {m} /\ m \notin DOMAIN stored
                           /\ stored'[m] = finals[f]
      BY <2>1, <2>3
    <3>2. Shown(stored', finals[f])
      BY <3>1 DEF Shown
    <3>3. Clean(f) => ~Shown(stored, finals[f])
      BY <2>1, <2>3 DEF StoreFact
    <3>4. Clean(f) => \A n \in DOMAIN stored' : stored'[n] = finals[f] => n = m
      BY <1>1, <3>1, <3>3 DEF Grows, Extends, Shown
    <3> QED
      BY <1>1, <1>2, <1>3, <2>1, <3>2, <3>4 DEF StoreFact
  <2> QED
    BY <2>1, <2>2, <2>3
<1> QED
  BY <1>4, <1>5, <1>6, <1>7 DEF StoreWork

(* A finalize job that was just added.                                     *)
LEMMA StoreAdded ==
  ASSUME PipeShape, CoverInv, NEW h \in Hands, CoverWork(h),
         NEW f \in DOMAIN finals' \ DOMAIN finals
  PROVE  StoreFact(f)'
<1>1. /\ PipeShape' /\ Works(h) /\ UNCHANGED <<found, stored>>
      /\ \E c \in Rows : hand[h].job = CoveringJob(c) /\ finals'[f] = c
  BY CoverWorkDoes
<1>2. PICK c \in Rows : hand[h].job = CoveringJob(c) /\ finals'[f] = c
  BY <1>1
<1>3. AddFinal(h)
  BY <1>2, CoverDoes, SaveEvidenceDoes, LookFinalDoes DEF CoverWork, tables
<1>4. /\ hand[h].pc = "addFinal" /\ f \in Rows /\ status'[FinalizeJob(f)] = "pending"
  <2>1. PICK x \in Rows :
          DOMAIN finals' = DOMAIN finals \cup {x} /\ status'[FinalizeJob(x)] = "pending"
    BY <1>2, <1>3, AddFinalDoes
  <2>2. hand[h].pc = "addFinal" /\ f = x
    BY <1>2, <1>3, <2>1, AddFinalDoes
  <2> QED
    BY <2>1, <2>2
<1>5. status[FinalizeJob(f)] = "none"
  BY <1>4 DEF PipeShape, Linked
<1>6. \A g \in Hands : hand[g].job = FinalizeJob(f) => hand[g].pc = "idle"
  BY <1>5 DEF PipeShape, HasRow, At
<1>7. \A g \in Hands : hand'[g].job = FinalizeJob(f) => hand'[g].pc = "idle"
  BY <1>1, <1>2, <1>4, <1>6, JobsDiffer DEF Works, OthersStay
<1>8. Clean(f)' => ~Shown(stored', finals'[f])
  <2> SUFFICES ASSUME CoveringJob(c) \notin crossed PROVE ~Shown(stored, c)
    BY <1>1, <1>2 DEF Clean, Works
  <2>1. ~Shown(finals, c)
    BY <1>2, <1>4 DEF CoverInv, CoverFact
  <2> QED
    BY <2>1 DEF PipeShape, Linked, Shown
<1>9. Clean(f)' => \A m, n \in DOMAIN stored' :
        stored'[m] = finals'[f] /\ stored'[n] = finals'[f] => m = n
  BY <1>8 DEF Shown
<1> QED
  BY <1>4, <1>7, <1>9 DEF StoreFact

(* The last statement of a handler.                                        *)
LEMMA StoreMarked ==
  ASSUME PipeShape, NEW f \in DOMAIN finals, f \in Rows, StoreFact(f), NEW h \in Hands, Mark(h)
  PROVE  StoreFact(f)'
<1>1. /\ Leaves(h) /\ hand[h].pc = "mark" /\ status'[hand[h].job] = hand[h].out
      /\ UNCHANGED <<tables, crossed>> /\ OthersStay(h) /\ hand'[h].pc = "idle"
  BY MarkDoes DEF Leaves
<1>2. \A g \in Hands : hand'[g] = hand[g] \/ hand'[g].pc = "idle"
  BY <1>1 DEF OthersStay
<1>3. UNCHANGED <<finals, stored>> /\ (Clean(f)' <=> Clean(f))
  BY <1>1 DEF tables, Clean
<1>4. CASE hand[h].job = FinalizeJob(f)
  BY <1>1, <1>2, <1>3, <1>4 DEF StoreFact
<1>5. CASE hand[h].job # FinalizeJob(f)
  <2>1. status'[FinalizeJob(f)] = status[FinalizeJob(f)]
    BY <1>1, <1>5, JobsDiffer DEF Leaves
  <2> QED
    BY <1>2, <1>3, <2>1 DEF StoreFact
<1> QED
  BY <1>4, <1>5

(* Every step keeps what holds of the finalize jobs.                       *)
LEMMA StoreStep ==
  ASSUME PipeShape, FindInv, Alone, CoverInv, StoreInv, PipeNext
  PROVE  StoreInv'
<1> SUFFICES ASSUME NEW f \in DOMAIN finals' PROVE StoreFact(f)'
  BY DEF StoreInv
<1>1. /\ PipeShape' /\ Grows /\ crossed \subseteq crossed'
      /\ Extends(finals, finals') /\ Extends(stored, stored')
  BY AloneStep, StepKinds DEF FindInv, Grows
<1>2. f \in Rows /\ FinalizeJob(f) \in JobIds
  BY <1>1, PipelineAssumption, JobsDiffer DEF PipeShape, PipeTypes, Rows
<1>3. (\A h \in Hands : ~Mark(h)) =>
        (status'[FinalizeJob(f)] = "completed" => status[FinalizeJob(f)] = "completed")
  BY <1>2, StepKinds DEF FindInv
<1>4. ASSUME NEW h \in Hands, Mark(h) PROVE StoreFact(f)'
  <2>1. f \in DOMAIN finals
    BY <1>4, MarkDoes DEF Leaves, tables
  <2> QED
    BY <1>2, <1>4, <2>1, StoreMarked DEF StoreInv
<1>5. ASSUME \A h \in Hands : ~Mark(h), UNCHANGED stored, f \in DOMAIN finals,
             \A h \in Hands : hand'[h] = hand[h] \/ hand'[h].job # FinalizeJob(f)
                              \/ hand'[h].pc \notin {"saveItem", "mark"}
      PROVE  StoreFact(f)'
  BY <1>1, <1>3, <1>5, StoreElsewhere DEF StoreInv
<1>6. ASSUME \A h \in Hands : ~Mark(h), NEW j \in JobIds, Reset(j) PROVE StoreFact(f)'
  BY <1>5, <1>6, ResetDoes DEF tables
<1>7. ASSUME \A h \in Hands : ~Mark(h), NEW h \in Hands, NEW j \in JobIds, Take(h, j)
      PROVE  StoreFact(f)'
  <2>1. UNCHANGED tables /\ OthersStay(h) /\ hand'[h].pc \notin {"saveItem", "mark"}
    BY <1>7, TakeDoes
  <2> QED
    BY <1>5, <1>7, <2>1 DEF tables, OthersStay
<1>8. ASSUME \A h \in Hands : ~Mark(h), NEW h \in Hands, FindWork(h) PROVE StoreFact(f)'
  <2>1. Works(h) /\ UNCHANGED <<finals, stored>> /\ hand[h].job # FinalizeJob(f)
    BY <1>2, <1>8, FindWorkDoes, JobsDiffer DEF FindInv
  <2> QED
    BY <1>5, <1>8, <2>1 DEF Works, OthersStay
<1>9. ASSUME \A h \in Hands : ~Mark(h), NEW h \in Hands, CoverWork(h) PROVE StoreFact(f)'
  <2>1. CASE f \in DOMAIN finals
    <3>1. Works(h) /\ UNCHANGED stored /\ hand[h].job # FinalizeJob(f)
      BY <1>2, <1>9, CoverWorkDoes, JobsDiffer
    <3> QED
      BY <1>5, <1>9, <2>1, <3>1 DEF Works, OthersStay
  <2>2. CASE f \notin DOMAIN finals
    BY <1>9, <2>2, StoreAdded
  <2> QED
    BY <2>1, <2>2
<1>10. ASSUME \A h \in Hands : ~Mark(h), NEW h \in Hands, StoreWork(h) PROVE StoreFact(f)'
  <2>1. Works(h) /\ UNCHANGED <<status, finals>>
    BY <1>10, StoreWorkDoes
  <2>2. PICK g \in DOMAIN finals : g \in Rows /\ hand[h].job = FinalizeJob(g)
    BY <1>10, StoreWorkDoes
  <2>3. CASE g = f
    BY <1>2, <1>10, <2>1, <2>2, <2>3, StoreHere DEF StoreInv
  <2>4. CASE g # f
    <3>1. \A x \in Hands : hand'[x] = hand[x] \/ hand'[x].job # FinalizeJob(f)
      BY <1>2, <2>1, <2>2, <2>4, JobsDiffer DEF Works, OthersStay
    <3>2. f \in DOMAIN finals /\ finals[f] \in Rows
      BY <2>1 DEF PipeShape, PipeTypes
    <3>3. Clean(f) => finals[g] # finals[f]
      BY <2>2, <2>4, <3>2 DEF Clean, CoverInv, CoverFact
    <3>4. \A m \in DOMAIN stored' \ DOMAIN stored : stored'[m] = finals[g]
      <4>1. CASE Load(h) \/ LookItem(h) \/ LookAgain(h)
        BY <4>1 DEF Load, LookItem, LookAgain, tables
      <4>2. CASE SaveItem(h)
        <5>1. \/ stored' = stored
              \/ \E m \in Nat : DOMAIN stored' = DOMAIN stored \cup {m} /\ stored'[m] = finals[g]
          BY <2>2, <4>2, SaveItemDoes
        <5> QED
          BY <5>1
      <4> QED
        BY <1>10, <4>1, <4>2 DEF StoreWork
    <3> QED
      BY <1>1, <1>3, <1>10, <3>1, <3>2, <3>3, <3>4, StoreElsewhere DEF StoreInv
  <2> QED
    BY <2>3, <2>4
<1>11. ASSUME \A h \in Hands : ~Mark(h), NEW h \in Hands, Refused(h) \/ Fail(h)
       PROVE  StoreFact(f)'
  <2>1. UNCHANGED tables /\ OthersStay(h) /\ hand'[h].pc = "idle"
    BY <1>11, GiveUpDoes DEF Leaves
  <2> QED
    BY <1>5, <1>11, <2>1 DEF tables, OthersStay
<1> QED
  BY <1>4, <1>6, <1>7, <1>8, <1>9, <1>10, <1>11 DEF PipeNext, FindWork, CoverWork, StoreWork

-----------------------------------------------------------------------------
(* The theorems. *)

PipeInv == PipeShape /\ FindInv /\ Alone /\ CoverInv /\ StoreInv

(* The invariant holds at the start.                                       *)
LEMMA PipeInvInit == PipeInit => PipeInv
<1> SUFFICES ASSUME PipeInit PROVE PipeInv
  OBVIOUS
<1>1. /\ IdleHand \in HandRecord /\ IdleHand.pc = "idle" /\ IdleHand.out # "ready"
      /\ \A h \in Hands : hand[h] = IdleHand
  BY JobsDiffer DEF PipeInit, IdleHand, HandRecord
<1>2. /\ found = <<>> /\ finals = <<>> /\ stored = <<>> /\ complete = 0
      /\ \A j \in JobIds : status[j] = IF j = FindingJob THEN "pending" ELSE "none"
  BY DEF PipeInit
<1>3. PipeTypes
  BY <1>1, PipelineAssumption DEF PipeInit, PipeTypes, JobStates
<1>4. Linked
  BY <1>2, JobsDiffer DEF Linked
<1>5. \A h \in Hands : Staged(h) /\ HasRow(h)
  BY <1>1 DEF Staged, HasRow, At, FindPcs, CoverPcs, StorePcs
<1>6. FindInv
  BY <1>1, <1>2, JobsDiffer DEF FindInv, FindKnows, FindPcs
<1>7. Alone
  BY <1>1 DEF Alone, At
<1>8. CoverInv
  BY <1>1, <1>2, JobsDiffer DEF CoverInv, CoverFact
<1>9. StoreInv
  BY <1>2 DEF StoreInv
<1> QED
  BY <1>3, <1>4, <1>5, <1>6, <1>7, <1>8, <1>9 DEF PipeInv, PipeShape

(* Every step keeps it.                                                    *)
LEMMA PipeInvStep == PipeInv /\ [PipeNext]_pipeVars => PipeInv'
<1> SUFFICES ASSUME PipeInv, [PipeNext]_pipeVars PROVE PipeInv'
  OBVIOUS
<1>1. CASE PipeNext
  BY <1>1, StepKinds, FindStep, AloneStep, CoverStep, StoreStep DEF PipeInv, FindInv
<1>2. CASE UNCHANGED pipeVars
  <2> USE <1>2 DEF pipeVars, tables
  <2>1. PipeShape'
    BY DEF PipeInv, PipeShape, PipeTypes, Linked, Staged, HasRow, At
  <2>2. FindInv'
    BY DEF PipeInv, FindInv, FindKnows, Queued
  <2>3. Alone'
    BY DEF PipeInv, Alone, At
  <2>4. CoverInv'
    BY DEF PipeInv, CoverInv, CoverFact
  <2>5. StoreInv'
    BY DEF PipeInv, StoreInv, StoreFact, Clean
  <2> QED
    BY <2>1, <2>2, <2>3, <2>4, <2>5 DEF PipeInv
<1> QED
  BY <1>1, <1>2

(* No stage settles its job before it has handed its work on (worker.ts:   *)
(* processFindingCandidate, processCoveringJob, processFinalizeJob).       *)
THEOREM StagesHandOn == PipeSpec => []HandedOn
<1>1. PipeInv => HandedOn
  <2> SUFFICES ASSUME PipeInv PROVE HandedOn
    OBVIOUS
  <2>1. finals \in Seq(Rows) /\ stored \in Seq(Rows)
    BY DEF PipeInv, PipeShape, PipeTypes
  <2>2. \A c : /\ RowOf(finals, c) # 0 <=> Shown(finals, c)
               /\ RowOf(stored, c) # 0 <=> Shown(stored, c)
    BY <2>1, RowOfIs
  <2>3. status[FindingJob] = "completed" =>
          \A i \in 1..complete : \E c \in DOMAIN found :
            found[c] = i /\ status[CoveringJob(c)] # "none"
    BY DEF PipeInv, FindInv, Queued
  <2>4. \A c \in Rows :
          status[CoveringJob(c)] = "completed" /\ evidence[c] = "ready" =>
            RowOf(finals, c) # 0 \/ CoveringJob(c) \in crossed
    BY <2>2 DEF PipeInv, CoverInv, CoverFact
  <2>5. \A f \in DOMAIN finals :
          status[FinalizeJob(f)] = "completed" => RowOf(stored, finals[f]) # 0
    BY <2>2 DEF PipeInv, StoreInv, StoreFact
  <2> QED
    BY <2>3, <2>4, <2>5 DEF HandedOn
<1> QED
  BY <1>1, PipeInvInit, PipeInvStep, PTL DEF PipeSpec

(* One evidence becomes at most one finalize job and one knowledge item,   *)
(* unless two workers had a job of it at a time                            *)
(* (upsertKnowledgeFromSource).                                            *)
THEOREM KnowledgeStoredOnce == PipeSpec => []KnowledgeOnce
<1>1. PipeInv => KnowledgeOnce
  <2> SUFFICES ASSUME PipeInv, NEW c \in Rows, CoveringJob(c) \notin crossed,
                      NEW f \in DOMAIN finals, NEW g \in DOMAIN finals,
                      finals[f] = c, finals[g] = c
               PROVE  /\ f = g
                      /\ FinalizeJob(f) \in crossed \/
                         \A m, n \in DOMAIN stored : stored[m] = c /\ stored[n] = c => m = n
    BY DEF KnowledgeOnce
  <2>1. f = g
    BY DEF PipeInv, CoverInv, CoverFact
  <2>2. FinalizeJob(f) \notin crossed =>
          \A m, n \in DOMAIN stored : stored[m] = c /\ stored[n] = c => m = n
    BY DEF PipeInv, StoreInv, StoreFact, Clean
  <2> QED
    BY <2>1, <2>2
<1> QED
  BY <1>1, PipeInvInit, PipeInvStep, PTL DEF PipeSpec

-----------------------------------------------------------------------------
(* Merges: what a process knows of the two items of its merge. *)

SaidAtFirst == UNION {Says[i] : i \in Items}
Statements == SaidAtFirst \cup 1..MaxIncidents
ItemRow    == [says : SUBSET Statements, active : BOOLEAN, by : Merges \cup {NoMerge}]
TextPair   == [dead : SUBSET Statements, canon : SUBSET Statements]
MergeRow   == [st : {"none", "reviewed", "pending", "running", "completed", "skipped", "failed"},
               seen : TextPair, snap : TextPair]
MergerPcs  == {"idle", "load", "check", "readCanon", "writeCanon", "readDead", "writeDead",
               "settle", "skip", "fail", "completed", "skipped", "failed"}
MergerRow  == [pc : MergerPcs, merge : Merges \cup {NoMerge}, direct : BOOLEAN,
               dead : SUBSET ItemRow, copy : SUBSET ItemRow]

MergeTypes ==
  /\ item \in [Items -> ItemRow] /\ merge \in [Merges -> MergeRow]
  /\ curation \in [Autonomous -> {"open", "completed", "skipped", "failed"}]
  /\ merger \in [Mergers -> MergerRow]
  /\ incidents \in Nat /\ incidents <= MaxIncidents

Merging(w)   == ~InStep(w, "idle")
JobQueued(m) == merge[m].st \notin {"none", "reviewed"}

\* A process has a merge, a reviewed one, and one with a job if it runs a job;
\* only a job of the curation is reported to it.
HasMerge(w) ==
  Merging(w) =>
    /\ merger[w].merge \in Merges /\ merge[merger[w].merge].st # "none"
    /\ ~merger[w].direct => JobQueued(merger[w].merge)
    /\ merger[w].pc \in {"completed", "skipped", "failed"} =>
         ~merger[w].direct /\ merger[w].merge \in Autonomous

\* The texts the process goes by.
Basis(w) == IF merger[w].direct THEN merge[merger[w].merge].seen ELSE merge[merger[w].merge].snap

\* As long as nobody has written one of its items, a process at work knows
\* both rows.
Knows(w) ==
  Merging(w) /\ w \notin raced =>
    /\ merger[w].pc = "check" => merger[w].dead = {item[Dead(w)]}
    /\ merger[w].pc \in {"readCanon", "writeCanon", "readDead", "writeDead"} =>
         item[Dead(w)].active /\ item[Canon(w)].active /\ item[Dead(w)].says = Basis(w).dead
    /\ merger[w].pc \in {"readCanon", "writeCanon"} =>
         ~Duplicate(w) /\ item[Canon(w)].says = Basis(w).canon
    /\ merger[w].pc = "writeCanon" => merger[w].copy = {item[Canon(w)]}
    /\ merger[w].pc \in {"readDead", "writeDead"} =>
         /\ item[Canon(w)].says = Proposal(merger[w].merge)
         /\ Duplicate(w) => /\ item[Canon(w)].says = Basis(w).canon
                            /\ item[Dead(w)].says = item[Canon(w)].says
    /\ merger[w].pc = "writeDead" => merger[w].copy = {item[Dead(w)]}

\* A job that is not outdated has the texts of its review.
UpToDate == \A m \in Merges : JobQueued(m) /\ m \notin outdated => merge[m].snap = merge[m].seen

MergeShape == MergeTypes /\ UpToDate /\ \A w \in Mergers : HasMerge(w) /\ Knows(w)

-----------------------------------------------------------------------------
(* What a step does to the items. *)

Twins(m)   == merge[m].snap.dead = merge[m].snap.canon /\ merge[m].snap.canon = Proposal(m)
Applied(m) == item[DeadOf[m]].by = m /\ ~item[DeadOf[m]].active

\* The job of an exact duplicate may deprecate its item.
Appliable(m) ==
  /\ JobQueued(m) /\ Twins(m) /\ item[DeadOf[m]].active /\ item[CanonOf[m]].active
  /\ item[DeadOf[m]].says = merge[m].snap.dead /\ item[CanonOf[m]].says = merge[m].snap.dead

\* The step deprecates item j in favour of an active item that says as much.
Deprecates(j) ==
  \E w \in Mergers :
    /\ merger[w].merge \in Merges /\ j = Dead(w)
    /\ item'[j].says = item[j].says
    /\ item'[j].by = IF merger[w].direct THEN item[j].by ELSE merger[w].merge
    /\ item[Canon(w)].active /\ item'[Canon(w)] = item[Canon(w)]
    /\ item[j].says \subseteq item[Canon(w)].says
    /\ Duplicate(w) => Appliable(merger[w].merge)

\* What a step leaves of the items that are not in doubt after it: a
\* deprecated one stays as it is, an active one goes on naming the same job,
\* and an item that says as much as it goes on saying that, is not reactivated,
\* and is deprecated by a sound merge only.
Kept ==
  /\ unsure \subseteq unsure'
  /\ \A i \in Items \ unsure' :
       /\ ~item[i].active => item'[i] = item[i]
       /\ item'[i].active => item'[i].by = item[i].by
       /\ \A j \in Items : item[i].says \subseteq item[j].says =>
            /\ item[j].says \subseteq item'[j].says
            /\ item'[j].active => item[j].active
            /\ item[j].active => item'[j].active \/ Deprecates(j)

\* Reviews and snapshots stay.
RowsKept ==
  \A m \in Merges :
    /\ merge[m].st # "none" => merge'[m].st # "none" /\ merge'[m].seen = merge[m].seen
    /\ JobQueued(m) => merge'[m].st \notin {"none", "reviewed"} /\ merge'[m].snap = merge[m].snap

(* A step that writes no item.                                             *)
LEMMA NothingWritten ==
  ASSUME item' = item, unsure \subseteq unsure'
  PROVE  Kept
BY DEF Kept

(* Processes that do nothing know what they knew, unless they were raced.  *)
LEMMA KnowsStays ==
  ASSUME MergeShape, RowsKept, NEW w \in Mergers, merger'[w] = merger[w],
         w \notin raced' => w \notin raced,
         Merging(w) /\ w \notin raced' =>
           \A i \in Pair(merger[w].merge) : item'[i] = item[i]
  PROVE  HasMerge(w)' /\ Knows(w)'
<1>1. HasMerge(w) /\ Knows(w)
  BY DEF MergeShape
<1>2. HasMerge(w)'
  BY <1>1 DEF HasMerge, Merging, InStep, RowsKept, JobQueued
<1>3. Knows(w)'
  <2> SUFFICES ASSUME Merging(w), w \notin raced' PROVE Knows(w)'
    BY DEF Knows, Merging, InStep
  <2> DEFINE m == merger[w].merge
  <2>1. m \in Merges /\ w \notin raced
        /\ item'[DeadOf[m]] = item[DeadOf[m]] /\ item'[CanonOf[m]] = item[CanonOf[m]]
    BY <1>1 DEF HasMerge, Pair
  <2>2. merge'[m].seen = merge[m].seen /\ (~merger[w].direct => merge'[m].snap = merge[m].snap)
    BY <1>1, <2>1 DEF HasMerge, RowsKept
  <2>3. Basis(w)' = Basis(w) /\ Proposal(m)' = Proposal(m)
    BY <2>2 DEF Basis, Proposal
  <2> QED
    BY <1>1, <2>1, <2>3 DEF Knows, Merging, InStep, Duplicate, Dead, Canon
<1> QED
  BY <1>2, <1>3

\* What a process said to be skipped, or is about to.
Hopeless(m) ==
  \/ DeadOf[m] \in unsure \/ ~item[CanonOf[m]].active
  \/ ~Applied(m) /\ ~Appliable(m)
SkipsFor(m, w) ==
  /\ merger[w].merge = m /\ ~merger[w].direct
  /\ merger[w].pc = "skipped" \/ (merger[w].pc = "skip" /\ w \notin raced)
Skipped(m) ==
  \/ merge[m].st = "skipped" \/ curation[m] = "skipped"
  \/ \E w \in Mergers : SkipsFor(m, w)

\* A duplicate is newly said to be skipped only if there is no hope for it.
SkipsRightly ==
  \A m \in Autonomous :
    Skipped(m)' => Skipped(m) \/ (JobQueued(m) /\ (DeadOf[m] \in unsure' \/ Hopeless(m)))

\* Rows change in their state only.
SameTexts ==
  \A m \in Merges : /\ merge'[m].seen = merge[m].seen /\ merge'[m].snap = merge[m].snap
                    /\ merge'[m].st = "none" <=> merge[m].st = "none"
                    /\ merge'[m].st \notin {"none", "reviewed"} <=> JobQueued(m)

(* The row of a process after a step of its own.                           *)
LEMMA MergerTurns ==
  ASSUME MergeTypes, NEW w \in Mergers, NEW r \in MergerRow, merger' = [merger EXCEPT ![w] = r]
  PROVE  /\ merger' \in [Mergers -> MergerRow] /\ merger'[w] = r
         /\ \A v \in Mergers \ {w} : merger'[v] = merger[v]
BY DEF MergeTypes

(* Rows that change in their state only keep what is asked of them.        *)
LEMMA TextsStay ==
  ASSUME UpToDate, SameTexts, outdated' = outdated
  PROVE  RowsKept /\ UpToDate'
BY DEF UpToDate, SameTexts, RowsKept, JobQueued

(* A step of a process that writes no item.                                *)
LEMMA QuietMerger ==
  ASSUME MergeShape, NEW w \in Mergers, NEW r \in MergerRow, merger' = [merger EXCEPT ![w] = r],
         UNCHANGED <<item, outdated>>, unsure \subseteq unsure', SameTexts,
         merge' \in [Merges -> MergeRow],
         curation' \in [Autonomous -> {"open", "completed", "skipped", "failed"}],
         incidents' \in Nat, incidents' <= MaxIncidents,
         \A v \in Mergers \ {w} : v \notin raced' => v \notin raced,
         merger'[w] = r => HasMerge(w)' /\ Knows(w)'
  PROVE  MergeShape' /\ Kept /\ RowsKept /\ merger'[w] = r
         /\ \A v \in Mergers \ {w} : merger'[v] = merger[v]
<1>1. /\ merger' \in [Mergers -> MergerRow] /\ merger'[w] = r
      /\ \A v \in Mergers \ {w} : merger'[v] = merger[v]
  BY MergerTurns DEF MergeShape
<1>2. RowsKept /\ UpToDate'
  BY TextsStay DEF MergeShape
<1>3. \A v \in Mergers \ {w} : HasMerge(v)' /\ Knows(v)'
  BY <1>1, <1>2, KnowsStays
<1>4. MergeTypes'
  BY <1>1 DEF MergeShape, MergeTypes
<1>5. Kept
  BY NothingWritten
<1> QED
  BY <1>1, <1>2, <1>3, <1>4, <1>5 DEF MergeShape

(* Only the process that acts may be newly about to skip.                  *)
LEMMA NoNewSkip ==
  ASSUME NEW w \in Mergers, \A v \in Mergers \ {w} : merger'[v] = merger[v],
         \A v \in Mergers \ {w} : v \notin raced' => v \notin raced,
         \A m \in Autonomous :
           merge'[m].st = "skipped" \/ curation'[m] = "skipped" \/ SkipsFor(m, w)' =>
             Skipped(m) \/ (JobQueued(m) /\ (DeadOf[m] \in unsure' \/ Hopeless(m)))
  PROVE  SkipsRightly
<1> SUFFICES ASSUME NEW m \in Autonomous, Skipped(m)'
             PROVE  Skipped(m) \/ (JobQueued(m) /\ (DeadOf[m] \in unsure' \/ Hopeless(m)))
  BY DEF SkipsRightly
<1>1. \A v \in Mergers \ {w} : SkipsFor(m, v)' => SkipsFor(m, v)
  BY DEF SkipsFor
<1> QED
  BY <1>1 DEF Skipped

(* A review of two active items.                                           *)
LEMMA ReviewDoes ==
  ASSUME MergeShape, NEW m \in Merges, Review(m)
  PROVE  MergeShape' /\ Kept /\ RowsKept /\ SkipsRightly
<1> DEFINE r == [st |-> "reviewed", seen |-> Texts(m), snap |-> Texts(m)]
<1>1. /\ merge[m].st = "none" /\ merge' = [merge EXCEPT ![m] = r]
      /\ UNCHANGED <<item, curation, merger, incidents, outdated, raced, unsure>>
  BY DEF Review, doubts
<1>2. Texts(m) \in TextPair
  BY MergeAssumption DEF Texts, TextPair, MergeShape, MergeTypes, ItemRow
<1>3. r \in MergeRow /\ r.st = "reviewed"
  BY <1>2 DEF MergeRow
<1> HIDE DEF r
<1>4. /\ merge' \in [Merges -> MergeRow] /\ merge'[m] = r
      /\ \A x \in Merges \ {m} : merge'[x] = merge[x]
  BY <1>1, <1>3 DEF MergeShape, MergeTypes
<1>5. RowsKept
  BY <1>1, <1>4 DEF RowsKept, JobQueued
<1>6. UpToDate'
  BY <1>1, <1>3, <1>4 DEF MergeShape, UpToDate, JobQueued
<1>7. MergeTypes'
  BY <1>1, <1>4 DEF MergeShape, MergeTypes
<1>8. \A w \in Mergers : HasMerge(w)' /\ Knows(w)'
  BY <1>1, <1>5, KnowsStays
<1>9. Kept
  BY <1>1, NothingWritten
<1>10. SkipsRightly
  BY <1>1, <1>3, <1>4, MergeAssumption DEF SkipsRightly, Skipped, SkipsFor
<1> QED
  BY <1>5, <1>6, <1>7, <1>8, <1>9, <1>10 DEF MergeShape

(* A job is queued for a review; it is outdated if a text has changed.     *)
LEMMA CreateJobDoes ==
  ASSUME MergeShape, NEW m \in Merges, CreateJob(m)
  PROVE  /\ MergeShape' /\ Kept /\ RowsKept /\ SkipsRightly
         /\ merge'[m].snap = Texts(m) /\ UNCHANGED <<item, unsure>>
         /\ \A x \in Merges \ {m} : merge'[x] = merge[x]
<1> DEFINE r == [merge[m] EXCEPT !.st = "pending", !.snap = Texts(m)]
<1>1. /\ merge[m].st = "reviewed" /\ merge' = [merge EXCEPT ![m] = r]
      /\ UNCHANGED <<item, curation, merger, incidents, raced, unsure>>
      /\ outdated' = outdated \cup {x \in {m} : merge[m].seen # Texts(m)}
  BY DEF CreateJob
<1>2. Texts(m) \in TextPair /\ merge[m] \in MergeRow
  BY MergeAssumption DEF Texts, TextPair, MergeShape, MergeTypes, ItemRow
<1>3. r \in MergeRow /\ r.st = "pending" /\ r.snap = Texts(m) /\ r.seen = merge[m].seen
  BY <1>2 DEF MergeRow
<1> HIDE DEF r
<1>4. /\ merge' \in [Merges -> MergeRow] /\ merge'[m] = r
      /\ \A x \in Merges \ {m} : merge'[x] = merge[x]
  BY <1>1, <1>3 DEF MergeShape, MergeTypes
<1>5. RowsKept
  BY <1>1, <1>3, <1>4 DEF RowsKept, JobQueued
<1>6. UpToDate'
  BY <1>1, <1>3, <1>4 DEF MergeShape, UpToDate, JobQueued
<1>7. MergeTypes'
  BY <1>1, <1>4 DEF MergeShape, MergeTypes
<1>8. \A w \in Mergers : HasMerge(w)' /\ Knows(w)'
  BY <1>1, <1>5, KnowsStays
<1>9. Kept
  BY <1>1, NothingWritten
<1>10. SkipsRightly
  BY <1>1, <1>3, <1>4, MergeAssumption DEF SkipsRightly, Skipped, SkipsFor
<1> QED
  BY <1>1, <1>3, <1>4, <1>5, <1>6, <1>7, <1>8, <1>9, <1>10 DEF MergeShape

(* A row of the queue becomes pending again.                               *)
LEMMA JobAgainDoes ==
  ASSUME MergeShape, NEW m \in Merges, JobAgain(m)
  PROVE  MergeShape' /\ Kept /\ RowsKept /\ SkipsRightly
<1> DEFINE r == [merge[m] EXCEPT !.st = "pending"]
<1>1. /\ merge[m].st \notin {"none", "reviewed"} /\ merge' = [merge EXCEPT ![m] = r]
      /\ UNCHANGED <<item, curation, merger, outdated, raced, unsure>>
      /\ incidents' \in Nat /\ incidents' <= MaxIncidents
  BY MergeAssumption DEF JobAgain, Incident, doubts, MergeShape, MergeTypes
<1>2. merge[m] \in MergeRow
  BY DEF MergeShape, MergeTypes
<1>3. r \in MergeRow /\ r.st = "pending" /\ r.snap = merge[m].snap /\ r.seen = merge[m].seen
  BY <1>2 DEF MergeRow
<1> HIDE DEF r
<1>4. /\ merge' \in [Merges -> MergeRow] /\ merge'[m] = r
      /\ \A x \in Merges \ {m} : merge'[x] = merge[x]
  BY <1>1, <1>3 DEF MergeShape, MergeTypes
<1>5. SameTexts
  BY <1>1, <1>3, <1>4 DEF SameTexts, JobQueued
<1>6. RowsKept /\ UpToDate'
  BY <1>1, <1>5, TextsStay DEF MergeShape
<1>7. MergeTypes'
  BY <1>1, <1>4 DEF MergeShape, MergeTypes
<1>8. \A w \in Mergers : HasMerge(w)' /\ Knows(w)'
  BY <1>1, <1>6, KnowsStays
<1>9. Kept
  BY <1>1, NothingWritten
<1>10. SkipsRightly
  BY <1>1, <1>3, <1>4, MergeAssumption DEF SkipsRightly, Skipped, SkipsFor
<1> QED
  BY <1>6, <1>7, <1>8, <1>9, <1>10 DEF MergeShape

(* A process takes a pending job, or the API applies a review.             *)
LEMMA StartDoes ==
  ASSUME MergeShape, NEW w \in Mergers, NEW m \in Merges, StartJob(w, m) \/ StartDirect(w, m)
  PROVE  MergeShape' /\ Kept /\ RowsKept /\ SkipsRightly
<1>1. PICK r \in MergerRow :
        /\ r.pc = "load" /\ r.merge = m /\ merger' = [merger EXCEPT ![w] = r]
        /\ IF r.direct THEN merge[m].st # "none" /\ merge' = merge
                       ELSE merge[m].st = "pending" /\ merge' = [merge EXCEPT ![m].st = "running"]
  <2>1. CASE StartJob(w, m)
    <3> DEFINE x == [NoMerger EXCEPT !.pc = "load", !.merge = m]
    <3>1. x \in MergerRow /\ x.pc = "load" /\ x.merge = m /\ x.direct = FALSE
      BY DEF NoMerger, MergerRow, MergerPcs
    <3>2. merger' = [merger EXCEPT ![w] = x]
      BY <2>1 DEF StartJob
    <3> HIDE DEF x
    <3> QED
      BY <2>1, <3>1, <3>2 DEF StartJob
  <2>2. CASE StartDirect(w, m)
    <3> DEFINE x == [NoMerger EXCEPT !.pc = "load", !.merge = m, !.direct = TRUE]
    <3>1. x \in MergerRow /\ x.pc = "load" /\ x.merge = m /\ x.direct = TRUE
      BY DEF NoMerger, MergerRow, MergerPcs
    <3>2. merger' = [merger EXCEPT ![w] = x]
      BY <2>2 DEF StartDirect
    <3> HIDE DEF x
    <3> QED
      BY <2>2, <3>1, <3>2 DEF StartDirect
  <2> QED
    BY <2>1, <2>2
<1>2. /\ InStep(w, "idle") /\ UNCHANGED <<item, curation, outdated, unsure>>
      /\ raced' = raced \ {w} /\ incidents' \in Nat /\ incidents' <= MaxIncidents
  BY MergeAssumption DEF StartJob, StartDirect, Incident, MergeShape, MergeTypes
<1>5. /\ merge' \in [Merges -> MergeRow] /\ SameTexts
      /\ \A x \in Merges : merge'[x].st = "skipped" => merge[x].st = "skipped"
  <2>1. CASE r.direct
    BY <1>1, <2>1 DEF MergeShape, MergeTypes, SameTexts, JobQueued
  <2>2. CASE ~r.direct
    <3> DEFINE x == [merge[m] EXCEPT !.st = "running"]
    <3>1. merge[m] \in MergeRow /\ merge[m].st = "pending" /\ merge' = [merge EXCEPT ![m] = x]
      BY <1>1, <2>2 DEF MergeShape, MergeTypes
    <3>2. x \in MergeRow /\ x.st = "running" /\ x.snap = merge[m].snap /\ x.seen = merge[m].seen
      BY <3>1 DEF MergeRow
    <3> HIDE DEF x
    <3>3. /\ merge' \in [Merges -> MergeRow] /\ merge'[m] = x
          /\ \A y \in Merges \ {m} : merge'[y] = merge[y]
      BY <3>1, <3>2 DEF MergeShape, MergeTypes
    <3> QED
      BY <3>1, <3>2, <3>3 DEF SameTexts, JobQueued
  <2> QED
    BY <2>1, <2>2
<1>6. ASSUME merger'[w] = r PROVE HasMerge(w)' /\ Knows(w)'
  <2>1. merge[m].st # "none" /\ (~r.direct => JobQueued(m))
    BY <1>1 DEF JobQueued
  <2>2. HasMerge(w)'
    BY <1>1, <1>5, <1>6, <2>1 DEF HasMerge, SameTexts, JobQueued
  <2>3. Knows(w)'
    BY <1>1, <1>6 DEF Knows
  <2> QED
    BY <2>2, <2>3
<1>7. MergeShape' /\ Kept /\ RowsKept /\ merger'[w] = r
      /\ \A v \in Mergers \ {w} : merger'[v] = merger[v]
  BY <1>1, <1>2, <1>5, <1>6, QuietMerger DEF MergeShape, MergeTypes
<1>8. SkipsRightly
  <2>1. \A x \in Autonomous : ~SkipsFor(x, w)'
    BY <1>1, <1>7 DEF SkipsFor
  <2>2. \A x \in Autonomous : merge'[x].st = "skipped" => Skipped(x)
    BY <1>5, MergeAssumption DEF Skipped
  <2>3. \A x \in Autonomous : curation'[x] = "skipped" => Skipped(x)
    BY <1>2 DEF Skipped
  <2>4. \A v \in Mergers \ {w} : merger'[v] = merger[v] /\ (v \notin raced' => v \notin raced)
    BY <1>2, <1>7
  <2> QED
    BY <2>1, <2>2, <2>3, <2>4, NoNewSkip
<1> QED
  BY <1>7, <1>8

(* A step of a process after which it has another row, and nothing else    *)
(* has changed but the count of incidents.                                 *)
LEMMA OwnStep ==
  ASSUME MergeShape, NEW w \in Mergers, NEW r \in MergerRow, merger' = [merger EXCEPT ![w] = r],
         UNCHANGED <<item, merge, curation, outdated, raced, unsure>>,
         incidents' \in Nat, incidents' <= MaxIncidents,
         merger'[w] = r => HasMerge(w)' /\ Knows(w)',
         \A m \in Autonomous : r.merge = m /\ ~r.direct /\ r.pc \in {"skip", "skipped"} =>
           r.pc = "skip" /\ (w \notin raced => JobQueued(m) /\ Hopeless(m))
  PROVE  MergeShape' /\ Kept /\ RowsKept /\ SkipsRightly
<1>1. SameTexts /\ merge' \in [Merges -> MergeRow]
      /\ curation' \in [Autonomous -> {"open", "completed", "skipped", "failed"}]
  BY DEF SameTexts, JobQueued, MergeShape, MergeTypes
<1>2. MergeShape' /\ Kept /\ RowsKept /\ merger'[w] = r
      /\ \A v \in Mergers \ {w} : merger'[v] = merger[v]
  BY <1>1, QuietMerger
<1>3. \A m \in Autonomous : SkipsFor(m, w)' => JobQueued(m) /\ Hopeless(m)
  BY <1>2 DEF SkipsFor
<1>4. \A m \in Autonomous : /\ merge'[m].st = "skipped" => Skipped(m)
                            /\ curation'[m] = "skipped" => Skipped(m)
  BY DEF Skipped
<1>5. SkipsRightly
  BY <1>2, <1>3, <1>4, NoNewSkip
<1> QED
  BY <1>2, <1>5

(* The first of the two reads.                                             *)
LEMMA LoadDeadDoes ==
  ASSUME MergeShape, NEW w \in Mergers, LoadDead(w)
  PROVE  MergeShape' /\ Kept /\ RowsKept /\ SkipsRightly
<1> DEFINE r == [merger[w] EXCEPT !.pc = "check", !.dead = {item[Dead(w)]}]
<1>1. /\ merger[w].pc = "load" /\ merger' = [merger EXCEPT ![w] = r]
      /\ UNCHANGED <<item, merge, curation, incidents, outdated, raced, unsure>>
  BY DEF LoadDead, InStep, doubts
<1>2. merger[w] \in MergerRow /\ HasMerge(w) /\ incidents \in Nat /\ incidents <= MaxIncidents
  BY DEF MergeShape, MergeTypes
<1>3. merger[w].merge \in Merges /\ item[Dead(w)] \in ItemRow
  BY <1>1, <1>2, MergeAssumption DEF HasMerge, Merging, InStep, Dead, MergeShape, MergeTypes
<1>4. /\ r \in MergerRow /\ r.pc = "check" /\ r.dead = {item[Dead(w)]}
      /\ r.merge = merger[w].merge /\ r.direct = merger[w].direct
  BY <1>2, <1>3 DEF MergerRow, MergerPcs
<1> HIDE DEF r
<1>5. ASSUME merger'[w] = r PROVE HasMerge(w)' /\ Knows(w)'
  <2>1. HasMerge(w)'
    BY <1>1, <1>2, <1>4, <1>5 DEF HasMerge, Merging, InStep, JobQueued
  <2>2. Knows(w)'
    BY <1>1, <1>4, <1>5 DEF Knows, Dead
  <2> QED
    BY <2>1, <2>2
<1> QED
  BY <1>1, <1>2, <1>4, <1>5, OwnStep

(* What the rows that were read have to do with the verdict.               *)
LEMMA VerdictIs ==
  ASSUME NEW w \in Mergers, NEW dead \in ItemRow, NEW canon \in ItemRow, merger[w].merge \in Merges,
         merge \in [Merges -> MergeRow], merger[w].direct \in BOOLEAN
  PROVE  \/ Verdict(w, dead, canon) = "settle"
         \/ /\ Verdict(w, dead, canon) = "skip"
            /\ ~AlreadyApplied(w, dead, canon)
            /\ Stale(w, dead, canon) \/ Blocked(w, dead, canon)
         \/ /\ Verdict(w, dead, canon) = (IF Duplicate(w) THEN "readDead" ELSE "readCanon")
            /\ dead.active /\ canon.active
            /\ dead.says = Basis(w).dead /\ canon.says = Basis(w).canon
            /\ Duplicate(w) => /\ dead.says = canon.says
                               /\ Proposal(merger[w].merge) = canon.says
<1>1. CASE AlreadyApplied(w, dead, canon)
  BY <1>1 DEF Verdict
<1>2. CASE ~AlreadyApplied(w, dead, canon) /\ (Stale(w, dead, canon) \/ Blocked(w, dead, canon))
  BY <1>2 DEF Verdict
<1>3. CASE /\ ~AlreadyApplied(w, dead, canon)
           /\ ~Stale(w, dead, canon) /\ ~Blocked(w, dead, canon)
  <2>1. Verdict(w, dead, canon) = (IF Duplicate(w) THEN "readDead" ELSE "readCanon")
    BY <1>3 DEF Verdict
  <2>2. /\ dead.active /\ canon.active
        /\ dead.says = Basis(w).dead /\ canon.says = Basis(w).canon
    BY <1>3 DEF Stale, Basis
  <2>3. Duplicate(w) => dead.says = canon.says /\ Proposal(merger[w].merge) = canon.says
    BY <1>3 DEF Blocked
  <2> QED
    BY <2>1, <2>2, <2>3
<1> QED
  BY <1>1, <1>2, <1>3

(* A job that is to be skipped has no hope, unless its process was raced.  *)
LEMMA SkipIsHopeless ==
  ASSUME MergeShape, NEW w \in Mergers, merger[w].merge \in Autonomous, ~merger[w].direct,
         LET dead  == item[Dead(w)]
             canon == item[Canon(w)]
         IN  /\ ~AlreadyApplied(w, dead, canon)
             /\ Stale(w, dead, canon) \/ Blocked(w, dead, canon)
  PROVE  Hopeless(merger[w].merge)
<1> DEFINE m == merger[w].merge
<1>1. m \in Merges /\ Duplicate(w) /\ Dead(w) = DeadOf[m] /\ Canon(w) = CanonOf[m]
  BY MergeAssumption DEF Duplicate, Dead, Canon
<1>2. CASE ~item[CanonOf[m]].active
  BY <1>2 DEF Hopeless
<1>3. CASE item[CanonOf[m]].active
  <2>1. ~Applied(m)
    BY <1>1, <1>3 DEF AlreadyApplied, Applied
  <2>2. ~Appliable(m)
    BY <1>1 DEF Appliable, Twins, Stale, Blocked
  <2> QED
    BY <2>1, <2>2 DEF Hopeless
<1> QED
  BY <1>2, <1>3

(* The rows of both items are there: the verdict.                          *)
LEMMA CheckDoes ==
  ASSUME MergeShape, NEW w \in Mergers, Check(w)
  PROVE  MergeShape' /\ Kept /\ RowsKept /\ SkipsRightly
<1>1. /\ merger[w].pc = "check"
      /\ UNCHANGED <<item, merge, curation, incidents, outdated, raced, unsure>>
  BY DEF Check, InStep, doubts
<1>2. PICK dead \in merger[w].dead :
        merger' = [merger EXCEPT ![w].dead = {}, ![w].pc = Verdict(w, dead, item[Canon(w)])]
  BY DEF Check
<1> DEFINE verdict == Verdict(w, dead, item[Canon(w)])
           r == [merger[w] EXCEPT !.dead = {}, !.pc = verdict]
<1>3. /\ merger[w] \in MergerRow /\ HasMerge(w) /\ Knows(w)
      /\ merge \in [Merges -> MergeRow] /\ incidents \in Nat /\ incidents <= MaxIncidents
  BY DEF MergeShape, MergeTypes
<1>4. /\ merger[w].merge \in Merges /\ merge[merger[w].merge].st # "none"
      /\ ~merger[w].direct => JobQueued(merger[w].merge)
      /\ w \notin raced => dead = item[Dead(w)]
  BY <1>1, <1>2, <1>3 DEF HasMerge, Knows, Merging, InStep
<1>5. dead \in ItemRow /\ item[Canon(w)] \in ItemRow /\ merger[w].direct \in BOOLEAN
  BY <1>2, <1>3, <1>4, MergeAssumption DEF MergerRow, Canon, MergeShape, MergeTypes
<1>6. \/ verdict = "settle"
      \/ /\ verdict = "skip" /\ ~AlreadyApplied(w, dead, item[Canon(w)])
         /\ Stale(w, dead, item[Canon(w)]) \/ Blocked(w, dead, item[Canon(w)])
      \/ /\ verdict = (IF Duplicate(w) THEN "readDead" ELSE "readCanon")
         /\ dead.active /\ item[Canon(w)].active
         /\ dead.says = Basis(w).dead /\ item[Canon(w)].says = Basis(w).canon
         /\ Duplicate(w) => /\ dead.says = item[Canon(w)].says
                            /\ Proposal(merger[w].merge) = item[Canon(w)].says
  BY <1>3, <1>4, <1>5, VerdictIs
<1> HIDE DEF verdict
<1>7. verdict \in {"settle", "skip", "readDead", "readCanon"}
  BY <1>6
<1>8. /\ r \in MergerRow /\ r.pc = verdict
      /\ r.merge = merger[w].merge /\ r.direct = merger[w].direct
  BY <1>3, <1>7 DEF MergerRow, MergerPcs
<1>9. merger' = [merger EXCEPT ![w] = r]
  BY <1>2 DEF verdict
<1> HIDE DEF r
<1>10. ASSUME merger'[w] = r PROVE HasMerge(w)' /\ Knows(w)'
  <2>1. HasMerge(w)'
    BY <1>1, <1>4, <1>7, <1>8, <1>10 DEF HasMerge, JobQueued
  <2>2. Basis(w)' = Basis(w) /\ Duplicate(w)' = Duplicate(w)
        /\ Proposal(merger[w].merge)' = Proposal(merger[w].merge)
    BY <1>1, <1>8, <1>10 DEF Basis, Duplicate, Proposal
  <2>3. Knows(w)'
    <3> SUFFICES ASSUME w \notin raced PROVE Knows(w)'
      BY <1>1 DEF Knows
    <3>1. dead = item[Dead(w)] /\ item' = item /\ Dead(w)' = Dead(w) /\ Canon(w)' = Canon(w)
      BY <1>1, <1>4, <1>8, <1>10 DEF Dead, Canon
    <3> QED
      BY <1>6, <1>8, <1>10, <2>2, <3>1 DEF Knows
  <2> QED
    BY <2>1, <2>3
<1>11. ASSUME NEW m \in Autonomous, r.merge = m, ~r.direct, r.pc \in {"skip", "skipped"}
       PROVE  r.pc = "skip" /\ (w \notin raced => JobQueued(m) /\ Hopeless(m))
  <2>1. r.pc = "skip" /\ verdict = "skip" /\ JobQueued(m)
    BY <1>4, <1>7, <1>8, <1>11
  <2>2. ASSUME w \notin raced PROVE Hopeless(m)
    BY <1>4, <1>6, <1>8, <1>11, <2>1, <2>2, SkipIsHopeless
  <2> QED
    BY <2>1, <2>2
<1> QED
  BY <1>1, <1>3, <1>8, <1>9, <1>10, <1>11, OwnStep

(* The row to be written is read again.                                    *)
LEMMA ReadItemDoes ==
  ASSUME MergeShape, NEW w \in Mergers, ReadItem(w)
  PROVE  MergeShape' /\ Kept /\ RowsKept /\ SkipsRightly
<1> DEFINE canon == InStep(w, "readCanon")
           row   == item[IF canon THEN Canon(w) ELSE Dead(w)]
           r     == [merger[w] EXCEPT !.copy = {row},
                                      !.pc = IF canon THEN "writeCanon" ELSE "writeDead"]
<1>1. /\ merger[w].pc = (IF canon THEN "readCanon" ELSE "readDead")
      /\ UNCHANGED <<item, merge, curation, incidents, outdated, raced, unsure>>
  BY DEF ReadItem, InStep, doubts
<1>2. merger' = [merger EXCEPT ![w] = r]
  BY DEF ReadItem
<1>3. /\ merger[w] \in MergerRow /\ HasMerge(w) /\ Knows(w)
      /\ incidents \in Nat /\ incidents <= MaxIncidents
  BY DEF MergeShape, MergeTypes
<1>4. /\ merger[w].merge \in Merges /\ merge[merger[w].merge].st # "none"
      /\ ~merger[w].direct => JobQueued(merger[w].merge)
  BY <1>1, <1>3 DEF HasMerge, Merging, InStep
<1>5. row \in ItemRow
  BY <1>4, MergeAssumption DEF Dead, Canon, MergeShape, MergeTypes
<1>6. /\ r \in MergerRow /\ r.pc = (IF canon THEN "writeCanon" ELSE "writeDead")
      /\ r.copy = {row} /\ r.merge = merger[w].merge /\ r.direct = merger[w].direct
  BY <1>3, <1>5 DEF MergerRow, MergerPcs
<1>7. row = (IF canon THEN item[Canon(w)] ELSE item[Dead(w)])
  OBVIOUS
<1> HIDE DEF r, row, canon
<1>8. ASSUME merger'[w] = r PROVE HasMerge(w)' /\ Knows(w)'
  <2>1. HasMerge(w)'
    BY <1>1, <1>4, <1>6, <1>8 DEF HasMerge, JobQueued
  <2>2. Basis(w)' = Basis(w) /\ Duplicate(w)' = Duplicate(w)
        /\ Proposal(merger[w].merge)' = Proposal(merger[w].merge)
        /\ item' = item /\ Dead(w)' = Dead(w) /\ Canon(w)' = Canon(w)
    BY <1>1, <1>6, <1>8 DEF Basis, Duplicate, Proposal, Dead, Canon
  <2>3. Knows(w)'
    BY <1>1, <1>3, <1>6, <1>7, <1>8, <2>2 DEF Knows, Merging, InStep
  <2> QED
    BY <2>1, <2>3
<1> QED
  BY <1>1, <1>2, <1>3, <1>6, <1>8, OwnStep

(* A statement of the process fails, or the process dies.                  *)
LEMMA InterruptDoes ==
  ASSUME MergeShape, NEW w \in Mergers, Interrupt(w)
  PROVE  MergeShape' /\ Kept /\ RowsKept /\ SkipsRightly
<1>1. /\ Merging(w) /\ UNCHANGED <<item, merge, curation, outdated, raced, unsure>>
      /\ incidents' \in Nat /\ incidents' <= MaxIncidents
  BY MergeAssumption DEF Interrupt, Incident, Merging, doubts, MergeShape, MergeTypes
<1>2. merger[w] \in MergerRow /\ HasMerge(w)
  BY DEF MergeShape, MergeTypes
<1>3. PICK r \in MergerRow :
        /\ merger' = [merger EXCEPT ![w] = r]
        /\ \/ r.pc = "fail" /\ r.merge = merger[w].merge /\ r.direct = merger[w].direct
           \/ r.pc = "idle"
  <2>1. CASE Goes(w, "fail")
    <3> DEFINE x == [merger[w] EXCEPT !.pc = "fail"]
    <3>1. x \in MergerRow /\ x.pc = "fail" /\ x.merge = merger[w].merge /\ x.direct = merger[w].direct
      BY <1>2 DEF MergerRow, MergerPcs
    <3>2. merger' = [merger EXCEPT ![w] = x]
      BY <2>1 DEF Goes
    <3> HIDE DEF x
    <3> QED
      BY <3>1, <3>2
  <2>2. CASE merger' = [merger EXCEPT ![w] = NoMerger]
    <3>1. NoMerger \in MergerRow /\ NoMerger.pc = "idle"
      BY DEF NoMerger, MergerRow, MergerPcs
    <3> QED
      BY <2>2, <3>1
  <2> QED
    BY <2>1, <2>2 DEF Interrupt
<1>4. ASSUME merger'[w] = r PROVE HasMerge(w)' /\ Knows(w)'
  BY <1>1, <1>2, <1>3, <1>4 DEF HasMerge, Knows, Merging, InStep, JobQueued
<1> QED
  BY <1>1, <1>3, <1>4, OwnStep

(* The outcome reaches the curation job.                                   *)
LEMMA TellCurationDoes ==
  ASSUME MergeShape, NEW w \in Mergers, TellCuration(w)
  PROVE  MergeShape' /\ Kept /\ RowsKept /\ SkipsRightly
<1> DEFINE m == merger[w].merge
<1>1. /\ merger[w].pc \in {"completed", "skipped", "failed"}
      /\ merger' = [merger EXCEPT ![w] = NoMerger]
      /\ curation' = [curation EXCEPT ![m] = merger[w].pc]
      /\ UNCHANGED <<item, merge, incidents, outdated, raced, unsure>>
  BY DEF TellCuration, doubts
<1>2. m \in Autonomous /\ ~merger[w].direct
  BY <1>1 DEF MergeShape, HasMerge, Merging, InStep
<1>3. NoMerger \in MergerRow /\ NoMerger.pc = "idle"
  BY DEF NoMerger, MergerRow, MergerPcs
<1>4. /\ curation' \in [Autonomous -> {"open", "completed", "skipped", "failed"}]
      /\ \A x \in Autonomous : curation'[x] = "skipped" => Skipped(x)
  BY <1>1, <1>2 DEF MergeShape, MergeTypes, Skipped, SkipsFor
<1>5. SameTexts /\ merge' \in [Merges -> MergeRow] /\ incidents' \in Nat /\ incidents' <= MaxIncidents
  BY <1>1 DEF SameTexts, JobQueued, MergeShape, MergeTypes
<1>6. ASSUME merger'[w] = NoMerger PROVE HasMerge(w)' /\ Knows(w)'
  BY <1>3, <1>6 DEF HasMerge, Knows, Merging, InStep
<1>7. /\ MergeShape' /\ Kept /\ RowsKept /\ merger'[w] = NoMerger
      /\ \A v \in Mergers \ {w} : merger'[v] = merger[v]
  BY <1>1, <1>3, <1>4, <1>5, <1>6, QuietMerger
<1>8. \A x \in Autonomous : ~SkipsFor(x, w)'
  BY <1>3, <1>7 DEF SkipsFor
<1>9. \A x \in Autonomous : merge'[x].st = "skipped" => Skipped(x)
  BY <1>1 DEF Skipped
<1>10. SkipsRightly
  BY <1>1, <1>4, <1>7, <1>8, <1>9, NoNewSkip
<1> QED
  BY <1>7, <1>10

(* A job is settled, a request of the API ends.                            *)
LEMMA SettleMergeDoes ==
  ASSUME MergeShape, NEW w \in Mergers, SettleMerge(w)
  PROVE  MergeShape' /\ Kept /\ RowsKept /\ SkipsRightly
<1> DEFINE m  == merger[w].merge
           st == [settle |-> "completed", skip |-> "skipped", fail |-> "failed"][merger[w].pc]
<1>1. /\ merger[w].pc \in {"settle", "skip", "fail"} /\ UnsureIf(w, w \in raced)
      /\ UNCHANGED <<item, curation, incidents, outdated, raced>>
      /\ merger[w].direct => merge' = merge /\ merger' = [merger EXCEPT ![w] = NoMerger]
      /\ ~merger[w].direct =>
           /\ merge' = [merge EXCEPT ![m].st = st]
           /\ IF m \in Autonomous THEN Goes(w, st) ELSE merger' = [merger EXCEPT ![w] = NoMerger]
  BY DEF SettleMerge
<1>2. st \in {"completed", "skipped", "failed"} /\ (st = "skipped" => merger[w].pc = "skip")
  BY <1>1
<1> HIDE DEF st
<1>3. /\ merger[w] \in MergerRow /\ m \in Merges /\ merge[m] \in MergeRow /\ merge[m].st # "none"
      /\ merge \in [Merges -> MergeRow]
      /\ ~merger[w].direct => JobQueued(m)
  BY <1>1 DEF MergeShape, MergeTypes, HasMerge, Merging, InStep
<1>4. unsure \subseteq unsure' /\ (w \in raced => DeadOf[m] \in unsure')
  <2>1. Dead(w) = DeadOf[m] /\ DeadOf[m] \in SaidBy(DeadOf[m])
    BY <1>3, MergeAssumption DEF Dead, SaidBy
  <2> QED
    BY <1>1, <2>1 DEF UnsureIf
<1>5. PICK r \in MergerRow :
        /\ merger' = [merger EXCEPT ![w] = r]
        /\ \/ /\ ~merger[w].direct /\ m \in Autonomous
              /\ r.pc = st /\ r.merge = m /\ r.direct = FALSE
           \/ r.pc = "idle"
  <2>1. CASE ~merger[w].direct /\ m \in Autonomous
    <3> DEFINE x == [merger[w] EXCEPT !.pc = st]
    <3>1. x \in MergerRow /\ x.pc = st /\ x.merge = m /\ x.direct = FALSE
      BY <1>2, <1>3, <2>1 DEF MergerRow, MergerPcs
    <3>2. merger' = [merger EXCEPT ![w] = x]
      BY <1>1, <2>1 DEF Goes
    <3> HIDE DEF x
    <3> QED
      BY <2>1, <3>1, <3>2
  <2>2. CASE ~(~merger[w].direct /\ m \in Autonomous)
    <3>1. NoMerger \in MergerRow /\ NoMerger.pc = "idle"
      BY DEF NoMerger, MergerRow, MergerPcs
    <3> QED
      BY <1>1, <2>2, <3>1
  <2> QED
    BY <2>1, <2>2
<1>6. /\ merge' \in [Merges -> MergeRow] /\ SameTexts
      /\ \A x \in Merges : merge'[x].st = "skipped" =>
           merge[x].st = "skipped" \/ (x = m /\ ~merger[w].direct /\ merger[w].pc = "skip")
  <2>1. CASE merger[w].direct
    BY <1>1, <1>3, <2>1 DEF SameTexts, JobQueued
  <2>2. CASE ~merger[w].direct
    <3> DEFINE x == [merge[m] EXCEPT !.st = st]
    <3>1. merge' = [merge EXCEPT ![m] = x]
      BY <1>1, <2>2
    <3>2. x \in MergeRow /\ x.st = st /\ x.snap = merge[m].snap /\ x.seen = merge[m].seen
      BY <1>2, <1>3 DEF MergeRow
    <3> HIDE DEF x
    <3>3. /\ merge' \in [Merges -> MergeRow] /\ merge'[m] = x
          /\ \A y \in Merges \ {m} : merge'[y] = merge[y]
      BY <1>3, <3>1, <3>2
    <3> QED
      BY <1>2, <1>3, <2>2, <3>2, <3>3 DEF SameTexts, JobQueued
  <2> QED
    BY <2>1, <2>2
<1>7. ASSUME merger'[w] = r PROVE HasMerge(w)' /\ Knows(w)'
  <2>1. HasMerge(w)'
    BY <1>2, <1>3, <1>5, <1>6, <1>7 DEF HasMerge, Merging, InStep, SameTexts, JobQueued
  <2>2. Knows(w)'
    BY <1>2, <1>5, <1>7 DEF Knows, Merging, InStep
  <2> QED
    BY <2>1, <2>2
<1>8. /\ curation' \in [Autonomous -> {"open", "completed", "skipped", "failed"}]
      /\ incidents' \in Nat /\ incidents' <= MaxIncidents
  BY <1>1 DEF MergeShape, MergeTypes
<1>9. /\ MergeShape' /\ Kept /\ RowsKept /\ merger'[w] = r
      /\ \A v \in Mergers \ {w} : merger'[v] = merger[v]
  BY <1>1, <1>4, <1>5, <1>6, <1>7, <1>8, QuietMerger
<1>10. ASSUME NEW x \in Autonomous,
              merge'[x].st = "skipped" \/ curation'[x] = "skipped" \/ SkipsFor(x, w)'
       PROVE  Skipped(x) \/ (JobQueued(x) /\ (DeadOf[x] \in unsure' \/ Hopeless(x)))
  <2>1. CASE merge[x].st = "skipped" \/ curation'[x] = "skipped"
    BY <1>1, <2>1 DEF Skipped
  <2>2. CASE x = m /\ ~merger[w].direct /\ merger[w].pc = "skip"
    <3>1. w \notin raced => SkipsFor(x, w)
      BY <2>2 DEF SkipsFor
    <3> QED
      BY <1>3, <1>4, <2>2, <3>1 DEF Skipped
  <2>3. SkipsFor(x, w)' => x = m /\ ~merger[w].direct /\ merger[w].pc = "skip"
    BY <1>2, <1>5, <1>9 DEF SkipsFor
  <2>4. x \in Merges
    BY MergeAssumption
  <2> QED
    BY <1>6, <1>10, <2>1, <2>2, <2>3, <2>4
<1>11. SkipsRightly
  BY <1>1, <1>9, <1>10, NoNewSkip
<1> QED
  BY <1>9, <1>11

-----------------------------------------------------------------------------
(* The steps that write an item. *)

(* A write of an item leaves what the other processes know, or races them. *)
LEMMA OthersKnow ==
  ASSUME MergeShape, RowsKept, NEW u, NEW i \in Items, Disturbs(u, i),
         \A j \in Items \ {i} : item'[j] = item[j],
         \A v \in Mergers \ {u} : merger'[v] = merger[v]
  PROVE  \A v \in Mergers \ {u} : HasMerge(v)' /\ Knows(v)' /\ (v \notin raced' => v \notin raced)
<1> SUFFICES ASSUME NEW v \in Mergers \ {u}
             PROVE  HasMerge(v)' /\ Knows(v)' /\ (v \notin raced' => v \notin raced)
  OBVIOUS
<1>1. v \notin raced' => v \notin raced
  BY DEF Disturbs
<1>2. ASSUME Merging(v), v \notin raced' PROVE \A j \in Pair(merger[v].merge) : item'[j] = item[j]
  <2>1. merger[v].merge \in Merges
    BY <1>2 DEF MergeShape, HasMerge
  <2>2. Pair(merger[v].merge) \subseteq Items
    BY <2>1, MergeAssumption DEF Pair
  <2>3. i \notin Pair(merger[v].merge)
    BY <1>2 DEF Disturbs, Merging
  <2> QED
    BY <2>2, <2>3
<1> QED
  BY <1>1, <1>2, KnowsStays

(* A process that writes an item.                                          *)
LEMMA WriteStep ==
  ASSUME MergeShape, NEW w \in Mergers, NEW i \in Items, NEW x \in ItemRow,
         item' = [item EXCEPT ![i] = x], Disturbs(w, i),
         NEW r \in MergerRow, merger' = [merger EXCEPT ![w] = r], r.pc \notin {"skip", "skipped"},
         UNCHANGED <<merge, curation, incidents, outdated>>,
         merger'[w] = r /\ item'[i] = x /\ (\A j \in Items \ {i} : item'[j] = item[j]) =>
           HasMerge(w)' /\ Knows(w)'
  PROVE  MergeShape' /\ RowsKept /\ SkipsRightly
<1>1. /\ merger' \in [Mergers -> MergerRow] /\ merger'[w] = r
      /\ \A v \in Mergers \ {w} : merger'[v] = merger[v]
  BY MergerTurns DEF MergeShape
<1>2. item' \in [Items -> ItemRow] /\ item'[i] = x /\ \A j \in Items \ {i} : item'[j] = item[j]
  BY DEF MergeShape, MergeTypes
<1>3. SameTexts
  BY DEF SameTexts, JobQueued
<1>4. RowsKept /\ UpToDate'
  BY <1>3, TextsStay DEF MergeShape
<1>5. \A v \in Mergers \ {w} : HasMerge(v)' /\ Knows(v)' /\ (v \notin raced' => v \notin raced)
  BY <1>1, <1>2, <1>4, OthersKnow
<1>6. MergeTypes'
  BY <1>1, <1>2 DEF MergeShape, MergeTypes
<1>7. MergeShape'
  BY <1>1, <1>2, <1>4, <1>5, <1>6 DEF MergeShape
<1>8. \A m \in Autonomous : ~SkipsFor(m, w)'
  BY <1>1 DEF SkipsFor
<1>9. SkipsRightly
  BY <1>1, <1>5, <1>8, NoNewSkip DEF Skipped
<1> QED
  BY <1>4, <1>7, <1>9

(* A write may do anything to an item if what the item said is in doubt.   *)
LEMMA DoubtfulWrite ==
  ASSUME NEW i \in Items, \A j \in Items \ {i} : item'[j] = item[j],
         unsure \subseteq unsure', SaidBy(i) \subseteq unsure'
  PROVE  Kept
<1>1. i \in SaidBy(i)
  BY DEF SaidBy
<1>2. ASSUME NEW j \in Items \ unsure', NEW k \in Items, item[j].says \subseteq item[k].says
      PROVE  j # i /\ k # i
  BY <1>1, <1>2 DEF SaidBy
<1> QED
  BY <1>1, <1>2 DEF Kept

(* A user adds a statement or changes the status of an item.               *)
LEMMA UserEditDoes ==
  ASSUME MergeShape, NEW i \in Items, UserEdit(i)
  PROVE  MergeShape' /\ Kept /\ RowsKept /\ SkipsRightly
<1>1. /\ incidents' \in 1..MaxIncidents /\ Disturbs(NoMerge, i)
      /\ UNCHANGED <<merge, curation, merger, outdated>>
  BY MergeAssumption DEF UserEdit, Incident, MergeShape, MergeTypes
<1>2. item[i] \in ItemRow /\ item \in [Items -> ItemRow]
  BY DEF MergeShape, MergeTypes
<1>3. PICK x \in ItemRow :
        /\ item' = [item EXCEPT ![i] = x]
        /\ \/ /\ x.says = item[i].says \cup {incidents'} /\ x.active = item[i].active
              /\ x.by = item[i].by
              /\ unsure' = IF item[i].active THEN unsure ELSE unsure \cup {i}
           \/ unsure' = unsure \cup SaidBy(i)
  <2>1. CASE /\ item' = [item EXCEPT ![i].says = @ \cup {incidents'}]
             /\ unsure' = IF item[i].active THEN unsure ELSE unsure \cup {i}
    <3> DEFINE x == [item[i] EXCEPT !.says = item[i].says \cup {incidents'}]
    <3>1. incidents' \in Statements
      BY <1>1 DEF Statements
    <3>2. /\ x \in ItemRow /\ x.says = item[i].says \cup {incidents'}
          /\ x.active = item[i].active /\ x.by = item[i].by
      BY <1>2, <3>1 DEF ItemRow
    <3>3. item' = [item EXCEPT ![i] = x]
      BY <2>1
    <3> HIDE DEF x
    <3> QED
      BY <2>1, <3>2, <3>3
  <2>2. CASE item' = [item EXCEPT ![i].active = ~@] /\ unsure' = unsure \cup SaidBy(i)
    <3> DEFINE x == [item[i] EXCEPT !.active = ~item[i].active]
    <3>1. x \in ItemRow
      BY <1>2 DEF ItemRow
    <3>2. item' = [item EXCEPT ![i] = x]
      BY <2>2
    <3> HIDE DEF x
    <3> QED
      BY <2>2, <3>1, <3>2
  <2> QED
    BY <2>1, <2>2 DEF UserEdit
<1>4. item' \in [Items -> ItemRow] /\ item'[i] = x /\ \A j \in Items \ {i} : item'[j] = item[j]
  BY <1>2, <1>3
<1>5. unsure \subseteq unsure'
  BY <1>3
<1>6. Kept
  <2>1. CASE unsure' = unsure \cup SaidBy(i)
    BY <1>4, <2>1, DoubtfulWrite
  <2>2. CASE /\ x.says = item[i].says \cup {incidents'} /\ x.active = item[i].active
             /\ x.by = item[i].by
             /\ unsure' = IF item[i].active THEN unsure ELSE unsure \cup {i}
    BY <1>4, <1>5, <2>2 DEF Kept
  <2> QED
    BY <1>3, <2>1, <2>2
<1>7. SameTexts
  BY <1>1 DEF SameTexts, JobQueued
<1>8. RowsKept /\ UpToDate'
  BY <1>1, <1>7, TextsStay DEF MergeShape
<1>9. \A v \in Mergers : HasMerge(v)' /\ Knows(v)' /\ (v \notin raced' => v \notin raced)
  BY <1>1, <1>4, <1>8, OthersKnow, MergeAssumption
<1>10. MergeTypes'
  BY <1>1, <1>4 DEF MergeShape, MergeTypes
<1>11. SkipsRightly
  BY <1>1, <1>9 DEF SkipsRightly, Skipped, SkipsFor
<1> QED
  BY <1>6, <1>8, <1>9, <1>10, <1>11 DEF MergeShape

\* The write of a process rests on what nobody has changed.
Sure(w) == w \notin raced /\ (merger[w].direct \/ merger[w].merge \notin outdated)

(* A sure write rests on the texts of the review.                          *)
LEMMA SureIsReviewed ==
  ASSUME MergeShape, NEW w \in Mergers, Merging(w), Sure(w)
  PROVE  Basis(w) = merge[merger[w].merge].seen
BY DEF MergeShape, HasMerge, UpToDate, Basis, Sure

(* Any other write puts what the two items said in doubt.                  *)
LEMMA UnsureWrite ==
  ASSUME NEW w, RacedWrite(w)
  PROVE  /\ unsure \subseteq unsure'
         /\ ~Sure(w) => SaidBy(Dead(w)) \subseteq unsure' /\ SaidBy(Canon(w)) \subseteq unsure'
BY DEF RacedWrite, UnsureIf, Sure

(* The canonical item gets the proposed text.                              *)
LEMMA WriteCanonDoes ==
  ASSUME MergeShape, NEW w \in Mergers, WriteCanon(w)
  PROVE  MergeShape' /\ Kept /\ RowsKept /\ SkipsRightly
<1> DEFINE m == merger[w].merge
           r == [merger[w] EXCEPT !.pc = "readDead", !.copy = {}]
<1>1. /\ merger[w].pc = "writeCanon" /\ merger' = [merger EXCEPT ![w] = r]
      /\ Disturbs(w, Canon(w)) /\ RacedWrite(w)
      /\ UNCHANGED <<merge, curation, incidents, outdated>>
  BY DEF WriteCanon, InStep
<1>2. PICK row \in merger[w].copy :
        item' = [item EXCEPT ![Canon(w)] = [row EXCEPT !.says = Proposal(m)]]
  BY DEF WriteCanon
<1>3. /\ merger[w] \in MergerRow /\ Merging(w) /\ HasMerge(w) /\ Knows(w)
      /\ item \in [Items -> ItemRow] /\ merge \in [Merges -> MergeRow]
  BY <1>1 DEF Merging, InStep, MergeShape, MergeTypes
<1>4. /\ m \in Merges /\ merge[m].st # "none"
      /\ ~merger[w].direct => JobQueued(m)
  BY <1>3 DEF HasMerge
<1>5. /\ Dead(w) \in Items /\ Canon(w) \in Items /\ Dead(w) # Canon(w)
      /\ Dead(w) = DeadOf[m] /\ Canon(w) = CanonOf[m]
  BY <1>4, MergeAssumption DEF Dead, Canon
<1>6. Proposal(m) \subseteq Statements /\ row \in ItemRow
  BY <1>2, <1>3, <1>4 DEF Proposal, MergeRow, TextPair, MergerRow
<1>7. PICK x \in ItemRow : /\ item' = [item EXCEPT ![Canon(w)] = x] /\ x.says = Proposal(m)
                           /\ x.active = row.active /\ x.by = row.by
  <2> DEFINE x == [row EXCEPT !.says = Proposal(m)]
  <2>1. x \in ItemRow /\ x.says = Proposal(m) /\ x.active = row.active /\ x.by = row.by
    BY <1>6 DEF ItemRow
  <2>2. item' = [item EXCEPT ![Canon(w)] = x]
    BY <1>2
  <2> HIDE DEF x
  <2> QED
    BY <2>1, <2>2
<1>8. item'[Canon(w)] = x /\ \A j \in Items \ {Canon(w)} : item'[j] = item[j]
  BY <1>3, <1>5, <1>7
<1>9. w \notin raced =>
        /\ row = item[Canon(w)] /\ item[Canon(w)].active /\ item[Dead(w)].active /\ ~Duplicate(w)
        /\ item[Dead(w)].says = Basis(w).dead /\ item[Canon(w)].says = Basis(w).canon
  BY <1>1, <1>2, <1>3 DEF Knows
<1>10. /\ r \in MergerRow /\ r.pc = "readDead" /\ r.merge = m /\ r.direct = merger[w].direct
  BY <1>3 DEF MergerRow, MergerPcs
<1> HIDE DEF r
<1>11. ASSUME merger'[w] = r PROVE HasMerge(w)' /\ Knows(w)'
  <2>1. HasMerge(w)'
    BY <1>1, <1>4, <1>10, <1>11 DEF HasMerge, JobQueued
  <2>2. w \notin raced' => w \notin raced
    BY <1>1 DEF Disturbs
  <2>3. /\ Basis(w)' = Basis(w) /\ Duplicate(w)' = Duplicate(w)
        /\ Proposal(m)' = Proposal(m) /\ merger'[w].merge = m
        /\ Dead(w)' = Dead(w) /\ Canon(w)' = Canon(w)
    BY <1>1, <1>10, <1>11 DEF Basis, Duplicate, Proposal, Dead, Canon
  <2>4. Knows(w)'
    BY <1>5, <1>7, <1>8, <1>9, <1>10, <1>11, <2>2, <2>3 DEF Knows
  <2> QED
    BY <2>1, <2>4
<1>12. MergeShape' /\ RowsKept /\ SkipsRightly
  BY <1>1, <1>5, <1>7, <1>10, <1>11, WriteStep
<1>13. unsure \subseteq unsure'
       /\ (~Sure(w) => SaidBy(Dead(w)) \subseteq unsure' /\ SaidBy(Canon(w)) \subseteq unsure')
  BY <1>1, UnsureWrite
<1>14. Kept
  <2>1. CASE ~Sure(w)
    BY <1>5, <1>8, <1>13, <2>1, DoubtfulWrite
  <2>2. CASE Sure(w)
    <3>1. Basis(w) = merge[m].seen
      BY <1>3, <2>2, SureIsReviewed
    <3>2. /\ item[Canon(w)].says \subseteq x.says
          /\ item[Canon(w)].active /\ x.active = item[Canon(w)].active
          /\ x.by = item[Canon(w)].by
      BY <1>7, <1>9, <2>2, <3>1 DEF Sure, Proposal
    <3> QED
      BY <1>5, <1>8, <1>13, <3>2 DEF Kept
  <2> QED
    BY <2>1, <2>2
<1> QED
  BY <1>12, <1>14

(* The dead item is deprecated.                                            *)
LEMMA WriteDeadDoes ==
  ASSUME MergeShape, NEW w \in Mergers, WriteDead(w)
  PROVE  MergeShape' /\ Kept /\ RowsKept /\ SkipsRightly
<1> DEFINE m  == merger[w].merge
           by(row) == IF merger[w].direct THEN row.by ELSE m
<1>1. /\ merger[w].pc = "writeDead"
      /\ Disturbs(w, Dead(w)) /\ RacedWrite(w)
      /\ UNCHANGED <<merge, curation, incidents, outdated>>
  BY DEF WriteDead, InStep
<1>2. PICK row \in merger[w].copy :
        item' = [item EXCEPT ![Dead(w)] = [row EXCEPT !.active = FALSE, !.by = by(row)]]
  BY DEF WriteDead
<1>3. /\ merger[w] \in MergerRow /\ Merging(w) /\ HasMerge(w) /\ Knows(w)
      /\ item \in [Items -> ItemRow] /\ merge \in [Merges -> MergeRow]
  BY <1>1 DEF Merging, InStep, MergeShape, MergeTypes
<1>4. /\ m \in Merges /\ merge[m].st # "none"
      /\ ~merger[w].direct => JobQueued(m)
  BY <1>3 DEF HasMerge
<1>5. /\ Dead(w) \in Items /\ Canon(w) \in Items /\ Dead(w) # Canon(w)
      /\ Dead(w) = DeadOf[m] /\ Canon(w) = CanonOf[m]
  BY <1>4, MergeAssumption DEF Dead, Canon
<1>6. PICK x \in ItemRow : /\ item' = [item EXCEPT ![Dead(w)] = x]
                           /\ x.says = row.says /\ x.active = FALSE /\ x.by = by(row)
  <2> DEFINE x == [row EXCEPT !.active = FALSE, !.by = by(row)]
  <2>1. row \in ItemRow /\ by(row) \in Merges \cup {NoMerge}
    BY <1>2, <1>3, <1>4 DEF MergerRow, ItemRow
  <2>2. x \in ItemRow /\ x.says = row.says /\ x.active = FALSE /\ x.by = by(row)
    BY <2>1 DEF ItemRow
  <2>3. item' = [item EXCEPT ![Dead(w)] = x]
    BY <1>2
  <2> HIDE DEF x
  <2> QED
    BY <2>2, <2>3
<1>7. item'[Dead(w)] = x /\ \A j \in Items \ {Dead(w)} : item'[j] = item[j]
  BY <1>3, <1>5, <1>6
<1>8. w \notin raced =>
        /\ row = item[Dead(w)] /\ item[Canon(w)].active /\ item[Dead(w)].active
        /\ item[Dead(w)].says = Basis(w).dead /\ item[Canon(w)].says = Proposal(m)
        /\ Duplicate(w) => /\ item[Canon(w)].says = Basis(w).canon
                           /\ item[Dead(w)].says = item[Canon(w)].says
  BY <1>1, <1>2, <1>3 DEF Knows
<1>9. PICK r \in MergerRow :
        /\ merger' = [merger EXCEPT ![w] = r]
        /\ \/ r.pc = "settle" /\ ~merger[w].direct /\ r.direct = FALSE /\ r.merge = m
           \/ r.pc = "idle"
  <2>1. CASE merger[w].direct
    <3>1. NoMerger \in MergerRow /\ NoMerger.pc = "idle"
      BY DEF NoMerger, MergerRow, MergerPcs
    <3>2. merger' = [merger EXCEPT ![w] = NoMerger]
      BY <2>1 DEF WriteDead
    <3> QED
      BY <3>1, <3>2
  <2>2. CASE ~merger[w].direct
    <3> DEFINE y == [merger[w] EXCEPT !.pc = "settle", !.copy = {}]
    <3>1. y \in MergerRow /\ y.pc = "settle" /\ y.direct = FALSE /\ y.merge = m
      BY <1>3, <2>2 DEF MergerRow, MergerPcs
    <3>2. merger' = [merger EXCEPT ![w] = y]
      BY <2>2 DEF WriteDead
    <3> HIDE DEF y
    <3> QED
      BY <2>2, <3>1, <3>2
  <2> QED
    BY <2>1, <2>2
<1>10. ASSUME merger'[w] = r PROVE HasMerge(w)' /\ Knows(w)'
  <2>1. HasMerge(w)'
    BY <1>1, <1>4, <1>9, <1>10 DEF HasMerge, Merging, InStep, JobQueued
  <2>2. Knows(w)'
    BY <1>9, <1>10 DEF Knows, Merging, InStep
  <2> QED
    BY <2>1, <2>2
<1>11. MergeShape' /\ RowsKept /\ SkipsRightly
  <2>1. r.pc \notin {"skip", "skipped"}
    BY <1>9
  <2> QED
    BY <1>1, <1>5, <1>6, <1>9, <1>10, <2>1, WriteStep
<1>12. unsure \subseteq unsure'
       /\ (~Sure(w) => SaidBy(Dead(w)) \subseteq unsure' /\ SaidBy(Canon(w)) \subseteq unsure')
  BY <1>1, UnsureWrite
<1>13. Kept
  <2>1. CASE ~Sure(w)
    BY <1>5, <1>7, <1>12, <2>1, DoubtfulWrite
  <2>2. CASE Sure(w)
    <3>1. Basis(w) = merge[m].seen
      BY <1>3, <2>2, SureIsReviewed
    <3>2. /\ item[Dead(w)].active /\ x.says = item[Dead(w)].says
          /\ item[Canon(w)].active /\ item'[Canon(w)] = item[Canon(w)]
          /\ item[Dead(w)].says \subseteq item[Canon(w)].says
          /\ item'[Dead(w)].by = IF merger[w].direct THEN item[Dead(w)].by ELSE m
      BY <1>5, <1>6, <1>7, <1>8, <2>2, <3>1 DEF Sure, Proposal
    <3>3. Duplicate(w) => Appliable(m)
      <4> SUFFICES ASSUME Duplicate(w) PROVE Appliable(m)
        OBVIOUS
      <4>1. ~merger[w].direct /\ JobQueued(m) /\ Basis(w) = merge[m].snap
        BY <1>4 DEF Duplicate, Basis
      <4>2. /\ item[Dead(w)].says = merge[m].snap.dead /\ item[Canon(w)].says = merge[m].snap.canon
            /\ item[Dead(w)].says = item[Canon(w)].says /\ item[Canon(w)].says = Proposal(m)
        BY <1>8, <2>2, <4>1 DEF Sure
      <4> QED
        BY <1>5, <3>2, <4>1, <4>2 DEF Appliable, Twins
    <3>4. Deprecates(Dead(w))
      BY <1>4, <1>6, <1>7, <3>2, <3>3 DEF Deprecates
    <3>5. ASSUME NEW j \in Items, NEW k \in Items, item[j].says \subseteq item[k].says
          PROVE  /\ item[j].says \subseteq item'[k].says
                 /\ item'[k].active => item[k].active
                 /\ item[k].active => item'[k].active \/ Deprecates(k)
      <4>1. CASE k = Dead(w)
        BY <1>6, <1>7, <3>2, <3>4, <3>5, <4>1
      <4>2. CASE k # Dead(w)
        BY <1>7, <3>5, <4>2
      <4> QED
        BY <4>1, <4>2
    <3>6. \A j \in Items : /\ ~item[j].active => item'[j] = item[j]
                           /\ item'[j].active => item'[j].by = item[j].by
      BY <1>6, <1>7, <3>2
    <3> QED
      BY <1>12, <3>5, <3>6 DEF Kept
  <2> QED
    BY <2>1, <2>2
<1> QED
  BY <1>11, <1>13

-----------------------------------------------------------------------------
(* Every step, and what follows for the items and for the reports. *)

(* At first no item is touched and no process has a merge.                 *)
LEMMA MergeShapeInit ==
  MergeInit => MergeShape
<1> SUFFICES ASSUME MergeInit PROVE MergeShape
  OBVIOUS
<1>1. \A i \in Items : Says[i] \subseteq Statements
  <2> SUFFICES ASSUME NEW i \in Items PROVE Says[i] \subseteq Statements
    OBVIOUS
  <2>1. Says[i] \subseteq SaidAtFirst
    BY Zenon DEF SaidAtFirst
  <2> QED
    BY <2>1 DEF Statements
<1>2. \A i \in Items : [says |-> Says[i], active |-> TRUE, by |-> NoMerge] \in ItemRow
  BY <1>1 DEF ItemRow
<1>3. item \in [Items -> ItemRow]
  BY <1>2 DEF MergeInit
<1>4. [st |-> "none", seen |-> [dead |-> {}, canon |-> {}],
       snap |-> [dead |-> {}, canon |-> {}]] \in MergeRow
  BY DEF MergeRow, TextPair
<1>5. merge \in [Merges -> MergeRow] /\ \A m \in Merges : merge[m].st = "none"
  BY <1>4 DEF MergeInit
<1>6. NoMerger \in MergerRow /\ NoMerger.pc = "idle"
  BY DEF NoMerger, MergerRow, MergerPcs
<1>7. merger \in [Mergers -> MergerRow] /\ \A w \in Mergers : merger[w].pc = "idle"
  BY <1>6 DEF MergeInit
<1>8. MergeTypes
  BY <1>3, <1>5, <1>7, MergeAssumption DEF MergeInit, MergeTypes
<1>9. UpToDate /\ \A w \in Mergers : HasMerge(w) /\ Knows(w)
  BY <1>5, <1>7 DEF UpToDate, JobQueued, HasMerge, Knows, Merging, InStep
<1> QED
  BY <1>8, <1>9 DEF MergeShape

(* Whatever happens, processes know their items or are raced.              *)
LEMMA MergeShapeStep ==
  ASSUME MergeShape, [MergeNext]_mergeVars
  PROVE  MergeShape' /\ Kept /\ RowsKept /\ SkipsRightly
<1>1. CASE UNCHANGED mergeVars
  <2>1. UNCHANGED <<item, merge, curation, merger, incidents, outdated, raced, unsure>>
    BY <1>1 DEF mergeVars
  <2>2. SameTexts /\ SkipsRightly
    BY <2>1 DEF SameTexts, JobQueued, SkipsRightly, Skipped, SkipsFor
  <2>3. RowsKept /\ UpToDate'
    BY <2>1, <2>2, TextsStay DEF MergeShape
  <2>4. \A w \in Mergers : HasMerge(w)' /\ Knows(w)'
    BY <2>1, <2>3, KnowsStays
  <2>5. MergeTypes' /\ Kept
    BY <2>1, NothingWritten DEF MergeShape, MergeTypes
  <2> QED
    BY <2>2, <2>3, <2>4, <2>5 DEF MergeShape
<1>2. ASSUME NEW m \in Merges, Review(m) \/ CreateJob(m) \/ JobAgain(m)
      PROVE  MergeShape' /\ Kept /\ RowsKept /\ SkipsRightly
  BY <1>2, ReviewDoes, CreateJobDoes, JobAgainDoes
<1>3. ASSUME NEW m \in Merges, NEW w \in Mergers, StartJob(w, m) \/ StartDirect(w, m)
      PROVE  MergeShape' /\ Kept /\ RowsKept /\ SkipsRightly
  BY <1>3, StartDoes
<1>4. ASSUME NEW i \in Items, UserEdit(i)
      PROVE  MergeShape' /\ Kept /\ RowsKept /\ SkipsRightly
  BY <1>4, UserEditDoes
<1>5. ASSUME NEW w \in Mergers,
             LoadDead(w) \/ Check(w) \/ ReadItem(w) \/ WriteCanon(w) \/ WriteDead(w)
      PROVE  MergeShape' /\ Kept /\ RowsKept /\ SkipsRightly
  BY <1>5, LoadDeadDoes, CheckDoes, ReadItemDoes, WriteCanonDoes, WriteDeadDoes
<1>6. ASSUME NEW w \in Mergers, SettleMerge(w) \/ TellCuration(w) \/ Interrupt(w)
      PROVE  MergeShape' /\ Kept /\ RowsKept /\ SkipsRightly
  BY <1>6, SettleMergeDoes, TellCurationDoes, InterruptDoes
<1> QED
  BY <1>1, <1>2, <1>3, <1>4, <1>5, <1>6 DEF MergeNext

(* What was said by an active item is still said by one.                   *)
LEMMA NothingLost ==
  ASSUME NothingMergedAway, Kept
  PROVE  NothingMergedAway'
<1> SUFFICES ASSUME NEW i \in Items \ unsure'
             PROVE  \E k \in Items : item'[k].active /\ item'[i].says \subseteq item'[k].says
  BY DEF NothingMergedAway
<1>1. ASSUME NEW k \in Items, Deprecates(k), item[i].says \subseteq item[k].says,
             item'[i].says = item[i].says
      PROVE  \E c \in Items : item'[c].active /\ item'[i].says \subseteq item'[c].says
  <2>1. PICK w \in Mergers :
          /\ merger[w].merge \in Merges /\ item[Canon(w)].active /\ item'[Canon(w)] = item[Canon(w)]
          /\ item[k].says \subseteq item[Canon(w)].says
    BY <1>1 DEF Deprecates
  <2>2. Canon(w) \in Items
    BY <2>1, MergeAssumption DEF Canon
  <2> QED
    BY <1>1, <2>1, <2>2
<1>2. CASE item[i].active
  <2>1. item'[i].active \/ Deprecates(i)
    BY <1>2 DEF Kept
  <2>2. ASSUME Deprecates(i) PROVE item'[i].says = item[i].says
    BY <2>2 DEF Deprecates
  <2> QED
    BY <1>1, <2>1, <2>2
<1>3. CASE ~item[i].active
  <2>1. item'[i] = item[i] /\ i \notin unsure
    BY <1>3 DEF Kept
  <2>2. PICK k \in Items : item[k].active /\ item[i].says \subseteq item[k].says
    BY <2>1 DEF NothingMergedAway
  <2>3. item[k].says \subseteq item'[k].says /\ (item'[k].active \/ Deprecates(k))
    BY <2>2 DEF Kept
  <2> QED
    BY <1>1, <2>1, <2>2, <2>3
<1> QED
  BY <1>2, <1>3

(* What an item says that no user's change of status, no racing write and  *)
(* no outdated review has put in doubt is said by an active item, whatever *)
(* happens to the other items (applyDeadZoneMergeReviewJob,                *)
(* processMergeActivationFinalizeJob).  That an item is put in doubt is    *)
(* not excluded: the code does not exclude the races.                      *)
THEOREM NothingIsMergedAway == MergeSpec => []NothingMergedAway
<1> DEFINE Inv == MergeShape /\ NothingMergedAway
<1>1. MergeInit => Inv
  BY MergeShapeInit DEF MergeInit, NothingMergedAway
<1>2. Inv /\ [MergeNext]_mergeVars => Inv'
  BY MergeShapeStep, NothingLost
<1>3. Inv => NothingMergedAway
  OBVIOUS
<1> QED
  BY <1>1, <1>2, <1>3, PTL DEF MergeSpec

\* Nobody has written an item under a merge that works on it, and no job was
\* queued for a review whose items had changed.
Undisturbed == raced = {} /\ outdated = {}

\* A user edits active items only, and leaves their status alone.
EditsActive == \A i \in Items : UserEdit(i) => item[i].active /\ item'[i].active

AllSaid ==
  \A i \in Items : \E k \in Items : item[k].active /\ item[i].says \subseteq item[k].says

(* Without those three, nothing at all is lost: merges one after the other *)
(* that share items, chain, reverse each other, are interrupted between    *)
(* their writes and run again, by jobs and by the API, leave every         *)
(* statement in an active item.                                            *)
THEOREM UndisturbedMergesKeepAll ==
  MergeSpec /\ []Undisturbed /\ [][EditsActive]_mergeVars => []AllSaid
<1> DEFINE Certain == unsure = {}
<1>1. MergeInit => Certain
  BY DEF MergeInit
<1>2. MergeShape /\ Certain /\ Undisturbed /\ [MergeNext]_mergeVars /\ [EditsActive]_mergeVars
        => Certain'
  <2> SUFFICES ASSUME MergeShape, Undisturbed, MergeNext, EditsActive PROVE unsure' = unsure
    BY DEF mergeVars
  <2>1. ASSUME NEW m \in Merges, Review(m) \/ CreateJob(m) \/ JobAgain(m)
        PROVE  unsure' = unsure
    BY <2>1 DEF Review, CreateJob, JobAgain, doubts
  <2>2. ASSUME NEW m \in Merges, NEW w \in Mergers, StartJob(w, m) \/ StartDirect(w, m)
        PROVE  unsure' = unsure
    BY <2>2 DEF StartJob, StartDirect
  <2>3. ASSUME NEW i \in Items, UserEdit(i) PROVE unsure' = unsure
    <3>1. item[i].active /\ item'[i].active
      BY <2>3 DEF EditsActive
    <3>2. item \in [Items -> ItemRow]
      BY DEF MergeShape, MergeTypes
    <3>3. item' # [item EXCEPT ![i].active = ~@]
      BY <3>1, <3>2 DEF ItemRow
    <3> QED
      BY <2>3, <3>1, <3>3 DEF UserEdit
  <2>4. ASSUME NEW w \in Mergers,
               LoadDead(w) \/ Check(w) \/ ReadItem(w) \/ TellCuration(w) \/ Interrupt(w)
        PROVE  unsure' = unsure
    BY <2>4 DEF LoadDead, Check, ReadItem, TellCuration, Interrupt, doubts
  <2>5. ASSUME NEW w \in Mergers, WriteCanon(w) \/ WriteDead(w) PROVE unsure' = unsure
    <3>1. RacedWrite(w)
      BY <2>5 DEF WriteCanon, WriteDead
    <3> QED
      BY <3>1 DEF RacedWrite, UnsureIf, Undisturbed
  <2>6. ASSUME NEW w \in Mergers, SettleMerge(w) PROVE unsure' = unsure
    <3>1. UnsureIf(w, w \in raced)
      BY <2>6 DEF SettleMerge
    <3> QED
      BY <3>1 DEF UnsureIf, Undisturbed
  <2> QED
    BY <2>1, <2>2, <2>3, <2>4, <2>5, <2>6 DEF MergeNext
<1>3. MergeInit => MergeShape
  BY MergeShapeInit DEF MergeInit
<1>4. MergeShape /\ [MergeNext]_mergeVars => MergeShape'
  BY MergeShapeStep
<1>5. NothingMergedAway /\ Certain => AllSaid
  BY DEF NothingMergedAway, AllSaid
<1> HIDE DEF Certain
<1> QED
  BY <1>1, <1>2, <1>3, <1>4, <1>5, NothingIsMergedAway, PTL DEF MergeSpec

\* Since a job was queued for twins the dead item says no less, and as long as
\* it says no more the canonical item does not say less either.
Grown(m) ==
  JobQueued(m) /\ Twins(m) /\ DeadOf[m] \notin unsure =>
    /\ merge[m].snap.dead \subseteq item[DeadOf[m]].says
    /\ item[DeadOf[m]].says = merge[m].snap.dead =>
         merge[m].snap.dead \subseteq item[CanonOf[m]].says
AppliedTwins(m) ==
  Applied(m) /\ DeadOf[m] \notin unsure =>
    JobQueued(m) /\ Twins(m) /\ item[DeadOf[m]].says = merge[m].snap.dead
SkippedHopeless(m) == Skipped(m) => JobQueued(m) /\ Hopeless(m)
\* An active item that names a job has been reactivated by a user.
UnnamedIfActive == \A i \in Items \ unsure : item[i].active => item[i].by = NoMerge

SkipInv ==
  /\ UnnamedIfActive
  /\ \A m \in Autonomous : Grown(m) /\ AppliedTwins(m) /\ SkippedHopeless(m)

(* A job is new only when it is queued.                                    *)
LEMMA NewJob ==
  ASSUME MergeShape, MergeNext, NEW m \in Merges, ~JobQueued(m), JobQueued(m)'
  PROVE  merge'[m].snap = Texts(m) /\ UNCHANGED <<item, unsure>>
<1> USE DEF JobQueued
<1>1. merge \in [Merges -> MergeRow] /\ merge' # merge
  BY DEF MergeShape, MergeTypes
<1>2. ASSUME NEW x \in Merges, Review(x) PROVE FALSE
  BY <1>1, <1>2 DEF Review
<1>3. ASSUME NEW x \in Merges, CreateJob(x)
      PROVE  merge'[m].snap = Texts(m) /\ UNCHANGED <<item, unsure>>
  BY <1>3, CreateJobDoes
<1>4. ASSUME NEW x \in Merges, JobAgain(x) PROVE FALSE
  BY <1>1, <1>4 DEF JobAgain
<1>5. ASSUME NEW x \in Merges, NEW w \in Mergers, StartJob(w, x) PROVE FALSE
  BY <1>1, <1>5 DEF StartJob
<1>6. ASSUME NEW w \in Mergers, SettleMerge(w) PROVE FALSE
  <2>1. ~merger[w].direct /\ Merging(w)
    BY <1>1, <1>6 DEF SettleMerge, Merging, InStep
  <2>2. merger[w].merge \in Merges /\ JobQueued(merger[w].merge)
    BY <2>1 DEF MergeShape, HasMerge
  <2>3. \A x \in Merges \ {merger[w].merge} : merge'[x] = merge[x]
    BY <1>1, <1>6, <2>1, <2>2 DEF SettleMerge
  <2> QED
    BY <2>2, <2>3
<1>7. ASSUME NEW i \in Items, UserEdit(i) PROVE FALSE
  BY <1>1, <1>7 DEF UserEdit
<1>8. ASSUME NEW x \in Merges, NEW w \in Mergers, StartDirect(w, x) PROVE FALSE
  BY <1>1, <1>8 DEF StartDirect
<1>9. ASSUME NEW w \in Mergers, \/ LoadDead(w) \/ Check(w) \/ ReadItem(w)
                                \/ WriteCanon(w) \/ WriteDead(w) \/ TellCuration(w) \/ Interrupt(w)
      PROVE  FALSE
  BY <1>1, <1>9 DEF LoadDead, Check, ReadItem, WriteCanon, WriteDead, TellCuration, Interrupt
<1> QED
  BY <1>2, <1>3, <1>4, <1>5, <1>6, <1>7, <1>8, <1>9 DEF MergeNext

(* What the steps leave of the texts of a job.                             *)
LEMMA GrownStays ==
  ASSUME Kept, RowsKept, NEW m \in Autonomous, Grown(m),
         ~JobQueued(m) /\ JobQueued(m)' => merge'[m].snap = Texts(m) /\ UNCHANGED <<item, unsure>>
  PROVE  Grown(m)'
<1> SUFFICES ASSUME JobQueued(m)', Twins(m)', DeadOf[m] \notin unsure' PROVE Grown(m)'
  BY DEF Grown
<1> DEFINE D == DeadOf[m]
           C == CanonOf[m]
<1>1. m \in Merges /\ D \in Items /\ C \in Items /\ D \notin unsure
  BY MergeAssumption DEF Kept
<1>2. CASE ~JobQueued(m)
  <2>1. merge'[m].snap.dead = item'[D].says /\ merge'[m].snap.canon = item'[C].says
    BY <1>2 DEF Texts
  <2>2. merge'[m].snap.dead = merge'[m].snap.canon
    BY DEF Twins
  <2> QED
    BY <2>1, <2>2 DEF Grown
<1>3. CASE JobQueued(m)
  <2>1. merge'[m].snap = merge[m].snap /\ merge'[m].seen = merge[m].seen
    BY <1>1, <1>3 DEF RowsKept, JobQueued
  <2>2. Twins(m)
    BY <2>1 DEF Twins, Proposal
  <2> DEFINE T == merge[m].snap.dead
  <2>3. T \subseteq item[D].says /\ (item[D].says = T => T \subseteq item[C].says)
    BY <1>1, <1>3, <2>2 DEF Grown
  <2>4. /\ item[D].says \subseteq item'[D].says
        /\ item[D].says \subseteq item[C].says => item[C].says \subseteq item'[C].says
    BY <1>1 DEF Kept
  <2>5. T \subseteq item'[D].says /\ (item'[D].says = T => T \subseteq item'[C].says)
    <3>1. ASSUME item'[D].says = T PROVE T \subseteq item'[C].says
      <4>1. item[D].says = T
        BY <2>3, <2>4, <3>1
      <4> QED
        BY <2>3, <2>4, <4>1
    <3> QED
      BY <2>3, <2>4, <3>1
  <2> QED
    BY <2>1, <2>5 DEF Grown
<1> QED
  BY <1>2, <1>3

(* Only a job whose items are as it knows them is applied.                 *)
LEMMA AppliedHow ==
  ASSUME Kept, UnnamedIfActive, NEW m \in Autonomous, Applied(m)', DeadOf[m] \notin unsure'
  PROVE  (Applied(m) /\ item'[DeadOf[m]] = item[DeadOf[m]]) \/ (Appliable(m) /\
           item'[DeadOf[m]].says = item[DeadOf[m]].says)
<1> DEFINE D == DeadOf[m]
<1>1. m \in Merges /\ D \in Items /\ item'[D].by = m /\ ~item'[D].active
  BY MergeAssumption DEF Applied
<1>2. CASE ~item[D].active
  <2>1. item'[D] = item[D]
    BY <1>1, <1>2 DEF Kept
  <2> QED
    BY <1>1, <1>2, <2>1 DEF Applied
<1>3. CASE item[D].active
  <2>1. Deprecates(D)
    BY <1>1, <1>3 DEF Kept
  <2>2. PICK w \in Mergers :
          /\ item'[D].says = item[D].says
          /\ item'[D].by = IF merger[w].direct THEN item[D].by ELSE merger[w].merge
          /\ Duplicate(w) => Appliable(merger[w].merge)
    BY <2>1 DEF Deprecates
  <2>3. item[D].by = NoMerge
    BY <1>1, <1>3 DEF UnnamedIfActive, Kept
  <2>4. ~merger[w].direct /\ merger[w].merge = m
    BY <1>1, <2>2, <2>3, MergeAssumption
  <2> QED
    BY <2>2, <2>4 DEF Duplicate
<1> QED
  BY <1>2, <1>3

(* A duplicate that was applied was one, and its item stays as it was.     *)
LEMMA AppliedTwinsStays ==
  ASSUME Kept, UnnamedIfActive, RowsKept, NEW m \in Autonomous, AppliedTwins(m)
  PROVE  AppliedTwins(m)'
<1> SUFFICES ASSUME Applied(m)', DeadOf[m] \notin unsure' PROVE AppliedTwins(m)'
  BY DEF AppliedTwins
<1>1. JobQueued(m) /\ Twins(m) /\ item'[DeadOf[m]].says = merge[m].snap.dead
  <2>1. DeadOf[m] \notin unsure
    BY DEF Kept
  <2> QED
    BY <2>1, AppliedHow DEF AppliedTwins, Appliable
<1>2. m \in Merges /\ JobQueued(m)' /\ merge'[m].snap = merge[m].snap /\ merge'[m].seen = merge[m].seen
  BY <1>1, MergeAssumption DEF RowsKept, JobQueued
<1> QED
  BY <1>1, <1>2 DEF AppliedTwins, Twins, Proposal

(* What is hopeless stays so.                                              *)
LEMMA HopelessStays ==
  ASSUME Kept, UnnamedIfActive, RowsKept, NEW m \in Autonomous, Grown(m), AppliedTwins(m),
         JobQueued(m), Hopeless(m)
  PROVE  Hopeless(m)'
<1> SUFFICES ASSUME DeadOf[m] \notin unsure', item'[CanonOf[m]].active
             PROVE  ~Applied(m)' /\ ~Appliable(m)'
  BY DEF Hopeless
<1> DEFINE D == DeadOf[m]
           C == CanonOf[m]
           T == merge[m].snap.dead
<1>1. m \in Merges /\ D \in Items /\ C \in Items /\ D \notin unsure
  BY MergeAssumption DEF Kept
<1>2. merge'[m].snap = merge[m].snap /\ merge'[m].seen = merge[m].seen
  BY <1>1 DEF RowsKept, JobQueued
<1>3. /\ item[D].says \subseteq item'[D].says
      /\ item[D].says \subseteq item[C].says => /\ item[C].says \subseteq item'[C].says
                                                /\ item'[C].active => item[C].active
      /\ item'[D].active => item[D].active
  BY <1>1 DEF Kept
<1>4. ASSUME Applied(m)' PROVE FALSE
  <2>1. Applied(m) \/ Appliable(m)
    BY <1>4, AppliedHow
  <2>2. Twins(m) /\ item[D].says = T
    BY <1>1, <2>1 DEF AppliedTwins, Appliable
  <2>3. item[D].says \subseteq item[C].says
    BY <1>1, <2>2 DEF Grown
  <2> QED
    BY <1>1, <1>3, <2>1, <2>3 DEF Hopeless
<1>5. ASSUME Appliable(m)' PROVE FALSE
  <2>1. Twins(m) /\ item'[D].active /\ item'[D].says = T /\ item'[C].says = T
    BY <1>2, <1>5 DEF Appliable, Twins, Proposal
  <2>2. T \subseteq item[D].says /\ (item[D].says = T => T \subseteq item[C].says)
    BY <1>1, <2>1 DEF Grown
  <2>3. item[D].says = T /\ T \subseteq item[C].says /\ item[D].active
    BY <1>3, <2>1, <2>2
  <2>4. item[C].says = T /\ item[C].active
    BY <1>3, <2>1, <2>3
  <2>5. Appliable(m)
    BY <2>1, <2>3, <2>4 DEF Appliable
  <2> QED
    BY <1>1, <2>3, <2>4, <2>5 DEF Hopeless
<1> QED
  BY <1>4, <1>5

(* At first nothing is queued, applied or skipped.                         *)
LEMMA SkipInvInit ==
  MergeInit => SkipInv
<1> SUFFICES ASSUME MergeInit, NEW m \in Autonomous
             PROVE  Grown(m) /\ AppliedTwins(m) /\ SkippedHopeless(m)
  BY DEF SkipInv, UnnamedIfActive, MergeInit
<1>1. m \in Merges /\ DeadOf[m] \in Items
  BY MergeAssumption
<1>2. merge[m].st = "none" /\ curation[m] = "open" /\ \A w \in Mergers : merger[w].pc = "idle"
  BY <1>1 DEF MergeInit, NoMerger
<1>3. item[DeadOf[m]].active
  BY <1>1 DEF MergeInit
<1> QED
  BY <1>2, <1>3 DEF Grown, AppliedTwins, Applied, SkippedHopeless, Skipped, SkipsFor, JobQueued

(* Only hopeless jobs are skipped, and hopeless they stay.                 *)
LEMMA SkipInvStep ==
  ASSUME MergeShape, SkipInv, [MergeNext]_mergeVars
  PROVE  SkipInv'
<1>0. Kept /\ UnnamedIfActive
  BY MergeShapeStep DEF SkipInv
<1>00. UnnamedIfActive'
  <2> SUFFICES ASSUME NEW i \in Items \ unsure', item'[i].active
               PROVE  item'[i].by = NoMerge
    BY DEF UnnamedIfActive
  <2>1. i \notin unsure /\ item'[i].by = item[i].by /\ item[i].active
    BY <1>0 DEF Kept
  <2> QED
    BY <1>0, <2>1 DEF UnnamedIfActive
<1> SUFFICES ASSUME NEW m \in Autonomous
             PROVE  Grown(m)' /\ AppliedTwins(m)' /\ SkippedHopeless(m)'
  BY <1>00 DEF SkipInv
<1>1. Kept /\ RowsKept /\ SkipsRightly /\ UnnamedIfActive
  BY <1>0, MergeShapeStep
<1>2. m \in Merges /\ Grown(m) /\ AppliedTwins(m) /\ SkippedHopeless(m)
  BY MergeAssumption DEF SkipInv
<1>3. ASSUME ~JobQueued(m), JobQueued(m)'
      PROVE  merge'[m].snap = Texts(m) /\ UNCHANGED <<item, unsure>>
  <2>1. MergeNext
    BY <1>3 DEF JobQueued, mergeVars
  <2> QED
    BY <1>2, <1>3, <2>1, NewJob
<1>4. Grown(m)' /\ AppliedTwins(m)'
  BY <1>1, <1>2, <1>3, GrownStays, AppliedTwinsStays
<1>5. ASSUME Skipped(m)' PROVE JobQueued(m)' /\ Hopeless(m)'
  <2>1. JobQueued(m) /\ (DeadOf[m] \in unsure' \/ Hopeless(m))
    BY <1>1, <1>2, <1>5 DEF SkipsRightly, SkippedHopeless
  <2>2. JobQueued(m)'
    BY <1>1, <1>2, <2>1 DEF RowsKept, JobQueued
  <2>3. CASE DeadOf[m] \in unsure'
    BY <2>2, <2>3 DEF Hopeless
  <2>4. CASE Hopeless(m)
    BY <1>1, <1>2, <2>1, <2>2, <2>4, HopelessStays
  <2> QED
    BY <2>1, <2>3, <2>4
<1> QED
  BY <1>4, <1>5 DEF SkippedHopeless

(* A duplicate that a job has deprecated is not reported as skipped when   *)
(* the job is run again (alreadyApplied in the worker).                    *)
THEOREM AppliedIsReported == MergeSpec => []AppliedIsNotSkipped
<1> DEFINE Inv == MergeShape /\ SkipInv
<1>1. MergeInit => Inv
  BY MergeShapeInit, SkipInvInit
<1>2. Inv /\ [MergeNext]_mergeVars => Inv'
  BY MergeShapeStep, SkipInvStep
<1>3. Inv => AppliedIsNotSkipped
  BY DEF SkipInv, SkippedHopeless, Skipped, Hopeless, Applied, AppliedIsNotSkipped
<1> QED
  BY <1>1, <1>2, <1>3, PTL DEF MergeSpec
=============================================================================
