--------------------------- MODULE MergeActivation ---------------------------
(***************************************************************************)
(* Merging a dead-zone knowledge item into a canonical one.  A review of   *)
(* the two proposes a body; a finalize job with a snapshot of both is      *)
(* queued; the worker checks that nothing has changed since, rewrites the  *)
(* canonical item, deprecates the other one and reports to the curation    *)
(* job, in separate writes.  The API can also apply a review directly.     *)
(*                                                                         *)
(* What an item says is a set of statements; equal hashes are equal sets.  *)
(* A review's proposal says what the two items said to the reviewer.  An   *)
(* exact duplicate (Autonomous) is deprecated without touching the         *)
(* canonical item, and recognised when the job is run again.  Applicability*)
(* is compared and merged like the body and is left out, and so are        *)
(* reviews that advise against a merge.  The lane may be served by a pool, *)
(* so two merges can run at a time.                                        *)
(***************************************************************************)
EXTENDS Naturals

CONSTANTS
  Mergers,      \* workers and API requests that run at a time
  Merges,       \* reviewed pairs, each with at most one finalize job
  Items,
  DeadOf, CanonOf, \* [Merges -> Items]
  Autonomous,   \* the merges that were queued as exact duplicates
  Says,         \* [Items -> set of numbers]: the statements at first
  MaxIncidents, \* bound: edits by users, direct requests, jobs run again or interrupted
  NoMerge

ASSUME MergeAssumption ==
  /\ DeadOf \in [Merges -> Items] /\ CanonOf \in [Merges -> Items]
  /\ \A m \in Merges : DeadOf[m] # CanonOf[m]
  /\ Autonomous \subseteq Merges
  /\ \A i \in Items : Says[i] \cap 1..MaxIncidents = {}
  /\ MaxIncidents \in Nat /\ NoMerge \notin Merges \cup Mergers

VARIABLES
  item,         \* [Items -> [says, active, by]]; by is the job that deprecated it last
  merge,        \* [Merges -> [st, seen, snap]]; seen by the review, snap in the job
  curation,     \* [Autonomous -> what the curation job was told]
  merger,       \* [Mergers -> what the process is doing]
  incidents,
  outdated,     \* history: jobs queued after their review had become outdated
  raced,        \* history: processes under which an item of theirs was written
  unsure        \* history: items whose statements such a write may have lost

mergeVars == <<item, merge, curation, merger, incidents, outdated, raced, unsure>>
doubts == <<outdated, raced, unsure>>

NoMerger == [pc |-> "idle", merge |-> NoMerge, direct |-> FALSE,
             dead |-> {}, copy |-> {}]
Pair(m)  == {DeadOf[m], CanonOf[m]}
Texts(m) == [dead |-> item[DeadOf[m]].says, canon |-> item[CanonOf[m]].says]
Proposal(m) == merge[m].seen.dead \cup merge[m].seen.canon
InStep(w, pc) == merger[w].pc = pc
Goes(w, pc) == merger' = [merger EXCEPT ![w].pc = pc]
Dead(w)  == DeadOf[merger[w].merge]
Canon(w) == CanonOf[merger[w].merge]

\* The items that say nothing that item i does not say, and history for a
\* write of item i by process w: other processes that work on it are raced.
SaidBy(i) == {x \in Items : item[x].says \subseteq item[i].says}
Disturbs(w, i) ==
  raced' = raced \cup {v \in Mergers \ {w} : ~InStep(v, "idle") /\ i \in Pair(merger[v].merge)}
UnsureIf(w, lost) ==
  unsure' = IF lost THEN unsure \cup SaidBy(Dead(w)) \cup SaidBy(Canon(w)) ELSE unsure
RacedWrite(w) ==
  UnsureIf(w, w \in raced \/ (~merger[w].direct /\ merger[w].merge \in outdated))

-----------------------------------------------------------------------------
(* Reviews, jobs and users. *)

\* createDeadZoneMergeReviewJob to the completed review.
Review(m) ==
  /\ merge[m].st = "none" /\ item[CanonOf[m]].active /\ item[DeadOf[m]].active
  /\ merge' = [merge EXCEPT ![m] = [st |-> "reviewed", seen |-> Texts(m), snap |-> Texts(m)]]
  /\ UNCHANGED <<item, curation, merger, incidents, doubts>>

\* createMergeActivationFinalizeJob: the snapshot is of now, the proposal is
\* the review's.  A second request finds the job by its key.
CreateJob(m) ==
  /\ merge[m].st = "reviewed"
  /\ merge' = [merge EXCEPT ![m].st = "pending", ![m].snap = Texts(m)]
  /\ outdated' = outdated \cup {x \in {m} : merge[m].seen # Texts(m)}
  /\ UNCHANGED <<item, curation, merger, incidents, raced, unsure>>

Incident == incidents < MaxIncidents /\ incidents' = incidents + 1

\* A running job is put back, a settled one is retried, a delayed one is due.
JobAgain(m) ==
  /\ merge[m].st \notin {"none", "reviewed", "pending"} /\ Incident
  /\ merge' = [merge EXCEPT ![m].st = "pending"]
  /\ UNCHANGED <<item, curation, merger, doubts>>

\* A user adds a statement, or changes the status of an item.
UserEdit(i) ==
  /\ Incident
  /\ \/ item' = [item EXCEPT ![i].says = @ \cup {incidents'}]
        /\ unsure' = IF item[i].active THEN unsure ELSE unsure \cup {i}
     \/ item' = [item EXCEPT ![i].active = ~@] /\ unsure' = unsure \cup SaidBy(i)
  /\ Disturbs(NoMerge, i)
  /\ UNCHANGED <<merge, curation, merger, outdated>>

-----------------------------------------------------------------------------
(* processMergeActivationFinalizeJob, and applyDeadZoneMergeReviewJob      *)
(* (direct), which goes by the review and leaves no job behind.            *)

StartJob(w, m) ==
  /\ InStep(w, "idle") /\ merge[m].st = "pending"
  /\ merge' = [merge EXCEPT ![m].st = "running"]
  /\ merger' = [merger EXCEPT ![w] = [NoMerger EXCEPT !.pc = "load", !.merge = m]]
  /\ raced' = raced \ {w}
  /\ UNCHANGED <<item, curation, incidents, outdated, unsure>>

StartDirect(w, m) ==
  /\ InStep(w, "idle") /\ merge[m].st # "none" /\ Incident
  /\ merger' = [merger EXCEPT ![w] = [NoMerger EXCEPT !.pc = "load", !.merge = m,
                                                      !.direct = TRUE]]
  /\ raced' = raced \ {w}
  /\ UNCHANGED <<item, merge, curation, outdated, unsure>>

\* The first of the two concurrent reads.
LoadDead(w) ==
  /\ InStep(w, "load")
  /\ merger' = [merger EXCEPT ![w].pc = "check", ![w].dead = {item[Dead(w)]}]
  /\ UNCHANGED <<item, merge, curation, incidents, doubts>>

\* Mutants: a deprecation is never recognised; nothing is ever stale.
AppliedUnseen(w, dead, canon) == FALSE
StaleUnchecked(w, dead, canon) == FALSE

Duplicate(w) == merger[w].merge \in Autonomous /\ ~merger[w].direct
AlreadyApplied(w, dead, canon) ==
  Duplicate(w) /\ ~dead.active /\ dead.by = merger[w].merge /\ canon.active
Stale(w, dead, canon) ==
  LET m    == merger[w].merge
      then == IF merger[w].direct THEN merge[m].seen ELSE merge[m].snap
  IN  \/ dead.says # then.dead \/ canon.says # then.canon
      \/ ~dead.active \/ ~canon.active
Blocked(w, dead, canon) ==
  Duplicate(w) /\ ~(dead.says = canon.says /\ Proposal(merger[w].merge) = canon.says)

\* The order of the checks.
Verdict(w, dead, canon) ==
  IF AlreadyApplied(w, dead, canon) THEN "settle"
  ELSE IF Stale(w, dead, canon) \/ Blocked(w, dead, canon) THEN "skip"
  ELSE IF Duplicate(w) THEN "readDead" ELSE "readCanon"

\* The second read, and what follows from the rows that were read.
Check(w) ==
  /\ InStep(w, "check")
  /\ \E dead \in merger[w].dead :
       merger' = [merger EXCEPT ![w].dead = {}, ![w].pc = Verdict(w, dead, item[Canon(w)])]
  /\ UNCHANGED <<item, merge, curation, incidents, doubts>>

\* updateKnowledgeItem reads the item, awaits, and writes the whole row.
ReadItem(w) ==
  /\ InStep(w, "readCanon") \/ InStep(w, "readDead")
  /\ merger' = [merger EXCEPT
       ![w].copy = {item[IF InStep(w, "readCanon") THEN Canon(w) ELSE Dead(w)]},
       ![w].pc = IF InStep(w, "readCanon") THEN "writeCanon" ELSE "writeDead"]
  /\ UNCHANGED <<item, merge, curation, incidents, doubts>>

WriteCanon(w) ==
  /\ InStep(w, "writeCanon")
  /\ \E row \in merger[w].copy :
       item' = [item EXCEPT ![Canon(w)] = [row EXCEPT !.says = Proposal(merger[w].merge)]]
  /\ Disturbs(w, Canon(w)) /\ RacedWrite(w)
  /\ merger' = [merger EXCEPT ![w].pc = "readDead", ![w].copy = {}]
  /\ UNCHANGED <<merge, curation, incidents, outdated>>

\* The metadata names the job; a direct application leaves them as they are.
WriteDead(w) ==
  /\ InStep(w, "writeDead")
  /\ \E row \in merger[w].copy :
       item' = [item EXCEPT ![Dead(w)] = [row EXCEPT
                  !.active = FALSE, !.by = IF merger[w].direct THEN @ ELSE merger[w].merge]]
  /\ Disturbs(w, Dead(w)) /\ RacedWrite(w)
  /\ merger' = [merger EXCEPT ![w] = IF merger[w].direct THEN NoMerger
                                     ELSE [@ EXCEPT !.pc = "settle", !.copy = {}]]
  /\ UNCHANGED <<merge, curation, incidents, outdated>>

\* updateFinalizeQueue, or the failed row of the catch block; an API request
\* that is refused ends instead.
SettleMerge(w) ==
  LET st == [settle |-> "completed", skip |-> "skipped", fail |-> "failed"][merger[w].pc]
  IN  /\ merger[w].pc \in {"settle", "skip", "fail"}
      /\ IF merger[w].direct
         THEN UNCHANGED merge /\ merger' = [merger EXCEPT ![w] = NoMerger]
         ELSE /\ merge' = [merge EXCEPT ![merger[w].merge].st = st]
              /\ IF merger[w].merge \in Autonomous
                 THEN Goes(w, st)
                 ELSE merger' = [merger EXCEPT ![w] = NoMerger]
      /\ UnsureIf(w, w \in raced)
      /\ UNCHANGED <<item, curation, incidents, outdated, raced>>

\* updateLandscapeCurationJob, after its link; only the jobs that the curation
\* has queued are linked to it.
TellCuration(w) ==
  /\ merger[w].pc \in {"completed", "skipped", "failed"}
  /\ curation' = [curation EXCEPT ![merger[w].merge] = merger[w].pc]
  /\ merger' = [merger EXCEPT ![w] = NoMerger]
  /\ UNCHANGED <<item, merge, incidents, doubts>>

\* A statement fails (the catch block then fails or delays the job), or the
\* process dies.
Interrupt(w) ==
  /\ ~InStep(w, "idle") /\ Incident
  /\ \/ merger[w].pc # "fail" /\ Goes(w, "fail")
     \/ merger' = [merger EXCEPT ![w] = NoMerger]
  /\ UNCHANGED <<item, merge, curation, doubts>>

MergeInit ==
  /\ item = [i \in Items |-> [says |-> Says[i], active |-> TRUE, by |-> NoMerge]]
  /\ merge = [m \in Merges |-> [st |-> "none", seen |-> [dead |-> {}, canon |-> {}],
                                               snap |-> [dead |-> {}, canon |-> {}]]]
  /\ curation = [m \in Autonomous |-> "open"]
  /\ merger = [w \in Mergers |-> NoMerger]
  /\ incidents = 0 /\ outdated = {} /\ raced = {} /\ unsure = {}

MergeNext ==
  \/ \E m \in Merges : \/ Review(m) \/ CreateJob(m) \/ JobAgain(m)
                       \/ \E w \in Mergers : StartJob(w, m) \/ StartDirect(w, m)
  \/ \E i \in Items : UserEdit(i)
  \/ \E w \in Mergers :
       \/ LoadDead(w) \/ Check(w) \/ ReadItem(w) \/ WriteCanon(w) \/ WriteDead(w)
       \/ SettleMerge(w) \/ TellCuration(w) \/ Interrupt(w)

MergeSpec == MergeInit /\ [][MergeNext]_mergeVars

-----------------------------------------------------------------------------
(* Properties. *)

\* No statement is merged away: what a deprecated item said is said by an
\* active one, whichever merges share an item, in whatever direction, and
\* wherever they were interrupted and run again, unless a user changed its status,
\* another process wrote an item under a running merge, or an edit fell
\* between the review and the job (which the job does not compare).
NothingMergedAway ==
  \A i \in Items \ unsure :
    \E k \in Items : item[k].active /\ item[i].says \subseteq item[k].says

\* A duplicate that a job has deprecated is not reported as skipped when the
\* job is run again after an interruption, to the queue or to the curation,
\* as long as the canonical item is active, unless an item was written under
\* the run that reports.  (The code asks for an active canonical item: one
\* that was itself merged into a third is reported as stale.)
AppliedIsNotSkipped ==
  \A m \in Autonomous :
    /\ item[DeadOf[m]].by = m /\ ~item[DeadOf[m]].active /\ DeadOf[m] \notin unsure
    /\ item[CanonOf[m]].active
    => merge[m].st # "skipped" /\ curation[m] # "skipped"
=============================================================================
