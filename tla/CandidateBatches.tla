-------------------------- MODULE CandidateBatches --------------------------
(***************************************************************************)
(* The candidate batch ingress on Postgres (receivePostgres): one          *)
(* transaction per request, at read committed, in which each statement     *)
(* sees what others have committed.  The receipt row of a key is unique,   *)
(* so the insert of a second one waits; an advisory lock on each           *)
(* fingerprint is held to the end of the transaction.  Requests overlap,   *)
(* are sent again after a lost answer, and are rolled back at any point:   *)
(* an error, a lost connection, the deadlock that two orders of locking    *)
(* run into.                                                               *)
(*                                                                         *)
(* Left out: items that are rejected, the columns, the audit row, and that *)
(* a pipeline target can be deleted later.                                 *)
(***************************************************************************)
EXTENDS Naturals, Sequences

CONSTANTS
  Requests,     \* requests that are served at a time
  Batches, Fingerprints, KeyOf, ItemsOf,  \* see BatchReceipts
  NoBatch

ASSUME BatchAssumption ==
  /\ NoBatch \notin Batches
  /\ \A b \in Batches : ItemsOf[b] \in Seq(Fingerprints)

VARIABLES
  receipts,     \* committed receipts: the batch and what it has accepted
  targets,      \* fingerprints that have entered the pipeline
  tx,           \* [Requests -> the transaction of the request]
  answers       \* history: receipts that were sent to a producer

batchVars == <<receipts, targets, tx, answers>>

Promise == INSTANCE BatchReceipts
Received == Promise!ReceiptSpec

\* locked: the items whose locks are held; new: those the transaction stored;
\* got: the receipt to answer with.
NoTx == [pc |-> "idle", batch |-> NoBatch, locked |-> 0, new |-> {}, got |-> {}]

Batch(s) == tx[s].batch
InTx(s)  == tx[s].pc \in {"lock", "store"}
ItemOf(s, n) == ItemsOf[Batch(s)][n]

\* Mutants: no lock; a receipt that is not unique; a digest not compared.
HeldByNone(s) == {}
RivalsNone(s) == {}
AnyReceipt(s) == Promise!SameKey(Batch(s))

\* The locks of the other transactions, the other transactions that hold an
\* uncommitted receipt of the same key, and the receipt to replay.
HeldByOthers(s) ==
  UNION {Promise!FirstItems(Batch(r), tx[r].locked) : r \in {r \in Requests \ {s} : InTx(r)}}
Rivals(s) == {r \in Requests \ {s} : InTx(r) /\ KeyOf[Batch(r)] = KeyOf[Batch(s)]}
ToReplay(s) == {r \in Promise!SameKey(Batch(s)) : r.batch = Batch(s)}

Arrive(s, b) ==
  /\ tx[s].pc = "idle"
  /\ tx' = [tx EXCEPT ![s] = [NoTx EXCEPT !.pc = "look", !.batch = b]]
  /\ UNCHANGED <<receipts, targets, answers>>

\* The stored receipt is replayed, or a 409 for another payload.
Replay(s) ==
  \/ \E r \in ToReplay(s) :
       tx' = [tx EXCEPT ![s] = [NoTx EXCEPT !.pc = "answer", !.batch = Batch(s), !.got = {r}]]
  \/ ToReplay(s) = {} /\ tx' = [tx EXCEPT ![s] = NoTx]

LookUp(s) ==
  /\ tx[s].pc = "look"
  /\ IF Promise!SameKey(Batch(s)) = {} THEN tx' = [tx EXCEPT ![s].pc = "insert"] ELSE Replay(s)
  /\ UNCHANGED <<receipts, targets, answers>>

\* insert ... on conflict do nothing: waits for a rival, and replays when it
\* was too late.  receipt_conflict, for a conflict without a row of this key,
\* is left out: the other unique column is a digest of the key and the payload,
\* and no row is deleted.  It would roll back.
AddReceipt(s) ==
  /\ tx[s].pc = "insert" /\ Rivals(s) = {}
  /\ IF Promise!SameKey(Batch(s)) = {} THEN tx' = [tx EXCEPT ![s].pc = "lock"] ELSE Replay(s)
  /\ UNCHANGED <<receipts, targets, answers>>

LockItem(s) ==
  LET n == tx[s].locked + 1
  IN  /\ tx[s].pc = "lock" /\ n <= Len(ItemsOf[Batch(s)])
      /\ ItemOf(s, n) \notin HeldByOthers(s)
      /\ tx' = [tx EXCEPT ![s].pc = "store", ![s].locked = n]
      /\ UNCHANGED <<receipts, targets, answers>>

\* A fingerprint whose target is there, committed or of this batch, is a
\* duplicate; any other one gets its pipeline rows.
StoreItem(s) ==
  /\ tx[s].pc = "store"
  /\ tx' = [tx EXCEPT ![s].pc = "lock", ![s].new = @ \cup ({ItemOf(s, tx[s].locked)} \ targets)]
  /\ UNCHANGED <<receipts, targets, answers>>

CommitBatch(s) ==
  LET receipt == [batch |-> Batch(s), accepted |-> tx[s].new]
  IN  /\ tx[s].pc = "lock" /\ tx[s].locked = Len(ItemsOf[Batch(s)])
      /\ receipts' = receipts \cup {receipt}
      /\ targets' = targets \cup tx[s].new
      /\ tx' = [tx EXCEPT ![s] = [NoTx EXCEPT !.pc = "answer", !.batch = Batch(s), !.got = {receipt}]]
      /\ UNCHANGED answers

SendAnswer(s) ==
  /\ tx[s].pc = "answer"
  /\ answers' = answers \cup {[asked |-> Batch(s), receipt |-> r] : r \in tx[s].got}
  /\ tx' = [tx EXCEPT ![s] = NoTx]
  /\ UNCHANGED <<receipts, targets>>

\* The transaction is rolled back, or the answer is lost.
RollBack(s) ==
  /\ tx[s].pc # "idle"
  /\ tx' = [tx EXCEPT ![s] = NoTx]
  /\ UNCHANGED <<receipts, targets, answers>>

BatchInit ==
  /\ receipts = {} /\ targets = {} /\ answers = {}
  /\ tx = [s \in Requests |-> NoTx]

BatchNext ==
  \E s \in Requests :
    \/ \E b \in Batches : Arrive(s, b)
    \/ LookUp(s) \/ AddReceipt(s) \/ LockItem(s) \/ StoreItem(s)
    \/ CommitBatch(s) \/ SendAnswer(s) \/ RollBack(s)

BatchSpec == BatchInit /\ [][BatchNext]_batchVars

-----------------------------------------------------------------------------
(* Properties. *)

\* A candidate is accepted by one batch only, however many batches name it
\* and in whatever order they lock what they share.
AcceptedOnce ==
  \A r, q \in receipts : r # q => r.accepted \cap q.accepted = {}

\* Every answer is a committed receipt for the batch that was sent, and the
\* answers to a repeated key are all the same.
AnswersStand ==
  /\ \A a \in answers : a.receipt \in receipts /\ a.receipt.batch = a.asked
  /\ \A a, b \in answers : KeyOf[a.asked] = KeyOf[b.asked] => a = b
=============================================================================
