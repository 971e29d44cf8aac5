----------------------- MODULE CandidateBatchesProofs -----------------------
(***************************************************************************)
(* The Postgres ingress implements BatchReceipts, accepts a candidate once *)
(* and answers a key alike, for every number of requests, batches and      *)
(* items, with any overlap and any rollback.                               *)
(*                                                                         *)
(* The argument: what the transactions have locked is disjoint, so what    *)
(* one of them has found to be new stays new until it commits; and the     *)
(* unique receipt keeps a second transaction of a key out, so a key has no *)
(* receipt when the first one is committed.                                *)
(***************************************************************************)
EXTENDS CandidateBatches, TLAPS

Receipt  == [batch : Batches, accepted : SUBSET Fingerprints]
TxRecord == [pc : {"idle", "look", "insert", "lock", "store", "answer"},
             batch : Batches \cup {NoBatch}, locked : Nat,
             new : SUBSET Fingerprints, got : SUBSET Receipt]

Locks(s)       == Promise!FirstItems(Batch(s), tx[s].locked)
ReceiptsFor(b) == {r \in receipts : r.batch = b}
Replies        == {a \in [asked : Batches, receipt : receipts] : a.receipt.batch = a.asked}

BatchTypes ==
  /\ receipts \subseteq Receipt
  /\ tx \in [Requests -> TxRecord]
  /\ \A s \in Requests :
       /\ tx[s].pc # "idle" => Batch(s) \in Batches
       /\ tx[s].pc \in {"look", "insert"} => tx[s].locked = 0 /\ tx[s].new = {}
       /\ InTx(s) => tx[s].locked <= Len(ItemsOf[Batch(s)])
       /\ tx[s].pc = "store" => tx[s].locked > 0

\* The locks of two transactions are disjoint.
LocksExclude ==
  \A s, r \in Requests : s # r /\ InTx(s) /\ InTx(r) => Locks(s) \cap Locks(r) = {}

\* A transaction stores only what it has locked and what is not there yet.
NewIsNew ==
  \A s \in Requests : InTx(s) => tx[s].new \subseteq Locks(s) \ targets

\* What it has locked is there or stored, but for the item it is looking at.
LockedIsThere ==
  \A s \in Requests : InTx(s) =>
    \A k \in 1..tx[s].locked :
      \/ ItemOf(s, k) \in tx[s].new \cup targets
      \/ tx[s].pc = "store" /\ k = tx[s].locked

\* A transaction has its key for itself.
KeyIsOwn ==
  \A s \in Requests : InTx(s) => /\ Promise!SameKey(Batch(s)) = {}
                                 /\ Rivals(s) = {}

\* The receipts of different keys, and what they accepted.
ReceiptsDiffer ==
  /\ \A r \in receipts : r.accepted \subseteq targets
  /\ \A r, q \in receipts : KeyOf[r.batch] = KeyOf[q.batch] => r = q

AnswersAreReceipts ==
  /\ answers \subseteq Replies
  /\ \A s \in Requests : tx[s].pc = "answer" => tx[s].got \subseteq ReceiptsFor(Batch(s))

BatchInv ==
  /\ BatchTypes /\ LocksExclude /\ NewIsNew /\ LockedIsThere
  /\ KeyIsOwn /\ ReceiptsDiffer /\ AnswersAreReceipts /\ AcceptedOnce

-----------------------------------------------------------------------------
(* Helpers. *)

(* The first items of a batch, one by one.                                 *)
LEMMA FirstOnes ==
  ASSUME NEW b \in Batches, NEW n \in Nat
  PROVE  /\ Promise!FirstItems(b, 0) = {}
         /\ Promise!FirstItems(b, n + 1) = Promise!FirstItems(b, n) \cup {ItemsOf[b][n + 1]}
         /\ \A k \in 1..n : ItemsOf[b][k] \in Promise!FirstItems(b, n)
<1>1. 1..0 = {} /\ 1..(n + 1) = (1..n) \cup {n + 1}
  OBVIOUS
<1> QED
  BY <1>1 DEF Promise!FirstItems

(* The items of a batch are fingerprints.                                  *)
LEMMA ItemsAreFingerprints ==
  ASSUME NEW b \in Batches
  PROVE  /\ Len(ItemsOf[b]) \in Nat
         /\ \A k \in 1..Len(ItemsOf[b]) : ItemsOf[b][k] \in Fingerprints
BY BatchAssumption

(* No transaction at all.                                                  *)
LEMMA NoTxType == NoTx \in TxRecord
BY DEF NoTx, TxRecord

-----------------------------------------------------------------------------
(* The steps of a request that is not in its transaction, or leaves it.    *)

(* A request that is outside of its transaction afterwards takes nothing   *)
(* from the others.                                                        *)
LEMMA OutsideStep ==
  ASSUME BatchInv, NEW s \in Requests, NEW t \in TxRecord,
         tx' = [tx EXCEPT ![s] = t],
         t.pc \in {"idle", "look", "insert", "answer"},
         t.pc # "idle" => t.batch \in Batches,
         t.pc \in {"look", "insert"} => t.locked = 0 /\ t.new = {},
         t.pc = "answer" => t.got \subseteq ReceiptsFor(t.batch),
         receipts' = receipts, targets' = targets, answers' \subseteq Replies
  PROVE  BatchInv'
<1> USE DEF BatchInv
<1>1. tx'[s] = t /\ \A r \in Requests \ {s} : tx'[r] = tx[r]
  BY DEF BatchTypes
<1>2. /\ ~InTx(s)' /\ Batch(s)' = t.batch
      /\ \A r \in Requests \ {s} : /\ InTx(r)' = InTx(r) /\ Batch(r)' = Batch(r)
                                   /\ Locks(r)' = Locks(r)
  BY <1>1 DEF InTx, Batch, Locks, Promise!FirstItems
<1>3. BatchTypes'
  <2>1. tx' \in [Requests -> TxRecord]
    BY DEF BatchTypes
  <2> QED
    BY <1>1, <1>2, <2>1 DEF BatchTypes
<1>4. LocksExclude' /\ NewIsNew'
  BY <1>1, <1>2 DEF LocksExclude, NewIsNew
<1>5. LockedIsThere'
  BY <1>1, <1>2 DEF LockedIsThere, ItemOf
<1>6. KeyIsOwn'
  <2> SUFFICES ASSUME NEW r \in Requests, InTx(r)'
               PROVE  Promise!SameKey(Batch(r))' = {} /\ Rivals(r)' = {}
    BY DEF KeyIsOwn
  <2>1. r # s /\ InTx(r) /\ Batch(r)' = Batch(r)
    BY <1>2
  <2>2. Rivals(r)' \subseteq Rivals(r)
    BY <1>2, <2>1 DEF Rivals
  <2> QED
    BY <2>1, <2>2 DEF KeyIsOwn, Promise!SameKey
<1>7. ReceiptsDiffer' /\ AcceptedOnce'
  BY DEF ReceiptsDiffer, AcceptedOnce
<1>8. AnswersAreReceipts'
  BY <1>1, <1>2 DEF AnswersAreReceipts, Replies, ReceiptsFor
<1> QED
  BY <1>3, <1>4, <1>5, <1>6, <1>7, <1>8

(* A request that arrives.                                                 *)
LEMMA ArriveStep ==
  ASSUME BatchInv, NEW s \in Requests, NEW b \in Batches, Arrive(s, b)
  PROVE  BatchInv'
<1> DEFINE t == [NoTx EXCEPT !.pc = "look", !.batch = b]
<1>1. /\ t \in TxRecord /\ t.pc = "look" /\ t.batch = b /\ t.locked = 0 /\ t.new = {}
  BY DEF NoTx, TxRecord
<1>2. /\ tx' = [tx EXCEPT ![s] = t] /\ receipts' = receipts /\ targets' = targets
      /\ answers' \subseteq Replies
  BY DEF Arrive, BatchInv, AnswersAreReceipts
<1> HIDE DEF t
<1> QED
  BY <1>1, <1>2, OutsideStep

(* A stored receipt is replayed, or the request is refused.                *)
LEMMA ReplayStep ==
  ASSUME BatchInv, NEW s \in Requests, Batch(s) \in Batches, Replay(s),
         UNCHANGED <<receipts, targets, answers>>
  PROVE  BatchInv'
<1>0. answers' \subseteq Replies /\ receipts \subseteq Receipt
  BY DEF BatchInv, AnswersAreReceipts, BatchTypes
<1>1. CASE tx' = [tx EXCEPT ![s] = NoTx]
  <2>1. NoTx.pc = "idle"
    BY DEF NoTx
  <2> QED
    BY <1>0, <1>1, <2>1, NoTxType, OutsideStep
<1>2. ASSUME NEW r \in ToReplay(s),
             tx' = [tx EXCEPT ![s] =
                     [NoTx EXCEPT !.pc = "answer", !.batch = Batch(s), !.got = {r}]]
      PROVE  BatchInv'
  <2> DEFINE t == [NoTx EXCEPT !.pc = "answer", !.batch = Batch(s), !.got = {r}]
  <2>1. r \in ReceiptsFor(Batch(s)) /\ r \in Receipt
    BY <1>0 DEF ToReplay, Promise!SameKey, ReceiptsFor
  <2>2. /\ t \in TxRecord /\ t.pc = "answer" /\ t.batch = Batch(s) /\ t.got = {r}
    BY <2>1 DEF NoTx, TxRecord
  <2>3. tx' = [tx EXCEPT ![s] = t]
    BY <1>2
  <2> HIDE DEF t
  <2> QED
    BY <1>0, <2>1, <2>2, <2>3, OutsideStep
<1> QED
  BY <1>1, <1>2 DEF Replay

(* The receipt is looked up.                                               *)
LEMMA LookUpStep ==
  ASSUME BatchInv, NEW s \in Requests, LookUp(s)
  PROVE  BatchInv'
<1>1. /\ tx[s].pc = "look" /\ Batch(s) \in Batches
      /\ tx[s] \in TxRecord /\ tx[s].locked = 0 /\ tx[s].new = {}
  BY DEF LookUp, BatchInv, BatchTypes
<1>2. CASE Promise!SameKey(Batch(s)) = {}
  <2> DEFINE t == [tx[s] EXCEPT !.pc = "insert"]
  <2>1. /\ t \in TxRecord /\ t.pc = "insert" /\ t.batch = Batch(s)
        /\ t.locked = 0 /\ t.new = {}
    BY <1>1 DEF TxRecord, Batch
  <2>2. /\ tx' = [tx EXCEPT ![s] = t] /\ receipts' = receipts /\ targets' = targets
        /\ answers' \subseteq Replies
    BY <1>2 DEF LookUp, BatchInv, AnswersAreReceipts
  <2> HIDE DEF t
  <2> QED
    BY <1>1, <2>1, <2>2, OutsideStep
<1>3. CASE Promise!SameKey(Batch(s)) # {}
  BY <1>1, <1>3, ReplayStep DEF LookUp
<1> QED
  BY <1>2, <1>3

(* An answer is sent, and it is a receipt.                                 *)
LEMMA SendAnswerStep ==
  ASSUME BatchInv, NEW s \in Requests, SendAnswer(s)
  PROVE  BatchInv'
<1>1. Batch(s) \in Batches /\ tx[s].got \subseteq ReceiptsFor(Batch(s))
  BY DEF SendAnswer, BatchInv, BatchTypes, AnswersAreReceipts
<1>2. answers' \subseteq Replies
  BY <1>1 DEF SendAnswer, BatchInv, AnswersAreReceipts, Replies, ReceiptsFor
<1>3. NoTx.pc = "idle"
  BY DEF NoTx
<1> QED
  BY <1>2, <1>3, NoTxType, OutsideStep DEF SendAnswer

(* A transaction is rolled back, or an answer lost.                        *)
LEMMA RollBackStep ==
  ASSUME BatchInv, NEW s \in Requests, RollBack(s)
  PROVE  BatchInv'
<1>1. NoTx.pc = "idle" /\ answers \subseteq Replies
  BY DEF NoTx, BatchInv, AnswersAreReceipts
<1> QED
  BY <1>1, NoTxType, OutsideStep DEF RollBack

-----------------------------------------------------------------------------
(* The steps of a transaction. *)

(* A transaction begins with the receipt of its key, unless another one    *)
(* has it.                                                                 *)
LEMMA AddReceiptStep ==
  ASSUME BatchInv, NEW s \in Requests, AddReceipt(s)
  PROVE  BatchInv'
<1> USE DEF BatchInv
<1>1. /\ tx[s].pc = "insert" /\ Batch(s) \in Batches /\ Rivals(s) = {}
      /\ tx[s] \in TxRecord /\ tx[s].locked = 0 /\ tx[s].new = {}
  BY DEF AddReceipt, BatchTypes
<1>2. CASE Promise!SameKey(Batch(s)) # {}
  BY <1>1, <1>2, ReplayStep DEF AddReceipt
<1>3. CASE Promise!SameKey(Batch(s)) = {}
  <2>1. /\ tx' = [tx EXCEPT ![s].pc = "lock"]
        /\ receipts' = receipts /\ targets' = targets /\ answers' = answers
    BY <1>3 DEF AddReceipt
  <2>2. /\ tx'[s] = [tx[s] EXCEPT !.pc = "lock"] /\ tx'[s] \in TxRecord
        /\ tx'[s].pc = "lock" /\ tx'[s].locked = 0 /\ tx'[s].new = {}
        /\ tx'[s].batch = tx[s].batch
        /\ \A r \in Requests \ {s} : tx'[r] = tx[r]
    BY <1>1, <2>1 DEF BatchTypes, TxRecord
  <2>3. /\ ~InTx(s) /\ InTx(s)' /\ Batch(s)' = Batch(s) /\ Locks(s)' = {}
        /\ \A r \in Requests \ {s} : /\ InTx(r)' = InTx(r) /\ Batch(r)' = Batch(r)
                                     /\ Locks(r)' = Locks(r)
    BY <1>1, <2>2, FirstOnes DEF InTx, Batch, Locks, Promise!FirstItems
  <2>4. BatchTypes'
    <3>1. tx' \in [Requests -> TxRecord]
      BY <2>1, <2>2 DEF BatchTypes
    <3> QED
      BY <1>1, <2>1, <2>2, <2>3, <3>1, ItemsAreFingerprints DEF BatchTypes
  <2>5. LocksExclude' /\ NewIsNew'
    BY <2>1, <2>2, <2>3 DEF LocksExclude, NewIsNew
  <2>6. LockedIsThere'
    <3> SUFFICES ASSUME NEW r \in Requests, InTx(r)', NEW k \in 1..tx'[r].locked
                 PROVE  \/ ItemOf(r, k)' \in tx'[r].new \cup targets'
                        \/ tx'[r].pc = "store" /\ k = tx'[r].locked
      BY DEF LockedIsThere
    <3>1. 1..tx'[s].locked = {}
      BY <2>2
    <3>2. r # s
      BY <3>1
    <3> QED
      BY <2>1, <2>2, <2>3, <3>2 DEF LockedIsThere, ItemOf
  <2>7. KeyIsOwn'
    <3> SUFFICES ASSUME NEW r \in Requests, InTx(r)'
                 PROVE  Promise!SameKey(Batch(r))' = {} /\ Rivals(r)' = {}
      BY DEF KeyIsOwn
    <3>1. CASE r = s
      <4>1. Rivals(s)' = {}
        BY <1>1, <2>3 DEF Rivals
      <4> QED
        BY <1>3, <2>1, <2>3, <3>1, <4>1 DEF Promise!SameKey
    <3>2. CASE r # s
      <4>1. InTx(r) /\ Batch(r)' = Batch(r)
        BY <2>3, <3>2
      <4>2. KeyOf[Batch(r)] # KeyOf[Batch(s)]
        BY <1>1, <3>2, <4>1 DEF Rivals
      <4>3. Rivals(r)' \subseteq Rivals(r)
        BY <2>3, <4>1, <4>2, <3>2 DEF Rivals
      <4> QED
        BY <2>1, <4>1, <4>3 DEF KeyIsOwn, Promise!SameKey
    <3> QED
      BY <3>1, <3>2
  <2>8. ReceiptsDiffer' /\ AcceptedOnce'
    BY <2>1 DEF ReceiptsDiffer, AcceptedOnce
  <2>9. AnswersAreReceipts'
    BY <2>1, <2>2, <2>3 DEF AnswersAreReceipts, Replies, ReceiptsFor
  <2> QED
    BY <2>4, <2>5, <2>6, <2>7, <2>8, <2>9
<1> QED
  BY <1>2, <1>3

(* What the steps inside a transaction have in common: the transaction     *)
(* stays open, with its batch, and committed data is not touched.          *)
LEMMA InsideStep ==
  ASSUME BatchInv, NEW s \in Requests, InTx(s), NEW t \in TxRecord,
         tx' = [tx EXCEPT ![s] = t], t.batch = Batch(s),
         t.pc \in {"lock", "store"}, t.locked <= Len(ItemsOf[Batch(s)]),
         t.pc = "store" => t.locked > 0,
         UNCHANGED <<receipts, targets, answers>>,
         \A r \in Requests \ {s} : InTx(r) => Locks(s)' \cap Locks(r) = {},
         t.new \subseteq Locks(s)' \ targets,
         \A k \in 1..t.locked : \/ ItemOf(s, k) \in t.new \cup targets
                                \/ t.pc = "store" /\ k = t.locked
  PROVE  BatchInv'
<1> USE DEF BatchInv
<1>1. tx'[s] = t /\ \A r \in Requests \ {s} : tx'[r] = tx[r]
  BY DEF BatchTypes
<1>2. /\ InTx(s)' /\ Batch(s)' = Batch(s) /\ Batch(s) \in Batches
      /\ \A r \in Requests \ {s} : /\ InTx(r)' = InTx(r) /\ Batch(r)' = Batch(r)
                                   /\ Locks(r)' = Locks(r)
  BY <1>1 DEF InTx, Batch, Locks, Promise!FirstItems, BatchTypes
<1>3. BatchTypes'
  <2>1. tx' \in [Requests -> TxRecord]
    BY DEF BatchTypes
  <2> QED
    BY <1>1, <1>2, <2>1 DEF BatchTypes
<1>4. LocksExclude'
  BY <1>2 DEF LocksExclude
<1>5. NewIsNew'
  BY <1>1, <1>2 DEF NewIsNew
<1>6. LockedIsThere'
  <2> SUFFICES ASSUME NEW r \in Requests, InTx(r)', NEW k \in 1..tx'[r].locked
               PROVE  \/ ItemOf(r, k)' \in tx'[r].new \cup targets'
                      \/ tx'[r].pc = "store" /\ k = tx'[r].locked
    BY DEF LockedIsThere
  <2>1. ItemOf(r, k)' = ItemOf(r, k)
    BY <1>2 DEF ItemOf
  <2> QED
    BY <1>1, <1>2, <2>1 DEF LockedIsThere
<1>7. KeyIsOwn'
  <2>1. \A r \in Requests : (InTx(r)' <=> InTx(r)) /\ Batch(r)' = Batch(r)
    BY <1>2
  <2>2. \A r \in Requests : Rivals(r)' = Rivals(r)
    BY <2>1 DEF Rivals
  <2> QED
    BY <2>1, <2>2 DEF KeyIsOwn, Promise!SameKey
<1>8. ReceiptsDiffer' /\ AcceptedOnce'
  BY DEF ReceiptsDiffer, AcceptedOnce
<1>9. AnswersAreReceipts'
  BY <1>1, <1>2 DEF AnswersAreReceipts, Replies, ReceiptsFor
<1> QED
  BY <1>3, <1>4, <1>5, <1>6, <1>7, <1>8, <1>9

(* The lock of the next item, which no other transaction holds.            *)
LEMMA LockItemStep ==
  ASSUME BatchInv, NEW s \in Requests, LockItem(s)
  PROVE  BatchInv'
<1> DEFINE n == tx[s].locked + 1
           t == [tx[s] EXCEPT !.pc = "store", !.locked = n]
<1>1. /\ tx[s].pc = "lock" /\ InTx(s) /\ Batch(s) \in Batches /\ tx[s] \in TxRecord
      /\ n \in Nat /\ n > 0 /\ n <= Len(ItemsOf[Batch(s)])
      /\ ItemOf(s, n) \notin HeldByOthers(s)
      /\ tx' = [tx EXCEPT ![s].pc = "store", ![s].locked = n]
      /\ UNCHANGED <<receipts, targets, answers>>
  BY DEF LockItem, InTx, BatchInv, BatchTypes, TxRecord
<1>2. /\ t \in TxRecord /\ t.pc = "store" /\ t.batch = Batch(s) /\ t.locked = n
      /\ t.new = tx[s].new /\ tx' = [tx EXCEPT ![s] = t] /\ tx'[s] = t
  BY <1>1 DEF TxRecord, Batch, BatchInv, BatchTypes
<1>3. Locks(s)' = Locks(s) \cup {ItemOf(s, n)}
  <2>1. Locks(s)' = Promise!FirstItems(Batch(s), n)
    <3>1. Batch(s)' = Batch(s) /\ tx'[s].locked = n
      BY <1>2 DEF Batch
    <3> QED
      BY <3>1 DEF Locks, Promise!FirstItems
  <2>2. tx[s].locked \in Nat
    BY <1>1 DEF TxRecord
  <2> QED
    BY <1>1, <2>1, <2>2, FirstOnes DEF Locks, ItemOf
<1>4. \A r \in Requests \ {s} : InTx(r) => Locks(s)' \cap Locks(r) = {}
  <2> SUFFICES ASSUME NEW r \in Requests \ {s}, InTx(r)
               PROVE  Locks(s)' \cap Locks(r) = {}
    OBVIOUS
  <2>1. ItemOf(s, n) \notin Locks(r)
    BY <1>1 DEF HeldByOthers, Locks
  <2>2. Locks(s) \cap Locks(r) = {}
    BY <1>1 DEF BatchInv, LocksExclude
  <2> QED
    BY <1>3, <2>1, <2>2
<1>5. t.new \subseteq Locks(s)' \ targets
  BY <1>1, <1>2, <1>3 DEF BatchInv, NewIsNew
<1>6. \A k \in 1..n : ItemOf(s, k) \in tx[s].new \cup targets \/ k = n
  <2>1. \A k \in 1..n : k \in 1..tx[s].locked \/ k = n
    BY <1>1 DEF TxRecord
  <2> QED
    BY <1>1, <2>1 DEF BatchInv, LockedIsThere
<1> HIDE DEF t, n
<1> QED
  BY <1>1, <1>2, <1>4, <1>5, <1>6, InsideStep

(* The item is stored if it has no target yet.                             *)
LEMMA StoreItemStep ==
  ASSUME BatchInv, NEW s \in Requests, StoreItem(s)
  PROVE  BatchInv'
<1> DEFINE n == tx[s].locked
           t == [tx[s] EXCEPT !.pc = "lock", !.new = @ \cup ({ItemOf(s, n)} \ targets)]
<1>1. /\ tx[s].pc = "store" /\ InTx(s) /\ Batch(s) \in Batches /\ tx[s] \in TxRecord
      /\ n \in Nat /\ n > 0 /\ n <= Len(ItemsOf[Batch(s)])
      /\ tx' = [tx EXCEPT ![s].pc = "lock", ![s].new = @ \cup ({ItemOf(s, n)} \ targets)]
      /\ UNCHANGED <<receipts, targets, answers>>
  BY DEF StoreItem, InTx, BatchInv, BatchTypes, TxRecord
<1>2. ItemOf(s, n) \in Fingerprints /\ ItemOf(s, n) \in Locks(s)
  <2>1. n \in 1..Len(ItemsOf[Batch(s)]) /\ n \in 1..n
    BY <1>1, ItemsAreFingerprints
  <2> QED
    BY <1>1, <2>1, ItemsAreFingerprints, FirstOnes DEF ItemOf, Locks
<1>3. /\ t.new = tx[s].new \cup ({ItemOf(s, n)} \ targets)
      /\ t.pc = "lock" /\ t.batch = Batch(s) /\ t.locked = n
      /\ t.new \in SUBSET Fingerprints
  BY <1>1, <1>2 DEF TxRecord, Batch
<1>4. t \in TxRecord /\ tx' = [tx EXCEPT ![s] = t] /\ tx'[s] = t
  BY <1>1, <1>3 DEF TxRecord, BatchInv, BatchTypes
<1>5. Locks(s)' = Locks(s)
  BY <1>3, <1>4 DEF Locks, Batch, Promise!FirstItems
<1>6. \A r \in Requests \ {s} : InTx(r) => Locks(s)' \cap Locks(r) = {}
  BY <1>1, <1>5 DEF BatchInv, LocksExclude
<1>7. t.new \subseteq Locks(s)' \ targets
  BY <1>1, <1>2, <1>3, <1>5 DEF BatchInv, NewIsNew
<1>8. \A k \in 1..n : ItemOf(s, k) \in t.new \cup targets
  BY <1>1, <1>3 DEF BatchInv, LockedIsThere
<1> HIDE DEF t, n
<1> QED
  BY <1>1, <1>3, <1>4, <1>6, <1>7, <1>8, InsideStep

(* When all items are locked, what is new is what has no target.           *)
LEMMA NewAtCommit ==
  ASSUME BatchInv, NEW s \in Requests, CommitBatch(s)
  PROVE  tx[s].new = Promise!ItemSet(Batch(s)) \ targets
<1>1. /\ tx[s].pc = "lock" /\ InTx(s) /\ tx[s].locked = Len(ItemsOf[Batch(s)])
  BY DEF CommitBatch, InTx
<1>2. tx[s].new \subseteq Promise!ItemSet(Batch(s)) \ targets
  BY <1>1 DEF BatchInv, NewIsNew, Locks, Promise!ItemSet
<1>3. \A k \in 1..Len(ItemsOf[Batch(s)]) : ItemsOf[Batch(s)][k] \in tx[s].new \cup targets
  BY <1>1 DEF BatchInv, LockedIsThere, ItemOf
<1>4. Promise!ItemSet(Batch(s)) \ targets \subseteq tx[s].new
  BY <1>3 DEF Promise!ItemSet, Promise!FirstItems
<1> QED
  BY <1>2, <1>4

(* A commit publishes the receipt and its candidates at once.              *)
LEMMA CommitStep ==
  ASSUME BatchInv, NEW s \in Requests, CommitBatch(s)
  PROVE  BatchInv'
<1> USE DEF BatchInv
<1> DEFINE receipt == [batch |-> Batch(s), accepted |-> tx[s].new]
           t == [NoTx EXCEPT !.pc = "answer", !.batch = Batch(s), !.got = {receipt}]
<1>1. /\ tx[s].pc = "lock" /\ InTx(s) /\ Batch(s) \in Batches /\ tx[s] \in TxRecord
      /\ receipts' = receipts \cup {receipt} /\ targets' = targets \cup tx[s].new
      /\ tx' = [tx EXCEPT ![s] = t] /\ answers' = answers
  BY DEF CommitBatch, InTx, BatchTypes
<1>2. receipt \in Receipt /\ receipt.batch = Batch(s) /\ receipt.accepted = tx[s].new
  BY <1>1 DEF Receipt, TxRecord
<1>3. t \in TxRecord /\ t.pc = "answer" /\ t.batch = Batch(s) /\ t.got = {receipt}
  BY <1>1, <1>2 DEF NoTx, TxRecord
<1> HIDE DEF receipt, t
<1>4. tx'[s] = t /\ \A r \in Requests \ {s} : tx'[r] = tx[r]
  BY <1>1 DEF BatchTypes
<1>5. /\ ~InTx(s)' /\ Batch(s)' = Batch(s)
      /\ \A r \in Requests \ {s} : /\ InTx(r)' = InTx(r) /\ Batch(r)' = Batch(r)
                                   /\ Locks(r)' = Locks(r)
  BY <1>3, <1>4 DEF InTx, Batch, Locks, Promise!FirstItems
<1>6. BatchTypes'
  <2>1. tx' \in [Requests -> TxRecord] /\ receipts' \subseteq Receipt
    BY <1>1, <1>2, <1>3 DEF BatchTypes
  <2> QED
    BY <1>1, <1>3, <1>4, <1>5, <2>1 DEF BatchTypes
<1>7. LocksExclude'
  BY <1>5 DEF LocksExclude
<1>8. NewIsNew'
  <2> SUFFICES ASSUME NEW r \in Requests, InTx(r)'
               PROVE  tx'[r].new \subseteq Locks(r)' \ targets'
    BY DEF NewIsNew
  <2>1. /\ r # s /\ InTx(r) /\ tx'[r] = tx[r] /\ Locks(r)' = Locks(r)
    BY <1>4, <1>5
  <2>2. Locks(r) \cap Locks(s) = {} /\ tx[s].new \subseteq Locks(s)
    BY <1>1, <2>1 DEF LocksExclude, NewIsNew
  <2> QED
    BY <1>1, <2>1, <2>2 DEF NewIsNew
<1>9. LockedIsThere'
  <2> SUFFICES ASSUME NEW r \in Requests, InTx(r)', NEW k \in 1..tx'[r].locked
               PROVE  \/ ItemOf(r, k)' \in tx'[r].new \cup targets'
                      \/ tx'[r].pc = "store" /\ k = tx'[r].locked
    BY DEF LockedIsThere
  <2>1. /\ r # s /\ InTx(r) /\ tx'[r] = tx[r] /\ ItemOf(r, k)' = ItemOf(r, k)
    BY <1>4, <1>5 DEF ItemOf
  <2> QED
    BY <1>1, <2>1 DEF LockedIsThere
<1>10. KeyIsOwn'
  <2> SUFFICES ASSUME NEW r \in Requests, InTx(r)'
               PROVE  Promise!SameKey(Batch(r))' = {} /\ Rivals(r)' = {}
    BY DEF KeyIsOwn
  <2>1. r # s /\ InTx(r) /\ Batch(r)' = Batch(r)
    BY <1>5
  <2>2. KeyOf[Batch(s)] # KeyOf[Batch(r)] /\ Promise!SameKey(Batch(r)) = {} /\ Rivals(r) = {}
    BY <1>1, <2>1 DEF KeyIsOwn, Rivals
  <2>3. Rivals(r)' \subseteq Rivals(r)
    BY <1>5, <2>1 DEF Rivals
  <2> QED
    BY <1>1, <1>2, <2>1, <2>2, <2>3 DEF Promise!SameKey
<1>11. tx[s].new \cap targets = {}
  BY <1>1 DEF NewIsNew
<1>12. ReceiptsDiffer'
  <2>1. \A r \in receipts : KeyOf[r.batch] # KeyOf[receipt.batch]
    BY <1>1, <1>2 DEF KeyIsOwn, Promise!SameKey
  <2> QED
    BY <1>1, <1>2, <2>1 DEF ReceiptsDiffer
<1>13. AcceptedOnce'
  <2>1. \A r \in receipts : r.accepted \cap receipt.accepted = {}
    BY <1>2, <1>11 DEF ReceiptsDiffer
  <2> QED
    BY <1>1, <2>1 DEF AcceptedOnce
<1>14. AnswersAreReceipts'
  BY <1>1, <1>2, <1>3, <1>4, <1>5 DEF AnswersAreReceipts, Replies, ReceiptsFor
<1> QED
  BY <1>6, <1>7, <1>8, <1>9, <1>10, <1>12, <1>13, <1>14

-----------------------------------------------------------------------------
(* The theorems. *)

(* The invariant holds at first and is kept by every step.                 *)
LEMMA BatchInvHolds == BatchSpec => []BatchInv
<1>1. BatchInit => BatchInv
  <2> SUFFICES ASSUME BatchInit PROVE BatchInv
    OBVIOUS
  <2>1. \A s \in Requests : tx[s] = NoTx /\ tx[s].pc = "idle" /\ ~InTx(s)
    BY DEF BatchInit, NoTx, InTx
  <2>2. BatchTypes
    BY <2>1, NoTxType DEF BatchInit, BatchTypes
  <2> QED
    BY <2>1, <2>2 DEF BatchInit, BatchInv, LocksExclude, NewIsNew, LockedIsThere, KeyIsOwn,
         ReceiptsDiffer, AnswersAreReceipts, AcceptedOnce
<1>2. BatchInv /\ [BatchNext]_batchVars => BatchInv'
  <2> SUFFICES ASSUME BatchInv, [BatchNext]_batchVars PROVE BatchInv'
    OBVIOUS
  <2>1. CASE BatchNext
    BY <2>1, ArriveStep, LookUpStep, AddReceiptStep, LockItemStep, StoreItemStep, CommitStep,
       SendAnswerStep, RollBackStep DEF BatchNext
  <2>2. CASE UNCHANGED batchVars
    <3>1. receipts' = receipts /\ targets' = targets /\ tx' = tx /\ answers' = answers
      BY <2>2 DEF batchVars
    <3>2. \A s \in Requests : /\ Batch(s)' = Batch(s) /\ (InTx(s)' <=> InTx(s))
                             /\ Locks(s)' = Locks(s)
      BY <3>1 DEF Batch, InTx, Locks, Promise!FirstItems
    <3>3. \A s \in Requests : Rivals(s)' = Rivals(s)
      BY <3>2 DEF Rivals
    <3>4. BatchTypes' /\ LocksExclude' /\ NewIsNew'
      BY <3>1, <3>2 DEF BatchInv, BatchTypes, LocksExclude, NewIsNew
    <3>5. LockedIsThere' /\ KeyIsOwn'
      BY <3>1, <3>2, <3>3 DEF BatchInv, LockedIsThere, ItemOf, KeyIsOwn, Promise!SameKey
    <3>6. ReceiptsDiffer' /\ AnswersAreReceipts' /\ AcceptedOnce'
      BY <3>1, <3>2 DEF BatchInv, ReceiptsDiffer, AnswersAreReceipts, AcceptedOnce, Replies,
           ReceiptsFor
    <3> QED
      BY <3>4, <3>5, <3>6 DEF BatchInv
  <2> QED
    BY <2>1, <2>2
<1> QED
  BY <1>1, <1>2, PTL DEF BatchSpec

(* No candidate is accepted by two batches.                                *)
THEOREM CandidatesAcceptedOnce == BatchSpec => []AcceptedOnce
<1>1. BatchInv => AcceptedOnce
  BY DEF BatchInv
<1> QED
  BY <1>1, BatchInvHolds, PTL

(* Every answer is a committed receipt, and a key is answered alike.       *)
THEOREM AnswersAgree == BatchSpec => []AnswersStand
<1>1. BatchInv => AnswersStand
  BY DEF BatchInv, AnswersAreReceipts, ReceiptsDiffer, Replies, AnswersStand
<1> QED
  BY <1>1, BatchInvHolds, PTL

(* The transactions of the Postgres ingress amount to batches that are     *)
(* received in one step and once for their key (candidate-batch ingress).  *)
THEOREM ImplementsBatchReceipts == BatchSpec => Received
<1>1. BatchInit => Promise!ReceiptInit
  BY DEF BatchInit, Promise!ReceiptInit
<1>2. BatchInv /\ [BatchNext]_batchVars => [Promise!ReceiptNext]_(Promise!receiptVars)
  <2> SUFFICES ASSUME BatchInv, [BatchNext]_batchVars
               PROVE  Promise!ReceiptNext \/ UNCHANGED <<receipts, targets>>
    BY DEF Promise!receiptVars
  <2>1. ASSUME NEW s \in Requests, CommitBatch(s)
        PROVE  Promise!ReceiptNext
    <3>1. InTx(s) /\ Batch(s) \in Batches
      BY <2>1 DEF CommitBatch, InTx, BatchInv, BatchTypes
    <3>2. tx[s].new = Promise!ItemSet(Batch(s)) \ targets
      BY <2>1, NewAtCommit
    <3>3. Promise!SameKey(Batch(s)) = {}
      BY <3>1 DEF BatchInv, KeyIsOwn
    <3>4. Promise!ReceiveBatch(Batch(s))
      BY <2>1, <3>2, <3>3 DEF CommitBatch, Promise!ReceiveBatch
    <3> QED
      BY <3>1, <3>4 DEF Promise!ReceiptNext
  <2> QED
    BY <2>1 DEF BatchNext, batchVars, Arrive, LookUp, AddReceipt, LockItem, StoreItem,
         SendAnswer, RollBack
<1> QED
  BY <1>1, <1>2, BatchInvHolds, PTL DEF BatchSpec, Received, Promise!ReceiptSpec
=============================================================================
