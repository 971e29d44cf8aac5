---------------------------- MODULE BatchReceipts ----------------------------
(***************************************************************************)
(* What the candidate batch ingress promises: a batch of knowledge         *)
(* candidates is received in one step and once for its idempotency key,    *)
(* and accepts the candidates that no batch before it has accepted.  The   *)
(* SQLite version of the ingress is such a step, a transaction without an  *)
(* await in it; CandidateBatches is the Postgres version.                  *)
(***************************************************************************)
EXTENDS Naturals, Sequences

CONSTANTS
  Batches,      \* payloads, each sent under one idempotency key
  Fingerprints,
  KeyOf,        \* [Batches -> keys]
  ItemsOf       \* [Batches -> Seq(Fingerprints)]: the valid items of a batch

VARIABLES
  receipts,     \* committed receipts: the batch and what it has accepted
  targets       \* fingerprints that have entered the pipeline

receiptVars == <<receipts, targets>>

FirstItems(b, n) == {ItemsOf[b][k] : k \in 1..n}
ItemSet(b)  == FirstItems(b, Len(ItemsOf[b]))
SameKey(b)  == {r \in receipts : KeyOf[r.batch] = KeyOf[b]}

\* A key that has a receipt is answered from it, or refused when it stands
\* for another payload; either way nothing changes.
ReceiveBatch(b) ==
  LET new == ItemSet(b) \ targets
  IN  /\ SameKey(b) = {}
      /\ receipts' = receipts \cup {[batch |-> b, accepted |-> new]}
      /\ targets' = targets \cup new

ReceiptInit == receipts = {} /\ targets = {}
ReceiptNext == \E b \in Batches : ReceiveBatch(b)
ReceiptSpec == ReceiptInit /\ [][ReceiptNext]_receiptVars
=============================================================================
