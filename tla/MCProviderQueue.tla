-------------------------- MODULE MCProviderQueue --------------------------
(***************************************************************************)
(* Small instances of ProviderQueue for TLC: one or two jobs, lanes, pools *)
(* and targets.  The jobs of one lane are interchangeable, and so are the  *)
(* targets when no job prefers one.                                        *)
(***************************************************************************)
EXTENDS ProviderQueue, TLC

CONSTANTS j1, j2, q1, q2, p1, p2, a, b

OneLane == [j \in Job |-> q1]
TwoLanes == (j1 :> q1) @@ (j2 :> q2)
InOrder == [q \in Queue |-> IF q = q1 THEN 0 ELSE 1]

AllSplit == [q \in Queue |-> "split"]
AllCovering == [q \in Queue |-> "covering"]
AllGeneric == [q \in Queue |-> "generic"]
SplitAndCovering == (q1 :> "split") @@ (q2 :> "covering")
DetachedAndGeneric == (q1 :> "detached") @@ (q2 :> "generic")

EveryLane == [p \in Pool |-> Queue]
EveryTarget == [p \in Pool |-> Target]
OneShared == (p1 :> {a, b}) @@ (p2 :> {a})
One == [p \in Pool |-> 1]
Two == [p \in Pool |-> 2]

AnyTarget == [j \in Job |-> <<>>]
FirstThenAny == (j1 :> <<a, b>>) @@ (j2 :> <<>>)

Symmetric == Permutations({j1, j2}) \cup Permutations({a, b})
JobsSymmetric == Permutations({j1, j2})
TargetsSymmetric == Permutations({a, b})
=============================================================================
