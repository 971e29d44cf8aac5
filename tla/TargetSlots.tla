---------------------------- MODULE TargetSlots ----------------------------
(***************************************************************************)
(* What the provider leases promise about the targets, without queues,     *)
(* clocks or processes: a target has at most one holder, a lease holds one *)
(* target, and a lease that lost its target never holds one again.         *)
(***************************************************************************)
CONSTANTS Target, Lease, Nobody

VARIABLES
  holder,  \* the lease that holds a target, or Nobody
  spent    \* the leases that hold or have held a target

TypeOK ==
  /\ holder \in [Target -> Lease \cup {Nobody}]
  /\ spent \subseteq Lease

Init ==
  /\ holder = [t \in Target |-> Nobody]
  /\ spent = {}

Without(freed) == [t \in Target |-> IF t \in freed THEN Nobody ELSE holder[t]]

Free ==
  \E freed \in SUBSET Target :
    /\ holder' = Without(freed)
    /\ UNCHANGED spent

(* Acquiring may first free targets whose holders are taken for dead, the *)
(* acquired one among them.                                                *)
Acquire ==
  \E freed \in SUBSET Target, t \in Target, l \in Lease \ spent :
    /\ Without(freed)[t] = Nobody
    /\ holder' = [Without(freed) EXCEPT ![t] = l]
    /\ spent' = spent \cup {l}

Next == Free \/ Acquire

Spec == Init /\ [][Next]_<<holder, spent>>
=============================================================================
