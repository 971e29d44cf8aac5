---------------------------- MODULE SessionStore ----------------------------
(***************************************************************************)
(* What the single SQLite connection promises its callers: at most one of  *)
(* them has a transaction open, nobody else writes before it ends, and it  *)
(* takes effect at once or not at all.                                     *)
(***************************************************************************)
CONSTANTS Caller, Nobody, Write, WriterOf

VARIABLES
  holder,   \* the caller whose transaction is open, or Nobody
  pending,  \* what the open transaction wrote
  durable   \* what took effect

TypeOK ==
  /\ holder \in Caller \cup {Nobody}
  /\ pending \subseteq Write
  /\ durable \subseteq Write

Init ==
  /\ holder = Nobody
  /\ pending = {}
  /\ durable = {}

Begin(c) ==
  /\ holder = Nobody
  /\ holder' = c
  /\ UNCHANGED <<pending, durable>>

Buffer(w) ==
  /\ holder = WriterOf[w]
  /\ pending' = pending \cup {w}
  /\ UNCHANGED <<holder, durable>>

WriteThrough(w) ==
  /\ holder = Nobody
  /\ durable' = durable \cup {w}
  /\ UNCHANGED <<holder, pending>>

Commit ==
  /\ holder # Nobody
  /\ durable' = durable \cup pending
  /\ holder' = Nobody
  /\ pending' = {}

Abort ==
  /\ holder # Nobody
  /\ holder' = Nobody
  /\ pending' = {}
  /\ UNCHANGED durable

Next ==
  \/ \E c \in Caller : Begin(c)
  \/ \E w \in Write : Buffer(w) \/ WriteThrough(w)
  \/ Commit
  \/ Abort

Spec == Init /\ [][Next]_<<holder, pending, durable>>
=============================================================================
