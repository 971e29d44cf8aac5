------------------------- MODULE SqliteWriterProofs -------------------------
(***************************************************************************)
(* The single writer keeps its types, never lets two sessions share a      *)
(* transaction, and so implements SessionStore; and what its callers rely  *)
(* on: a commit that was answered is whole, a transaction is atomic, a     *)
(* reported write is durable, an owner is not set aside.  For every number *)
(* of clients, threads, statements and faults.                             *)
(***************************************************************************)
EXTENDS SqliteWriter, SequenceTheorems, TLAPS

-----------------------------------------------------------------------------
(* The callers. *)

(* The bounds are natural numbers. *)
LEMMA Bounds ==
  /\ Capacity \in Nat \ {0}
  /\ Deadline \in Nat \ {0}
  /\ Size \in Nat \ {0}
  /\ MaxUnits \in Nat \ {0}
  /\ MaxFaults \in Nat
BY SizeAssumption, FaultsAssumption

(* Time and faults start at zero, and a fault is counted within its bound. *)
LEMMA Counters ==
  /\ 0 \in 0..(Deadline + 1)
  /\ 0 \in 0..MaxFaults
  /\ faults \in 0..MaxFaults /\ Fault => faults' \in 0..MaxFaults
BY Bounds DEF Fault

(* A caller's next step is one of the stages, and its statement is within  *)
(* the transaction.                                                        *)
LEMMA AfterType ==
  ASSUME NEW s \in CallerState, NEW ok \in BOOLEAN
  PROVE  After(s, ok) \in CallerState
<1> DEFINE To(stage, n) == [s EXCEPT !.stage = stage, !.waiting = FALSE, !.n = n]
<1>1. ASSUME NEW stage \in Stages, NEW n \in 0..Size
      PROVE  To(stage, n) \in CallerState
  BY <1>1 DEF CallerState
<1>2. \A n \in 0..Size : [s EXCEPT !.waiting = FALSE, !.n = n] \in CallerState
  BY DEF CallerState
<1>3. {"write", "commit", "rollback", "idle"} \subseteq Stages /\ s.n \in 0..Size
  BY DEF CallerState, Stages, Kinds
<1>4. 0 \in 0..Size /\ 1 \in 0..Size /\ (s.n < Size => s.n + 1 \in 0..Size)
  BY <1>3, Bounds
<1>5. \/ After(s, ok) = To("write", 1)
      \/ s.n < Size /\ After(s, ok) = [s EXCEPT !.waiting = FALSE, !.n = s.n + 1]
      \/ After(s, ok) = To("commit", 0)
      \/ After(s, ok) = To("rollback", 0)
      \/ After(s, ok) = To("idle", 0)
  BY DEF After
<1> HIDE DEF To
<1>6. /\ To("write", 1) \in CallerState
      /\ To("commit", 0) \in CallerState
      /\ To("rollback", 0) \in CallerState
      /\ To("idle", 0) \in CallerState
  BY <1>1, <1>3, <1>4
<1>7. s.n < Size => [s EXCEPT !.waiting = FALSE, !.n = s.n + 1] \in CallerState
  BY <1>2, <1>4
<1> QED
  BY <1>5, <1>6, <1>7

(* A caller that gets an error in transport. *)
LEMMA FailedType ==
  ASSUME TypeOK, NEW c \in Caller
  PROVE  [caller EXCEPT ![c] = [After(@, FALSE) EXCEPT !.sure = FALSE]]
           \in [Caller -> CallerState]
<1>1. After(caller[c], FALSE) \in CallerState
  BY AfterType DEF TypeOK
<1>2. [After(caller[c], FALSE) EXCEPT !.sure = FALSE] \in CallerState
  BY <1>1 DEF CallerState
<1> QED
  BY <1>2 DEF TypeOK

(* What is in the queues is a command, and serving one leaves commands.    *)
LEMMA HeadType ==
  ASSUME NEW s \in Seq(Command), s # <<>>
  PROVE  Head(s) \in Command /\ Tail(s) \in Seq(Command) /\ Len(Tail(s)) = Len(s) - 1
BY HeadTailProperties

(* Whatever is not the shutdown is a call of a caller. *)
LEMMA CallType ==
  ASSUME NEW cmd \in Command, cmd.kind # "shutdown"
  PROVE  cmd \in Call
BY DEF Command, Shutdown

-----------------------------------------------------------------------------
(* Type correctness. *)

(* Executing a call writes proper rows, answers and owners. *)
LEMMA ExecuteType ==
  ASSUME TypeOK, NEW cmd \in Call, Execute(cmd)
  PROVE  /\ inTx' \in BOOLEAN
         /\ undo' \subseteq Write
         /\ db' \subseteq Write
         /\ owner' \in Caller \cup {Nobody}
         /\ held' \in 0..(Deadline + 1)
         /\ caller' \in [Caller -> CallerState]
         /\ done' \subseteq Caller \X Unit \X Reported
<1>1. PICK ok \in BOOLEAN : Sql(cmd, ok) /\ Own(cmd, ok) /\ Answer(cmd, ok)
  BY DEF Execute
<1>2. Written(cmd) \in Write /\ cmd.from \in Caller /\ cmd.unit \in Unit
  BY DEF Call, Written, Write
<1>3. inTx' \in BOOLEAN /\ undo' \subseteq Write /\ db' \subseteq Write
  BY <1>1, <1>2 DEF Sql, Statement, Rollback, sql, TypeOK
<1>4. owner' \in Caller \cup {Nobody} /\ held' \in 0..(Deadline + 1)
  BY <1>1, <1>2, Bounds DEF Own, TypeOK
<1>5. caller' \in [Caller -> CallerState]
  <2>1. After(caller[cmd.from], ok) \in CallerState
    BY <1>2, AfterType DEF TypeOK
  <2> QED
    BY <1>1, <2>1 DEF Answer, TypeOK
<1>6. done' \subseteq Caller \X Unit \X Reported
  BY <1>1, <1>2 DEF Answer, TypeOK
<1> QED
  BY <1>3, <1>4, <1>5, <1>6

(* Serving a command from either queue keeps the types. *)
LEMMA ServeType ==
  ASSUME TypeOK, ServeDeferred \/ ServeChannel
  PROVE  TypeOK'
<1>1. ASSUME NEW cmd \in Command, cmd.kind # "shutdown", Execute(cmd),
             channel' \in Seq(Command), Len(channel') <= Capacity,
             deferred' \in Seq(Command)
      PROVE  TypeOK'
  <2>1. cmd \in Call
    BY <1>1, CallType
  <2>2. UNCHANGED <<serving, outbox, broken, faults>>
    BY <1>1 DEF Execute
  <2> QED
    BY <1>1, <2>1, <2>2, ExecuteType DEF TypeOK
<1>2. ASSUME Stop
      PROVE  TypeOK'
  <2>1. <<>> \in Seq(Command) /\ Len(<<>>) <= Capacity
    BY EmptySeq, Bounds
  <2> QED
    BY <1>2, <2>1 DEF Stop, TypeOK, sql
<1>3. CASE ServeDeferred
  <2>1. Head(deferred) \in Command /\ Tail(deferred) \in Seq(Command)
    BY <1>3, HeadType DEF ServeDeferred, TypeOK
  <2> QED
    BY <1>1, <1>2, <1>3, <2>1 DEF ServeDeferred, Serve, TypeOK
<1>4. CASE ServeChannel
  <2>1. /\ Head(channel) \in Command
        /\ Tail(channel) \in Seq(Command)
        /\ Len(Tail(channel)) <= Capacity
    <3>1. Len(channel) \in Nat
      BY LenProperties DEF TypeOK
    <3> QED
      BY <1>4, <3>1, HeadType, Bounds DEF ServeChannel, TypeOK
  <2> QED
    BY <1>1, <1>2, <1>4, <2>1 DEF ServeChannel, Serve, TypeOK
<1> QED
  BY <1>3, <1>4

(* Setting a command aside and accepting one keep the types of the queues. *)
LEMMA QueueType ==
  ASSUME TypeOK, Defer \/ Accept
  PROVE  TypeOK'
<1>1. CASE Defer
  <2>1. /\ Head(channel) \in Command
        /\ Tail(channel) \in Seq(Command)
        /\ Len(Tail(channel)) <= Capacity
    <3>1. Len(channel) \in Nat
      BY LenProperties DEF TypeOK
    <3> QED
      BY <1>1, <3>1, HeadType, Bounds DEF Defer, TypeOK
  <2>2. Append(deferred, Head(channel)) \in Seq(Command)
    BY <2>1, AppendProperties DEF TypeOK
  <2> QED
    BY <1>1, <2>1, <2>2 DEF Defer, TypeOK, sql
<1>2. CASE Accept
  <2>1. PICK cmd \in outbox : outbox' = outbox \ {cmd} /\ channel' = Append(channel, cmd)
    BY <1>2 DEF Accept
  <2>2. channel' \in Seq(Command) /\ Len(channel') = Len(channel) + 1 /\ Len(channel) \in Nat
    BY <2>1, AppendProperties, LenProperties DEF TypeOK
  <2> QED
    BY <1>2, <2>1, <2>2, Bounds DEF Accept, TypeOK, sql
<1> QED
  BY <1>1, <1>2

(* A caller's step keeps the types. *)
LEMMA CallerStepType ==
  ASSUME TypeOK, NEW c \in Caller, CallerStep(c)
  PROVE  TypeOK'
<1>1. CASE Start(c)
  <2>1. PICK kind \in {"begin", "single", "job"} :
          caller' = [caller EXCEPT ![c].stage = kind, ![c].unit = @ + 1]
    BY <1>1 DEF Start
  <2>2. caller[c] \in CallerState /\ caller[c].unit + 1 \in Unit
    <3>1. caller[c] \in CallerState
      BY DEF TypeOK
    <3>2. caller[c].unit \in Unit
      BY <3>1 DEF CallerState
    <3> QED
      BY <1>1, <3>1, <3>2, Bounds DEF Start, Unit
  <2>3. caller' \in [Caller -> CallerState]
    BY <2>1, <2>2 DEF TypeOK, CallerState, Stages, Kinds
  <2> QED
    BY <1>1, <2>3 DEF Start, TypeOK, queue, sql
<1>2. CASE Send(c)
  <2>1. Present(c) \in Command
    BY <1>2 DEF Send, Present, Command, Call, TypeOK, CallerState
  <2>2. caller' \in [Caller -> CallerState]
    BY <1>2 DEF Send, TypeOK, CallerState
  <2> QED
    BY <1>2, <2>1, <2>2 DEF Send, TypeOK, sql
<1>3. CASE Lose(c)
  BY <1>3, Counters DEF Lose, TypeOK, sql
<1>4. CASE GiveUp(c)
  BY <1>4, FailedType, Counters DEF GiveUp, TypeOK, queue, sql
<1>5. CASE Refuse(c)
  BY <1>5, FailedType DEF Refuse, TypeOK, sql
<1>6. CASE Die(c)
  <2>1. caller' \in [Caller -> CallerState]
    BY <1>6 DEF Die, TypeOK, CallerState, Stages
  <2> QED
    BY <1>6, <2>1, Counters DEF Die, TypeOK, queue, sql
<1>7. CASE Throw(c)
  <2>1. After(caller[c], FALSE) \in CallerState
    BY AfterType DEF TypeOK
  <2> QED
    BY <1>7, <2>1 DEF Throw, TypeOK, queue, sql
<1> QED
  BY <1>1, <1>2, <1>3, <1>4, <1>5, <1>6, <1>7 DEF CallerStep

(* Deadline, time, shutdown, crash and restart keep the types. *)
LEMMA LoopStepType ==
  ASSUME TypeOK, Expire \/ Tick \/ RequestShutdown \/ Crash \/ Restart
  PROVE  TypeOK'
<1>1. CASE Expire
  BY <1>1, Counters DEF Expire, Rollback, TypeOK, queue
<1>2. CASE Tick
  BY <1>2, Bounds DEF Tick, TypeOK, queue, sql
<1>3. CASE RequestShutdown
  BY <1>3 DEF RequestShutdown, Command, TypeOK, sql
<1>4. CASE Crash
  <2>1. <<>> \in Seq(Command) /\ Len(<<>>) <= Capacity
    BY EmptySeq, Bounds
  <2> QED
    BY <1>4, <2>1, Counters DEF Crash, Rollback, TypeOK
<1>5. CASE Restart
  BY <1>5, Counters DEF Restart, TypeOK, queue, sql
<1> QED
  BY <1>1, <1>2, <1>3, <1>4, <1>5

(* The writer starts with empty queues and an idle connection. *)
LEMMA InitType == Init => TypeOK
<1>1. <<>> \in Seq(Command) /\ Len(<<>>) <= Capacity
  BY EmptySeq, Bounds
<1>2. [stage |-> "idle", waiting |-> FALSE, unit |-> 0, n |-> 0, sure |-> TRUE]
        \in CallerState
  BY Bounds DEF CallerState, Stages, Unit
<1> QED
  BY <1>1, <1>2, Counters DEF Init, TypeOK

(* Every step keeps the types. *)
LEMMA StepType == TypeOK /\ [Next]_vars => TypeOK'
<1> SUFFICES ASSUME TypeOK, [Next]_vars
             PROVE  TypeOK'
  OBVIOUS
<1>1. CASE UNCHANGED vars
  BY <1>1 DEF vars, queue, sql, TypeOK
<1>2. CASE Next
  BY <1>2, CallerStepType, ServeType, QueueType, LoopStepType DEF Next, Writer
<1> QED
  BY <1>1, <1>2

(* Every reachable state has a channel within its capacity, commands of    *)
(* known callers, and an owner that is one of them.                        *)
THEOREM TypeCorrect == Spec => []TypeOK
BY InitType, StepType, PTL DEF Spec

-----------------------------------------------------------------------------
(* One session per transaction. *)

(* A command is executed for the owner of the open transaction, or when    *)
(* there is none; then the connection has no transaction open either.      *)
LEMMA ExecuteSession ==
  ASSUME TypeOK, OneSessionPerTransaction, NEW cmd \in Call,
         owner \in {Nobody, cmd.from}, Execute(cmd)
  PROVE  OneSessionPerTransaction'
<1>1. PICK ok \in BOOLEAN : Sql(cmd, ok) /\ Own(cmd, ok)
  BY DEF Execute
<1>2. cmd.from # Nobody /\ cmd.kind \in Kinds
  BY CallerAssumption DEF Call
<1>3. CASE cmd.kind = "begin" /\ ok
  <2>1. inTx' = TRUE /\ undo' = {} /\ owner' = cmd.from
    BY <1>1, <1>3 DEF Sql, Own, Ends, OneSessionPerTransaction
  <2> QED
    BY <2>1, <1>2 DEF OneSessionPerTransaction
<1>4. CASE cmd.kind \in {"write", "single", "job"} /\ ok
  <2>1. Statement(cmd) /\ owner' = owner
    BY <1>1, <1>4 DEF Sql, Own, Ends
  <2>2. CASE inTx
    <3>1. owner = cmd.from /\ inTx' = inTx /\ undo' = undo \cup {Written(cmd)}
      BY <2>1, <2>2 DEF Statement, OneSessionPerTransaction
    <3> QED
      BY <2>1, <2>2, <3>1 DEF OneSessionPerTransaction, Written
  <2>3. CASE ~inTx
    BY <2>1, <2>3 DEF Statement, OneSessionPerTransaction
  <2> QED
    BY <2>2, <2>3
<1>5. CASE cmd.kind \in {"commit", "rollback"}
  <2>1. inTx' = FALSE /\ undo' = {}
    BY <1>1, <1>5 DEF Sql, Rollback
  <2> QED
    BY <2>1 DEF OneSessionPerTransaction
<1>6. CASE cmd.kind \in {"begin", "write", "single", "job"} /\ ~ok
  <2>1. owner' = owner /\ (UNCHANGED sql \/ Rollback)
    BY <1>1, <1>6 DEF Sql, Own, Ends
  <2> QED
    BY <2>1 DEF Rollback, sql, OneSessionPerTransaction
<1> QED
  BY <1>2, <1>3, <1>4, <1>5, <1>6 DEF Kinds

(* What the writer serves is for the owner, or nobody owns.  The command   *)
(* comes from a queue, so it is a call or the shutdown.                    *)
LEMMA Served ==
  ASSUME TypeOK, ServeDeferred \/ ServeChannel
  PROVE  \/ Stop
         \/ \E cmd \in Call : owner \in {Nobody, cmd.from} /\ Execute(cmd)
<1>1. CASE ServeDeferred
  <2>1. Head(deferred) \in Command
    BY <1>1, HeadType DEF ServeDeferred, TypeOK
  <2> QED
    BY <1>1, <2>1, CallType DEF ServeDeferred, Serve
<1>2. CASE ServeChannel
  <2>1. Head(channel) \in Command
    BY <1>2, HeadType DEF ServeChannel, TypeOK
  <2> QED
    BY <1>2, <2>1, CallType DEF ServeChannel, Serve
<1> QED
  BY <1>1, <1>2

(* The steps that do not touch the connection or its owner. *)
Aside ==
  \/ \E c \in Caller : CallerStep(c)
  \/ Defer \/ Accept \/ Tick \/ RequestShutdown \/ Restart \/ Stop

(* A step is aside, executes a call in turn, or ends a transaction.        *)
LEMMA StepKinds ==
  ASSUME TypeOK, [Next]_vars
  PROVE  \/ UNCHANGED <<sql, owner>>
         \/ \E cmd \in Call : owner \in {Nobody, cmd.from} /\ Execute(cmd)
         \/ Rollback /\ owner' = Nobody
<1>1. CASE UNCHANGED vars
  BY <1>1 DEF vars
<1>2. CASE Aside
  BY <1>2 DEF Aside, CallerStep, Start, Throw, Send, Lose, GiveUp, Refuse, Die, Defer, Accept, Tick,
              RequestShutdown, Restart, Stop
<1>3. CASE ServeDeferred \/ ServeChannel
  BY <1>3, Served DEF Stop
<1>4. CASE Expire \/ Crash
  BY <1>4 DEF Expire, Crash
<1> QED
  BY <1>1, <1>2, <1>3, <1>4 DEF Next, Writer, Aside

(* Every step keeps the session of a transaction. *)
LEMMA StepSession ==
  ASSUME TypeOK, OneSessionPerTransaction, [Next]_vars
  PROVE  OneSessionPerTransaction'
<1>1. CASE UNCHANGED <<sql, owner>>
  BY <1>1 DEF sql, OneSessionPerTransaction
<1>2. CASE \E cmd \in Call : owner \in {Nobody, cmd.from} /\ Execute(cmd)
  BY <1>2, ExecuteSession
<1>3. CASE Rollback /\ owner' = Nobody
  BY <1>3 DEF Rollback, OneSessionPerTransaction
<1> QED
  BY <1>1, <1>2, <1>3, StepKinds

(* A statement of another client or a job of the daemon never joins a      *)
(* transaction that is not its own: an open transaction has an owner, and  *)
(* all it wrote is the owner's.                                            *)
THEOREM OneSession == Spec => []OneSessionPerTransaction
<1>1. Init => OneSessionPerTransaction
  BY DEF Init, OneSessionPerTransaction
<1> QED
  BY <1>1, TypeCorrect, StepSession, PTL DEF Spec

-----------------------------------------------------------------------------
(* The refinement. *)

(* The store does not see the step. *)
Unseen == UNCHANGED <<IF inTx THEN owner ELSE Nobody, undo, db>>

(* Executing a call is a step of the store or leaves it as it is.          *)
LEMMA ExecuteStore ==
  ASSUME TypeOK, OneSessionPerTransaction, NEW cmd \in Call,
         owner \in {Nobody, cmd.from}, Execute(cmd)
  PROVE  Store!Next \/ Unseen
<1>1. PICK ok \in BOOLEAN : Sql(cmd, ok) /\ Own(cmd, ok)
  BY DEF Execute
<1>2. /\ cmd.from # Nobody /\ cmd.from \in Caller /\ cmd.kind \in Kinds
      /\ Written(cmd) \in Write /\ Written(cmd)[1] = cmd.from
  BY CallerAssumption DEF Call, Written, Write
<1>3. inTx => owner = cmd.from
  BY DEF OneSessionPerTransaction
<1>4. CASE cmd.kind = "begin" /\ ok
  <2>1. ~inTx /\ inTx' /\ owner' = cmd.from /\ UNCHANGED <<undo, db>>
    BY <1>1, <1>4 DEF Sql, Own, Ends
  <2>2. Store!Begin(cmd.from)
    BY <2>1 DEF Store!Begin
  <2> QED
    BY <1>2, <2>2 DEF Store!Next
<1>5. CASE cmd.kind \in {"write", "single", "job"} /\ ok
  <2>1. Statement(cmd) /\ owner' = owner
    BY <1>1, <1>5 DEF Sql, Own, Ends
  <2>2. CASE inTx
    <3>1. Store!Buffer(Written(cmd))
      BY <1>2, <1>3, <2>1, <2>2 DEF Statement, Store!Buffer
    <3> QED
      BY <1>2, <3>1 DEF Store!Next
  <2>3. CASE ~inTx
    <3>1. Store!WriteThrough(Written(cmd))
      BY <2>1, <2>3 DEF Statement, Store!WriteThrough
    <3> QED
      BY <1>2, <3>1 DEF Store!Next
  <2> QED
    BY <2>2, <2>3
<1>6. CASE cmd.kind = "commit" /\ ok
  <2>1. inTx /\ ~inTx' /\ undo' = {} /\ db' = db \cup undo
    BY <1>1, <1>6 DEF Sql
  <2>2. Store!Commit
    BY <1>2, <1>3, <2>1 DEF Store!Commit
  <2> QED
    BY <2>2 DEF Store!Next
<1>7. CASE Rollback
  <2>1. CASE inTx
    <3>1. Store!Abort
      BY <1>2, <1>3, <1>7, <2>1 DEF Rollback, Store!Abort
    <3> QED
      BY <3>1 DEF Store!Next
  <2>2. CASE ~inTx
    <3>1. undo = {}
      BY <2>2 DEF OneSessionPerTransaction
    <3> QED
      BY <1>7, <2>2, <3>1 DEF Rollback, Unseen
  <2> QED
    BY <2>1, <2>2
<1>8. CASE UNCHANGED sql /\ owner' = owner
  BY <1>8 DEF sql, Unseen
<1> QED
  <2>1. CASE cmd.kind \in {"commit", "rollback"} /\ ~(cmd.kind = "commit" /\ ok)
    BY <1>1, <1>7, <2>1 DEF Sql
  <2>2. CASE cmd.kind \in {"begin", "write", "single", "job"} /\ ~ok
    BY <1>1, <1>7, <1>8, <2>2 DEF Sql, Own, Ends
  <2> QED
    BY <1>2, <1>4, <1>5, <1>6, <2>1, <2>2 DEF Kinds

(* A rollback of the loop or a crash is an abort of the store.             *)
LEMMA RollbackStore ==
  ASSUME TypeOK, OneSessionPerTransaction, Rollback, owner' = Nobody
  PROVE  Store!Next \/ Unseen
<1>1. CASE inTx
  <2>1. Store!Abort
    BY <1>1 DEF Rollback, OneSessionPerTransaction, Store!Abort
  <2> QED
    BY <2>1 DEF Store!Next
<1>2. CASE ~inTx
  BY <1>2 DEF Rollback, OneSessionPerTransaction, Unseen
<1> QED
  BY <1>1, <1>2

(* Whatever clients, threads and faults do, the connection behaves as a    *)
(* store with one session at a time, whose transactions take effect at     *)
(* once or not at all.                                                     *)
THEOREM ImplementsSessionStore == Spec => StoreSpec
<1>1. Init => Store!Init
  BY DEF Init, Store!Init
<1>2. TypeOK /\ OneSessionPerTransaction /\ [Next]_vars =>
        [Store!Next]_<<IF inTx THEN owner ELSE Nobody, undo, db>>
  BY StepKinds, ExecuteStore, RollbackStore DEF sql, Unseen
<1> QED
  BY <1>1, <1>2, TypeCorrect, OneSession, PTL DEF Spec, StoreSpec, Store!Spec

-----------------------------------------------------------------------------
(* The commands of a caller that had the answer to each of its calls.      *)

(* No command of the caller is in the queue, or one at most.               *)
Absent(c, s) == \A i \in DOMAIN s : s[i].from # c
AtMostOne(c, s) == \A i, j \in DOMAIN s : (s[i].from = c /\ s[j].from = c) => i = j

Queued == outbox \cup Elements(channel) \cup Elements(deferred)

(* Its call is in one place. *)
Once(c) ==
  /\ \A x, y \in outbox : (x.from = c /\ y.from = c) => x = y
  /\ AtMostOne(c, channel) /\ AtMostOne(c, deferred)
  /\ (\E x \in outbox : x.from = c) => Absent(c, channel) /\ Absent(c, deferred)
  /\ Absent(c, channel) \/ Absent(c, deferred)

(* The head of a queue leaves it. *)
LEMMA TailOnce ==
  ASSUME NEW s \in Seq(Command), s # <<>>
  PROVE  /\ Elements(Tail(s)) \subseteq Elements(s)
         /\ Head(s) \in Elements(s)
         /\ \A c : /\ Absent(c, s) => Absent(c, Tail(s)) /\ Head(s).from # c
                   /\ AtMostOne(c, s) => AtMostOne(c, Tail(s))
                   /\ (AtMostOne(c, s) /\ Head(s).from = c) => Absent(c, Tail(s))
<1>1. /\ Len(s) \in Nat /\ DOMAIN s = 1..Len(s) /\ 1 \in DOMAIN s
      /\ Head(s) = s[1]
      /\ DOMAIN Tail(s) = 1..(Len(s) - 1)
      /\ \A i \in 1..(Len(s) - 1) : Tail(s)[i] = s[i + 1] /\ i + 1 \in DOMAIN s
  BY HeadTailProperties, LenProperties
<1>2. Elements(Tail(s)) \subseteq Elements(s) /\ Head(s) \in Elements(s)
  BY <1>1 DEF Elements
<1>3. ASSUME NEW c, Absent(c, s)
      PROVE  Absent(c, Tail(s)) /\ Head(s).from # c
  BY <1>1, <1>3 DEF Absent
<1>4. ASSUME NEW c, AtMostOne(c, s)
      PROVE  AtMostOne(c, Tail(s))
  <2> SUFFICES ASSUME NEW i \in DOMAIN Tail(s), NEW j \in DOMAIN Tail(s),
                      Tail(s)[i].from = c, Tail(s)[j].from = c
               PROVE  i = j
    BY DEF AtMostOne
  <2>1. i + 1 = j + 1
    BY <1>1, <1>4 DEF AtMostOne
  <2> QED
    BY <1>1, <2>1
<1>5. ASSUME NEW c, AtMostOne(c, s), Head(s).from = c, NEW i \in DOMAIN Tail(s)
      PROVE  Tail(s)[i].from # c
  <2>1. i + 1 \in DOMAIN s /\ i + 1 # 1 /\ Tail(s)[i] = s[i + 1]
    BY <1>1
  <2> QED
    BY <1>1, <1>5, <2>1 DEF AtMostOne
<1> QED
  BY <1>2, <1>3, <1>4, <1>5 DEF Absent

(* A command comes to its end. *)
LEMMA AppendOnce ==
  ASSUME NEW s \in Seq(Command), NEW x \in Command
  PROVE  /\ Elements(Append(s, x)) = Elements(s) \cup {x}
         /\ \A c : /\ (Absent(c, s) /\ x.from # c) => Absent(c, Append(s, x))
                   /\ (AtMostOne(c, s) /\ (x.from = c => Absent(c, s)))
                        => AtMostOne(c, Append(s, x))
<1> DEFINE t == Append(s, x)
<1>1. /\ Len(s) \in Nat /\ DOMAIN s = 1..Len(s)
      /\ DOMAIN t = 1..(Len(s) + 1)
      /\ \A i \in 1..Len(s) : t[i] = s[i]
      /\ t[Len(s) + 1] = x
  BY AppendProperties, LenProperties
<1> HIDE DEF t
<1>2. \A i \in DOMAIN t : (i \in DOMAIN s /\ t[i] = s[i]) \/ (i = Len(s) + 1 /\ t[i] = x)
  BY <1>1
<1>3. \A i \in DOMAIN s : i \in DOMAIN t /\ t[i] = s[i]
  BY <1>1
<1>4. Len(s) + 1 \in DOMAIN t /\ t[Len(s) + 1] = x
  BY <1>1
<1>5. Elements(t) = Elements(s) \cup {x}
  BY <1>2, <1>3, <1>4 DEF Elements
<1>6. ASSUME NEW c, Absent(c, s), x.from # c
      PROVE  Absent(c, t)
  BY <1>2, <1>6 DEF Absent
<1>7. ASSUME NEW c, AtMostOne(c, s), x.from = c => Absent(c, s)
      PROVE  AtMostOne(c, t)
  BY <1>2, <1>7 DEF AtMostOne, Absent
<1> QED
  BY <1>5, <1>6, <1>7 DEF t

(* Absence, in terms of the commands. *)
LEMMA AbsentElements ==
  ASSUME NEW s, NEW c
  PROVE  Absent(c, s) <=> \A x \in Elements(s) : x.from # c
BY DEF Absent, Elements

(* A command on its way to the writer stays the only one of its caller.    *)
LEMMA MovesOnce ==
  ASSUME TypeOK, Accept \/ Defer
  PROVE  Queued' \subseteq Queued /\ \A c : Once(c) => Once(c)'
<1>1. CASE Accept
  <2>1. PICK cmd \in outbox : /\ outbox' = outbox \ {cmd}
                              /\ channel' = Append(channel, cmd) /\ deferred' = deferred
    BY <1>1 DEF Accept
  <2>2. cmd \in Command /\ channel \in Seq(Command)
    BY DEF TypeOK
  <2>3. Elements(channel') = Elements(channel) \cup {cmd}
    BY <2>1, <2>2, AppendOnce
  <2>4. ASSUME NEW c, Once(c)
        PROVE  Once(c)'
    <3>1. CASE cmd.from = c
      <4>1. Absent(c, channel) /\ Absent(c, deferred) /\ \A x \in outbox' : x.from # c
        BY <2>1, <2>4, <3>1 DEF Once
      <4>2. AtMostOne(c, channel')
        BY <2>1, <2>2, <2>4, <4>1, AppendOnce DEF Once
      <4> QED
        BY <2>1, <2>4, <4>1, <4>2 DEF Once
    <3>2. CASE cmd.from # c
      <4>1. /\ Absent(c, channel) => Absent(c, channel')
            /\ AtMostOne(c, channel) => AtMostOne(c, channel')
        BY <2>1, <2>2, <3>2, AppendOnce
      <4> QED
        BY <2>1, <2>4, <4>1 DEF Once
    <3> QED
      BY <3>1, <3>2
  <2> QED
    BY <2>1, <2>3, <2>4 DEF Queued
<1>2. CASE Defer
  <2> DEFINE cmd == Head(channel)
  <2>1. /\ outbox' = outbox /\ channel' = Tail(channel) /\ deferred' = Append(deferred, cmd)
        /\ channel # <<>>
    BY <1>2 DEF Defer
  <2>2. /\ cmd \in Command /\ channel \in Seq(Command) /\ deferred \in Seq(Command)
        /\ cmd \in Elements(channel)
    BY <2>1, HeadType, TailOnce DEF TypeOK
  <2>3. /\ Elements(channel') \subseteq Elements(channel)
        /\ \A c : /\ Absent(c, channel) => Absent(c, channel') /\ cmd.from # c
                  /\ AtMostOne(c, channel) => AtMostOne(c, channel')
                  /\ (AtMostOne(c, channel) /\ cmd.from = c) => Absent(c, channel')
    BY <2>1, <2>2, TailOnce
  <2> HIDE DEF cmd
  <2>4. Elements(deferred') = Elements(deferred) \cup {cmd}
    BY <2>1, <2>2, AppendOnce
  <2>5. ASSUME NEW c, Once(c)
        PROVE  Once(c)'
    <3>1. CASE cmd.from = c
      <4>1. Absent(c, deferred) /\ Absent(c, channel') /\ \A x \in outbox' : x.from # c
        BY <2>1, <2>3, <2>5, <3>1 DEF Once
      <4>2. AtMostOne(c, deferred')
        BY <2>1, <2>2, <2>5, <4>1, AppendOnce DEF Once
      <4> QED
        BY <2>1, <2>3, <2>5, <4>1, <4>2 DEF Once
    <3>2. CASE cmd.from # c
      <4>1. /\ Absent(c, deferred) => Absent(c, deferred')
            /\ AtMostOne(c, deferred) => AtMostOne(c, deferred')
        BY <2>1, <2>2, <3>2, AppendOnce
      <4> QED
        BY <2>1, <2>3, <2>5, <4>1 DEF Once
    <3> QED
      BY <3>1, <3>2
  <2> QED
    BY <2>1, <2>2, <2>3, <2>4, <2>5 DEF Queued
<1> QED
  BY <1>1, <1>2

(* What the writer serves was the only command of its caller.              *)
LEMMA ServesOnce ==
  ASSUME TypeOK, ServeDeferred \/ ServeChannel
  PROVE  \/ Stop
         \/ \E cmd \in Call :
              /\ owner \in {Nobody, cmd.from} /\ Execute(cmd)
              /\ cmd \in Queued /\ Queued' \subseteq Queued
              /\ Elements(deferred') \subseteq Elements(deferred)
              /\ \A c : Once(c) => Once(c)'
              /\ Once(cmd.from) => \A x \in Queued' : x.from # cmd.from
<1>1. CASE ServeDeferred /\ ~Stop
  <2> DEFINE cmd == Head(deferred)
  <2>1. /\ deferred # <<>> /\ cmd.kind # "shutdown" /\ Execute(cmd) /\ owner = Nobody
        /\ deferred' = Tail(deferred) /\ channel' = channel
    BY <1>1 DEF ServeDeferred, Serve
  <2>2. /\ cmd \in Command /\ deferred \in Seq(Command) /\ cmd \in Elements(deferred)
        /\ outbox' = outbox
    BY <2>1, HeadType, TailOnce DEF TypeOK, Execute
  <2>3. /\ Elements(deferred') \subseteq Elements(deferred)
        /\ \A c : /\ Absent(c, deferred) => Absent(c, deferred') /\ cmd.from # c
                  /\ AtMostOne(c, deferred) => AtMostOne(c, deferred')
                  /\ (AtMostOne(c, deferred) /\ cmd.from = c) => Absent(c, deferred')
    BY <2>1, <2>2, TailOnce
  <2>4. cmd \in Call
    BY <2>1, <2>2, CallType
  <2> HIDE DEF cmd
  <2>5. \A c : Once(c) => Once(c)'
    BY <2>1, <2>2, <2>3 DEF Once
  <2>6. ASSUME Once(cmd.from)
        PROVE  \A x \in Queued' : x.from # cmd.from
    <3>1. /\ Absent(cmd.from, deferred') /\ Absent(cmd.from, channel')
          /\ \A x \in outbox' : x.from # cmd.from
      BY <2>1, <2>2, <2>3, <2>6 DEF Once
    <3> QED
      BY <3>1, AbsentElements DEF Queued
  <2> QED
    BY <2>1, <2>2, <2>3, <2>4, <2>5, <2>6 DEF Queued
<1>2. CASE ServeChannel /\ ~Stop
  <2> DEFINE cmd == Head(channel)
  <2>1. /\ channel # <<>> /\ cmd.kind # "shutdown" /\ Execute(cmd)
        /\ owner \in {Nobody, cmd.from}
        /\ channel' = Tail(channel) /\ deferred' = deferred
    BY <1>2 DEF ServeChannel, Serve
  <2>2. /\ cmd \in Command /\ channel \in Seq(Command) /\ cmd \in Elements(channel)
        /\ outbox' = outbox
    BY <2>1, HeadType, TailOnce DEF TypeOK, Execute
  <2>3. /\ Elements(channel') \subseteq Elements(channel)
        /\ \A c : /\ Absent(c, channel) => Absent(c, channel') /\ cmd.from # c
                  /\ AtMostOne(c, channel) => AtMostOne(c, channel')
                  /\ (AtMostOne(c, channel) /\ cmd.from = c) => Absent(c, channel')
    BY <2>1, <2>2, TailOnce
  <2>4. cmd \in Call
    BY <2>1, <2>2, CallType
  <2> HIDE DEF cmd
  <2>5. \A c : Once(c) => Once(c)'
    BY <2>1, <2>2, <2>3 DEF Once
  <2>6. ASSUME Once(cmd.from)
        PROVE  \A x \in Queued' : x.from # cmd.from
    <3>1. /\ Absent(cmd.from, channel') /\ Absent(cmd.from, deferred')
          /\ \A x \in outbox' : x.from # cmd.from
      BY <2>1, <2>2, <2>3, <2>6 DEF Once
    <3> QED
      BY <3>1, AbsentElements DEF Queued
  <2> QED
    BY <2>1, <2>2, <2>3, <2>4, <2>5, <2>6 DEF Queued
<1> QED
  BY <1>1, <1>2

-----------------------------------------------------------------------------
(* What is known of a caller that had the answer to each of its calls.     *)

(* Where a caller stands: in its program, and in the queues of the writer, *)
(* which serves what it left there also after it died.                     *)
Stands(c, kind, n) ==
  \/ kind # "dead" /\ kind = caller[c].stage /\ n = caller[c].n
  \/ \E cmd \in Queued : cmd.from = c /\ cmd.kind = kind /\ cmd.n = n

(* An own transaction has the first n writes of the caller's unit.         *)
First(c, u, n) == {<<c, u, k>> : k \in 1..n}
InOrder(c, n) == owner = c => inTx /\ undo = First(c, caller[c].unit, n)

(* The session of a caller before its statement: none before a BEGIN or a  *)
(* single write; before a write or the COMMIT its own, with the statements *)
(* before, unless it was ended behind its back.                            *)
Session(c, kind, n) ==
  /\ kind \in {"idle", "begin", "single", "job"} => owner # c
  /\ kind \in {"idle", "single", "job"} => n = 0
  /\ kind = "write" => n \in 1..Size /\ InOrder(c, n - 1)
  /\ kind = "commit" => InOrder(c, Size)
  /\ kind \in {"write", "commit"} => owner = c \/ c \in broken

(* What the queues hold of a living caller is the call it waits for.       *)
Awaited(c) ==
  \A cmd \in Queued : cmd.from = c =>
    /\ cmd.unit = caller[c].unit
    /\ caller[c].stage # "dead" => caller[c].waiting /\ cmd = Present(c)

Tracked(c) ==
  /\ Once(c)
  /\ Awaited(c)
  /\ \A kind, n : Stands(c, kind, n) => Session(c, kind, n)

Followed == \A c \in Caller : caller[c].sure => Tracked(c)

(* What is queued is a command, and Closer's is the shutdown.              *)
LEMMA QueuedType ==
  ASSUME TypeOK
  PROVE  Queued \subseteq Command
<1>1. \A s \in Seq(Command) : \A i \in DOMAIN s : s[i] \in Command
  BY ElementOfSeq, LenProperties
<1> QED
  BY <1>1 DEF TypeOK, Queued, Elements

(* The session of a caller is not touched. *)
LEMMA SessionSame ==
  ASSUME NEW c, UNCHANGED <<owner, sql, broken>>, caller'[c].unit = caller[c].unit
  PROVE  \A kind, n : Session(c, kind, n) => Session(c, kind, n)'
BY DEF Session, InOrder, sql

(* A caller is without a transaction, and did not own one or is broken.    *)
LEMMA SessionFreed ==
  ASSUME NEW c, owner' # c, c \notin broken' => owner # c /\ c \notin broken
  PROVE  \A kind, n : Session(c, kind, n) => Session(c, kind, n)'
BY DEF Session, InOrder

(* A caller that does not act keeps its place. *)
LEMMA TrackedAside ==
  ASSUME NEW c, Tracked(c), caller'[c] = caller[c], Once(c)',
         \A cmd \in Queued' : cmd.from = c => cmd \in Queued,
         \A kind, n : Session(c, kind, n) => Session(c, kind, n)'
  PROVE  Tracked(c)'
<1>1. Awaited(c)'
  BY DEF Tracked, Awaited, Present
<1>2. ASSUME NEW kind, NEW n, Stands(c, kind, n)'
      PROVE  Session(c, kind, n)'
  <2>1. Stands(c, kind, n)
    BY <1>2 DEF Stands
  <2> QED
    BY <2>1 DEF Tracked
<1> QED
  BY <1>1, <1>2 DEF Tracked

-----------------------------------------------------------------------------
(* The callers. *)

(* A caller between two calls has none in the queues. *)
LEMMA NothingQueued ==
  ASSUME NEW c, Awaited(c), caller[c].stage # "dead", ~caller[c].waiting
  PROVE  \A cmd \in Queued : cmd.from # c
BY DEF Awaited

(* An idle caller has none either: what it waits for is not idle.          *)
LEMMA IdleQueuesNothing ==
  ASSUME TypeOK, NEW c \in Caller, Awaited(c), caller[c].stage = "idle"
  PROVE  \A cmd \in Queued : cmd.from # c
<1> SUFFICES ASSUME NEW cmd \in Queued, cmd.from = c
             PROVE  FALSE
  OBVIOUS
<1>1. cmd.kind = "idle"
  BY DEF Awaited, Present
<1>2. cmd \in Command /\ cmd.from # Closer
  BY QueuedType, CallerAssumption
<1> QED
  BY <1>1, <1>2 DEF Command, Call, Kinds, Shutdown

(* The present call of a caller is queued once. *)
LEMMA SendOnce ==
  ASSUME TypeOK, NEW c \in Caller, Once(c), \A cmd \in Queued : cmd.from # c,
         outbox' = outbox \cup {Present(c)}, UNCHANGED <<channel, deferred>>
  PROVE  Once(c)'
<1>1. Present(c).from = c
  BY DEF Present
<1>2. /\ \A cmd \in outbox : cmd.from # c
      /\ Absent(c, channel) /\ Absent(c, deferred)
  BY AbsentElements DEF Queued
<1> QED
  BY <1>1, <1>2 DEF Once, Absent, AtMostOne

(* A new call of another caller does not matter. *)
LEMMA OthersOnce ==
  ASSUME NEW c, Once(c), \A cmd \in outbox' : cmd.from = c => cmd \in outbox,
         UNCHANGED <<channel, deferred>>
  PROVE  Once(c)'
BY DEF Once, Absent, AtMostOne

(* The steps of a caller leave the connection and the others alone.        *)
LEMMA CallerStepOthers ==
  ASSUME TypeOK, NEW d \in Caller, CallerStep(d), NEW c \in Caller, c # d
  PROVE  /\ UNCHANGED <<owner, sql, broken, channel, deferred>>
         /\ caller'[c] = caller[c]
         /\ \A cmd \in outbox' : cmd.from = c => cmd \in outbox
<1>1. Present(d).from = d
  BY DEF Present
<1>2. \A s : [caller EXCEPT ![d] = s][c] = caller[c]
  BY DEF TypeOK
<1>3. CASE Start(d) \/ Die(d)
  BY <1>3 DEF Start, Die, queue, TypeOK
<1>4. CASE Throw(d) \/ GiveUp(d)
  BY <1>2, <1>4 DEF Throw, GiveUp, queue
<1>5. CASE Send(d)
  BY <1>1, <1>5 DEF Send, TypeOK
<1>6. CASE Lose(d)
  BY <1>6 DEF Lose
<1>7. CASE Refuse(d)
  BY <1>2, <1>7 DEF Refuse
<1> QED
  BY <1>3, <1>4, <1>5, <1>6, <1>7 DEF CallerStep

(* A caller that starts a unit owns nothing. *)
LEMMA StartTracked ==
  ASSUME TypeOK, NEW c \in Caller, Start(c), Tracked(c)
  PROVE  Tracked(c)'
<1>1. PICK kind \in {"begin", "single", "job"} :
        caller' = [caller EXCEPT ![c].stage = kind, ![c].unit = @ + 1]
  BY DEF Start
<1>2. /\ caller[c].stage = "idle" /\ UNCHANGED <<outbox, channel, deferred, owner, sql, broken>>
      /\ caller[c] \in CallerState /\ caller[c].stage # "dead"
  BY DEF Start, queue, TypeOK
<1>3. \A cmd \in Queued : cmd.from # c
  BY <1>2, IdleQueuesNothing DEF Tracked
<1>4. caller'[c].stage = kind /\ caller'[c].n = caller[c].n
  BY <1>1, <1>2 DEF TypeOK, CallerState
<1>5. owner # c /\ caller[c].n = 0
  BY <1>2 DEF Tracked, Stands, Session
<1>6. Queued' = Queued /\ Once(c)'
  BY <1>2 DEF Queued, Once, Tracked, Elements, Absent, AtMostOne
<1>7. Awaited(c)'
  BY <1>3, <1>6 DEF Awaited
<1> QED
  BY <1>2, <1>3, <1>4, <1>5, <1>6, <1>7 DEF Tracked, Stands, Session

(* A caller sends its present call. *)
LEMMA SendTracked ==
  ASSUME TypeOK, NEW c \in Caller, Send(c), Tracked(c)
  PROVE  Tracked(c)'
<1>1. /\ caller[c].stage \in Kinds /\ ~caller[c].waiting
      /\ outbox' = outbox \cup {Present(c)}
      /\ caller' = [caller EXCEPT ![c].waiting = TRUE]
      /\ UNCHANGED <<channel, deferred, owner, sql, broken>>
      /\ caller[c].stage # "dead"
  BY DEF Send, Kinds
<1>2. \A cmd \in Queued : cmd.from # c
  BY <1>1, NothingQueued DEF Tracked
<1>3. /\ caller'[c].stage = caller[c].stage /\ caller'[c].n = caller[c].n
      /\ caller'[c].unit = caller[c].unit /\ caller'[c].waiting
      /\ Present(c)' = Present(c)
  BY <1>1 DEF TypeOK, CallerState, Present
<1>4. Queued' = Queued \cup {Present(c)} /\ Once(c)'
  BY <1>1, <1>2, SendOnce DEF Queued, Tracked
<1>5. Awaited(c)'
  BY <1>2, <1>3, <1>4 DEF Awaited, Present
<1>6. \A kind, n : Session(c, kind, n) => Session(c, kind, n)'
  BY <1>1, <1>3, SessionSame
<1>7. \A kind, n : Stands(c, kind, n)' => Stands(c, kind, n)
  BY <1>1, <1>2, <1>3, <1>4 DEF Stands, Present
<1> QED
  BY <1>4, <1>5, <1>6, <1>7 DEF Tracked

(* What a caller does after an error.                                      *)
LEMMA AfterError ==
  ASSUME NEW s \in CallerState, NEW t, t = After(s, FALSE)
  PROVE  /\ t.unit = s.unit /\ t.sure = s.sure /\ ~t.waiting /\ t.n = 0
         /\ t.stage = IF s.stage \in {"write", "commit"} THEN "rollback" ELSE "idle"
BY DEF After, CallerState

(* The callback throws: what follows is the ROLLBACK. *)
LEMMA ThrowTracked ==
  ASSUME TypeOK, NEW c \in Caller, Throw(c), Tracked(c)
  PROVE  Tracked(c)'
<1>1. /\ caller[c].stage \in {"write", "commit"} /\ ~caller[c].waiting
      /\ caller'[c] = After(caller[c], FALSE)
      /\ UNCHANGED <<outbox, channel, deferred, owner, sql, broken>>
      /\ caller[c].stage # "dead" /\ caller[c] \in CallerState
  BY DEF Throw, queue, TypeOK
<1>2. \A cmd \in Queued : cmd.from # c
  BY <1>1, NothingQueued DEF Tracked
<1>3. caller'[c].stage = "rollback"
  BY <1>1, AfterError
<1>4. Queued' = Queued /\ Once(c)'
  BY <1>1 DEF Queued, Once, Tracked, Elements, Absent, AtMostOne
<1>5. Awaited(c)'
  BY <1>2, <1>4 DEF Awaited
<1> QED
  BY <1>2, <1>3, <1>4, <1>5 DEF Tracked, Stands, Session

(* A client dies; the call that it waited for stays in the queues.         *)
LEMMA DieTracked ==
  ASSUME TypeOK, NEW c \in Caller, Die(c), Tracked(c)
  PROVE  Tracked(c)'
<1>1. /\ caller'[c].stage = "dead" /\ caller'[c].unit = caller[c].unit
      /\ UNCHANGED <<outbox, channel, deferred, owner, sql, broken>>
  BY DEF Die, queue, TypeOK, CallerState
<1>2. Queued' = Queued /\ Once(c)'
  BY <1>1 DEF Queued, Once, Tracked, Elements, Absent, AtMostOne
<1>3. Awaited(c)'
  BY <1>1, <1>2 DEF Awaited, Tracked
<1>4. \A kind, n : Session(c, kind, n) => Session(c, kind, n)'
  BY <1>1, SessionSame
<1>5. \A kind, n : Stands(c, kind, n)' => Stands(c, kind, n)
  BY <1>1, <1>2 DEF Stands
<1> QED
  BY <1>2, <1>3, <1>4, <1>5 DEF Tracked

(* A step of a caller keeps what is known of every caller. *)
LEMMA CallerStepTracked ==
  ASSUME TypeOK, Followed, NEW d \in Caller, CallerStep(d)
  PROVE  Followed'
<1> SUFFICES ASSUME NEW c \in Caller, caller'[c].sure
             PROVE  Tracked(c)'
  BY DEF Followed
<1>1. CASE c # d
  <2>1. /\ UNCHANGED <<owner, sql, broken, channel, deferred>>
        /\ caller'[c] = caller[c]
        /\ \A cmd \in outbox' : cmd.from = c => cmd \in outbox
    BY <1>1, CallerStepOthers
  <2>2. Tracked(c)
    BY <2>1 DEF Followed
  <2>3. Once(c)'
    BY <2>1, <2>2, OthersOnce DEF Tracked
  <2>4. \A cmd \in Queued' : cmd.from = c => cmd \in Queued
    BY <2>1 DEF Queued, Elements
  <2>5. \A kind, n : Session(c, kind, n) => Session(c, kind, n)'
    BY <2>1, SessionSame
  <2> QED
    BY <2>1, <2>2, <2>3, <2>4, <2>5, TrackedAside
<1>2. CASE c = d
  <2>1. CASE Start(c)
    <3>1. caller'[c].sure = caller[c].sure
      BY <2>1 DEF Start, TypeOK, CallerState
    <3> QED
      BY <2>1, <3>1, StartTracked DEF Followed
  <2>2. CASE Send(c)
    <3>1. caller'[c].sure = caller[c].sure
      BY <2>2 DEF Send, TypeOK, CallerState
    <3> QED
      BY <2>2, <3>1, SendTracked DEF Followed
  <2>3. CASE Throw(c)
    <3>1. caller'[c] = After(caller[c], FALSE) /\ caller[c] \in CallerState
      BY <2>3 DEF Throw, TypeOK
    <3>2. caller'[c].sure = caller[c].sure
      BY <3>1, AfterError
    <3> QED
      BY <2>3, <3>2, ThrowTracked DEF Followed
  <2>4. CASE Die(c)
    <3>1. caller'[c].sure = caller[c].sure
      BY <2>4 DEF Die, TypeOK, CallerState
    <3> QED
      BY <2>4, <3>1, DieTracked DEF Followed
  <2>5. CASE Lose(c)
    <3>1. /\ caller' = caller /\ UNCHANGED <<owner, sql, broken, channel, deferred>>
          /\ outbox' \subseteq outbox
      BY <2>5 DEF Lose
    <3>2. Tracked(c)
      BY <3>1 DEF Followed
    <3>3. Once(c)'
      BY <3>1, <3>2, OthersOnce DEF Tracked
    <3>4. \A cmd \in Queued' : cmd.from = c => cmd \in Queued
      BY <3>1 DEF Queued, Elements
    <3>5. \A kind, n : Session(c, kind, n) => Session(c, kind, n)'
      BY <3>1, SessionSame
    <3> QED
      BY <3>1, <3>2, <3>3, <3>4, <3>5, TrackedAside
  <2>6. CASE GiveUp(c) \/ Refuse(c)
    <3>1. caller' = [caller EXCEPT ![c] = [After(@, FALSE) EXCEPT !.sure = FALSE]]
      BY <2>6 DEF GiveUp, Refuse
    <3>2. After(caller[c], FALSE) \in CallerState
      BY AfterType DEF TypeOK
    <3>3. ~caller'[c].sure
      BY <3>1, <3>2 DEF CallerState, TypeOK
    <3> QED
      BY <3>3
  <2> QED
    BY <1>2, <2>1, <2>2, <2>3, <2>4, <2>5, <2>6 DEF CallerStep
<1> QED
  BY <1>1, <1>2

-----------------------------------------------------------------------------
(* The writer. *)

(* A call that is executed writes its own row at most, beside what its     *)
(* owner's transaction wrote.                                              *)
LEMMA ExecuteWrites ==
  ASSUME TypeOK, OneSessionPerTransaction, NEW cmd \in Call,
         owner \in {Nobody, cmd.from}, Execute(cmd)
  PROVE  \A w \in db' \cup undo' : w \in db \cup undo \cup {Written(cmd)}
<1>1. PICK ok \in BOOLEAN : Sql(cmd, ok)
  BY DEF Execute
<1> QED
  BY <1>1 DEF Sql, Statement, Rollback, sql, Call, Kinds

(* The others see nothing of a call that is executed. *)
LEMMA ExecuteOthers ==
  ASSUME TypeOK, OneSessionPerTransaction, NEW cmd \in Call,
         owner \in {Nobody, cmd.from}, Execute(cmd), NEW c \in Caller, c # cmd.from
  PROVE  /\ caller'[c] = caller[c] /\ owner # c /\ owner' # c
         /\ broken' = broken
         /\ \A w : w[1] = c => (w \in db' <=> w \in db)
<1>1. PICK ok \in BOOLEAN : Sql(cmd, ok) /\ Own(cmd, ok) /\ Answer(cmd, ok)
  BY DEF Execute
<1>2. owner # c /\ Nobody # c /\ cmd.from \in Caller
  BY CallerAssumption DEF Call
<1>3. owner' \in {Nobody, owner, cmd.from}
  BY <1>1 DEF Own
<1>4. caller'[c] = caller[c]
  BY <1>1, <1>2 DEF Answer, TypeOK
<1>5. \A w : w[1] = c => w \notin undo /\ w # Written(cmd)
  BY <1>2 DEF OneSessionPerTransaction, Written
<1>6. \A w : w[1] = c => (w \in db' <=> w \in db)
  BY <1>1, <1>5 DEF Sql, Statement, Rollback, sql, Call, Kinds
<1> QED
  BY <1>2, <1>3, <1>4, <1>6 DEF Execute

(* A living caller gets its answer. *)
LEMMA AnswerReaches ==
  ASSUME TypeOK, NEW cmd \in Call, cmd \in Queued, Awaited(cmd.from),
         caller[cmd.from].stage # "dead", NEW ok \in BOOLEAN, Answer(cmd, ok)
  PROVE  /\ cmd = Present(cmd.from)
         /\ caller'[cmd.from] = After(caller[cmd.from], ok)
         /\ done' = IF ok /\ cmd.kind \in Reported
                    THEN done \cup {<<cmd.from, cmd.unit, cmd.kind>>} ELSE done
<1>1. caller[cmd.from].waiting /\ cmd = Present(cmd.from) /\ cmd.from \in Caller
  BY DEF Awaited, Call
<1> QED
  BY <1>1 DEF Answer, TypeOK

(* What a caller does after an answer. *)
LEMMA AfterAnswer ==
  ASSUME NEW s \in CallerState, NEW ok \in BOOLEAN, NEW t, t = After(s, ok)
  PROVE  /\ t.unit = s.unit /\ t.sure = s.sure
         /\ t.stage = "idle" => t.n = 0
         /\ t.stage \notin {"begin", "single", "job"}
         /\ t.stage = "idle" => s.stage \notin {"begin", "write"} \/ (s.stage = "begin" /\ ~ok)
         /\ t.stage = "write" =>
              \/ s.stage = "begin" /\ ok /\ t.n = 1
              \/ s.stage = "write" /\ ok /\ s.n < Size /\ t.n = s.n + 1
         /\ t.stage = "commit" => s.stage = "write" /\ ok /\ s.n >= Size
<1>1. s.n \in Int /\ Size \in Int
  BY Bounds DEF CallerState
<1>2. CASE s.stage = "begin" /\ ok
  BY <1>2 DEF After, CallerState
<1>3. CASE s.stage = "write" /\ ok /\ s.n < Size
  BY <1>3 DEF After, CallerState
<1>4. CASE s.stage = "write" /\ ok /\ s.n >= Size
  BY <1>1, <1>4 DEF After, CallerState
<1>5. CASE s.stage \in {"write", "commit"} /\ ~ok
  BY <1>5 DEF After, CallerState
<1>6. CASE /\ ~(s.stage = "begin" /\ ok)
           /\ ~(s.stage = "write" /\ ok)
           /\ ~(s.stage \in {"write", "commit"} /\ ~ok)
  BY <1>6 DEF After, CallerState
<1> QED
  BY <1>1, <1>2, <1>3, <1>4, <1>5, <1>6

(* A write in the own transaction is the next of its writes. *)
LEMMA NextInOrder ==
  ASSUME NEW c, NEW u, NEW n \in Nat \ {0}
  PROVE  First(c, u, n) = First(c, u, n - 1) \cup {<<c, u, n>>}
<1>1. 1..n = (1..(n - 1)) \cup {n}
  OBVIOUS
<1> QED
  BY <1>1 DEF First

(* The session of the caller whose call is executed: begun, one write      *)
(* longer, or ended.                                                       *)
LEMMA ExecuteSelf ==
  ASSUME TypeOK, OneSessionPerTransaction, NEW cmd \in Call,
         NEW c, c = cmd.from, NEW s, s = caller[c], NEW t, t = caller'[c],
         owner \in {Nobody, c}, NEW ok \in BOOLEAN, Sql(cmd, ok), Own(cmd, ok),
         broken' = broken, t = After(s, ok), cmd = Present(c), Session(c, cmd.kind, cmd.n)
  PROVE  Session(c, t.stage, t.n)'
<1>1. /\ c \in Caller /\ s \in CallerState /\ cmd.kind = s.stage /\ cmd.n = s.n
      /\ cmd.unit = s.unit /\ cmd.kind \in Kinds /\ c # Nobody /\ s.n \in 0..Size
      /\ Written(cmd) = <<c, s.unit, s.n>>
  BY CallerAssumption DEF Call, Present, TypeOK, CallerState, Written
<1>2. /\ t.unit = s.unit
      /\ t.stage = "idle" => t.n = 0
      /\ t.stage \notin {"begin", "single", "job"}
      /\ t.stage = "idle" => s.stage \notin {"begin", "write"} \/ (s.stage = "begin" /\ ~ok)
      /\ t.stage = "write" =>
           \/ s.stage = "begin" /\ ok /\ t.n = 1
           \/ s.stage = "write" /\ ok /\ s.n < Size /\ t.n = s.n + 1
      /\ t.stage = "commit" => s.stage = "write" /\ ok /\ s.n >= Size
  BY <1>1, AfterAnswer
<1>3. Size \in Nat \ {0}
  BY Bounds
<1>4. Session(c, s.stage, s.n)
  BY <1>1
<1>5. CASE t.stage = "idle"
  <2>1. CASE s.stage \in {"commit", "rollback"}
    <3>1. owner' = Nobody
      BY <1>1, <2>1 DEF Own, Ends
    <3> QED
      BY <1>1, <1>2, <1>5, <3>1 DEF Session
  <2>2. CASE s.stage \in {"begin", "single", "job"}
    <3>1. owner' = owner
      BY <1>1, <1>2, <1>5, <2>2 DEF Own, Ends
    <3> QED
      BY <1>2, <1>4, <1>5, <2>2, <3>1 DEF Session
  <2> QED
    BY <1>1, <1>2, <1>5, <2>1, <2>2 DEF Kinds
<1>6. CASE s.stage = "begin" /\ ok /\ t.n = 1 /\ t.stage = "write"
  <2>1. ~inTx /\ inTx' /\ undo' = undo
    BY <1>1, <1>6 DEF Sql
  <2>2. undo = {}
    BY <2>1 DEF OneSessionPerTransaction
  <2>3. owner' = c
    BY <1>1, <1>6 DEF Own, Ends
  <2>4. First(c, t.unit, 1 - 1) = {}
    BY DEF First
  <2>5. 1 \in 1..Size
    BY <1>3
  <2>6. InOrder(c, 1 - 1)'
    BY <1>2, <2>1, <2>2, <2>4 DEF InOrder
  <2> QED
    BY <1>6, <2>3, <2>5, <2>6 DEF Session
<1>7. CASE s.stage = "write" /\ ok
  <2>1. Statement(cmd) /\ owner' = owner
    BY <1>1, <1>7 DEF Sql, Own, Ends
  <2>2. s.n \in 1..Size /\ InOrder(c, s.n - 1) /\ (owner = c \/ c \in broken)
    BY <1>4, <1>7 DEF Session
  <2>3. InOrder(c, s.n)'
    <3>1. SUFFICES ASSUME owner = c
                   PROVE  inTx' /\ undo' = First(c, t.unit, s.n)
      BY <2>1 DEF InOrder
    <3>2. inTx' /\ undo' = undo \cup {<<c, s.unit, s.n>>}
      BY <1>1, <2>1, <2>2, <3>1 DEF InOrder, Statement
    <3>3. undo = First(c, s.unit, s.n - 1)
      BY <2>2, <3>1 DEF InOrder
    <3>4. First(c, s.unit, s.n) = First(c, s.unit, s.n - 1) \cup {<<c, s.unit, s.n>>}
      BY <2>2, NextInOrder
    <3> QED
      BY <1>2, <3>2, <3>3, <3>4
  <2>4. CASE t.stage = "write"
    <3>1. t.n = s.n + 1 /\ s.n < Size
      BY <1>2, <1>7, <2>4
    <3>2. t.n \in 1..Size /\ t.n - 1 = s.n
      BY <1>3, <2>2, <3>1
    <3>3. InOrder(c, t.n - 1)'
      BY <2>3, <3>2 DEF InOrder
    <3> QED
      BY <2>1, <2>2, <2>4, <3>2, <3>3 DEF Session, InOrder
  <2>5. CASE t.stage = "commit"
    <3>1. s.n = Size
      BY <1>2, <1>3, <2>2, <2>5
    <3>2. InOrder(c, Size)'
      BY <2>3, <3>1 DEF InOrder
    <3> QED
      BY <2>1, <2>2, <2>5, <3>2 DEF Session, InOrder
  <2> QED
    BY <1>2, <1>5, <1>7, <2>4, <2>5 DEF Session
<1> QED
  BY <1>2, <1>5, <1>6, <1>7 DEF Session

(* Executing a call keeps what is known of its caller. *)
LEMMA ExecuteTracked ==
  ASSUME TypeOK, OneSessionPerTransaction, NEW cmd \in Call, cmd \in Queued,
         NEW c, c = cmd.from, owner \in {Nobody, c}, Execute(cmd), Tracked(c),
         Once(c)', \A x \in Queued' : x.from # c
  PROVE  Tracked(c)'
<1>1. PICK ok \in BOOLEAN : Sql(cmd, ok) /\ Own(cmd, ok) /\ Answer(cmd, ok)
  BY DEF Execute
<1>2. c \in Caller /\ cmd.kind \in Kinds /\ broken' = broken
  BY DEF Call, Execute
<1>3. Awaited(c)'
  BY DEF Awaited
<1>4. \A kind, n : Stands(c, kind, n)' =>
        kind # "dead" /\ kind = caller'[c].stage /\ n = caller'[c].n
  BY DEF Stands
<1>5. CASE caller[c].stage = "dead"
  <2>1. cmd # Present(c)
    BY <1>2, <1>5 DEF Present, Kinds
  <2>2. caller' = caller
    BY <1>1, <2>1 DEF Answer
  <2> QED
    BY <1>3, <1>4, <1>5, <2>2 DEF Tracked
<1>6. CASE caller[c].stage # "dead"
  <2>1. cmd = Present(c) /\ caller'[c] = After(caller[c], ok)
    BY <1>1, <1>6, AnswerReaches DEF Tracked
  <2>2. Session(c, cmd.kind, cmd.n)
    BY DEF Tracked, Stands
  <2>3. \A t : t = caller'[c] => Session(c, t.stage, t.n)'
    BY <1>1, <1>2, <2>1, <2>2, ExecuteSelf
  <2>4. ASSUME NEW kind, NEW n, Stands(c, kind, n)'
        PROVE  Session(c, kind, n)'
    <3>1. PICK t : t = caller'[c]
      OBVIOUS
    <3>2. kind = t.stage /\ n = t.n
      BY <1>4, <2>4, <3>1
    <3> QED
      BY <2>3, <3>1, <3>2
  <2> QED
    BY <1>3, <2>4 DEF Tracked
<1> QED
  BY <1>5, <1>6

(* An empty writer has no calls. *)
LEMMA EmptyQueues ==
  ASSUME outbox' = {}, channel' = <<>>, deferred' = <<>>
  PROVE  Queued' = {} /\ \A c : Once(c)'
BY DEF Queued, Elements, Once, Absent, AtMostOne

(* The steps of the writer. *)
LEMMA WriterStepFollowed ==
  ASSUME TypeOK, OneSessionPerTransaction, Followed, ServeDeferred \/ ServeChannel
  PROVE  Followed'
<1>1. CASE Stop
  <2>1. Queued' = {} /\ \A c : Once(c)'
    BY <1>1, EmptyQueues DEF Stop
  <2>2. ASSUME NEW c \in Caller, caller'[c].sure
        PROVE  Tracked(c)'
    <3>1. caller' = caller /\ UNCHANGED <<owner, sql, broken>>
      BY <1>1 DEF Stop
    <3>2. \A kind, n : Session(c, kind, n) => Session(c, kind, n)'
      BY <3>1, SessionSame
    <3> QED
      BY <2>1, <2>2, <3>1, <3>2, TrackedAside DEF Followed
  <2> QED
    BY <2>2 DEF Followed
<1>2. ASSUME NEW cmd \in Call, owner \in {Nobody, cmd.from}, Execute(cmd),
             cmd \in Queued, Queued' \subseteq Queued, \A c : Once(c) => Once(c)',
             Once(cmd.from) => \A x \in Queued' : x.from # cmd.from
      PROVE  Followed'
  <2> SUFFICES ASSUME NEW c \in Caller, caller'[c].sure
               PROVE  Tracked(c)'
    BY DEF Followed
  <2>1. CASE c # cmd.from
    <3>1. /\ caller'[c] = caller[c] /\ owner # c /\ owner' # c /\ broken' = broken
      BY <1>2, <2>1, ExecuteOthers
    <3>2. \A kind, n : Session(c, kind, n) => Session(c, kind, n)'
      BY <3>1 DEF Session, InOrder
    <3>3. Tracked(c)
      BY <3>1 DEF Followed
    <3> QED
      BY <1>2, <3>1, <3>2, <3>3, TrackedAside DEF Tracked
  <2>2. CASE c = cmd.from
    <3>1. caller[c].sure
      <4>1. PICK ok \in BOOLEAN : Answer(cmd, ok)
        BY <1>2 DEF Execute
      <4>2. caller[c] \in CallerState
        BY DEF TypeOK
      <4>3. \A t : t = After(caller[c], ok) => t.sure = caller[c].sure
        BY <4>2, AfterAnswer
      <4>4. caller'[c] \in {caller[c], After(caller[c], ok)}
        BY <2>2, <4>1 DEF Answer, TypeOK
      <4> QED
        BY <4>3, <4>4
    <3>2. Tracked(c)
      BY <3>1 DEF Followed
    <3> QED
      BY <1>2, <2>2, <3>2, ExecuteTracked DEF Tracked
  <2> QED
    BY <2>1, <2>2
<1> QED
  BY <1>1, <1>2, ServesOnce

(* The steps of the clock, the closer and the daemon.                      *)
LEMMA LoopStepFollowed ==
  ASSUME TypeOK, Followed,
         Accept \/ Defer \/ Expire \/ Tick \/ RequestShutdown \/ Crash \/ Restart
  PROVE  Followed'
<1> SUFFICES ASSUME NEW c \in Caller, caller'[c].sure
             PROVE  Tracked(c)'
  BY DEF Followed
<1>1. caller' = caller
  BY DEF Accept, Defer, Expire, Tick, RequestShutdown, Crash, Restart
<1>2. Tracked(c)
  BY <1>1 DEF Followed
<1>3. CASE Accept \/ Defer
  <2>1. UNCHANGED <<owner, sql, broken>>
    BY <1>3 DEF Accept, Defer
  <2>2. \A kind, n : Session(c, kind, n) => Session(c, kind, n)'
    BY <1>1, <2>1, SessionSame
  <2> QED
    BY <1>1, <1>2, <1>3, <2>2, MovesOnce, TrackedAside DEF Tracked
<1>4. CASE Tick \/ Restart \/ RequestShutdown
  <2>1. UNCHANGED <<owner, sql, broken, channel, deferred>>
    BY <1>4 DEF Tick, Restart, RequestShutdown, queue
  <2>2. \A cmd \in outbox' : cmd.from = c => cmd \in outbox
    BY <1>4, CallerAssumption DEF Tick, Restart, RequestShutdown, queue, Shutdown
  <2>3. Once(c)'
    BY <1>2, <2>1, <2>2, OthersOnce DEF Tracked
  <2>4. \A cmd \in Queued' : cmd.from = c => cmd \in Queued
    BY <2>1, <2>2 DEF Queued, Elements
  <2>5. \A kind, n : Session(c, kind, n) => Session(c, kind, n)'
    BY <1>1, <2>1, SessionSame
  <2> QED
    BY <1>1, <1>2, <2>3, <2>4, <2>5, TrackedAside
<1>5. CASE Expire \/ Crash
  <2>1. /\ owner' = Nobody /\ owner' # c
        /\ c \notin broken' => owner # c /\ c \notin broken
    BY <1>5, CallerAssumption DEF Expire, Crash
  <2>2. \A kind, n : Session(c, kind, n) => Session(c, kind, n)'
    BY <2>1, SessionFreed
  <2>3. Once(c)' /\ \A cmd \in Queued' : cmd.from = c => cmd \in Queued
    <3>1. CASE Expire
      BY <1>2, <3>1 DEF Expire, queue, Tracked, Queued, Elements, Once, Absent, AtMostOne
    <3>2. CASE Crash
      BY <3>2, EmptyQueues DEF Crash
    <3> QED
      BY <1>5, <3>1, <3>2
  <2> QED
    BY <1>1, <1>2, <2>2, <2>3, TrackedAside
<1> QED
  BY <1>3, <1>4, <1>5

(* Every step keeps what is known of the callers. *)
LEMMA StepFollowed ==
  ASSUME TypeOK, OneSessionPerTransaction, Followed, [Next]_vars
  PROVE  Followed'
<1>1. CASE UNCHANGED vars
  <2>1. /\ caller' = caller /\ UNCHANGED <<owner, sql, broken>>
        /\ outbox' = outbox /\ UNCHANGED <<channel, deferred>>
    BY <1>1 DEF vars, queue
  <2>2. Queued' = Queued /\ \A c : Once(c) => Once(c)'
    BY <2>1 DEF Queued, Elements, Once, Absent, AtMostOne
  <2>3. \A c : \A kind, n : Session(c, kind, n) => Session(c, kind, n)'
    BY <2>1, SessionSame
  <2>4. \A c : Tracked(c) => Tracked(c)'
    BY <2>1, <2>2, <2>3, TrackedAside DEF Tracked
  <2> QED
    BY <2>1, <2>4 DEF Followed
<1>2. CASE Next
  BY <1>2, CallerStepTracked, WriterStepFollowed, LoopStepFollowed DEF Next, Writer
<1> QED
  BY <1>1, <1>2

(* Nobody has called yet. *)
LEMMA InitFollowed == Init => Followed
<1> SUFFICES ASSUME Init, NEW c \in Caller
             PROVE  Tracked(c)
  BY DEF Followed
<1>1. Queued = {} /\ Once(c)
  BY DEF Init, Queued, Elements, Once, Absent, AtMostOne
<1>2. caller[c].stage = "idle" /\ caller[c].n = 0 /\ owner # c
  BY CallerAssumption DEF Init
<1> QED
  BY <1>1, <1>2 DEF Tracked, Awaited, Stands, Session

(* Of every caller that had its answers the writer knows one call at most, *)
(* and its session is as far as the caller believes.                       *)
THEOREM CallersFollowed == Spec => []Followed
BY InitFollowed, StepFollowed, TypeCorrect, OneSession, PTL DEF Spec

-----------------------------------------------------------------------------
(* What the callers can rely on. *)

(* An answer that is lost is never had. *)
LEMMA SureStays ==
  ASSUME TypeOK, [Next]_vars, NEW c \in Caller, caller'[c].sure
  PROVE  caller[c].sure
<1>1. \A ok \in BOOLEAN : After(caller[c], ok).sure = caller[c].sure
  <2>1. caller[c] \in CallerState
    BY DEF TypeOK
  <2>2. \A ok \in BOOLEAN : \A t : t = After(caller[c], ok) => t.sure = caller[c].sure
    BY <2>1, AfterAnswer
  <2> QED
    BY <2>2
<1>2. CASE UNCHANGED caller
  BY <1>2
<1>3. ASSUME NEW d \in Caller, CallerStep(d)
      PROVE  caller[c].sure
  <2>1. CASE c # d
    BY <1>3, <2>1, CallerStepOthers
  <2>2. CASE c = d /\ (Start(c) \/ Send(c) \/ Die(c) \/ Lose(c))
    <3>1. Start(c) => caller'[c].sure = caller[c].sure
      BY DEF Start, TypeOK, CallerState
    <3>2. Send(c) => caller'[c].sure = caller[c].sure
      BY DEF Send, TypeOK, CallerState
    <3>3. Die(c) => caller'[c].sure = caller[c].sure
      BY DEF Die, TypeOK, CallerState
    <3>4. Lose(c) => caller' = caller
      BY DEF Lose
    <3> QED
      BY <2>2, <3>1, <3>2, <3>3, <3>4
  <2>3. CASE c = d /\ Throw(c)
    BY <1>1, <2>3 DEF Throw, TypeOK
  <2>4. CASE c = d /\ (GiveUp(c) \/ Refuse(c))
    <3>1. caller' = [caller EXCEPT ![c] = [After(@, FALSE) EXCEPT !.sure = FALSE]]
      BY <2>4 DEF GiveUp, Refuse
    <3>2. After(caller[c], FALSE) \in CallerState
      BY AfterType DEF TypeOK
    <3>3. ~caller'[c].sure
      BY <3>1, <3>2 DEF CallerState, TypeOK
    <3> QED
      BY <3>3
  <2> QED
    BY <1>3, <2>1, <2>2, <2>3, <2>4 DEF CallerStep
<1>4. ASSUME NEW cmd \in Call, Execute(cmd)
      PROVE  caller[c].sure
  <2>1. PICK ok \in BOOLEAN : Answer(cmd, ok)
    BY <1>4 DEF Execute
  <2>2. caller'[c] \in {caller[c], After(caller[c], ok)}
    BY <2>1 DEF Answer, TypeOK
  <2> QED
    BY <1>1, <2>2
<1> QED
  BY <1>2, <1>3, <1>4, Served DEF Next, Writer, Accept, Defer, Expire, Tick, RequestShutdown,
     Crash, Restart, Stop, vars

(* Only a call that is executed writes, reports, or makes an owner.        *)
LEMMA OnlyCallsWrite ==
  ASSUME TypeOK, [Next]_vars
  PROVE  \/ /\ UNCHANGED <<db, done>> /\ owner' \in {Nobody, owner}
            /\ broken \subseteq broken'
         \/ \E cmd \in Call :
              /\ owner \in {Nobody, cmd.from} /\ Execute(cmd) /\ cmd \in Queued
              /\ Elements(deferred') \subseteq Elements(deferred)
              /\ Once(cmd.from) => \A x \in Queued' : x.from # cmd.from
<1>1. CASE UNCHANGED vars
  BY <1>1 DEF vars, sql
<1>2. CASE Aside
  BY <1>2 DEF Aside, CallerStep, Start, Throw, Send, Lose, GiveUp, Refuse, Die, Defer, Accept, Tick,
              RequestShutdown, Restart, Stop, sql
<1>3. CASE ServeDeferred \/ ServeChannel
  <2>1. Stop => UNCHANGED <<db, done, owner, broken>>
    BY DEF Stop, sql
  <2> QED
    BY <1>3, <2>1, ServesOnce
<1>4. CASE Expire \/ Crash
  BY <1>4 DEF Expire, Crash, Rollback
<1> QED
  BY <1>1, <1>2, <1>3, <1>4 DEF Next, Writer, Aside

(* What is durable stays. *)
LEMMA DurableStays ==
  ASSUME TypeOK, [Next]_vars
  PROVE  db \subseteq db'
<1>1. ASSUME NEW cmd \in Call, Execute(cmd)
      PROVE  db \subseteq db'
  BY <1>1 DEF Execute, Sql, Statement, Rollback, sql, Call, Kinds
<1> QED
  BY <1>1, OnlyCallsWrite

(* The call of a caller that had its answers, when it is executed: its     *)
(* session is its own, and it is of the present unit.                      *)
LEMMA ExecutedInSession ==
  ASSUME Followed, NEW cmd \in Call, cmd \in Queued, NEW c, c = cmd.from, caller[c].sure
  PROVE  Session(c, cmd.kind, cmd.n) /\ cmd.unit = caller[c].unit /\ Once(c) /\ c \in Caller
BY DEF Followed, Tracked, Awaited, Stands, Call

(* The set-aside commands of a step are those of before, or the head of    *)
(* the channel, which is not the owner's.                                  *)
LEMMA SetAside ==
  ASSUME TypeOK, [Next]_vars, NEW cmd \in Elements(deferred')
  PROVE  cmd \in Elements(deferred) \/ (owner' = owner /\ cmd.from # owner)
<1>1. CASE Defer
  <2>1. Head(channel) \in Command /\ deferred \in Seq(Command)
    BY <1>1, HeadType DEF Defer, TypeOK
  <2>2. Elements(deferred') = Elements(deferred) \cup {Head(channel)}
    BY <1>1, <2>1, AppendOnce DEF Defer
  <2> QED
    BY <1>1, <2>2 DEF Defer
<1>2. CASE UNCHANGED deferred
  BY <1>2 DEF Elements
<1>3. CASE deferred' = <<>>
  BY <1>3 DEF Elements
<1>4. CASE ServeDeferred \/ ServeChannel
  BY <1>3, <1>4, ServesOnce DEF Stop
<1> QED
  BY <1>1, <1>2, <1>3, <1>4 DEF Next, Writer, CallerStep, Start, Throw, Send, Lose, GiveUp, Refuse,
     Die, Accept, Expire, Tick, RequestShutdown, Crash, Restart, vars, queue

(* A client never waits behind itself: none of the owner's commands is set *)
(* aside, unless the owner gave up a call.                                 *)
THEOREM OwnersAreServed == Spec => []OwnerIsNotDeferred
<1>1. Init => OwnerIsNotDeferred
  BY DEF Init, OwnerIsNotDeferred, Elements
<1>2. TypeOK /\ OneSessionPerTransaction /\ Followed /\ OwnerIsNotDeferred /\ [Next]_vars
        => OwnerIsNotDeferred'
  <2> SUFFICES ASSUME TypeOK, Followed, OwnerIsNotDeferred, [Next]_vars,
                      NEW cmd \in Elements(deferred'), cmd.from = owner', caller'[owner'].sure
               PROVE  FALSE
    BY DEF OwnerIsNotDeferred
  <2>1. cmd \in Elements(deferred)
    BY SetAside
  <2>2. cmd \in Command /\ owner' \in Caller
    BY <2>1, QueuedType, StepType, CallerAssumption
       DEF Queued, Command, Call, Shutdown, TypeOK
  <2>3. caller[owner'].sure
    BY <2>2, SureStays
  <2>4. owner' # owner
    BY <2>1, <2>3 DEF OwnerIsNotDeferred
  <2>5. PICK x \in Call : /\ owner \in {Nobody, x.from} /\ Execute(x) /\ x \in Queued
                          /\ Once(x.from) => \A y \in Queued' : y.from # x.from
    BY <2>2, <2>4, OnlyCallsWrite, CallerAssumption
  <2>6. owner' = x.from
    BY <2>2, <2>4, <2>5, CallerAssumption DEF Execute, Own
  <2>7. cmd \in Queued'
    BY DEF Queued
  <2> QED
    BY <2>3, <2>5, <2>6, <2>7, ExecutedInSession
<1> QED
  BY <1>1, <1>2, TypeCorrect, OneSession, CallersFollowed, PTL DEF Spec

(* The report of a step is of the call that it executes. *)
LEMMA ReportsOwnCall ==
  ASSUME NEW cmd \in Call, NEW ok \in BOOLEAN, Answer(cmd, ok), NEW r \in done', r \notin done
  PROVE  ok /\ r = <<cmd.from, cmd.unit, cmd.kind>>
BY DEF Answer

(* A client that was told its commit succeeded finds the whole of its      *)
(* transaction, whatever the deadline or a restart cut in between.         *)
THEOREM CommitsAreWhole == Spec => []CommittedIsWhole
<1>1. Init => CommittedIsWhole
  BY DEF Init, CommittedIsWhole
<1>2. TypeOK /\ OneSessionPerTransaction /\ Followed /\ CommittedIsWhole /\ [Next]_vars
        => CommittedIsWhole'
  <2> SUFFICES ASSUME TypeOK, OneSessionPerTransaction, Followed, CommittedIsWhole, [Next]_vars,
                      NEW c \in Client, NEW u \in Unit, caller'[c].sure,
                      <<c, u, "commit">> \in done', NEW k \in 1..Size
               PROVE  <<c, u, k>> \in db'
    BY DEF CommittedIsWhole
  <2>1. c \in Caller /\ caller[c].sure /\ db \subseteq db'
    BY SureStays, DurableStays DEF Caller
  <2>2. CASE <<c, u, "commit">> \in done
    BY <2>1, <2>2 DEF CommittedIsWhole
  <2>3. CASE <<c, u, "commit">> \notin done
    <3>1. PICK cmd \in Call : /\ owner \in {Nobody, cmd.from} /\ Execute(cmd) /\ cmd \in Queued
      BY <2>3, OnlyCallsWrite
    <3>2. PICK ok \in BOOLEAN : Sql(cmd, ok) /\ Answer(cmd, ok)
      BY <3>1 DEF Execute
    <3>3. ok /\ c = cmd.from /\ u = cmd.unit /\ cmd.kind = "commit"
      BY <2>3, <3>2, ReportsOwnCall
    <3>4. Session(c, cmd.kind, cmd.n) /\ u = caller[c].unit
      BY <2>1, <3>1, <3>3, ExecutedInSession
    <3>5. inTx /\ db' = db \cup undo
      BY <3>2, <3>3 DEF Sql
    <3>6. owner = c
      BY <3>1, <3>3, <3>5 DEF OneSessionPerTransaction
    <3>7. undo = First(c, u, Size)
      BY <3>3, <3>4, <3>6 DEF Session, InOrder
    <3> QED
      BY <3>5, <3>7 DEF First
  <2> QED
    BY <2>2, <2>3
<1> QED
  BY <1>1, <1>2, TypeCorrect, OneSession, CallersFollowed, PTL DEF Spec

(* A single mutation or a job that was reported as done is durable.        *)
THEOREM ReportsAreDurable == Spec => []DoneIsDurable
<1>1. Init => DoneIsDurable
  BY DEF Init, DoneIsDurable
<1>2. TypeOK /\ OneSessionPerTransaction /\ Followed /\ DoneIsDurable /\ [Next]_vars
        => DoneIsDurable'
  <2> SUFFICES ASSUME TypeOK, OneSessionPerTransaction, Followed, DoneIsDurable, [Next]_vars,
                      NEW c \in Caller, NEW u \in Unit, caller'[c].sure,
                      NEW kind \in {"single", "job"}, <<c, u, kind>> \in done'
               PROVE  <<c, u, 0>> \in db'
    BY DEF DoneIsDurable
  <2>1. caller[c].sure /\ db \subseteq db'
    BY SureStays, DurableStays
  <2>2. CASE <<c, u, kind>> \in done
    BY <2>1, <2>2 DEF DoneIsDurable
  <2>3. CASE <<c, u, kind>> \notin done
    <3>1. PICK cmd \in Call : /\ owner \in {Nobody, cmd.from} /\ Execute(cmd) /\ cmd \in Queued
      BY <2>3, OnlyCallsWrite
    <3>2. PICK ok \in BOOLEAN : Sql(cmd, ok) /\ Answer(cmd, ok)
      BY <3>1 DEF Execute
    <3>3. ok /\ c = cmd.from /\ u = cmd.unit /\ cmd.kind = kind
      BY <2>3, <3>2, ReportsOwnCall
    <3>4. Session(c, cmd.kind, cmd.n)
      BY <2>1, <3>1, <3>3, ExecutedInSession
    <3>5. owner # c /\ cmd.n = 0
      BY <3>3, <3>4 DEF Session
    <3>6. ~inTx
      BY <3>1, <3>3, <3>5 DEF OneSessionPerTransaction
    <3>7. Statement(cmd)
      BY <3>2, <3>3 DEF Sql
    <3> QED
      BY <3>3, <3>5, <3>6, <3>7 DEF Statement, Written
  <2> QED
    BY <2>2, <2>3
<1> QED
  BY <1>1, <1>2, TypeCorrect, OneSession, CallersFollowed, PTL DEF Spec

(* A transaction leaves all of its writes or none, unless the deadline or  *)
(* a restart cut it.                                                       *)
THEOREM TransactionsAreAtomic == Spec => []AllOrNothing
<1>1. Init => AllOrNothing
  BY DEF Init, AllOrNothing
<1>2. TypeOK /\ OneSessionPerTransaction /\ Followed /\ AllOrNothing /\ [Next]_vars
        => AllOrNothing'
  <2> SUFFICES ASSUME TypeOK, OneSessionPerTransaction, Followed, AllOrNothing, [Next]_vars,
                      NEW c \in Client, c \notin broken', NEW u \in Unit, caller'[c].sure
               PROVE  \/ \A k \in 1..Size : <<c, u, k>> \in db'
                      \/ \A k \in 1..Size : <<c, u, k>> \notin db'
    BY DEF AllOrNothing
  <2>1. c \in Caller /\ caller[c].sure
    BY SureStays DEF Caller
  <2>2. c \notin broken => \/ \A k \in 1..Size : <<c, u, k>> \in db
                           \/ \A k \in 1..Size : <<c, u, k>> \notin db
    BY <2>1 DEF AllOrNothing
  <2>3. CASE db' = db /\ broken \subseteq broken'
    BY <2>2, <2>3
  <2>4. ASSUME NEW cmd \in Call, owner \in {Nobody, cmd.from}, Execute(cmd), cmd \in Queued
        PROVE  \/ \A k \in 1..Size : <<c, u, k>> \in db'
               \/ \A k \in 1..Size : <<c, u, k>> \notin db'
    <3>1. PICK ok \in BOOLEAN : Sql(cmd, ok)
      BY <2>4 DEF Execute
    <3>2. broken' = broken
      BY <2>4 DEF Execute
    <3>3. CASE c # cmd.from
      <4>1. \A w : w[1] = c => (w \in db' <=> w \in db)
        BY <2>1, <2>4, <3>3, ExecuteOthers
      <4>2. \A k \in 1..Size : <<c, u, k>> \in db' <=> <<c, u, k>> \in db
        BY <4>1
      <4> QED
        BY <2>2, <3>2, <4>2
    <3>4. CASE c = cmd.from
      <4>1. Session(c, cmd.kind, cmd.n)
        BY <2>1, <2>4, <3>4, ExecutedInSession
      <4>2. CASE cmd.kind = "commit" /\ ok
        <5>1. inTx /\ db' = db \cup undo
          BY <3>1, <4>2 DEF Sql
        <5>2. owner = c
          BY <2>4, <3>4, <5>1 DEF OneSessionPerTransaction
        <5>3. undo = First(c, caller[c].unit, Size)
          BY <4>1, <4>2, <5>2 DEF Session, InOrder
        <5>4. CASE u = caller[c].unit
          BY <5>1, <5>3, <5>4 DEF First
        <5>5. CASE u # caller[c].unit
          <6>1. \A k \in 1..Size : <<c, u, k>> \notin undo
            BY <5>3, <5>5 DEF First
          <6> QED
            BY <2>2, <3>2, <5>1, <6>1
        <5> QED
          BY <5>4, <5>5
      <4>3. CASE cmd.kind = "write" /\ ok
        <5>1. Statement(cmd) /\ inTx
          BY <3>1, <3>2, <4>1, <4>3 DEF Sql, Session, InOrder
        <5>2. db' = db
          BY <5>1 DEF Statement
        <5> QED
          BY <2>3, <3>2, <5>2
      <4>4. CASE cmd.kind \in {"single", "job"} /\ ok
        <5>1. Statement(cmd) /\ cmd.n = 0
          BY <3>1, <4>1, <4>4 DEF Sql, Session
        <5>2. \A k \in 1..Size : <<c, u, k>> # Written(cmd)
          BY <5>1 DEF Written
        <5>3. \A k \in 1..Size : <<c, u, k>> \in db' <=> <<c, u, k>> \in db
          BY <5>1, <5>2 DEF Statement
        <5> QED
          BY <2>2, <3>2, <5>3
      <4>5. CASE cmd.kind \in {"begin", "rollback"} \/ ~ok
        <5>1. db' = db
          BY <3>1, <4>5 DEF Sql, Rollback, sql, Call, Kinds
        <5> QED
          BY <2>3, <3>2, <5>1
      <4> QED
        BY <4>2, <4>3, <4>4, <4>5 DEF Call, Kinds
    <3> QED
      BY <3>3, <3>4
  <2> QED
    BY <2>3, <2>4, OnlyCallsWrite
<1> QED
  BY <1>1, <1>2, TypeCorrect, OneSession, CallersFollowed, PTL DEF Spec
=============================================================================
