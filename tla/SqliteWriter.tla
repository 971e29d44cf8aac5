---------------------------- MODULE SqliteWriter ----------------------------
(***************************************************************************)
(* The single SQLite writer of context-stilld: a thread that owns the one  *)
(* writable connection and serves commands from a bounded channel, among   *)
(* them the statements of remote TypeScript clients, who send a            *)
(* transaction statement by statement over HTTP.                           *)
(*                                                                         *)
(* A caller has one call at a time and waits for its answer.  A client's   *)
(* call can fail in transport, before or after the command was delivered,  *)
(* and the command of an abandoned call may still be on its way.           *)
(***************************************************************************)
EXTENDS Integers, Sequences

CONSTANTS
  Client,    \* remote clients, RemoteWriterSqliteClient objects
  Thread,    \* threads of the daemon, which submit whole jobs
  Nobody,    \* no owner
  Capacity,  \* queue_capacity of the channel
  Deadline,  \* the ownership deadline, in ticks
  Size,      \* the writes of a client's transaction
  MaxUnits,  \* bound: the transactions, single writes and jobs of a caller
  MaxFaults  \* bound: lost and broken calls, dead clients, daemon restarts

Caller == Client \cup Thread
Closer == "closer"     \* who shuts the writer down

ASSUME CallerAssumption == Closer \notin Caller /\ Nobody \notin Caller \cup {Closer}
ASSUME SizeAssumption == {Capacity, Deadline, Size, MaxUnits} \subseteq Nat \ {0}
ASSUME FaultsAssumption == MaxFaults \in Nat

Unit == 0..MaxUnits
Kinds == {"begin", "write", "commit", "rollback", "single", "job"}
Reported == {"commit", "single", "job"}   \* whose success the caller relies on

(* Command::Execute.  kind stands for the SQL and its TransactionControl.  *)
Call == [from : Caller, kind : Kinds, unit : Unit, n : 0..Size]
Shutdown == [from |-> Closer, kind |-> "shutdown", unit |-> 0, n |-> 0]
Command == Call \cup {Shutdown}

(* Where a caller stands: idle, or the kind of its present call.           *)
Stages == {"idle", "dead"} \cup Kinds

(* Write k of a unit.  A single write and a job are one write, number 0.   *)
Write == Caller \X Unit \X (0..Size)

VARIABLES
  serving,   \* the thread runs
  outbox,    \* calls on their way, or blocked in a send to the full channel
  channel,   \* the bounded channel
  deferred,  \* the commands set aside while a transaction is owned
  owner,     \* transaction_owner
  held,      \* time since transaction_started_at
  inTx,      \* the connection has an open transaction
  undo,      \* what that transaction wrote
  db,        \* what is durable
  caller,    \* the callers
  done,      \* the units that a caller was told are done
  broken,    \* the clients whose transaction was ended behind their back
  faults     \* how many faults there were

queue == <<outbox, channel, deferred>>
sql == <<inTx, undo, db>>
vars == <<serving, queue, owner, held, sql, caller, done, broken, faults>>

(* sure: the client has had the answer to each of its calls.               *)
CallerState == [stage : Stages, waiting : BOOLEAN, unit : Unit, n : 0..Size,
                sure : BOOLEAN]

TypeOK ==
  /\ serving \in BOOLEAN
  /\ outbox \subseteq Command
  /\ channel \in Seq(Command) /\ Len(channel) <= Capacity
  /\ deferred \in Seq(Command)
  /\ owner \in Caller \cup {Nobody}
  /\ held \in 0..(Deadline + 1)
  /\ inTx \in BOOLEAN
  /\ undo \subseteq Write
  /\ db \subseteq Write
  /\ caller \in [Caller -> CallerState]
  /\ done \subseteq Caller \X Unit \X Reported
  /\ broken \subseteq Caller
  /\ faults \in 0..MaxFaults

Init ==
  /\ serving = TRUE
  /\ outbox = {}
  /\ channel = <<>>
  /\ deferred = <<>>
  /\ owner = Nobody
  /\ held = 0
  /\ inTx = FALSE
  /\ undo = {}
  /\ db = {}
  /\ caller = [c \in Caller |-> [stage |-> "idle", waiting |-> FALSE, unit |-> 0,
                                 n |-> 0, sure |-> TRUE]]
  /\ done = {}
  /\ broken = {}
  /\ faults = 0

-----------------------------------------------------------------------------
(* The callers. *)

Present(c) == [from |-> c, kind |-> caller[c].stage, unit |-> caller[c].unit,
               n |-> caller[c].n]

(* Mutation of After: an error inside the transaction leads to COMMIT.     *)
CommitAfterError(s, ok) ==
  CASE s.stage = "begin" /\ ok ->
         [s EXCEPT !.stage = "write", !.waiting = FALSE, !.n = 1]
    [] s.stage = "write" /\ ok /\ s.n < Size ->
         [s EXCEPT !.waiting = FALSE, !.n = @ + 1]
    [] s.stage = "write" /\ ~(ok /\ s.n < Size) ->
         [s EXCEPT !.stage = "commit", !.waiting = FALSE, !.n = 0]
    [] s.stage = "commit" /\ ~ok ->
         [s EXCEPT !.stage = "rollback", !.waiting = FALSE, !.n = 0]
    [] OTHER -> [s EXCEPT !.stage = "idle", !.waiting = FALSE, !.n = 0]

(* What a caller does next after an answer.  RemoteWriterSqliteClient:     *)
(* BEGIN is outside the try; an error inside leads to ROLLBACK.            *)
After(s, ok) ==
  CASE s.stage = "begin" /\ ok ->
         [s EXCEPT !.stage = "write", !.waiting = FALSE, !.n = 1]
    [] s.stage = "write" /\ ok /\ s.n < Size ->
         [s EXCEPT !.waiting = FALSE, !.n = @ + 1]
    [] s.stage = "write" /\ ok /\ s.n >= Size ->
         [s EXCEPT !.stage = "commit", !.waiting = FALSE, !.n = 0]
    [] s.stage \in {"write", "commit"} /\ ~ok ->
         [s EXCEPT !.stage = "rollback", !.waiting = FALSE, !.n = 0]
    [] OTHER -> [s EXCEPT !.stage = "idle", !.waiting = FALSE, !.n = 0]

(* A new transaction, single mutation, or job. *)
Start(c) ==
  /\ caller[c].stage = "idle"
  /\ caller[c].unit < MaxUnits
  /\ \E kind \in IF c \in Client THEN {"begin", "single"} ELSE {"job"} :
       caller' = [caller EXCEPT ![c].stage = kind, ![c].unit = @ + 1]
  /\ UNCHANGED <<serving, queue, owner, held, sql, done, broken, faults>>

Send(c) ==
  /\ caller[c].stage \in Kinds
  /\ ~caller[c].waiting
  /\ outbox' = outbox \cup {Present(c)}
  /\ caller' = [caller EXCEPT ![c].waiting = TRUE]
  /\ UNCHANGED <<serving, channel, deferred, owner, held, sql, done, broken, faults>>

(* The callback of a transaction throws between two statements.            *)
Throw(c) ==
  /\ caller[c].stage \in {"write", "commit"}
  /\ ~caller[c].waiting
  /\ caller' = [caller EXCEPT ![c] = After(@, FALSE)]
  /\ UNCHANGED <<serving, queue, owner, held, sql, done, broken, faults>>

Fault ==
  /\ faults < MaxFaults
  /\ faults' = faults + 1

(* A call is lost before it reaches the daemon. *)
Lose(c) ==
  /\ c \in Client
  /\ Present(c) \in outbox
  /\ outbox' = outbox \ {Present(c)}
  /\ Fault
  /\ UNCHANGED <<serving, channel, deferred, owner, held, sql, caller, done, broken>>

(* The connection breaks; the command stays where it is.                   *)
GiveUp(c) ==
  /\ c \in Client
  /\ caller[c].waiting
  /\ caller' = [caller EXCEPT ![c] = [After(@, FALSE) EXCEPT !.sure = FALSE]]
  /\ Fault
  /\ UNCHANGED <<serving, queue, owner, held, sql, done, broken>>

Elements(s) == {s[i] : i \in DOMAIN s}

(* The call was lost, or the writer does not run: its receiver is gone.    *)
Refuse(c) ==
  /\ caller[c].waiting
  /\ \/ ~serving
     \/ Present(c) \notin outbox \cup Elements(channel) \cup Elements(deferred)
  /\ outbox' = outbox \ {Present(c)}
  /\ caller' = [caller EXCEPT ![c] = [After(@, FALSE) EXCEPT !.sure = FALSE]]
  /\ UNCHANGED <<serving, channel, deferred, owner, held, sql, done, broken, faults>>

(* A client process ends, in the middle of whatever it does. *)
Die(c) ==
  /\ c \in Client
  /\ caller[c].stage # "dead"
  /\ caller' = [caller EXCEPT ![c].stage = "dead", ![c].waiting = FALSE]
  /\ Fault
  /\ UNCHANGED <<serving, queue, owner, held, sql, done, broken>>

-----------------------------------------------------------------------------
(* The connection. *)

Written(cmd) == <<cmd.from, cmd.unit, cmd.n>>

Statement(cmd) ==
  IF inTx THEN /\ undo' = undo \cup {Written(cmd)}
               /\ UNCHANGED <<inTx, db>>
          ELSE /\ db' = db \cup {Written(cmd)}
               /\ UNCHANGED <<inTx, undo>>

Rollback ==
  /\ inTx' = FALSE
  /\ undo' = {}
  /\ UNCHANGED db

(* Mutation of Sql: COMMIT succeeds although no transaction is open.       *)
CommitAnyway(cmd, ok) ==
  CASE cmd.kind = "begin" /\ ok ->
         /\ ~inTx
         /\ inTx' = TRUE
         /\ UNCHANGED <<undo, db>>
    [] cmd.kind \in {"write", "single", "job"} /\ ok -> Statement(cmd)
    [] cmd.kind = "commit" /\ ok ->
         /\ db' = db \cup undo
         /\ inTx' = FALSE
         /\ undo' = {}
    [] cmd.kind = "rollback" /\ ok -> inTx /\ Rollback
    [] cmd.kind \in {"commit", "rollback"} /\ ~ok -> Rollback
    [] cmd.kind \in {"begin", "job"} /\ ~ok -> UNCHANGED sql
    [] OTHER -> UNCHANGED sql \/ Rollback

(* The effect of a statement that succeeds or fails.  A failing one may    *)
(* end the transaction by itself; the loop rolls back after a failing end. *)
Sql(cmd, ok) ==
  CASE cmd.kind = "begin" /\ ok ->
         /\ ~inTx
         /\ inTx' = TRUE
         /\ UNCHANGED <<undo, db>>
    [] cmd.kind \in {"write", "single", "job"} /\ ok -> Statement(cmd)
    [] cmd.kind = "commit" /\ ok ->
         /\ inTx
         /\ db' = db \cup undo
         /\ inTx' = FALSE
         /\ undo' = {}
    [] cmd.kind = "rollback" /\ ok -> inTx /\ Rollback
    [] cmd.kind \in {"commit", "rollback"} /\ ~ok -> Rollback
    [] cmd.kind \in {"begin", "job"} /\ ~ok -> UNCHANGED sql
    [] OTHER -> UNCHANGED sql \/ Rollback

-----------------------------------------------------------------------------
(* run_loop *)

Ends(cmd) == cmd.kind \in {"commit", "rollback"}

(* A transaction is owned from its successful begin to its end, however    *)
(* that goes.                                                              *)
Own(cmd, ok) ==
  CASE cmd.kind = "begin" /\ ok -> owner' = cmd.from /\ held' = 0
    [] Ends(cmd) -> owner' = Nobody /\ held' = 0
    [] OTHER -> UNCHANGED <<owner, held>>

(* The answer reaches the caller if that is what it waits for.             *)
Answer(cmd, ok) ==
  IF caller[cmd.from].waiting /\ cmd = Present(cmd.from)
  THEN /\ caller' = [caller EXCEPT ![cmd.from] = After(@, ok)]
       /\ done' = IF ok /\ cmd.kind \in Reported
                  THEN done \cup {<<cmd.from, cmd.unit, cmd.kind>>}
                  ELSE done
  ELSE UNCHANGED <<caller, done, faults>>

(* Shutdown drops what has not been served. *)
Stop ==
  /\ serving' = FALSE
  /\ outbox' = {}
  /\ channel' = <<>>
  /\ deferred' = <<>>
  /\ UNCHANGED <<owner, held, sql, caller, done, broken, faults>>

Execute(cmd) ==
  /\ \E ok \in BOOLEAN : Sql(cmd, ok) /\ Own(cmd, ok) /\ Answer(cmd, ok)
  /\ UNCHANGED <<serving, outbox, broken, faults>>

Serve(cmd, rest) ==
  \/ cmd.kind = "shutdown" /\ Stop
  \/ cmd.kind # "shutdown" /\ Execute(cmd) /\ rest

ServeDeferred ==
  /\ serving
  /\ owner = Nobody
  /\ deferred # <<>>
  /\ Serve(Head(deferred), deferred' = Tail(deferred) /\ UNCHANGED channel)

(* Mutation of ServeChannel: the owner of a transaction is not looked at.  *)
ServeAnybody ==
  /\ serving
  /\ channel # <<>>
  /\ owner = Nobody => deferred = <<>>
  /\ Serve(Head(channel), channel' = Tail(channel) /\ UNCHANGED deferred)

(* Mutation of ServeChannel: commands without a client are let through.    *)
ServeDaemonJobs ==
  /\ serving
  /\ channel # <<>>
  /\ \/ owner = Nobody /\ deferred = <<>>
     \/ owner # Nobody /\ Head(channel).from \in {owner} \cup Thread
  /\ Serve(Head(channel), channel' = Tail(channel) /\ UNCHANGED deferred)

ServeChannel ==
  /\ serving
  /\ channel # <<>>
  /\ \/ owner = Nobody /\ deferred = <<>>
     \/ owner # Nobody /\ Head(channel).from = owner
  /\ Serve(Head(channel), channel' = Tail(channel) /\ UNCHANGED deferred)

(* Mutation of Defer: a command of the owner is set aside as well.         *)
DeferOwner ==
  /\ serving
  /\ owner # Nobody
  /\ channel # <<>>
  /\ deferred' = Append(deferred, Head(channel))
  /\ channel' = Tail(channel)
  /\ UNCHANGED <<serving, outbox, owner, held, sql, caller, done, broken, faults>>

Defer ==
  /\ serving
  /\ owner # Nobody
  /\ channel # <<>>
  /\ Head(channel).from # owner
  /\ deferred' = Append(deferred, Head(channel))
  /\ channel' = Tail(channel)
  /\ UNCHANGED <<serving, outbox, owner, held, sql, caller, done, broken, faults>>

(* Mutation of Accept: one command more than the capacity. *)
AcceptOneMore ==
  /\ serving
  /\ Len(channel) <= Capacity
  /\ \E cmd \in outbox :
       /\ outbox' = outbox \ {cmd}
       /\ channel' = Append(channel, cmd)
  /\ UNCHANGED <<serving, deferred, owner, held, sql, caller, done, broken, faults>>

(* A send completes; senders blocked on a full channel wake in any order.  *)
Accept ==
  /\ serving
  /\ Len(channel) < Capacity
  /\ \E cmd \in outbox :
       /\ outbox' = outbox \ {cmd}
       /\ channel' = Append(channel, cmd)
  /\ UNCHANGED <<serving, deferred, owner, held, sql, caller, done, broken, faults>>

(* Mutation of Expire: the transaction is left open. *)
ExpireOwner ==
  /\ serving
  /\ owner # Nobody
  /\ held > Deadline
  /\ owner' = Nobody
  /\ held' = 0
  /\ broken' = broken \cup {owner}
  /\ UNCHANGED <<serving, queue, sql, caller, done, faults>>

(* Mutation of Expire: the owner is not cleared. *)
ExpireKeepsOwner ==
  /\ serving
  /\ owner # Nobody
  /\ held > Deadline
  /\ Rollback
  /\ held' = 0
  /\ broken' = broken \cup {owner}
  /\ UNCHANGED <<serving, queue, owner, caller, done, faults>>

(* A transaction held too long is rolled back before the next command.     *)
Expire ==
  /\ serving
  /\ owner # Nobody
  /\ held > Deadline
  /\ Rollback
  /\ owner' = Nobody
  /\ held' = 0
  /\ broken' = broken \cup {owner}
  /\ UNCHANGED <<serving, queue, caller, done, faults>>

Tick ==
  /\ owner # Nobody
  /\ held <= Deadline
  /\ held' = held + 1
  /\ UNCHANGED <<serving, queue, owner, sql, caller, done, broken, faults>>

(* SqliteWriterRuntime::shutdown *)
RequestShutdown ==
  /\ serving
  /\ Shutdown \notin outbox \cup Elements(channel) \cup Elements(deferred)
  /\ outbox' = outbox \cup {Shutdown}
  /\ UNCHANGED <<serving, channel, deferred, owner, held, sql, caller, done, broken, faults>>

(* The daemon dies: SQLite recovers the committed state, and the callers   *)
(* in the daemon are gone as well.                                         *)
Crash ==
  /\ serving
  /\ serving' = FALSE
  /\ outbox' = {}
  /\ channel' = <<>>
  /\ deferred' = <<>>
  /\ Rollback
  /\ owner' = Nobody
  /\ held' = 0
  /\ broken' = broken \cup ({owner} \ {Nobody})
  /\ UNCHANGED <<caller, done, faults>>

(* SqliteWriterRuntime::start, by the next daemon. *)
Restart ==
  /\ ~serving
  /\ serving' = TRUE
  /\ Fault
  /\ UNCHANGED <<queue, owner, held, sql, caller, done, broken>>

CallerStep(c) ==
  Start(c) \/ Throw(c) \/ Send(c) \/ Lose(c) \/ GiveUp(c) \/ Refuse(c) \/ Die(c)

Writer == ServeDeferred \/ ServeChannel \/ Defer

Next ==
  \/ \E c \in Caller : CallerStep(c)
  \/ Writer
  \/ Accept
  \/ Expire
  \/ Tick
  \/ RequestShutdown
  \/ Crash
  \/ Restart

Spec == Init /\ [][Next]_vars

(***************************************************************************)
(* The writer thread runs, time passes, sends are delivered, and a caller  *)
(* that finds its command gone gets its error.  Nothing is assumed of the  *)
(* clients: they may stop anywhere.                                        *)
(***************************************************************************)
Fairness ==
  /\ WF_vars(Writer)
  /\ WF_vars(Accept)
  /\ WF_vars(Expire)
  /\ WF_vars(Tick)
  /\ \A c \in Caller : WF_vars(Refuse(c))

FairSpec == Spec /\ Fairness

-----------------------------------------------------------------------------
(* Whenever the connection has a transaction open it has an owner, and     *)
(* every write in it is the owner's: a statement of another client or a    *)
(* job of the daemon never joins a transaction that is not its own.        *)
OneSessionPerTransaction ==
  /\ inTx => owner # Nobody
  /\ \A w \in undo : inTx /\ w[1] = owner

(* A client that was told its commit succeeded finds the whole of its      *)
(* transaction, also when the deadline or a restart cut it in between: the *)
(* commit of a cut transaction is answered with an error.  Clients that    *)
(* lost an answer are excepted.                                            *)
CommittedIsWhole ==
  \A c \in Client, u \in Unit :
    (caller[c].sure /\ <<c, u, "commit">> \in done) =>
      \A k \in 1..Size : <<c, u, k>> \in db

(* A transaction leaves all of its writes or none, whatever statements     *)
(* fail, unless the deadline or a restart cut it and the client's later    *)
(* statements ran outside of it.                                           *)
AllOrNothing ==
  \A c \in Client \ broken, u \in Unit :
    caller[c].sure =>
      \/ \A k \in 1..Size : <<c, u, k>> \in db
      \/ \A k \in 1..Size : <<c, u, k>> \notin db

(* A single mutation or a job that was reported as done is durable: it     *)
(* was not swept into a transaction that is rolled back later.             *)
DoneIsDurable ==
  \A c \in Caller, u \in Unit :
    (caller[c].sure /\ (<<c, u, "single">> \in done \/ <<c, u, "job">> \in done)) =>
      <<c, u, 0>> \in db

(* A client never waits behind itself: while it owns the transaction, none *)
(* of its commands is set aside, where it would stay until the deadline.   *)
(* Clients that gave up a call are excepted: their late BEGIN may take     *)
(* ownership while a later call of theirs is set aside.                    *)
OwnerIsNotDeferred ==
  \A cmd \in Elements(deferred) : cmd.from = owner => ~caller[owner].sure

(* Every call is answered or refused, although other clients stop in the   *)
(* middle of their transactions and the channel is full: the loop drains   *)
(* the channel, and the deadline frees the writer.                         *)
EveryCallEnds == \A c \in Caller : caller[c].waiting ~> ~caller[c].waiting

(* A requested shutdown comes through, also when a client holds a          *)
(* transaction open: it is set aside, but not for ever.                    *)
ShutdownEnds == Shutdown \in outbox ~> ~serving

(* The writer's statements implement the abstract store. *)
Store == INSTANCE SessionStore WITH
           holder <- IF inTx THEN owner ELSE Nobody,
           pending <- undo,
           durable <- db,
           WriterOf <- [w \in Write |-> w[1]]

(* Whatever reaches the writer, in whatever order, the connection behaves  *)
(* as a store with one session at a time.                                  *)
StoreSpec == Store!Spec
=============================================================================
