---------------------------- MODULE LaneControls ----------------------------
(***************************************************************************)
(* The row with the pause controls of all queue lanes, as pauseQueueLane   *)
(* and resumeQueueLane change it.  setQueuePaused reads the whole row and  *)
(* writes the whole row, in two awaited steps; a request on the leading    *)
(* lane (finalizeDistille) goes on to the lane that follows it             *)
(* (mergeActivationFinalize).  Requests may overlap or die on the way.     *)
(***************************************************************************)

CONSTANTS
  Operators,      \* requests that may be served at a time
  Queues,
  Leader, Follower,
  NoCopy          \* what a request holds before it has read the row

ASSUME ControlAssumption ==
  /\ Leader \in Queues /\ Follower \in Queues /\ Leader # Follower
  /\ NoCopy \notin [Queues -> BOOLEAN]

VARIABLES
  control,        \* [Queues -> BOOLEAN]: the lanes paused in the row
  request,        \* [Operators -> the request being served]
  asked,          \* history: what the last request on a lane asked for it
  torn            \* history: lanes whose last request overlapped or died

laneVars == <<control, request, asked, torn>>

NoRequest == [pc |-> "idle", queue |-> Leader, to |-> FALSE, copy |-> NoCopy]
RequestStates == {"idle", "read", "write", "sweep"}

\* The lanes a request on queue decides.
Decides(queue) == IF queue = Leader THEN {Leader, Follower} ELSE {queue}

Serving(o) == request[o].pc # "idle"
Concerned == UNION {Decides(request[o].queue) : o \in {x \in Operators : Serving(x)}}

\* A request arrives.  History: if others are being served, the lanes of all
\* of them may be lost.
Ask(o, queue, to) ==
  LET others == {x \in Operators : Serving(x)}
  IN  /\ ~Serving(o)
      /\ request' = [request EXCEPT ![o] = [NoRequest EXCEPT
                       !.pc = "read", !.queue = queue, !.to = to]]
      /\ asked' = [l \in Queues |-> IF l \in Decides(queue) THEN to ELSE asked[l]]
      /\ torn' = IF others = {} THEN torn \ Decides(queue)
                 ELSE torn \cup Decides(queue) \cup Concerned
      /\ UNCHANGED control

\* Mutant: a row that cannot be read counts as a row without pauses.
RowDefaults == [l \in Queues |-> FALSE]

\* normalizeQueueControlStates: the row as it is read.
RowRead == control

ReadRow(o) ==
  /\ request[o].pc = "read"
  /\ request' = [request EXCEPT ![o].copy = RowRead, ![o].pc = "write"]
  /\ UNCHANGED <<control, asked, torn>>

\* After its own lane a request on the leader starts over with the follower.
\* request.queue is then Follower, and the request still decides that lane.
Onwards(r) ==
  IF r.queue = Leader THEN [r EXCEPT !.queue = Follower, !.pc = "read", !.copy = NoCopy]
                      ELSE NoRequest

\* upsertSettingsRow: the copy with one lane changed.  A pause goes on to put
\* the running jobs of the lane back, which OneShotQueue models.
WriteRow(o) ==
  LET r == request[o]
  IN  /\ r.pc = "write"
      /\ control' = [r.copy EXCEPT ![r.queue] = r.to]
      /\ request' = [request EXCEPT ![o] = IF r.to THEN [r EXCEPT !.pc = "sweep"]
                                                  ELSE Onwards(r)]
      /\ UNCHANGED <<asked, torn>>

SweepRunning(o) ==
  /\ request[o].pc = "sweep"
  /\ request' = [request EXCEPT ![o] = Onwards(request[o])]
  /\ UNCHANGED <<control, asked, torn>>

\* The API process dies, or a query throws.
Die(o) ==
  /\ Serving(o)
  /\ request' = [request EXCEPT ![o] = NoRequest]
  /\ torn' = torn \cup Decides(request[o].queue)
  /\ UNCHANGED <<control, asked>>

LaneInit ==
  /\ control = [l \in Queues |-> FALSE] /\ asked = control
  /\ request = [o \in Operators |-> NoRequest] /\ torn = {}

LaneNext ==
  \E o \in Operators :
    \/ \E l \in Queues, to \in BOOLEAN : Ask(o, l, to)
    \/ ReadRow(o) \/ WriteRow(o) \/ SweepRunning(o) \/ Die(o)

LaneSpec == LaneInit /\ [][LaneNext]_laneVars

-----------------------------------------------------------------------------
(* Properties. *)

\* setQueuePaused rewrites the controls of every lane.  The control of a lane
\* is nevertheless what was last asked for it, whatever is asked for other
\* lanes at the time, if no request on this lane is being served and the last
\* one neither overlapped with another request nor died on the way.
ControlsAgree ==
  \A l \in Queues : l \notin Concerned /\ l \notin torn => control[l] = asked[l]
=============================================================================
