----------------------------- MODULE LaneProofs -----------------------------
(***************************************************************************)
(* The control row agrees with what was asked for the lanes, for every     *)
(* number of lanes and of requests that are served at a time; and the      *)
(* provider lanes take turns in the ticks of the resident thread, for      *)
(* every limit of claims and any number of jobs.                           *)
(*                                                                         *)
(* ControlsAgree is not inductive: it says nothing while a request is      *)
(* being served.  The strengthening says what a request holds on its way:  *)
(* its copy of the row differs only in lanes that are torn or that it is   *)
(* about to write, and what it writes is what was last asked.              *)
(*                                                                         *)
(* TurnsTaken needs to know why a lane missed a tick.  The strengthening   *)
(* says that the other lane had the latest claim then, and that a tick     *)
(* which claims for one lane while the other has a chance is one in which  *)
(* the other missed no tick before.                                        *)
(***************************************************************************)
EXTENDS LaneControls, ResidentTick, FiniteSetTheorems, TLAPS

Rows == [Queues -> BOOLEAN]

LaneTypes ==
  /\ control \in Rows /\ asked \in Rows /\ torn \subseteq Queues
  /\ request \in [Operators -> [pc : RequestStates, queue : Queues, to : BOOLEAN,
                                copy : Rows \cup {NoCopy}]]
  /\ \A o \in Operators : request[o].pc = "write" => request[o].copy \in Rows

\* The lanes a request that is being served still decides.
Wants(o) == Decides(request[o].queue)

\* Two requests that are served at a time make the lanes of both torn.
OverlapIsTorn ==
  \A o, p \in Operators : o # p /\ Serving(o) /\ Serving(p) => Wants(o) \subseteq torn

\* A copy of the row is current, but for torn lanes and the lane to be written.
CopyIsCurrent ==
  \A o \in Operators : request[o].pc = "write" =>
    \A l \in Queues \ torn : l # request[o].queue => request[o].copy[l] = control[l]

\* A request carries what was last asked for the lanes it decides.
ServesTheLast ==
  \A o \in Operators : Serving(o) =>
    \A l \in Wants(o) : l \notin torn => asked[l] = request[o].to

\* While the jobs of a lane are put back, its control is already written.
SweepsWhatIsWritten ==
  \A o \in Operators : request[o].pc = "sweep" /\ request[o].queue \notin torn =>
    control[request[o].queue] = asked[request[o].queue]

LaneInv ==
  LaneTypes /\ OverlapIsTorn /\ CopyIsCurrent /\ ServesTheLast
    /\ SweepsWhatIsWritten /\ ControlsAgree

-----------------------------------------------------------------------------
(* Helpers. *)

(* A lane is concerned if some request that is being served decides it.    *)
LEMMA ConcernedBy ==
  \A l : l \in Concerned <=> \E o \in Operators : Serving(o) /\ l \in Wants(o)
BY DEF Concerned, Wants

(* A request decides lanes, its own among them.                            *)
LEMMA DecidesLanes ==
  ASSUME NEW q \in Queues
  PROVE  Decides(q) \subseteq Queues /\ q \in Decides(q)
BY ControlAssumption DEF Decides

(* Going on from a lane gives up that lane and no other one; the request   *)
(* never goes on to write or to sweep, and asks for the same.              *)
LEMMA OnwardsKeeps ==
  ASSUME NEW r, r \in [pc : RequestStates, queue : Queues, to : BOOLEAN,
                       copy : Rows \cup {NoCopy}]
  PROVE  /\ Onwards(r) \in [pc : {"idle", "read"}, queue : Queues, to : BOOLEAN,
                            copy : Rows \cup {NoCopy}]
         /\ Onwards(r).pc # "idle" => /\ Decides(Onwards(r).queue) = Decides(r.queue) \ {r.queue}
                                      /\ Onwards(r).to = r.to
         /\ Onwards(r).pc = "idle" => Decides(r.queue) = {r.queue}
<1>1. CASE r.queue = Leader
  <2>1. /\ Onwards(r) = [r EXCEPT !.queue = Follower, !.pc = "read", !.copy = NoCopy]
        /\ Decides(r.queue) = {Leader, Follower}
        /\ Decides(Follower) = {Follower}
    BY <1>1, ControlAssumption DEF Onwards, Decides
  <2> QED
    BY <1>1, <2>1, ControlAssumption
<1>2. CASE r.queue # Leader
  <2>1. Onwards(r) = NoRequest /\ Decides(r.queue) = {r.queue}
    BY <1>2 DEF Onwards, Decides
  <2> QED
    BY <2>1, ControlAssumption DEF NoRequest
<1> QED
  BY <1>1, <1>2

-----------------------------------------------------------------------------
(* The steps. *)

(* A new request is alone, or makes its lanes and those of the others torn. *)
LEMMA AskStep ==
  ASSUME LaneInv, NEW o \in Operators, NEW q \in Queues, NEW to \in BOOLEAN, Ask(o, q, to)
  PROVE  LaneInv'
<1> USE DEF LaneInv
<1> DEFINE others == {x \in Operators : Serving(x)}
<1>1. /\ request'[o] = [pc |-> "read", queue |-> q, to |-> to, copy |-> NoCopy]
      /\ \A p \in Operators \ {o} : request'[p] = request[p]
      /\ ~Serving(o) /\ control' = control
      /\ asked' = [l \in Queues |-> IF l \in Decides(q) THEN to ELSE asked[l]]
      /\ torn' = IF others = {} THEN torn \ Decides(q) ELSE torn \cup Decides(q) \cup Concerned
  BY DEF Ask, NoRequest, LaneTypes
<1>2. Decides(q) \subseteq Queues /\ Concerned \subseteq Queues
  BY DecidesLanes, ConcernedBy DEF Wants, LaneTypes
<1>3. LaneTypes'
  <2>1. torn' \subseteq Queues /\ asked' \in Rows
    BY <1>1, <1>2 DEF LaneTypes, Rows
  <2>2. request' = [request EXCEPT ![o] = request'[o]]
    BY <1>1 DEF Ask, LaneTypes
  <2>3. request'[o] \in [pc : RequestStates, queue : Queues, to : BOOLEAN,
                         copy : Rows \cup {NoCopy}]
    BY <1>1 DEF RequestStates
  <2>4. request'[o].pc # "write"
    BY <1>1
  <2> QED
    BY <1>1, <2>1, <2>2, <2>3, <2>4 DEF LaneTypes
<1>4. /\ Serving(o)' /\ Wants(o)' = Decides(q)
      /\ \A p \in Operators \ {o} : Serving(p)' = Serving(p) /\ Wants(p)' = Wants(p)
  BY <1>1 DEF Serving, Wants
<1>5. \A p \in Operators \ {o} : Serving(p) => Wants(p) \subseteq torn' /\ Decides(q) \subseteq torn'
  BY <1>1, ConcernedBy
<1>6. OverlapIsTorn'
  BY <1>4, <1>5 DEF OverlapIsTorn
<1>7. CopyIsCurrent'
  <2> SUFFICES ASSUME NEW p \in Operators, request'[p].pc = "write",
                      NEW l \in Queues \ torn', l # request'[p].queue
               PROVE  request'[p].copy[l] = control'[l]
    BY DEF CopyIsCurrent
  <2>1. p # o /\ request'[p] = request[p] /\ Serving(p)
    BY <1>1 DEF Serving
  <2>2. l \notin torn
    BY <1>1, <2>1
  <2> QED
    BY <1>1, <2>1, <2>2 DEF CopyIsCurrent
<1>8. ServesTheLast'
  <2> SUFFICES ASSUME NEW p \in Operators, Serving(p)', NEW l \in Wants(p)', l \notin torn'
               PROVE  asked'[l] = request'[p].to
    BY DEF ServesTheLast
  <2>1. CASE p = o
    BY <1>1, <1>2, <1>4, <2>1
  <2>2. CASE p # o
    BY <1>4, <1>5, <2>2
  <2> QED
    BY <2>1, <2>2
<1>9. SweepsWhatIsWritten'
  <2> SUFFICES ASSUME NEW p \in Operators, request'[p].pc = "sweep",
                      request'[p].queue \notin torn'
               PROVE  FALSE
    BY DEF SweepsWhatIsWritten
  <2>1. p # o /\ request'[p] = request[p] /\ Serving(p) /\ Wants(p) \subseteq torn'
    BY <1>1, <1>5 DEF Serving
  <2> QED
    BY <2>1, DecidesLanes DEF Wants, LaneTypes
<1>10. ControlsAgree'
  <2> SUFFICES ASSUME NEW l \in Queues, l \notin Concerned', l \notin torn'
               PROVE  control'[l] = asked'[l]
    BY DEF ControlsAgree
  <2>1. l \notin Decides(q)
    BY <1>4, ConcernedBy DEF Concerned, Wants
  <2>2. l \notin torn /\ l \notin Concerned
    BY <1>1, <2>1, ConcernedBy
  <2> QED
    BY <1>1, <2>1, <2>2 DEF ControlsAgree
<1> QED
  BY <1>3, <1>6, <1>7, <1>8, <1>9, <1>10

(* A request that reads the row holds a current copy.                      *)
LEMMA ReadRowStep ==
  ASSUME LaneInv, NEW o \in Operators, ReadRow(o)
  PROVE  LaneInv'
<1> USE DEF LaneInv
<1>1. /\ request'[o] = [request[o] EXCEPT !.copy = control, !.pc = "write"]
      /\ \A p \in Operators \ {o} : request'[p] = request[p]
      /\ control' = control /\ asked' = asked /\ torn' = torn
      /\ request[o].pc = "read"
  BY DEF ReadRow, RowRead, LaneTypes
<1>2. LaneTypes'
  BY <1>1 DEF LaneTypes, ReadRow, RowRead, RequestStates
<1>3. \A p \in Operators : /\ Serving(p)' = Serving(p) /\ Wants(p)' = Wants(p)
                           /\ request'[p].to = request[p].to
                           /\ request'[p].queue = request[p].queue
                           /\ request'[p].pc = "sweep" => request[p].pc = "sweep"
  <2>1. /\ request'[o].pc = "write" /\ request'[o].queue = request[o].queue
        /\ request'[o].to = request[o].to
    BY <1>1 DEF LaneTypes
  <2> QED
    BY <1>1, <2>1 DEF Serving, Wants
<1>4. OverlapIsTorn' /\ ServesTheLast' /\ SweepsWhatIsWritten'
  BY <1>1, <1>3 DEF OverlapIsTorn, ServesTheLast, SweepsWhatIsWritten
<1>5. CopyIsCurrent'
  <2> SUFFICES ASSUME NEW p \in Operators, request'[p].pc = "write",
                      NEW l \in Queues \ torn', l # request'[p].queue
               PROVE  request'[p].copy[l] = control'[l]
    BY DEF CopyIsCurrent
  <2>1. CASE p = o
    BY <1>1, <2>1 DEF LaneTypes
  <2>2. CASE p # o
    BY <1>1, <2>2 DEF CopyIsCurrent
  <2> QED
    BY <2>1, <2>2
<1>6. Concerned' = Concerned
  BY <1>3 DEF Concerned, Wants
<1>7. ControlsAgree'
  BY <1>1, <1>6 DEF ControlsAgree
<1> QED
  BY <1>2, <1>4, <1>5, <1>7

(* What going on, or ending, leaves true, if the control of the lane that  *)
(* is given up is what was last asked for it.                              *)
LEMMA GivesUpLane ==
  ASSUME LaneInv, NEW o \in Operators, Serving(o),
         request' = [request EXCEPT ![o] = Onwards(request[o])],
         torn' = torn, asked' = asked, control' \in Rows,
         \A l \in Queues \ torn : l # request[o].queue => control'[l] = control[l],
         request[o].queue \notin torn => control'[request[o].queue] = asked[request[o].queue]
  PROVE  LaneInv'
<1> USE DEF LaneInv
<1> DEFINE r == request[o]
<1>1. /\ r \in [pc : RequestStates, queue : Queues, to : BOOLEAN, copy : Rows \cup {NoCopy}]
      /\ request'[o] = Onwards(r)
      /\ \A p \in Operators \ {o} : request'[p] = request[p]
  BY DEF LaneTypes
<1>2. /\ Onwards(r) \in [pc : {"idle", "read"}, queue : Queues, to : BOOLEAN,
                         copy : Rows \cup {NoCopy}]
      /\ Onwards(r).pc # "idle" => /\ Decides(Onwards(r).queue) = Decides(r.queue) \ {r.queue}
                                   /\ Onwards(r).to = r.to
      /\ Onwards(r).pc = "idle" => Decides(r.queue) = {r.queue}
  BY <1>1, OnwardsKeeps
<1> HIDE DEF r
<1>3. LaneTypes'
  BY <1>1, <1>2 DEF LaneTypes, RequestStates
<1>4. /\ Serving(o)' => Wants(o)' = Wants(o) \ {r.queue} /\ request'[o].to = request[o].to
      /\ ~Serving(o)' => Wants(o) = {r.queue}
      /\ \A p \in Operators \ {o} : Serving(p)' = Serving(p) /\ Wants(p)' = Wants(p)
  BY <1>1, <1>2 DEF Serving, Wants, r
<1>5. OverlapIsTorn'
  BY <1>4 DEF OverlapIsTorn
<1>6. \A p \in Operators \ {o} : Serving(p) => r.queue \in torn
  BY DecidesLanes DEF OverlapIsTorn, Wants, r, LaneTypes
<1>7. CopyIsCurrent'
  <2> SUFFICES ASSUME NEW p \in Operators, request'[p].pc = "write",
                      NEW l \in Queues \ torn', l # request'[p].queue
               PROVE  request'[p].copy[l] = control'[l]
    BY DEF CopyIsCurrent
  <2>1. p # o /\ request'[p] = request[p] /\ Serving(p)
    BY <1>1, <1>2 DEF Serving
  <2>2. request[p].copy[l] = control[l] /\ l # r.queue
    BY <1>6, <2>1 DEF CopyIsCurrent
  <2> QED
    BY <2>1, <2>2 DEF r
<1>8. ServesTheLast'
  BY <1>1, <1>4 DEF ServesTheLast
<1>9. SweepsWhatIsWritten'
  <2> SUFFICES ASSUME NEW p \in Operators, request'[p].pc = "sweep",
                      request'[p].queue \notin torn'
               PROVE  control'[request'[p].queue] = asked'[request'[p].queue]
    BY DEF SweepsWhatIsWritten
  <2>1. p # o /\ request'[p] = request[p] /\ Serving(p) /\ request[p].queue \in Queues
    BY <1>1, <1>2 DEF Serving, LaneTypes
  <2> QED
    BY <1>6, <2>1 DEF SweepsWhatIsWritten, r
<1>10. ControlsAgree'
  <2> SUFFICES ASSUME NEW l \in Queues, l \notin Concerned', l \notin torn'
               PROVE  control'[l] = asked'[l]
    BY DEF ControlsAgree
  <2>1. CASE l = r.queue
    BY <2>1 DEF r
  <2>2. CASE l # r.queue
    <3>1. l \notin Concerned
      <4> SUFFICES ASSUME NEW p \in Operators, Serving(p), l \in Wants(p)
                   PROVE  \E x \in Operators : Serving(x)' /\ l \in Wants(x)'
        BY ConcernedBy DEF Concerned, Wants
      <4> QED
        BY <1>4, <2>2
    <3> QED
      BY <2>2, <3>1 DEF ControlsAgree, r
  <2> QED
    BY <2>1, <2>2
<1> QED
  BY <1>3, <1>5, <1>7, <1>8, <1>9, <1>10

(* A request writes what was asked for its lane and, for any other lane    *)
(* that is not torn, what the row has.                                     *)
LEMMA WriteRowStep ==
  ASSUME LaneInv, NEW o \in Operators, WriteRow(o)
  PROVE  LaneInv'
<1> USE DEF LaneInv
<1> DEFINE r == request[o]
<1>1. /\ r.pc = "write" /\ r.queue \in Queues /\ r.to \in BOOLEAN /\ r.copy \in Rows
      /\ Serving(o)
      /\ control' = [r.copy EXCEPT ![r.queue] = r.to]
      /\ asked' = asked /\ torn' = torn
  BY DEF WriteRow, Serving, LaneTypes
<1>2. /\ control' \in Rows /\ control'[r.queue] = r.to
      /\ \A l \in Queues \ torn : l # r.queue => control'[l] = control[l]
  <2>1. \A l \in Queues \ torn : l # r.queue => r.copy[l] = control[l]
    BY <1>1 DEF CopyIsCurrent
  <2> HIDE DEF r
  <2>2. control' \in Rows /\ control'[r.queue] = r.to
    BY <1>1 DEF Rows
  <2>3. \A l \in Queues : l # r.queue => control'[l] = r.copy[l]
    BY <1>1 DEF Rows
  <2> QED
    BY <2>1, <2>2, <2>3
<1>3. r.queue \notin torn => control'[r.queue] = asked[r.queue]
  BY <1>1, <1>2, DecidesLanes DEF ServesTheLast, Wants
<1>4. CASE ~r.to
  <2>1. request' = [request EXCEPT ![o] = Onwards(r)]
    BY <1>4 DEF WriteRow
  <2> QED
    BY <1>1, <1>2, <1>3, <2>1, GivesUpLane
<1>5. CASE r.to
  <2>1. /\ request'[o] = [r EXCEPT !.pc = "sweep"]
        /\ \A p \in Operators \ {o} : request'[p] = request[p]
    BY <1>5 DEF WriteRow, LaneTypes
  <2>2. LaneTypes'
    BY <1>1, <1>2, <1>5 DEF LaneTypes, WriteRow, RequestStates
  <2>3. \A p \in Operators : /\ Serving(p)' = Serving(p) /\ Wants(p)' = Wants(p)
                             /\ request'[p].to = request[p].to
    BY <1>1, <2>1 DEF Serving, Wants, LaneTypes
  <2>4. OverlapIsTorn' /\ ServesTheLast'
    BY <1>1, <2>3 DEF OverlapIsTorn, ServesTheLast
  <2>5. \A p \in Operators \ {o} : Serving(p) => r.queue \in torn
    BY <1>1, DecidesLanes DEF OverlapIsTorn, Wants
  <2>6. CopyIsCurrent'
    <3> SUFFICES ASSUME NEW p \in Operators, request'[p].pc = "write",
                        NEW l \in Queues \ torn', l # request'[p].queue
                 PROVE  request'[p].copy[l] = control'[l]
      BY DEF CopyIsCurrent
    <3>1. p # o /\ request'[p] = request[p] /\ Serving(p)
      BY <2>1 DEF Serving, LaneTypes
    <3>2. request[p].copy[l] = control[l] /\ l # r.queue
      BY <1>1, <2>5, <3>1 DEF CopyIsCurrent
    <3> QED
      BY <1>1, <1>2, <3>1, <3>2
  <2>7. SweepsWhatIsWritten'
    <3> SUFFICES ASSUME NEW p \in Operators, request'[p].pc = "sweep",
                        request'[p].queue \notin torn'
                 PROVE  control'[request'[p].queue] = asked'[request'[p].queue]
      BY DEF SweepsWhatIsWritten
    <3>1. CASE p = o
      <4>1. request'[p].queue = r.queue
        BY <1>1, <2>1, <3>1 DEF LaneTypes
      <4> QED
        BY <1>1, <1>3, <4>1
    <3>2. CASE p # o
      <4>1. request'[p] = request[p] /\ Serving(p) /\ request[p].queue \in Queues
        BY <2>1, <3>2 DEF Serving, LaneTypes
      <4> QED
        BY <1>1, <1>2, <2>5, <3>2, <4>1 DEF SweepsWhatIsWritten
    <3> QED
      BY <3>1, <3>2
  <2>8. Concerned' = Concerned
    BY <2>3 DEF Concerned, Wants
  <2>9. ControlsAgree'
    <3>1. r.queue \in Concerned
      BY <1>1, ConcernedBy, DecidesLanes DEF Wants
    <3> QED
      BY <1>1, <1>2, <2>8, <3>1 DEF ControlsAgree
  <2> QED
    BY <2>2, <2>4, <2>6, <2>7, <2>9
<1> QED
  BY <1>1, <1>4, <1>5

(* After the running jobs are put back the request goes on.                *)
LEMMA SweepStep ==
  ASSUME LaneInv, NEW o \in Operators, SweepRunning(o)
  PROVE  LaneInv'
<1>1. /\ request[o].pc = "sweep" /\ Serving(o)
      /\ request' = [request EXCEPT ![o] = Onwards(request[o])]
      /\ control' = control /\ asked' = asked /\ torn' = torn /\ control \in Rows
  BY DEF SweepRunning, Serving, LaneInv, LaneTypes
<1>2. request[o].queue \notin torn => control[request[o].queue] = asked[request[o].queue]
  BY <1>1 DEF LaneInv, SweepsWhatIsWritten
<1> QED
  BY <1>1, <1>2, GivesUpLane

(* The lanes of a request that dies are torn.                              *)
LEMMA DieStep ==
  ASSUME LaneInv, NEW o \in Operators, Die(o)
  PROVE  LaneInv'
<1> USE DEF LaneInv
<1>1. /\ Serving(o) /\ request'[o] = NoRequest
      /\ \A p \in Operators \ {o} : request'[p] = request[p]
      /\ control' = control /\ asked' = asked /\ torn' = torn \cup Wants(o)
  BY DEF Die, Wants, LaneTypes
<1>2. LaneTypes'
  <2>1. Wants(o) \subseteq Queues
    BY DecidesLanes DEF Wants, LaneTypes
  <2>2. NoRequest \in [pc : RequestStates, queue : Queues, to : BOOLEAN, copy : Rows \cup {NoCopy}]
    BY ControlAssumption DEF NoRequest, RequestStates
  <2> QED
    BY <1>1, <2>1, <2>2 DEF LaneTypes, Die, NoRequest
<1>3. /\ ~Serving(o)' /\ request'[o].pc = "idle"
      /\ \A p \in Operators \ {o} : Serving(p)' = Serving(p) /\ Wants(p)' = Wants(p)
  BY <1>1 DEF Serving, Wants, NoRequest
<1>4. OverlapIsTorn' /\ CopyIsCurrent' /\ ServesTheLast' /\ SweepsWhatIsWritten'
  BY <1>1, <1>3 DEF OverlapIsTorn, CopyIsCurrent, ServesTheLast, SweepsWhatIsWritten
<1>5. ControlsAgree'
  <2> SUFFICES ASSUME NEW l \in Queues, l \notin Concerned', l \notin torn'
               PROVE  control'[l] = asked'[l]
    BY DEF ControlsAgree
  <2>1. l \notin Concerned
    <3> SUFFICES ASSUME NEW p \in Operators, Serving(p), l \in Wants(p)
                 PROVE  \E x \in Operators : Serving(x)' /\ l \in Wants(x)'
      BY ConcernedBy DEF Concerned, Wants
    <3> QED
      BY <1>1, <1>3
  <2> QED
    BY <1>1, <2>1 DEF ControlsAgree
<1> QED
  BY <1>2, <1>4, <1>5

-----------------------------------------------------------------------------
(* The control of a lane is what was last asked for it, whatever is asked  *)
(* for other lanes at the time (setQueuePaused in control.ts).             *)
THEOREM ControlsCorrect == LaneSpec => []ControlsAgree
<1>1. LaneInit => LaneInv
  <2> SUFFICES ASSUME LaneInit PROVE LaneInv
    OBVIOUS
  <2>1. /\ NoRequest \in [pc : RequestStates, queue : Queues, to : BOOLEAN,
                          copy : Rows \cup {NoCopy}]
        /\ NoRequest.pc = "idle"
    BY ControlAssumption DEF NoRequest, RequestStates
  <2>2. \A o \in Operators : request[o] = NoRequest
    BY DEF LaneInit
  <2>3. LaneTypes
    BY <2>1, <2>2 DEF LaneInit, LaneTypes, Rows
  <2>4. OverlapIsTorn /\ CopyIsCurrent /\ ServesTheLast /\ SweepsWhatIsWritten
    BY <2>1, <2>2 DEF OverlapIsTorn, CopyIsCurrent, ServesTheLast, SweepsWhatIsWritten, Serving
  <2>5. ControlsAgree
    BY DEF LaneInit, ControlsAgree
  <2> QED
    BY <2>3, <2>4, <2>5 DEF LaneInv
<1>2. LaneInv /\ [LaneNext]_laneVars => LaneInv'
  <2> SUFFICES ASSUME LaneInv, [LaneNext]_laneVars PROVE LaneInv'
    OBVIOUS
  <2>1. CASE LaneNext
    BY <2>1, AskStep, ReadRowStep, WriteRowStep, SweepStep, DieStep DEF LaneNext
  <2>2. CASE UNCHANGED laneVars
    BY <2>2 DEF laneVars, LaneInv, LaneTypes, OverlapIsTorn, CopyIsCurrent, ServesTheLast,
         SweepsWhatIsWritten, ControlsAgree, Serving, Wants, Concerned
  <2> QED
    BY <2>1, <2>2
<1>3. LaneInv => ControlsAgree
  BY DEF LaneInv
<1> QED
  BY <1>1, <1>2, <1>3, PTL DEF LaneSpec

-----------------------------------------------------------------------------
(* The ticks of the resident thread. *)

TickTypes ==
  /\ backlog \in [TickLanes -> Nat] /\ closed \subseteq TickLanes /\ served \subseteq ProviderLanes
  /\ lastClaim \in ProviderLanes \cup {"none"} /\ recently \in BOOLEAN
  /\ tick \in [pc : {"idle", "drain", "cover", "others"}, split : BOOLEAN, drained : BOOLEAN,
               made : Nat, batch : Nat]
  /\ took \subseteq ProviderLanes /\ chance \subseteq ProviderLanes
  /\ passed \in [ProviderLanes -> {0, 1}]

\* A chance that is still open is one.
ChanceIsReal == \A l \in chance : Could(l)

\* What a tick has claimed, by where it is.
TookSoFar ==
  /\ tick.pc = "idle"   => tick = NoTick /\ took = {} /\ chance = {}
  /\ tick.pc = "drain"  => took = {} /\ tick.made = 0 /\ tick.batch = 0
  /\ tick.pc = "cover"  => IF tick.made + tick.batch > 0
                           THEN took = {"covering"} /\ lastClaim = "covering"
                           ELSE took = {}
  /\ tick.pc = "others" => IF tick.made > 0 THEN took = {"other"} /\ lastClaim = "other"
                                            ELSE took = {}

\* Finalize jobs take the chance of covering, and a generic tick that claims
\* nothing shows that the others had none.
DrainTakesChances ==
  /\ tick.pc = "drain" => "covering" \notin chance
  /\ tick.drained => chance = {}

\* Covering takes the turn of a lane that did not miss the one before, and the
\* other way round.
TakesTurn ==
  /\ tick.pc = "cover" /\ took # {} /\ "other" \in chance => passed["other"] = 0
  /\ tick.pc = "others" /\ "covering" \in chance =>
       passed["covering"] = 0 /\ (lastClaim = "other" \/ CanServe("other"))

\* A lane that missed a tick has the next turn: the latest claim is the other's.
MissedIsNext ==
  /\ passed["covering"] = 1 => lastClaim # "covering" \/ "covering" \in took
  /\ passed["other"] = 1 => lastClaim = "covering" \/ "other" \in took

TickInv ==
  TickTypes /\ ChanceIsReal /\ TookSoFar /\ DrainTakesChances /\ TakesTurn /\ MissedIsNext

-----------------------------------------------------------------------------
(* The end of a tick. *)

(* A tick ends well if a lane that had a chance and no claim has missed none *)
(* before, and the latest claim is the other's.                              *)
LEMMA EndStep ==
  ASSUME TickInv, NEW claims, NEW missed, End(claims, missed),
         backlog' \in [TickLanes -> Nat], closed' = closed, served' = served,
         lastClaim' \in ProviderLanes \cup {"none"}, recently' \in BOOLEAN,
         \A l \in ProviderLanes : l \in missed /\ l \notin claims => passed[l] = 0,
         "covering" \notin claims => /\ lastClaim' = "covering" => lastClaim = "covering"
                                     /\ "covering" \notin took
                                     /\ "covering" \in missed => lastClaim' # "covering",
         "other" \notin claims => /\ lastClaim = "covering" => lastClaim' = "covering"
                                  /\ "other" \notin took
                                  /\ "other" \in missed => lastClaim' = "covering"
  PROVE  TickInv'
<1>1. tick' = NoTick /\ took' = {} /\ chance' = {}
  BY DEF End
<1>2. \A l \in ProviderLanes :
        /\ passed'[l] \in {0, 1}
        /\ passed'[l] = 1 => l \notin claims /\ (l \in missed \/ passed[l] = 1)
  BY DEF End, Smaller, TickInv, TickTypes
<1>3. passed' \in [ProviderLanes -> {0, 1}]
  BY <1>2 DEF End
<1>4. TickTypes'
  BY <1>1, <1>3 DEF TickTypes, NoTick, TickInv
<1>5. ChanceIsReal' /\ TookSoFar' /\ DrainTakesChances' /\ TakesTurn'
  BY <1>1 DEF ChanceIsReal, TookSoFar, DrainTakesChances, TakesTurn, NoTick
<1>6. MissedIsNext'
  BY <1>2 DEF MissedIsNext, ProviderLanes, TickInv
<1> QED
  BY <1>4, <1>5, <1>6 DEF TickInv

-----------------------------------------------------------------------------
(* The steps of a tick. *)

(* A tick begins; nothing is claimed.                                        *)
LEMMA StartTickStep ==
  ASSUME TickInv, StartTick
  PROVE  TickInv'
<1> USE DEF TickInv
<1>1. PICK split \in BOOLEAN :
        tick' = [NoTick EXCEPT !.split = split,
                               !.pc = IF backlog["finalize"] > 0 THEN "drain" ELSE "cover"]
  BY DEF StartTick
<1>2. /\ tick'.pc = IF backlog["finalize"] > 0 THEN "drain" ELSE "cover"
      /\ tick'.made = 0 /\ tick'.batch = 0 /\ tick'.drained = FALSE
      /\ tick' \in [pc : {"idle", "drain", "cover", "others"}, split : BOOLEAN, drained : BOOLEAN,
                    made : Nat, batch : Nat]
  BY <1>1 DEF NoTick
<1>3. /\ chance' = {l \in ProviderLanes : Could(l) /\ (l = "covering" => backlog["finalize"] = 0)}
      /\ took = {} /\ UNCHANGED <<backlog, closed, served, lastClaim, recently, took, passed>>
  BY DEF StartTick, work, TookSoFar, NoTick
<1>4. \A l : Could(l)' = Could(l)
  BY <1>3 DEF Could, CanServe, Waiting
<1> QED
  BY <1>2, <1>3, <1>4 DEF TickTypes, ChanceIsReal, TookSoFar, DrainTakesChances, TakesTurn, MissedIsNext

(* The generic tick serves the others if it can, and covering only has to    *)
(* wait for it when the others claimed last or are served now.               *)
LEMMA GenericTickStep ==
  ASSUME TickInv, GenericTick
  PROVE  TickInv'
<1> USE DEF TickInv
<1> DEFINE finals == IF "finalize" \in closed THEN 0 ELSE Smaller(backlog["finalize"], MaxFinalize)
           others == IF CanServe("other") THEN {"other"} ELSE {}
<1>1. /\ tick.pc = "drain" \/ (tick.pc = "others" /\ ~tick.split)
      /\ backlog' = [backlog EXCEPT !["finalize"] = @ - finals, !["other"] = @ - Cardinality(others)]
      /\ lastClaim' = IF others = {} THEN lastClaim ELSE "other"
      /\ UNCHANGED <<closed, served, recently>>
      /\ IF tick.pc = "drain" /\ finals = 0 /\ others = {}
         THEN GoesOn([tick EXCEPT !.pc = "cover", !.drained = TRUE], {})
         ELSE End(took \cup others, chance)
  BY DEF GenericTick
<1>2. finals \in Nat /\ finals <= backlog["finalize"]
  BY TickAssumption DEF Smaller, TickTypes, TickLanes
<1>3. Cardinality(others) = IF CanServe("other") THEN 1 ELSE 0
  BY FS_EmptySet, FS_Singleton
<1>4. Cardinality(others) \in Nat /\ Cardinality(others) <= backlog["other"]
  BY <1>3 DEF CanServe, Waiting, TickTypes, TickLanes, ProviderLanes
<1>5. backlog' \in [TickLanes -> Nat]
  <2> HIDE DEF finals, others
  <2> QED
    BY <1>1, <1>2, <1>4 DEF TickTypes, TickLanes, ProviderLanes
<1>6. lastClaim' \in ProviderLanes \cup {"none"}
  BY <1>1 DEF TickTypes, ProviderLanes
<1>7. "other" \in chance => others = {"other"}
  BY DEF ChanceIsReal, Could
<1>8. CASE tick.pc = "drain" /\ finals = 0 /\ others = {}
  <2>1. GoesOn([tick EXCEPT !.pc = "cover", !.drained = TRUE], {})
    BY <1>1, <1>8
  <2>2. /\ tick'.pc = "cover" /\ tick'.made = 0 /\ tick'.batch = 0
        /\ tick' \in [pc : {"idle", "drain", "cover", "others"}, split : BOOLEAN, drained : BOOLEAN,
                      made : Nat, batch : Nat]
        /\ took' = took /\ took = {} /\ passed' = passed
        /\ chance' \subseteq chance /\ \A l \in chance' : Could(l)'
    BY <2>1, <1>8 DEF GoesOn, StillCould, TookSoFar, TickTypes
  <2>3. chance = {}
    BY <1>7, <1>8 DEF DrainTakesChances, TickTypes, ProviderLanes
  <2>4. lastClaim' = lastClaim
    BY <1>1, <1>8
  <2> QED
    BY <1>1, <1>5, <2>2, <2>3, <2>4
    DEF TickTypes, ChanceIsReal, TookSoFar, DrainTakesChances, TakesTurn, MissedIsNext
<1>9. CASE ~(tick.pc = "drain" /\ finals = 0 /\ others = {})
  <2>1. End(took \cup others, chance)
    BY <1>1, <1>9
  <2>2. "covering" \notin took
    BY <1>1 DEF TookSoFar, TickTypes
  <2>3. "covering" \in chance => /\ passed["covering"] = 0
                                 /\ lastClaim' # "covering"
    BY <1>1 DEF DrainTakesChances, TakesTurn
  <2>4. "other" \notin took \cup others => lastClaim' = lastClaim /\ "other" \notin chance
    BY <1>1, <1>7
  <2>5. lastClaim' = "covering" => lastClaim = "covering"
    BY <1>1
  <2> HIDE DEF finals, others
  <2>6. UNCHANGED <<closed, served, recently>> /\ recently' \in BOOLEAN
    BY <1>1 DEF TickTypes
  <2>7. \A l \in ProviderLanes : l \in chance /\ l \notin took \cup others => passed[l] = 0
    BY <2>3, <2>4 DEF ProviderLanes
  <2> QED
    BY <1>5, <1>6, <2>1, <2>2, <2>3, <2>4, <2>5, <2>6, <2>7, EndStep
<1> QED
  BY <1>8, <1>9

(* A claim of covering while the others wait takes its turn after a claim of *)
(* theirs, so that they have missed no tick.                                 *)
LEMMA ClaimCoveringStep ==
  ASSUME TickInv, ClaimCovering
  PROVE  TickInv'
<1> USE DEF TickInv
<1>1. /\ tick.pc = "cover" /\ CanServe("covering") /\ (Waiting("other") => TurnDue)
      /\ backlog' = [backlog EXCEPT !["covering"] = @ - 1]
      /\ lastClaim' = "covering" /\ recently' = TRUE
      /\ UNCHANGED <<closed, served>>
  BY DEF ClaimCovering, MayCover, ClaimFrom, TickTypes
<1>2. backlog["covering"] \in Nat \ {0}
  BY <1>1 DEF CanServe, Waiting, TickTypes, TickLanes, ProviderLanes
<1>3. backlog' \in [TickLanes -> Nat]
  BY <1>1, <1>2 DEF TickTypes, TickLanes, ProviderLanes
<1>4. took \subseteq {"covering"}
  BY <1>1 DEF TookSoFar
<1>5. "other" \in chance => passed["other"] = 0
  <2> SUFFICES ASSUME "other" \in chance PROVE passed["other"] = 0
    OBVIOUS
  <2>1. Waiting("other")
    BY DEF ChanceIsReal, Could, CanServe
  <2>2. lastClaim # "covering" /\ "other" \notin took
    BY <1>1, <1>4, <2>1 DEF TurnDue
  <2> QED
    BY <2>2 DEF MissedIsNext, TickTypes, ProviderLanes
<1>6. CASE GoesOn([tick EXCEPT !.batch = @ + 1], {"covering"})
  <2>1. /\ tick'.pc = "cover" /\ tick'.made + tick'.batch > 0 /\ tick'.drained = tick.drained
        /\ tick' \in [pc : {"idle", "drain", "cover", "others"}, split : BOOLEAN, drained : BOOLEAN,
                      made : Nat, batch : Nat]
    BY <1>1, <1>6 DEF GoesOn, TickTypes
  <2>2. /\ took' = {"covering"} /\ passed' = passed
        /\ chance' \subseteq chance /\ \A l \in chance' : Could(l)'
    BY <1>4, <1>6 DEF GoesOn, StillCould
  <2>3. TickTypes'
    BY <1>1, <1>3, <2>1, <2>2 DEF TickTypes, ProviderLanes
  <2>4. MissedIsNext'
    BY <1>1, <2>2 DEF MissedIsNext
  <2>5. TakesTurn' /\ TookSoFar' /\ ChanceIsReal' /\ DrainTakesChances'
    BY <1>1, <1>5, <2>1, <2>2 DEF TakesTurn, TookSoFar, ChanceIsReal, DrainTakesChances
  <2> QED
    BY <2>3, <2>4, <2>5
<1>7. CASE End(took \cup {"covering"}, chance)
  <2>1. \A l \in ProviderLanes : l \in chance /\ l \notin took \cup {"covering"} => passed[l] = 0
    BY <1>5 DEF ProviderLanes
  <2>2. "other" \notin took
    BY <1>4
  <2> QED
    BY <1>1, <1>3, <1>7, <2>1, <2>2, EndStep DEF ProviderLanes
<1> QED
  BY <1>6, <1>7 DEF ClaimCovering

(* An executed batch was claimed.                                            *)
LEMMA RunBatchStep ==
  ASSUME TickInv, RunBatch
  PROVE  TickInv'
<1> USE DEF TickInv
<1>1. /\ tick.pc = "cover" /\ tick.batch > 0
      /\ UNCHANGED <<backlog, closed, served, lastClaim, recently>>
  BY DEF RunBatch, work
<1>2. took = {"covering"} /\ lastClaim = "covering"
  BY <1>1 DEF TookSoFar, TickTypes
<1>3. CASE GoesOn([tick EXCEPT !.made = @ + tick.batch, !.batch = 0], {})
  <2> DEFINE made == tick.made + tick.batch
  <2>0. made \in Nat \ {0} /\ made + 0 > 0
    BY <1>1 DEF TickTypes
  <2> HIDE DEF made
  <2>1. /\ tick'.pc = "cover" /\ tick'.made = made /\ tick'.batch = 0 /\ tick'.drained = tick.drained
        /\ tick' \in [pc : {"idle", "drain", "cover", "others"}, split : BOOLEAN, drained : BOOLEAN,
                      made : Nat, batch : Nat]
    BY <1>1, <1>3, <2>0 DEF GoesOn, TickTypes, made
  <2>2. /\ took' = took /\ passed' = passed
        /\ chance' \subseteq chance /\ \A l \in chance' : Could(l)'
    BY <1>3 DEF GoesOn, StillCould
  <2> QED
    BY <1>1, <1>2, <2>0, <2>1, <2>2
    DEF TickTypes, ChanceIsReal, TookSoFar, DrainTakesChances, TakesTurn, MissedIsNext
<1>4. CASE End(took, chance)
  <2>1. \A l \in ProviderLanes : l \in chance /\ l \notin took => passed[l] = 0
    BY <1>1, <1>2 DEF ProviderLanes, TakesTurn
  <2> QED
    BY <1>1, <1>2, <1>4, <2>1, EndStep DEF TickTypes
<1> QED
  BY <1>3, <1>4 DEF RunBatch

(* Covering leaves without a claim only if it is the turn of the others, and *)
(* they can be served.                                                       *)
LEMMA LeaveCoveringStep ==
  ASSUME TickInv, LeaveCovering
  PROVE  TickInv'
<1> USE DEF TickInv
<1>1. /\ tick.pc = "cover" /\ tick.batch = 0 /\ ~(BatchHasRoom /\ MayCover)
      /\ UNCHANGED <<backlog, closed, served, lastClaim, recently>>
  BY DEF LeaveCovering, work
<1>2. CASE tick.made > 0 \/ tick.drained
  <2>1. End(took, chance)
    BY <1>2 DEF LeaveCovering
  <2>2. tick.made > 0 => took = {"covering"} /\ lastClaim = "covering"
    BY <1>1 DEF TookSoFar, TickTypes
  <2>3. ~(tick.made > 0) => took = {} /\ chance = {}
    BY <1>1, <1>2 DEF TookSoFar, TickTypes, DrainTakesChances
  <2>4. \A l \in ProviderLanes : l \in chance /\ l \notin took => passed[l] = 0
    BY <1>1, <2>2, <2>3 DEF ProviderLanes, TakesTurn
  <2> QED
    BY <1>1, <2>1, <2>2, <2>3, <2>4, EndStep DEF TickTypes
<1>3. CASE ~(tick.made > 0 \/ tick.drained)
  <2>1. GoesOn([tick EXCEPT !.pc = "others"], {})
    BY <1>3 DEF LeaveCovering
  <2>2. tick.made = 0 /\ took = {} /\ ~MayCover
    BY <1>1, <1>3, TickAssumption DEF TookSoFar, TickTypes, BatchHasRoom
  <2>3. /\ tick'.pc = "others" /\ tick'.made = 0 /\ tick'.drained = tick.drained
        /\ tick' \in [pc : {"idle", "drain", "cover", "others"}, split : BOOLEAN, drained : BOOLEAN,
                      made : Nat, batch : Nat]
    BY <2>1, <2>2 DEF GoesOn, TickTypes
  <2>4. /\ took' = {} /\ passed' = passed
        /\ chance' \subseteq chance /\ \A l \in chance' : Could(l)'
    BY <2>1, <2>2 DEF GoesOn, StillCould
  <2>5. "covering" \in chance => /\ CanServe("other")
                                 /\ passed["covering"] = 0
    <3> SUFFICES ASSUME "covering" \in chance
                 PROVE  CanServe("other") /\ passed["covering"] = 0
      OBVIOUS
    <3>1. CanServe("covering") /\ ~recently /\ (Waiting("other") => "other" \in served)
      BY DEF ChanceIsReal, Could
    <3>2. Waiting("other") /\ lastClaim = "covering"
      BY <2>2, <3>1 DEF MayCover, TurnDue
    <3> QED
      BY <2>2, <3>1, <3>2 DEF CanServe, MissedIsNext, TickTypes, ProviderLanes
  <2>6. CanServe("other")' = CanServe("other")
    BY <1>1 DEF CanServe, Waiting
  <2>7. TakesTurn'
    BY <2>3, <2>4, <2>5, <2>6 DEF TakesTurn
  <2> QED
    BY <1>1, <2>2, <2>3, <2>4, <2>7
    DEF TickTypes, ChanceIsReal, TookSoFar, DrainTakesChances, MissedIsNext
<1> QED
  BY <1>2, <1>3

(* A claim of the others.                                                    *)
LEMMA ClaimOtherStep ==
  ASSUME TickInv, ClaimOther
  PROVE  TickInv'
<1> USE DEF TickInv
<1>1. /\ tick.pc = "others" /\ CanServe("other")
      /\ backlog' = [backlog EXCEPT !["other"] = @ - 1]
      /\ lastClaim' = "other" /\ recently' = recently
      /\ UNCHANGED <<closed, served>>
  BY DEF ClaimOther, ClaimFrom, TickTypes
<1>2. backlog["other"] \in Nat \ {0}
  BY <1>1 DEF CanServe, Waiting, TickTypes, TickLanes, ProviderLanes
<1>3. backlog' \in [TickLanes -> Nat]
  BY <1>1, <1>2 DEF TickTypes, TickLanes, ProviderLanes
<1>4. took \subseteq {"other"} /\ ("covering" \in chance => passed["covering"] = 0)
  BY <1>1 DEF TookSoFar, TakesTurn
<1>5. CASE GoesOn([tick EXCEPT !.made = @ + 1], {"other"})
  <2>1. /\ tick'.pc = "others" /\ tick'.made > 0 /\ tick'.drained = tick.drained
        /\ tick' \in [pc : {"idle", "drain", "cover", "others"}, split : BOOLEAN, drained : BOOLEAN,
                      made : Nat, batch : Nat]
    BY <1>1, <1>5 DEF GoesOn, TickTypes
  <2>2. /\ took' = {"other"} /\ passed' = passed
        /\ chance' \subseteq chance /\ \A l \in chance' : Could(l)'
    BY <1>4, <1>5 DEF GoesOn, StillCould
  <2> QED
    BY <1>1, <1>3, <1>4, <2>1, <2>2
    DEF TickTypes, ProviderLanes, ChanceIsReal, TookSoFar, DrainTakesChances, TakesTurn, MissedIsNext
<1>6. CASE End(took \cup {"other"}, chance)
  <2>1. \A l \in ProviderLanes : l \in chance /\ l \notin took \cup {"other"} => passed[l] = 0
    BY <1>4 DEF ProviderLanes
  <2>2. "covering" \notin took
    BY <1>4
  <2> QED
    BY <1>1, <1>3, <1>6, <2>1, <2>2, EndStep DEF ProviderLanes, TickTypes
<1> QED
  BY <1>5, <1>6 DEF ClaimOther

(* The others leave when they claimed, or had no chance.                     *)
LEMMA LeaveOthersStep ==
  ASSUME TickInv, LeaveOthers
  PROVE  TickInv'
<1> USE DEF TickInv
<1>1. /\ tick.pc = "others" /\ ~(tick.made < MaxClaims /\ CanServe("other"))
      /\ UNCHANGED <<backlog, closed, served, lastClaim, recently>> /\ End(took, chance)
  BY DEF LeaveOthers, work
<1>2. took \subseteq {"other"} /\ ("other" \in took => lastClaim = "other")
  BY <1>1 DEF TookSoFar
<1>3. "other" \in chance => took = {"other"}
  BY <1>1, TickAssumption DEF ChanceIsReal, Could, TookSoFar, TickTypes
<1>4. "covering" \in chance => passed["covering"] = 0 /\ lastClaim # "covering"
  BY <1>1, TickAssumption DEF TakesTurn, TookSoFar, TickTypes
<1>5. \A l \in ProviderLanes : l \in chance /\ l \notin took => passed[l] = 0
  BY <1>3, <1>4 DEF ProviderLanes
<1> QED
  BY <1>1, <1>2, <1>3, <1>4, <1>5, EndStep DEF TickTypes

-----------------------------------------------------------------------------
(* Around the tick. *)

(* Jobs that arrive make covering wait only if the others can be served.     *)
LEMMA JobArrivesStep ==
  ASSUME TickInv, NEW l \in TickLanes, JobArrives(l)
  PROVE  TickInv'
<1> USE DEF TickInv
<1>1. /\ backlog' = [backlog EXCEPT ![l] = @ + 1]
      /\ UNCHANGED <<closed, served, lastClaim, recently, tick, took, passed>>
      /\ chance' \subseteq chance /\ \A k \in chance' : Could(k)'
  BY DEF JobArrives, StillCould
<1>2. backlog' \in [TickLanes -> Nat]
  BY <1>1 DEF TickTypes
<1>3. CanServe("other") => CanServe("other")'
  BY <1>1, <1>2 DEF CanServe, Waiting, TickTypes, TickLanes, ProviderLanes
<1> QED
  BY <1>1, <1>2, <1>3
  DEF TickTypes, ChanceIsReal, TookSoFar, DrainTakesChances, TakesTurn, MissedIsNext

(* Time opens chances only.                                                  *)
LEMMA IntervalEndsStep ==
  ASSUME TickInv, IntervalEnds
  PROVE  TickInv'
<1> USE DEF TickInv
<1>1. recently' = FALSE /\ UNCHANGED <<backlog, closed, served, lastClaim, tick, took, chance, passed>>
  BY DEF IntervalEnds
<1>2. \A l : CanServe(l)' = CanServe(l) /\ (Could(l) => Could(l)')
  BY <1>1 DEF CanServe, Waiting, Could
<1> QED
  BY <1>1, <1>2
  DEF TickTypes, ChanceIsReal, TookSoFar, DrainTakesChances, TakesTurn, MissedIsNext

(* A lane or a provider that changes takes the chances of this tick away.    *)
LEMMA ChangeStep ==
  ASSUME TickInv, chance' = {}, UNCHANGED <<backlog, lastClaim, recently, tick, took, passed>>,
         closed' \subseteq TickLanes, served' \subseteq ProviderLanes
  PROVE  TickInv'
BY DEF TickInv, TickTypes, ChanceIsReal, TookSoFar, DrainTakesChances, TakesTurn, MissedIsNext

(* A tick that is cut short is no chance missed.                             *)
LEMMA DaemonRestartsStep ==
  ASSUME TickInv, DaemonRestarts
  PROVE  TickInv'
<1>1. End(took, {}) /\ UNCHANGED <<backlog, closed, served, lastClaim, recently>>
  BY DEF DaemonRestarts, work
<1> QED
  BY <1>1, EndStep DEF TickInv, TickTypes

LEMMA TickInvInductive ==
  ASSUME TickInv, [TickNext]_tickVars
  PROVE  TickInv'
<1>1. CASE TickStep
  BY <1>1, StartTickStep, GenericTickStep, ClaimCoveringStep, RunBatchStep, LeaveCoveringStep,
     ClaimOtherStep, LeaveOthersStep DEF TickStep
<1>2. ASSUME NEW l \in TickLanes, JobArrives(l) PROVE TickInv'
  BY <1>2, JobArrivesStep
<1>3. ASSUME NEW l \in TickLanes, TogglePause(l) PROVE TickInv'
  BY <1>3, ChangeStep DEF TogglePause, TickInv, TickTypes
<1>4. ASSUME NEW l \in ProviderLanes, ProviderChanges(l) PROVE TickInv'
  BY <1>4, ChangeStep DEF ProviderChanges, TickInv, TickTypes
<1>5. CASE UNCHANGED tickVars
  BY <1>5 DEF tickVars, work, TickInv, TickTypes, ChanceIsReal, Could, CanServe, Waiting, TookSoFar,
              DrainTakesChances, TakesTurn, MissedIsNext
<1> QED
  BY <1>1, <1>2, <1>3, <1>4, <1>5, IntervalEndsStep, DaemonRestartsStep DEF TickNext

-----------------------------------------------------------------------------
(* Covering and the other provider work are not passed over in two ticks in  *)
(* which they could be served (covering_turn_due), for any limit of claims   *)
(* and any number of jobs.                                                   *)
THEOREM TurnsAreTaken == TickSpec => []TurnsTaken
<1>1. ASSUME TickInit PROVE TickInv
  <2>1. TickTypes
    BY <1>1 DEF TickInit, TickTypes, NoTick, ProviderLanes, TickLanes
  <2>2. ChanceIsReal /\ TookSoFar /\ DrainTakesChances /\ TakesTurn
    BY <1>1 DEF TickInit, NoTick, ChanceIsReal, TookSoFar, DrainTakesChances, TakesTurn
  <2>3. MissedIsNext
    BY <1>1 DEF TickInit, MissedIsNext, ProviderLanes
  <2> QED
    BY <2>1, <2>2, <2>3 DEF TickInv
<1>2. TickInv /\ [TickNext]_tickVars => TickInv'
  BY TickInvInductive
<1>3. TickInv => TurnsTaken
  BY DEF TickInv, TickTypes, TurnsTaken
<1> QED
  BY <1>1, <1>2, <1>3, PTL DEF TickSpec
=============================================================================
