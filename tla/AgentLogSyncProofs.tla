------------------------- MODULE AgentLogSyncProofs -------------------------
(***************************************************************************)
(* A Codex cursor leaves nothing behind, and no line is stored twice but   *)
(* by overlapping syncs, for every number of sources, syncs and lines,     *)
(* whenever the agent writes between the steps of a sync.                  *)
(*                                                                         *)
(* The cursor is right because of what a sync knows on its way: what lies  *)
(* before its start was imported when it read the cursor, and imports are  *)
(* never taken back; what it parsed reaches from there to its new cursor,  *)
(* which is even, so it never ends within a line.                          *)
(*                                                                         *)
(* A line that is read again, because the reader went past the size it had *)
(* looked up, is recognised by its chunk index: chunks are numbered from   *)
(* the cursor, so the index of a line only falls as the cursor moves, and  *)
(* every index below one that is stored is stored.  A chunk of an index    *)
(* that is not stored has none of the stored lines.                        *)
(***************************************************************************)
EXTENDS AgentLogSync, FiniteSetTheorems, TLAPS

SyncRecord == [pc : {"idle", "open", "stat", "parsed"}, src : LogSources \cup {"none"},
               from : Nat, size : Nat, next : Nat, lines : SUBSET LogLines]

LogTypes ==
  /\ logSize \in [LogSources -> Nat] /\ logCursor \in [LogSources -> Nat]
  /\ imported \in [LogSources -> SUBSET LogLines]
  /\ sync \in [Syncs -> SyncRecord]
  /\ \A s \in Syncs : sync[s].pc # "idle" => sync[s].src \in LogSources

\* What a sync may count on and what it may hand to its import.
SyncKnows(s) ==
  sync[s].pc # "idle" /\ sync[s].src \in KeepsPartial =>
    /\ Touched(sync[s].from) \subseteq imported[sync[s].src]
    /\ sync[s].pc = "parsed" =>
         Touched(sync[s].next) \subseteq imported[sync[s].src] \cup sync[s].lines

LogInv == LogTypes /\ CursorLeavesNothing /\ \A s \in Syncs : SyncKnows(s)

-----------------------------------------------------------------------------
(* An even offset does not end within a line.                              *)
LEMMA EvenOffset ==
  ASSUME NEW end \in Nat
  PROVE  /\ 2 * (end \div 2) \in Nat
         /\ \A n \in Nat : 2*n - 1 <= 2 * (end \div 2) => 2*n <= end
<1>1. end \div 2 \in Nat /\ 2 * (end \div 2) <= end
  OBVIOUS
<1> QED
  BY <1>1

(* Every line that the new offset of a Codex log touches was touched by    *)
(* the old one, or is among the lines that were read.                      *)
LEMMA DeltaCovers ==
  ASSUME NEW from \in Nat, NEW end \in Nat
  PROVE  Touched(2 * (end \div 2)) \subseteq Touched(from) \cup LinesIn(from, end)
<1> SUFFICES ASSUME NEW n \in LogLines, 2*n - 1 <= 2 * (end \div 2)
             PROVE  2*n - 1 <= from \/ (from <= 2*n - 2 /\ 2*n <= end)
  BY DEF Touched, LinesIn
<1>1. n \in Nat
  BY LogAssumption DEF LogLines
<1>2. 2*n <= end
  BY <1>1, EvenOffset
<1> QED
  BY <1>1, <1>2

(* Steps of a sync that import nothing keep what the others know.          *)
LEMMA SyncMoves ==
  ASSUME LogInv, NEW s \in Syncs, NEW r \in SyncRecord,
         sync' = [sync EXCEPT ![s] = r],
         UNCHANGED <<logSize, logCursor, imported>>,
         r.pc # "idle" => r.src \in LogSources,
         r.pc # "idle" /\ r.src \in KeepsPartial =>
           /\ Touched(r.from) \subseteq imported[r.src]
           /\ r.pc = "parsed" => Touched(r.next) \subseteq imported[r.src] \cup r.lines
  PROVE  LogInv'
<1>1. sync'[s] = r /\ \A x \in Syncs \ {s} : sync'[x] = sync[x]
  BY DEF LogInv, LogTypes
<1>2. LogTypes'
  BY <1>1 DEF LogInv, LogTypes
<1>3. CursorLeavesNothing'
  BY DEF LogInv, CursorLeavesNothing
<1>4. \A x \in Syncs : SyncKnows(x)'
  <2> SUFFICES ASSUME NEW x \in Syncs PROVE SyncKnows(x)'
    OBVIOUS
  <2>1. CASE x = s
    BY <1>1, <2>1 DEF SyncKnows
  <2>2. CASE x # s
    BY <1>1, <2>2 DEF LogInv, SyncKnows
  <2> QED
    BY <2>1, <2>2
<1> QED
  BY <1>2, <1>3, <1>4 DEF LogInv

(* The cursor is read.                                                     *)
LEMMA ReadStateStep ==
  ASSUME LogInv, NEW s \in Syncs, NEW src \in LogSources, ReadState(s, src)
  PROVE  LogInv'
<1> DEFINE r == [IdleSync EXCEPT !.pc = "open", !.src = src, !.from = logCursor[src]]
<1>1. /\ r \in SyncRecord /\ r.pc = "open" /\ r.src = src /\ r.from = logCursor[src]
  BY DEF IdleSync, SyncRecord, LogInv, LogTypes
<1>2. sync' = [sync EXCEPT ![s] = r] /\ UNCHANGED <<logSize, logCursor, imported>>
  BY DEF ReadState
<1>3. src \in KeepsPartial => Touched(r.from) \subseteq imported[src]
  BY <1>1 DEF LogInv, CursorLeavesNothing
<1> HIDE DEF r
<1> QED
  BY <1>1, <1>2, <1>3, SyncMoves

(* A log that has not grown is parsed already, up to where it began.       *)
LEMMA StatStep ==
  ASSUME LogInv, NEW s \in Syncs, Stat(s)
  PROVE  LogInv'
<1> DEFINE size == logSize[sync[s].src]
           pc   == IF size = sync[s].from THEN "parsed" ELSE "stat"
           r    == [sync[s] EXCEPT !.pc = pc, !.size = size, !.next = size]
<1>1. /\ sync[s].pc = "open" /\ sync[s] \in SyncRecord /\ sync[s].src \in LogSources
      /\ size \in Nat
  BY DEF Stat, LogInv, LogTypes
<1>2. /\ r \in SyncRecord /\ r.pc = pc /\ r.src = sync[s].src /\ r.from = sync[s].from
      /\ r.next = size
  BY <1>1 DEF SyncRecord
<1>3. sync' = [sync EXCEPT ![s] = r] /\ UNCHANGED <<logSize, logCursor, imported>>
  BY DEF Stat
<1>4. r.src \in KeepsPartial => Touched(r.from) \subseteq imported[r.src]
  BY <1>1, <1>2 DEF LogInv, SyncKnows
<1>5. r.pc = "parsed" => r.next = r.from
  BY <1>2
<1> HIDE DEF r
<1> QED
  BY <1>1, <1>2, <1>3, <1>4, <1>5, SyncMoves

(* The lines that follow the start are read, to the end of the file.       *)
LEMMA ReadDeltaStep ==
  ASSUME LogInv, NEW s \in Syncs, ReadDelta(s)
  PROVE  LogInv'
<1> DEFINE end  == logSize[sync[s].src]
           next == NextOffset(sync[s].src, sync[s].size, end)
           r    == [sync[s] EXCEPT !.pc = "parsed", !.next = next,
                                   !.lines = LinesIn(sync[s].from, end)]
<1>1. /\ sync[s].pc = "stat" /\ sync[s] \in SyncRecord /\ sync[s].src \in LogSources
      /\ end \in Nat /\ sync[s].from \in Nat /\ sync[s].size \in Nat
  BY DEF ReadDelta, LogInv, LogTypes, SyncRecord
<1>2. next \in Nat /\ LinesIn(sync[s].from, end) \subseteq LogLines
  BY <1>1, EvenOffset DEF NextOffset, LinesIn
<1>3. sync' = [sync EXCEPT ![s] = r] /\ UNCHANGED <<logSize, logCursor, imported>>
  BY DEF ReadDelta
<1>4. sync[s].src \in KeepsPartial =>
        Touched(next) \subseteq Touched(sync[s].from) \cup LinesIn(sync[s].from, end)
  BY <1>1, DeltaCovers DEF NextOffset
<1> HIDE DEF next, end
<1>5. /\ r \in SyncRecord /\ r.pc = "parsed" /\ r.src = sync[s].src /\ r.from = sync[s].from
      /\ r.next = next /\ r.lines = LinesIn(sync[s].from, end)
  BY <1>1, <1>2 DEF SyncRecord
<1>6. r.src \in KeepsPartial => Touched(r.from) \subseteq imported[r.src]
  BY <1>1, <1>5 DEF LogInv, SyncKnows
<1> HIDE DEF r
<1> QED
  BY <1>1, <1>3, <1>4, <1>5, <1>6, SyncMoves

(* Chunks and cursor are committed together; the other syncs lose nothing  *)
(* of what they counted on, since imports only grow.                       *)
LEMMA ImportStep ==
  ASSUME LogInv, NEW s \in Syncs, Import(s)
  PROVE  LogInv'
<1> DEFINE src == sync[s].src
<1>1. /\ sync[s].pc = "parsed" /\ sync[s] \in SyncRecord /\ src \in LogSources
      /\ sync[s].next \in Nat /\ sync[s].lines \subseteq LogLines
      /\ logSize' = logSize
  BY DEF Import, LogInv, LogTypes, SyncRecord
<1>2. IdleSync \in SyncRecord /\ IdleSync.pc = "idle"
  BY DEF IdleSync, SyncRecord
<1>3. /\ sync'[s] = IdleSync /\ \A x \in Syncs \ {s} : sync'[x] = sync[x]
      /\ sync' \in [Syncs -> SyncRecord]
  BY <1>2 DEF Import, LogInv, LogTypes
<1>4. /\ imported' \in [LogSources -> SUBSET LogLines]
      /\ \A x \in LogSources : imported[x] \subseteq imported'[x]
      /\ imported'[src] = imported[src] \cup sync[s].lines
  BY <1>1 DEF Import, LogInv, LogTypes
<1>5. /\ logCursor' \in [LogSources -> Nat]
      /\ \A x \in LogSources : logCursor'[x] = IF x = src THEN sync[s].next ELSE logCursor[x]
  BY <1>1 DEF Import, LogInv, LogTypes
<1> HIDE DEF src
<1>6. LogTypes'
  BY <1>1, <1>2, <1>3, <1>4, <1>5 DEF LogInv, LogTypes
<1>7. src \in KeepsPartial => Touched(sync[s].next) \subseteq imported'[src]
  BY <1>1, <1>4 DEF LogInv, SyncKnows, src
<1>8. CursorLeavesNothing'
  <2> SUFFICES ASSUME NEW x \in KeepsPartial
               PROVE  Touched(logCursor'[x]) \subseteq imported'[x]
    BY DEF CursorLeavesNothing, Touched
  <2>1. x \in LogSources
    BY LogAssumption
  <2>2. Touched(logCursor[x]) \subseteq imported[x]
    BY DEF LogInv, CursorLeavesNothing
  <2> QED
    BY <1>4, <1>5, <1>7, <2>1, <2>2
<1>9. \A x \in Syncs : SyncKnows(x)'
  <2> SUFFICES ASSUME NEW x \in Syncs, sync'[x].pc # "idle", sync'[x].src \in KeepsPartial
               PROVE  /\ Touched(sync'[x].from) \subseteq imported'[sync'[x].src]
                      /\ sync'[x].pc = "parsed" =>
                           Touched(sync'[x].next) \subseteq imported'[sync'[x].src] \cup sync'[x].lines
    BY DEF SyncKnows, Touched
  <2>1. sync'[x] = sync[x] /\ sync[x].src \in LogSources
    BY <1>2, <1>3, LogAssumption
  <2>2. SyncKnows(x)
    BY DEF LogInv
  <2> QED
    BY <1>4, <2>1, <2>2 DEF SyncKnows
<1> QED
  BY <1>6, <1>8, <1>9 DEF LogInv

(* A sync that dies knows nothing.                                         *)
LEMMA AbandonStep ==
  ASSUME LogInv, NEW s \in Syncs, Abandon(s)
  PROVE  LogInv'
<1>1. IdleSync \in SyncRecord /\ IdleSync.pc = "idle"
  BY DEF IdleSync, SyncRecord
<1> QED
  BY <1>1, SyncMoves DEF Abandon

(* The invariant holds at the start.                                       *)
LEMMA LogInvInit == LogInit => LogInv
<1> SUFFICES ASSUME LogInit PROVE LogInv
  OBVIOUS
<1>1. IdleSync \in SyncRecord /\ IdleSync.pc = "idle"
  BY DEF IdleSync, SyncRecord
<1>2. LogTypes /\ \A s \in Syncs : SyncKnows(s)
  BY <1>1 DEF LogInit, LogTypes, SyncKnows
<1>3. CursorLeavesNothing
  BY LogAssumption DEF LogInit, CursorLeavesNothing, Touched, LogLines
<1> QED
  BY <1>2, <1>3 DEF LogInv

(* Every step keeps it.                                                    *)
LEMMA LogInvStep == LogInv /\ [LogNext]_logVars => LogInv'
<1> SUFFICES ASSUME LogInv, [LogNext]_logVars PROVE LogInv'
  OBVIOUS
<1>1. ASSUME NEW src \in LogSources, WriteLog(src) PROVE LogInv'
  <2>1. LogTypes'
    BY <1>1 DEF WriteLog, LogInv, LogTypes
  <2> QED
    BY <1>1, <2>1 DEF WriteLog, LogInv, CursorLeavesNothing, SyncKnows
<1>2. CASE UNCHANGED logVars
  BY <1>2 DEF logVars, LogInv, LogTypes, CursorLeavesNothing, SyncKnows
<1> QED
  BY <1>1, <1>2, ReadStateStep, StatStep, ReadDeltaStep, ImportStep, AbandonStep
     DEF LogNext, SourceStep

(* A Codex cursor never passes a line, or the part of one, that no         *)
(* committed import was given (processCodexJsonlDelta).                    *)
THEOREM CursorCorrect == LogSpec => []CursorLeavesNothing
<1>1. LogInv => CursorLeavesNothing
  BY DEF LogInv
<1> QED
  BY <1>1, LogInvInit, LogInvStep, PTL DEF LogSpec

-----------------------------------------------------------------------------
(* No line twice. *)

\* The first line that begins at or after an offset, how many lines lie
\* between that one and line n, and the chunk that line n then falls into.
FirstLine(from) == (from + 1) \div 2 + 1
Position(from, n) == IF n > FirstLine(from) THEN n - FirstLine(from) ELSE 0
IndexOf(from, n) == Position(from, n) \div MaxMessagesPerChunk

(* Division by the size of a chunk. *)
LEMMA Division ==
  ASSUME NEW a \in Nat, NEW b \in Nat, NEW d \in Nat \ {0}
  PROVE  /\ a \div d \in Nat
         /\ a <= b => a \div d <= b \div d
         /\ \A i \in Nat : i < a \div d => i * d \in Nat /\ i * d <= a /\ (i * d) \div d = i
<1> DEFINE q == a \div d
           r == b \div d
<1>1. /\ q \in Nat /\ q * d <= a /\ a < (q + 1) * d
      /\ r \in Nat /\ r * d <= b /\ b < (r + 1) * d
  OBVIOUS
<1>2. ASSUME a <= b, q > r
      PROVE  FALSE
  <2>1. (r + 1) * d <= q * d
    BY <1>1, <1>2
  <2> QED
    BY <1>1, <1>2, <2>1
<1>3. ASSUME NEW i \in Nat, i < q
      PROVE  i * d \in Nat /\ i * d <= a /\ (i * d) \div d = i
  <2>1. i * d <= q * d /\ i * d \in Nat
    BY <1>1, <1>3
  <2>2. (i * d) \div d = i
    OBVIOUS
  <2> QED
    BY <1>1, <2>1, <2>2
<1> QED
  BY <1>1, <1>2, <1>3

(* A line begins at or after an offset if it is not before the first one.  *)
LEMMA FirstLineIs ==
  ASSUME NEW from \in Nat, NEW n \in Int
  PROVE  FirstLine(from) \in Nat \ {0} /\ (from <= 2*n - 2 <=> FirstLine(from) <= n)
<1>1. /\ (from + 1) \div 2 \in Nat /\ 2 * ((from + 1) \div 2) <= from + 1
      /\ from <= 2 * ((from + 1) \div 2)
  OBVIOUS
<1> QED
  BY <1>1 DEF FirstLine

(* The chunk of a line of a delta is given by its start.                   *)
LEMMA ChunkIs ==
  ASSUME NEW from \in Nat, NEW end \in Nat, NEW n \in LinesIn(from, end)
  PROVE  ChunkOf(LinesIn(from, end), n) = IndexOf(from, n)
<1>1. n \in LogLines /\ 2*n <= end /\ LogLines = 1..MaxLines /\ MaxLines \in Nat
  BY LogAssumption DEF LinesIn, LogLines
<1>2. FirstLine(from) \in Nat \ {0} /\ FirstLine(from) <= n
  BY <1>1, FirstLineIs DEF LinesIn
<1>3. ASSUME NEW m
      PROVE  m \in LinesIn(from, end) /\ m < n <=> m \in FirstLine(from)..(n - 1)
  <2>1. CASE m \in Int
    <3>1. from <= 2*m - 2 <=> FirstLine(from) <= m
      BY <2>1, FirstLineIs
    <3> QED
      BY <1>1, <1>2, <2>1, <3>1 DEF LinesIn
  <2>2. CASE m \notin Int
    BY <1>1, <2>2 DEF LinesIn
  <2> QED
    BY <2>1, <2>2
<1>4. {m \in LinesIn(from, end) : m < n} = FirstLine(from)..(n - 1)
  BY <1>3
<1>5. Cardinality(FirstLine(from)..(n - 1)) = Position(from, n)
  <2>1. /\ FirstLine(from) \in Int /\ n - 1 \in Int /\ n \in Int
    BY <1>1, <1>2
  <2>2. Cardinality(FirstLine(from)..(n - 1))
          = IF FirstLine(from) > n - 1 THEN 0 ELSE (n - 1) - FirstLine(from) + 1
    BY <2>1, FS_Interval
  <2> QED
    BY <1>2, <2>1, <2>2 DEF Position
<1> QED
  BY <1>4, <1>5 DEF ChunkOf, IndexOf

(* Read from further on, a line falls into no later chunk. *)
LEMMA IndexFalls ==
  ASSUME NEW from \in Nat, NEW to \in Nat, from <= to, NEW n \in LogLines
  PROVE  IndexOf(from, n) \in Nat /\ IndexOf(to, n) \in Nat /\ IndexOf(to, n) <= IndexOf(from, n)
<1>1. n \in Nat /\ MaxMessagesPerChunk \in Nat \ {0}
  BY LogAssumption DEF LogLines
<1>2. FirstLine(from) \in Nat /\ FirstLine(to) \in Nat /\ FirstLine(from) <= FirstLine(to)
  <2>1. (from + 1) \div 2 <= (to + 1) \div 2
    OBVIOUS
  <2> QED
    BY <2>1, FirstLineIs DEF FirstLine
<1>3. Position(from, n) \in Nat /\ Position(to, n) \in Nat /\ Position(to, n) <= Position(from, n)
  BY <1>1, <1>2 DEF Position
<1> QED
  BY <1>1, <1>3, Division DEF IndexOf

(* The chunks of a delta have the numbers from zero on. *)
LEMMA IndexesBefore ==
  ASSUME NEW from \in Nat, NEW end \in Nat, NEW n \in LinesIn(from, end),
         NEW i \in 0..IndexOf(from, n)
  PROVE  \E k \in LinesIn(from, end) : IndexOf(from, k) = i
<1>1. /\ n \in LogLines /\ 2*n <= end /\ LogLines = 1..MaxLines /\ MaxLines \in Nat
      /\ MaxMessagesPerChunk \in Nat \ {0} /\ FirstLine(from) \in Nat \ {0}
      /\ FirstLine(from) <= n
  BY LogAssumption, FirstLineIs DEF LinesIn, LogLines
<1>2. Position(from, n) = n - FirstLine(from) /\ Position(from, n) \in Nat
  BY <1>1 DEF Position
<1>3. IndexOf(from, n) \in Nat
  BY <1>1, <1>2, Division DEF IndexOf
<1>4. CASE i = IndexOf(from, n)
  BY <1>4
<1>5. CASE i < IndexOf(from, n)
  <2> DEFINE p == i * MaxMessagesPerChunk
             k == FirstLine(from) + p
  <2>1. p \in Nat /\ p <= n - FirstLine(from) /\ p \div MaxMessagesPerChunk = i
    BY <1>1, <1>2, <1>3, <1>5, Division DEF IndexOf
  <2> HIDE DEF p
  <2>2. k \in 1..MaxLines /\ 2*k <= end /\ FirstLine(from) <= k
    BY <1>1, <2>1
  <2>3. k \in LinesIn(from, end)
    BY <1>1, <2>2, FirstLineIs DEF LinesIn
  <2>4. Position(from, k) = p
    BY <1>1, <2>1 DEF Position
  <2> QED
    BY <2>1, <2>3, <2>4 DEF IndexOf
<1> QED
  BY <1>3, <1>4, <1>5

(* What the chunks of a delta are. *)
LEMMA ChunksAre ==
  ASSUME NEW src, NEW from \in Nat, NEW end \in Nat,
         NEW c \in Chunks(src, LinesIn(from, end))
  PROVE  /\ c.src = src /\ c.index \in Nat
         /\ \A n \in c.lines : n \in LogLines /\ IndexOf(from, n) = c.index
         /\ \A i \in 0..c.index :
              \E o \in Chunks(src, LinesIn(from, end)) : o.src = src /\ o.index = i
         /\ \A o \in Chunks(src, LinesIn(from, end)) : o.index = c.index => o = c
<1> DEFINE lines == LinesIn(from, end)
<1>1. \A n \in lines : n \in LogLines /\ ChunkOf(lines, n) = IndexOf(from, n)
                       /\ IndexOf(from, n) \in Nat
  BY ChunkIs, IndexFalls DEF LinesIn
<1>0. c \in Chunks(src, lines)
  OBVIOUS
<1> HIDE DEF lines
<1>2. \A o \in Chunks(src, lines) : \E n \in lines :
        o = [src |-> src, index |-> ChunkOf(lines, n),
             lines |-> {k \in lines : ChunkOf(lines, k) = ChunkOf(lines, n)}]
  BY DEF Chunks
<1>3. PICK n \in lines :
        c = [src |-> src, index |-> ChunkOf(lines, n),
             lines |-> {k \in lines : ChunkOf(lines, k) = ChunkOf(lines, n)}]
  BY <1>0, <1>2
<1>4. c.src = src /\ c.index = IndexOf(from, n) /\ c.index \in Nat
  BY <1>1, <1>3
<1>5. \A k \in c.lines : k \in LogLines /\ IndexOf(from, k) = c.index
  BY <1>1, <1>3, <1>4
<1>6. ASSUME NEW i \in 0..c.index
      PROVE  \E o \in Chunks(src, lines) : o.src = src /\ o.index = i
  <2>1. PICK k \in lines : IndexOf(from, k) = i
    BY <1>4, IndexesBefore DEF lines
  <2> DEFINE o == [src |-> src, index |-> ChunkOf(lines, k),
                   lines |-> {x \in lines : ChunkOf(lines, x) = ChunkOf(lines, k)}]
  <2>2. o \in Chunks(src, lines)
    BY DEF Chunks
  <2> QED
    BY <1>1, <2>1, <2>2
<1>7. \A o \in Chunks(src, lines) : o.index = c.index => o = c
  BY <1>2, <1>3
<1> QED
  BY <1>4, <1>5, <1>6, <1>7 DEF lines

-----------------------------------------------------------------------------
\* What holds as long as no two syncs of a source overlap.

\* The only sync of the source is at work.
OneSync ==
  \A s, r \in Syncs :
    sync[s].pc # "idle" /\ sync[r].pc # "idle" /\ sync[s].src = sync[r].src
      /\ sync[s].src \notin lapped => s = r

\* An offset of a source is within its log, and ends a line if the parser
\* leaves incomplete ones.
Offset(src, at) ==
  /\ at \in Nat /\ at <= logSize[src]
  /\ src \in KeepsPartial => at = 2 * (at \div 2)

\* A sync goes on from the cursor, and only forward.
SyncAhead(s) ==
  sync[s].pc # "idle" /\ sync[s].src \notin lapped =>
    /\ sync[s].from = logCursor[sync[s].src]
    /\ sync[s].pc = "open" => sync[s].lines = {}
    /\ sync[s].pc = "stat" => sync[s].from <= sync[s].size /\ sync[s].size <= logSize[sync[s].src]
    /\ sync[s].pc = "parsed" =>
         /\ sync[s].from <= sync[s].next /\ Offset(sync[s].src, sync[s].next)
         /\ \E end \in Nat : sync[s].lines = LinesIn(sync[s].from, end)

\* The chunks of a source have the numbers from zero on; and what is read
\* again from the cursor on falls into a chunk that is there.
Recognised(src, at) ==
  \A m \in memories : m.src = src =>
    /\ m.index \in Nat
    /\ \A i \in 0..m.index : \E o \in memories : o.src = src /\ o.index = i
    /\ \A n \in m.lines : n \in LogLines /\ IndexOf(at, n) <= m.index

LineInv ==
  /\ LogTypes /\ OneSync /\ NoLineTwice
  /\ \A s \in Syncs : SyncAhead(s)
  /\ \A src \in LogSources \ lapped :
       Offset(src, logCursor[src]) /\ Recognised(src, logCursor[src])

(* A sync stays the only one of its source, or is done. *)
LEMMA StaysOneSync ==
  ASSUME LogTypes, OneSync, NEW s \in Syncs, NEW r, sync' = [sync EXCEPT ![s] = r],
         lapped \subseteq lapped',
         r.pc # "idle" => r.src = sync[s].src /\ sync[s].pc # "idle"
  PROVE  OneSync'
<1>1. sync'[s] = r /\ \A x \in Syncs \ {s} : sync'[x] = sync[x]
  BY DEF LogTypes
<1> QED
  BY <1>1 DEF OneSync

(* A sync moves on without storing anything.                               *)
LEMMA SyncReads ==
  ASSUME LineInv, LogTypes', OneSync', NEW s \in Syncs, NEW r,
         sync' = [sync EXCEPT ![s] = r],
         UNCHANGED <<logSize, logCursor, memories>>, lapped \subseteq lapped',
         SyncAhead(s)'
  PROVE  LineInv'
<1>1. sync'[s] = r /\ \A x \in Syncs \ {s} : sync'[x] = sync[x]
  BY DEF LineInv, LogTypes
<1>2. NoLineTwice'
  BY DEF LineInv, NoLineTwice
<1>3. \A x \in Syncs : SyncAhead(x)'
  <2> SUFFICES ASSUME NEW x \in Syncs, x # s PROVE SyncAhead(x)'
    OBVIOUS
  <2> QED
    BY <1>1 DEF LineInv, SyncAhead, Offset
<1>4. \A src \in LogSources \ lapped' :
        Offset(src, logCursor[src])' /\ Recognised(src, logCursor[src])'
  BY DEF LineInv, Offset, Recognised
<1> QED
  BY <1>2, <1>3, <1>4 DEF LineInv

(* A sync begins at the cursor, as the only one or among the lapped.       *)
LEMMA ReadStateAhead ==
  ASSUME LineInv, LogTypes', NEW s \in Syncs, NEW src \in LogSources, ReadState(s, src)
  PROVE  LineInv'
<1> DEFINE r == [IdleSync EXCEPT !.pc = "open", !.src = src, !.from = logCursor[src]]
<1>1. r.pc = "open" /\ r.src = src /\ r.from = logCursor[src] /\ r.lines = {}
  BY DEF IdleSync
<1>2. /\ sync' = [sync EXCEPT ![s] = r] /\ UNCHANGED <<logSize, logCursor, memories>>
      /\ lapped \subseteq lapped'
      /\ src \notin lapped' => \A x \in Syncs : sync[x].src # src
  BY DEF ReadState
<1> HIDE DEF r
<1>3. sync'[s] = r /\ \A x \in Syncs \ {s} : sync'[x] = sync[x]
  BY <1>2 DEF LineInv, LogTypes
<1>4. OneSync'
  BY <1>1, <1>2, <1>3 DEF LineInv, OneSync
<1>5. SyncAhead(s)'
  BY <1>1, <1>2, <1>3 DEF SyncAhead
<1> QED
  BY <1>2, <1>4, <1>5, SyncReads

(* An empty delta. *)
LEMMA EmptyDelta ==
  ASSUME NEW from
  PROVE  {} = LinesIn(from, 0)
BY LogAssumption DEF LinesIn, LogLines

(* The size is looked up: it is no less than the cursor. *)
LEMMA StatAhead ==
  ASSUME LineInv, LogTypes', NEW s \in Syncs, Stat(s)
  PROVE  LineInv'
<1> DEFINE size == logSize[sync[s].src]
           pc   == IF size = sync[s].from THEN "parsed" ELSE "stat"
           r    == [sync[s] EXCEPT !.pc = pc, !.size = size, !.next = size]
<1>1. /\ sync[s].pc = "open" /\ sync[s] \in SyncRecord /\ sync[s].src \in LogSources
      /\ size \in Nat
  BY DEF Stat, LineInv, LogTypes
<1>2. /\ r.pc = pc /\ r.src = sync[s].src /\ r.from = sync[s].from
      /\ r.next = size /\ r.size = size /\ r.lines = sync[s].lines
  BY <1>1 DEF SyncRecord
<1>3. sync' = [sync EXCEPT ![s] = r] /\ UNCHANGED <<logSize, logCursor, memories, lapped>>
  BY DEF Stat
<1> HIDE DEF r
<1>4. sync'[s] = r
  BY <1>3 DEF LineInv, LogTypes
<1>5. SyncAhead(s)'
  <2> SUFFICES ASSUME r.src \notin lapped
               PROVE  /\ r.from = logCursor[r.src]
                      /\ r.pc = "stat" => r.from <= r.size /\ r.size <= logSize[r.src]
                      /\ r.pc = "parsed" =>
                           /\ r.from <= r.next /\ Offset(r.src, r.next)
                           /\ \E end \in Nat : r.lines = LinesIn(r.from, end)
    BY <1>2, <1>3, <1>4 DEF SyncAhead, Offset
  <2>1. r.from = logCursor[r.src] /\ Offset(r.src, logCursor[r.src])
    BY <1>1, <1>2 DEF LineInv, SyncAhead
  <2>2. r.lines = LinesIn(r.from, 0)
    BY <1>1, <1>2, EmptyDelta DEF LineInv, SyncAhead
  <2> QED
    BY <1>1, <1>2, <2>1, <2>2 DEF Offset
<1>6. OneSync'
  BY <1>1, <1>2, <1>3, StaysOneSync DEF LineInv
<1> QED
  BY <1>3, <1>5, <1>6, SyncReads

(* The delta is read: the new cursor is no less than the old one.          *)
LEMMA ReadDeltaAhead ==
  ASSUME LineInv, LogTypes', NEW s \in Syncs, ReadDelta(s)
  PROVE  LineInv'
<1> DEFINE end  == logSize[sync[s].src]
           next == NextOffset(sync[s].src, sync[s].size, end)
           r    == [sync[s] EXCEPT !.pc = "parsed", !.next = next,
                                   !.lines = LinesIn(sync[s].from, end)]
<1>1. /\ sync[s].pc = "stat" /\ sync[s] \in SyncRecord /\ sync[s].src \in LogSources
      /\ end \in Nat /\ sync[s].from \in Nat /\ sync[s].size \in Nat
  BY DEF ReadDelta, LineInv, LogTypes, SyncRecord
<1>2. sync' = [sync EXCEPT ![s] = r] /\ UNCHANGED <<logSize, logCursor, memories, lapped>>
  BY DEF ReadDelta
<1> HIDE DEF next
<1>3. /\ r.pc = "parsed" /\ r.src = sync[s].src /\ r.from = sync[s].from
      /\ r.next = next /\ r.lines = LinesIn(sync[s].from, end)
  BY <1>1 DEF SyncRecord
<1> HIDE DEF r
<1>4. sync'[s] = r
  BY <1>2 DEF LineInv, LogTypes
<1>5. SyncAhead(s)'
  <2> SUFFICES ASSUME sync[s].src \notin lapped
               PROVE  /\ r.from = logCursor[r.src]
                      /\ r.from <= r.next /\ Offset(r.src, r.next)
    BY <1>1, <1>2, <1>3, <1>4 DEF SyncAhead, Offset
  <2>1. /\ sync[s].from = logCursor[sync[s].src] /\ Offset(sync[s].src, sync[s].from)
        /\ sync[s].from <= sync[s].size /\ sync[s].size <= end
    BY <1>1 DEF LineInv, SyncAhead
  <2> HIDE DEF end
  <2>2. CASE sync[s].src \in KeepsPartial
    <3>1. next = 2 * (end \div 2)
      BY <2>2 DEF next, NextOffset
    <3>2. sync[s].from = 2 * (sync[s].from \div 2) /\ sync[s].from <= end
      BY <1>1, <2>1, <2>2 DEF Offset
    <3>3. /\ next \in Nat /\ next <= end /\ next = 2 * (next \div 2)
          /\ sync[s].from <= next
      BY <1>1, <3>1, <3>2
    <3> QED
      BY <1>3, <2>1, <3>3 DEF Offset, end
  <2>3. CASE sync[s].src \notin KeepsPartial
    BY <1>1, <1>3, <2>1, <2>3 DEF next, NextOffset, Offset, end
  <2> QED
    BY <2>2, <2>3
<1>6. OneSync'
  BY <1>1, <1>2, <1>3, StaysOneSync DEF LineInv
<1> QED
  BY <1>2, <1>5, <1>6, SyncReads

(* A sync that dies stores nothing. *)
LEMMA AbandonAhead ==
  ASSUME LineInv, LogTypes', NEW s \in Syncs, Abandon(s)
  PROVE  LineInv'
<1>1. /\ sync' = [sync EXCEPT ![s] = IdleSync]
      /\ UNCHANGED <<logSize, logCursor, memories, lapped>> /\ IdleSync.pc = "idle"
  BY DEF Abandon, IdleSync
<1>2. sync'[s] = IdleSync
  BY <1>1 DEF LineInv, LogTypes
<1>3. OneSync'
  BY <1>1, StaysOneSync DEF LineInv
<1>4. SyncAhead(s)'
  BY <1>1, <1>2 DEF SyncAhead
<1> QED
  BY <1>1, <1>3, <1>4, SyncReads

(* The agent writes: the offsets stay within the log. *)
LEMMA WriteLogAhead ==
  ASSUME LineInv, LogTypes', NEW src \in LogSources, WriteLog(src)
  PROVE  LineInv'
<1>1. /\ UNCHANGED <<logCursor, memories, sync, lapped>>
      /\ \A x \in LogSources : logSize'[x] \in Nat /\ logSize[x] \in Nat /\ logSize[x] <= logSize'[x]
  BY DEF WriteLog, LineInv, LogTypes
<1>2. \A x \in LogSources : \A at : Offset(x, at) => Offset(x, at)'
  BY <1>1 DEF Offset
<1>3. \A s \in Syncs : SyncAhead(s)'
  <2> SUFFICES ASSUME NEW s \in Syncs, sync[s].pc # "idle", sync[s].src \notin lapped
               PROVE  SyncAhead(s)'
    BY <1>1 DEF SyncAhead
  <2>1. sync[s].src \in LogSources /\ SyncAhead(s) /\ sync[s].size \in Nat
    BY DEF LineInv, LogTypes, SyncRecord
  <2>2. Offset(sync[s].src, sync[s].next) => Offset(sync[s].src, sync[s].next)'
    BY <1>1, <2>1 DEF Offset
  <2>3. sync[s].size <= logSize[sync[s].src] => sync[s].size <= logSize'[sync[s].src]
    BY <1>1, <2>1
  <2> QED
    BY <1>1, <2>1, <2>2, <2>3 DEF SyncAhead
<1>4. OneSync' /\ NoLineTwice'
  BY <1>1 DEF LineInv, OneSync, NoLineTwice
<1>5. ASSUME NEW x \in LogSources \ lapped'
      PROVE  Offset(x, logCursor[x])' /\ Recognised(x, logCursor[x])'
  <2>1. Offset(x, logCursor[x])'
    BY <1>1 DEF LineInv, Offset
  <2> QED
    BY <1>1, <2>1 DEF LineInv, Recognised
<1> QED
  BY <1>3, <1>4, <1>5 DEF LineInv

(* The chunks of an import are fresh or there already; those that are      *)
(* fresh have no line of an older one.                                     *)
LEMMA ImportAhead ==
  ASSUME LineInv, LogTypes', NEW s \in Syncs, Import(s)
  PROVE  LineInv'
<1> DEFINE src == sync[s].src
           new == {c \in Chunks(src, sync[s].lines) : Fresh(c)}
<1>1. /\ sync[s].pc = "parsed" /\ sync[s] \in SyncRecord /\ src \in LogSources
      /\ sync[s].from \in Nat /\ sync[s].next \in Nat
      /\ logSize' = logSize /\ lapped' = lapped /\ memories' = memories \cup new
      /\ sync' = [sync EXCEPT ![s] = IdleSync] /\ IdleSync.pc = "idle"
      /\ logCursor' = [logCursor EXCEPT ![src] = sync[s].next]
  BY DEF Import, LineInv, LogTypes, SyncRecord, IdleSync
<1>2. \A c \in new : c \in Chunks(src, sync[s].lines) /\ c.src = src /\ Fresh(c)
  BY DEF Chunks
<1>3. \A c \in Chunks(src, sync[s].lines) : c.src = src
  BY DEF Chunks
<1>4. \A x \in LogSources : logCursor'[x] = IF x = src THEN sync[s].next ELSE logCursor[x]
  BY <1>1 DEF LineInv, LogTypes
<1>5. sync'[s] = IdleSync /\ \A x \in Syncs \ {s} : sync'[x] = sync[x]
  BY <1>1 DEF LineInv, LogTypes
<1> HIDE DEF new
<1>6. OneSync'
  BY <1>1, StaysOneSync DEF LineInv
<1>7. \A x \in Syncs : SyncAhead(x)'
  <2> SUFFICES ASSUME NEW x \in Syncs, x # s, sync[x].pc # "idle", sync[x].src \notin lapped
               PROVE  SyncAhead(x)'
    BY <1>1, <1>5 DEF SyncAhead
  <2>1. sync[x].src # src /\ sync[x].src \in LogSources
    BY <1>1 DEF LineInv, OneSync, LogTypes
  <2>2. logCursor'[sync[x].src] = logCursor[sync[x].src]
    BY <1>4, <2>1
  <2> QED
    BY <1>1, <1>5, <2>2 DEF LineInv, SyncAhead, Offset
<1>8. CASE src \in lapped
  <2>1. NoLineTwice'
    BY <1>1, <1>2, <1>8 DEF LineInv, NoLineTwice
  <2>2. ASSUME NEW x \in LogSources \ lapped
        PROVE  Offset(x, logCursor[x])' /\ Recognised(x, logCursor[x])'
    <3>1. x # src /\ logCursor'[x] = logCursor[x]
      BY <1>4, <1>8, <2>2
    <3>2. \A m \in memories' : m.src = x => m \in memories
      BY <1>1, <1>2, <3>1
    <3> QED
      BY <1>1, <3>1, <3>2 DEF LineInv, Offset, Recognised
  <2> QED
    BY <1>1, <1>6, <1>7, <2>1, <2>2 DEF LineInv
<1>9. CASE src \notin lapped
  <2> DEFINE from == sync[s].from
             next == sync[s].next
             lines == sync[s].lines
  <2>1. /\ from = logCursor[src] /\ from <= next /\ Offset(src, next)
        /\ from \in Nat /\ next \in Nat
    BY <1>1, <1>9 DEF LineInv, SyncAhead
  <2>2. PICK end \in Nat : lines = LinesIn(from, end)
    BY <1>1, <1>9 DEF LineInv, SyncAhead
  <2>3. Recognised(src, from)
    BY <1>1, <1>9, <2>1 DEF LineInv
  <2> HIDE DEF src, from, next, lines
  <2>4. ASSUME NEW c \in Chunks(src, lines)
        PROVE  /\ c.src = src /\ c.index \in Nat
               /\ \A n \in c.lines : n \in LogLines /\ IndexOf(from, n) = c.index
               /\ \A i \in 0..c.index : \E o \in Chunks(src, lines) : o.src = src /\ o.index = i
               /\ \A o \in Chunks(src, lines) : o.index = c.index => o = c
    <3>1. c \in Chunks(src, LinesIn(from, end))
      BY <2>2, <2>4
    <3>2. /\ c.src = src /\ c.index \in Nat
          /\ \A n \in c.lines : n \in LogLines /\ IndexOf(from, n) = c.index
          /\ \A i \in 0..c.index :
               \E o \in Chunks(src, LinesIn(from, end)) : o.src = src /\ o.index = i
          /\ \A o \in Chunks(src, LinesIn(from, end)) : o.index = c.index => o = c
      <4>1. from \in Nat
        BY <2>1
      <4> QED
        BY <3>1, <4>1, ChunksAre
    <3> QED
      BY <2>2, <3>2
  <2>5. \A o \in Chunks(src, lines) : \E x \in memories' : x.src = src /\ x.index = o.index
    BY <1>1, <2>4 DEF new, Fresh, src, lines
  <2>6. \A c \in new : c \in Chunks(src, lines) /\ c.src = src
                       /\ \A m \in memories : m.src = src => m.index # c.index
    BY <1>2 DEF Fresh, src, lines
  <2>7. ASSUME NEW c \in new, NEW m \in memories, m.src = src
        PROVE  m.lines \cap c.lines = {}
    <3> SUFFICES ASSUME NEW n \in m.lines, n \in c.lines
                 PROVE  FALSE
      OBVIOUS
    <3>1. c.index = IndexOf(from, n) /\ c.index \in Nat
      BY <2>4, <2>6
    <3>2. c.index \in 0..m.index
      BY <2>3, <2>7, <3>1 DEF Recognised
    <3>3. \E o \in memories : o.src = src /\ o.index = c.index
      BY <2>3, <2>7, <3>2 DEF Recognised
    <3> QED
      BY <2>6, <3>3
  <2>8. ASSUME NEW c \in new, NEW d \in new, c # d
        PROVE  c.lines \cap d.lines = {}
    BY <2>4, <2>6, <2>8
  <2>9. NoLineTwice'
    <3> SUFFICES ASSUME NEW m \in memories', NEW n \in memories', m # n, m.src = n.src,
                        m.lines \cap n.lines # {}, m.src \notin lapped
                 PROVE  FALSE
      BY <1>1 DEF NoLineTwice
    <3>1. CASE m \in memories /\ n \in memories
      BY <3>1 DEF LineInv, NoLineTwice
    <3>2. CASE m \in new /\ n \in new
      BY <2>8, <3>2
    <3>3. CASE m \in new /\ n \in memories
      BY <2>6, <2>7, <3>3
    <3>4. CASE m \in memories /\ n \in new
      BY <2>6, <2>7, <3>4
    <3> QED
      BY <1>1, <3>1, <3>2, <3>3, <3>4
  <2>10. ASSUME NEW m \in memories', m.src = src
         PROVE  /\ m.index \in Nat
                /\ \A i \in 0..m.index : \E o \in memories' : o.src = src /\ o.index = i
                /\ \A n \in m.lines : n \in LogLines /\ IndexOf(next, n) <= m.index
    <3>1. CASE m \in memories
      <4>1. /\ m.index \in Nat
            /\ \A i \in 0..m.index : \E o \in memories : o.src = src /\ o.index = i
            /\ \A n \in m.lines : n \in LogLines /\ IndexOf(from, n) <= m.index
        BY <2>3, <2>10, <3>1 DEF Recognised
      <4>2. \A n \in m.lines : IndexOf(next, n) \in Nat /\ IndexOf(from, n) \in Nat
                               /\ IndexOf(next, n) <= IndexOf(from, n)
        BY <2>1, <4>1, IndexFalls
      <4>3. \A n \in m.lines : IndexOf(next, n) <= m.index
        BY <4>1, <4>2
      <4> QED
        BY <1>1, <4>1, <4>3
    <3>2. CASE m \in new
      <4>1. m \in Chunks(src, lines)
        BY <2>6, <3>2
      <4>2. \A n \in m.lines : n \in LogLines /\ IndexOf(next, n) <= m.index
        BY <2>1, <2>4, <4>1, IndexFalls
      <4>3. \A i \in 0..m.index : \E o \in memories' : o.src = src /\ o.index = i
        BY <2>4, <2>5, <4>1
      <4> QED
        BY <2>4, <4>1, <4>2, <4>3
    <3> QED
      BY <1>1, <3>1, <3>2
  <2>11. ASSUME NEW x \in LogSources \ lapped
         PROVE  Offset(x, logCursor[x])' /\ Recognised(x, logCursor[x])'
    <3>1. CASE x = src
      <4>1. logCursor'[x] = next
        BY <1>4, <3>1 DEF next, src
      <4> QED
        BY <1>1, <2>1, <2>10, <3>1, <4>1 DEF Offset, Recognised
    <3>2. CASE x # src
      <4>1. logCursor'[x] = logCursor[x]
        BY <1>4, <3>2 DEF src
      <4>2. \A m \in memories' : m.src = x => m \in memories
        BY <1>1, <2>6, <3>2
      <4> QED
        BY <1>1, <4>1, <4>2 DEF LineInv, Offset, Recognised
    <3> QED
      BY <3>1, <3>2
  <2> QED
    BY <1>1, <1>6, <1>7, <2>9, <2>11 DEF LineInv
<1> QED
  BY <1>8, <1>9

(* A line is in two memories only if two syncs of its source overlapped    *)
(* (chunkMessages and the dedupe keys of agent-log-sync.service.ts).       *)
THEOREM LinesStoredOnce == LogSpec => []NoLineTwice
<1>1. LogInit => LineInv
  <2> SUFFICES ASSUME LogInit PROVE LineInv
    OBVIOUS
  <2>1. LogTypes
    BY LogInvInit DEF LogInv
  <2>2. OneSync /\ NoLineTwice /\ \A s \in Syncs : SyncAhead(s)
    BY DEF LogInit, IdleSync, OneSync, NoLineTwice, SyncAhead
  <2>3. \A src \in LogSources : Offset(src, logCursor[src]) /\ Recognised(src, logCursor[src])
    BY DEF LogInit, Offset, Recognised
  <2> QED
    BY <2>1, <2>2, <2>3 DEF LineInv
<1>2. LineInv /\ LogTypes' /\ [LogNext]_logVars => LineInv'
  <2> SUFFICES ASSUME LineInv, LogTypes', [LogNext]_logVars PROVE LineInv'
    OBVIOUS
  <2>1. CASE UNCHANGED logVars
    BY <2>1 DEF logVars, LineInv, OneSync, NoLineTwice, SyncAhead, Offset, Recognised
  <2> QED
    BY <2>1, WriteLogAhead, ReadStateAhead, StatAhead, ReadDeltaAhead, ImportAhead,
       AbandonAhead DEF LogNext, SourceStep
<1>3. LogInv => LogTypes
  BY DEF LogInv
<1>4. LineInv => NoLineTwice
  BY DEF LineInv
<1> QED
  BY <1>1, <1>2, <1>3, <1>4, LogInvInit, LogInvStep, PTL DEF LogSpec
=============================================================================
