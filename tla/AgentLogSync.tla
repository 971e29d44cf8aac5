---------------------------- MODULE AgentLogSync ----------------------------
(***************************************************************************)
(* The import of agent logs.  A sync reads the cursor of a source, looks   *)
(* at the size of the log, reads what follows the cursor up to the end of  *)
(* the file, cuts it into chunks, and stores chunks and cursor in one      *)
(* transaction.  The agent goes on writing; two syncs may overlap (the     *)
(* resident one and a one-shot one).                                       *)
(*                                                                         *)
(* A source is one session file.  Its lines are numbered and have two      *)
(* parts, so that an odd size is an incomplete last line.  Every line is   *)
(* worth storing: the filters are left out, and so are files that are      *)
(* truncated or too old to be read when they are first seen.               *)
(***************************************************************************)
EXTENDS Integers, FiniteSets

CONSTANTS
  LogSources,   \* sources, each with one log
  KeepsPartial, \* the sources whose parser leaves an incomplete line (Codex)
  Syncs,        \* running syncs
  MaxLines,     \* bound: lines of a log
  MaxMessagesPerChunk

ASSUME LogAssumption ==
  /\ KeepsPartial \subseteq LogSources
  /\ MaxLines \in Nat /\ MaxMessagesPerChunk \in Nat \ {0}

VARIABLES
  logSize,      \* [LogSources -> 0..2*MaxLines]
  logCursor,    \* [LogSources -> 0..2*MaxLines]: the offset in sync_states
  memories,     \* the rows of vibe_memories
  sync,         \* [Syncs -> what the sync knows]
  imported,     \* history: the lines handed to a committed import
  lapped        \* history: sources with two syncs at a time

logVars == <<logSize, logCursor, memories, sync, imported, lapped>>

LogLines == 1..MaxLines
IdleSync == [pc |-> "idle", src |-> "none", from |-> 0, size |-> 0, next |-> 0, lines |-> {}]

\* The complete lines that lie between two offsets, and those before one.
LinesIn(from, to) == {n \in LogLines : from <= 2*n - 2 /\ 2*n <= to}
Touched(to)       == {n \in LogLines : 2*n - 1 <= to}

\* Mutant: the Codex cursor, too, moves to the size that was looked up.
NextOffsetBySize(src, size, end) == size

\* processCodexJsonlDelta moves past complete lines only; the other parsers
\* drop a broken last line and the cursor becomes the size looked up before.
NextOffset(src, size, end) ==
  IF src \in KeepsPartial THEN 2 * (end \div 2) ELSE size

\* chunkMessages: the lines of a delta by position, from index 0 each time.
ChunkOf(lines, n) == Cardinality({m \in lines : m < n}) \div MaxMessagesPerChunk
Chunks(src, lines) ==
  {[src |-> src, index |-> i, lines |-> {n \in lines : ChunkOf(lines, n) = i}] :
     i \in {ChunkOf(lines, n) : n \in lines}}

\* Mutant: no look for an existing row.
FreshUnchecked(chunk) == TRUE

\* A row with the session and the dedupe key is there: the chunk is skipped.
Fresh(chunk) == \A m \in memories : m.src = chunk.src => m.index # chunk.index

\* The agent writes the next part of a line.
WriteLog(src) ==
  /\ logSize[src] < 2 * MaxLines
  /\ logSize' = [logSize EXCEPT ![src] = @ + 1]
  /\ UNCHANGED <<logCursor, memories, sync, imported, lapped>>

\* The cursor is read outside of the transaction.
ReadState(s, src) ==
  /\ sync[s].pc = "idle"
  /\ sync' = [sync EXCEPT ![s] = [IdleSync EXCEPT
                !.pc = "open", !.src = src, !.from = logCursor[src]]]
  /\ lapped' = lapped \cup {x \in {src} : \E r \in Syncs : sync[r].src = x}
  /\ UNCHANGED <<logSize, logCursor, memories, imported>>

\* fs.stat; a log that has not grown is not read.
Stat(s) ==
  LET size == logSize[sync[s].src]
  IN  /\ sync[s].pc = "open"
      /\ sync' = [sync EXCEPT ![s].pc = IF size = sync[s].from THEN "parsed" ELSE "stat",
                              ![s].size = size, ![s].next = size]
      /\ UNCHANGED <<logSize, logCursor, memories, imported, lapped>>

\* readTextDelta reads to the end of the file, which may have grown since.
ReadDelta(s) ==
  LET end == logSize[sync[s].src]
  IN  /\ sync[s].pc = "stat"
      /\ sync' = [sync EXCEPT ![s].pc = "parsed",
                              ![s].next = NextOffset(sync[s].src, sync[s].size, end),
                              ![s].lines = LinesIn(sync[s].from, end)]
      /\ UNCHANGED <<logSize, logCursor, memories, imported, lapped>>

\* BEGIN IMMEDIATE ... COMMIT: the chunks that are new, and the cursor.
Import(s) ==
  LET src == sync[s].src
  IN  /\ sync[s].pc = "parsed"
      /\ memories' = memories \cup {c \in Chunks(src, sync[s].lines) : Fresh(c)}
      /\ imported' = [imported EXCEPT ![src] = @ \cup sync[s].lines]
      /\ logCursor' = [logCursor EXCEPT ![src] = sync[s].next]
      /\ sync' = [sync EXCEPT ![s] = IdleSync]
      /\ UNCHANGED <<logSize, lapped>>

\* The sync dies, or an error rolls its transaction back.
Abandon(s) ==
  /\ sync[s].pc # "idle"
  /\ sync' = [sync EXCEPT ![s] = IdleSync]
  /\ UNCHANGED <<logSize, logCursor, memories, imported, lapped>>

LogInit ==
  /\ logSize = [x \in LogSources |-> 0] /\ logCursor = [x \in LogSources |-> 0]
  /\ memories = {} /\ lapped = {} /\ imported = [x \in LogSources |-> {}]
  /\ sync = [s \in Syncs |-> IdleSync]

SourceStep(src) ==
  \/ WriteLog(src)
  \/ \E s \in Syncs : \/ ReadState(s, src)
                      \/ sync[s].src = src /\ (Stat(s) \/ ReadDelta(s) \/ Import(s) \/ Abandon(s))

LogNext == \E src \in LogSources : SourceStep(src)

LogSpec == LogInit /\ [][LogNext]_logVars

-----------------------------------------------------------------------------
(* Properties. *)

\* A Codex cursor never passes a line, or the part of one, that no committed
\* import was given: an incomplete last line is left for the next sync,
\* whenever the agent wrote between the stat, the read and the commit, and
\* whichever of two overlapping syncs commits its cursor last.
CursorLeavesNothing ==
  \A src \in KeepsPartial : Touched(logCursor[src]) \subseteq imported[src]

\* A line is in two memories only if two syncs of its source overlapped: what
\* a parser read beyond the cursor it reports, and reads again, is recognised.
NoLineTwice ==
  \A m, n \in memories :
    m # n /\ m.src = n.src /\ m.lines \cap n.lines # {} => m.src \in lapped

\* What a sync leaves for the next run is stored by the next run: a line that
\* the Codex cursor has passed is in a memory (test/agent-log-sync.test.ts:146
\* and 327 say so of the cursor and of the keys of two chunks).
NextRunStores ==
  \A src \in KeepsPartial : \A n \in LinesIn(0, logCursor[src]) :
    \E m \in memories : m.src = src /\ n \in m.lines
=============================================================================
