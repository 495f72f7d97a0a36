---------------------------- MODULE OutputBuffer ----------------------------
(***************************************************************************)
(* The output a terminal session keeps (OutputBuffer of                    *)
(* src/src/server/terminal_service.rs), fed by read_outputs with the chunks *)
(* the shell writes.                                                       *)
(*                                                                         *)
(* Of the bytes only their place in the output of the shell and which of    *)
(* them are newlines matter.  A held line is the range of places it covers. *)
(* The trimming loop of append is one step per iteration, so that it can    *)
(* fail to end.                                                            *)
(***************************************************************************)
EXTENDS Integers, Sequences, SequencesExt, FiniteSetsExt

CONSTANTS
  MaxSize,      \* MAX_OUTPUT_BUFFER_SIZE
  MaxLines,     \* MAX_BUFFER_LINES
  Width,        \* usize counts modulo Width
  MaxChunk,     \* the size of the buffer of the reader thread
  MaxAppended   \* bound on the output of the shell

ASSUME SizesNat == {MaxSize, MaxLines, MaxChunk, MaxAppended} \subseteq Nat
ASSUME WidthFits == Width \in Nat /\ Width > MaxSize + MaxAppended
ASSUME ChunkFits == MaxChunk <= MaxSize /\ MaxLines > 0

VARIABLES
  pc,                    \* "append", or "trim" while append's last loop runs
  lines,                 \* lines, a VecDeque
  total_size,
  last_line_incomplete,
  appended,              \* history: bytes appended
  completing             \* history: bytes that completed an incomplete line

bufferVars == <<pc, lines, total_size, last_line_incomplete, appended, completing>>

Line ==
  {line \in [from : 1..MaxAppended, to : 1..MaxAppended, newline : BOOLEAN] :
     line.from <= line.to}

BufferTypeOK ==
  /\ pc \in {"append", "trim"}
  /\ lines \in Seq(Line)
  /\ total_size \in 0..(Width - 1)
  /\ last_line_incomplete \in BOOLEAN
  /\ appended \in 0..MaxAppended
  /\ completing \in 0..appended

BufferInit ==
  /\ pc = "append"
  /\ lines = <<>>
  /\ total_size = 0
  /\ last_line_incomplete = FALSE
  /\ appended = 0
  /\ completing = 0

-----------------------------------------------------------------------------

Size(line) == line.to - line.from + 1

Held(ls) ==
  LET held[i \in 0..Len(ls)] == IF i = 0 THEN 0 ELSE held[i - 1] + Size(ls[i])
  IN held[Len(ls)]

\* A chunk of n bytes, those at the places newlines being line feeds.
Chunks == UNION {[n : {n}, newlines : SUBSET (1..n)] : n \in 1..MaxChunk}

\* The lines of the first i bytes of a chunk without its first start bytes, for
\* each i: a line begins behind a newline; the last one may lack its newline.
LinesOf(chunk, start) ==
  LET new[i \in 0..chunk.n] ==
        IF i <= start THEN <<>>
        ELSE IF i - 1 \in chunk.newlines \cup {start}
        THEN Append(new[i - 1], [from |-> appended + i, to |-> appended + i,
                                 newline |-> i \in chunk.newlines])
        ELSE [new[i - 1] EXCEPT ![Len(new[i - 1])] =
                [@ EXCEPT !.to = appended + i, !.newline = i \in chunk.newlines]]
  IN new

Split(chunk, start) == LinesOf(chunk, start)[chunk.n]

\* The last line, n bytes longer.
Extended(n, newline) ==
  [lines EXCEPT ![Len(lines)].to = @ + n, ![Len(lines)].newline = newline]

\* Mutant: the chunk that only prolongs the last line replaces it.
ProlongedAnew(n) ==
  [lines EXCEPT ![Len(lines)].from = appended + 1, ![Len(lines)].to = appended + n]

Prolonged(n) == Extended(n, FALSE)

\* The chunk has no newline and an incomplete line is waiting for one: append
\* returns before it trims.
AppendProlong(chunk) ==
  /\ last_line_incomplete /\ lines # <<>> /\ chunk.newlines = {}
  /\ lines' = Prolonged(chunk.n)
  /\ total_size' = (total_size + chunk.n) % Width
  /\ appended' = appended + chunk.n
  /\ UNCHANGED <<pc, last_line_incomplete, completing>>

\* Mutant: what lacks a newline is noted only behind another line.
IncompleteAfterOther(new) == Len(new) > 1 /\ ~Last(new).newline

\* Whether the last of the lines pushed lacks its newline.
IncompleteAfter(new) == new # <<>> /\ ~Last(new).newline

\* The first newline completes the waiting line; those bytes are not counted.
AppendComplete(chunk) ==
  LET start == Min(chunk.newlines)
      new == Split(chunk, start)
  IN /\ last_line_incomplete /\ lines # <<>> /\ chunk.newlines # {}
     /\ lines' = Extended(start, TRUE) \o new
     /\ total_size' = (total_size + Held(new)) % Width
     /\ last_line_incomplete' = IncompleteAfter(new)
     /\ completing' = completing + start
     /\ appended' = appended + chunk.n
     /\ pc' = "trim"

AppendLines(chunk) ==
  LET new == Split(chunk, 0)
  IN /\ ~last_line_incomplete \/ lines = <<>>
     /\ lines' = lines \o new
     /\ total_size' = (total_size + Held(new)) % Width
     /\ last_line_incomplete' = (last_line_incomplete \/ IncompleteAfter(new))
     /\ appended' = appended + chunk.n
     /\ pc' = "trim"
     /\ UNCHANGED completing

AppendChunk ==
  /\ pc = "append"
  /\ \E chunk \in Chunks :
       /\ appended + chunk.n <= MaxAppended
       /\ AppendProlong(chunk) \/ AppendComplete(chunk) \/ AppendLines(chunk)

TooLarge == total_size > MaxSize \/ Len(lines) > MaxLines

\* total_size -= n in a release build.
Less(n) == (total_size - n) % Width

\* Mutant: the size of a line dropped is not taken off.
TrimLineUncounted ==
  /\ pc = "trim" /\ TooLarge
  /\ lines # <<>>
  /\ lines' = Tail(lines)
  /\ UNCHANGED <<pc, total_size, last_line_incomplete, appended, completing>>

\* With no line left the loop goes on without a change: a stutter.
TrimLine ==
  /\ pc = "trim" /\ TooLarge
  /\ lines # <<>>
  /\ lines' = Tail(lines)
  /\ total_size' = Less(Size(Head(lines)))
  /\ UNCHANGED <<pc, last_line_incomplete, appended, completing>>

TrimDone ==
  /\ pc = "trim" /\ ~TooLarge
  /\ pc' = "append"
  /\ UNCHANGED <<lines, total_size, last_line_incomplete, appended, completing>>

-----------------------------------------------------------------------------
(* get_recent.                                                               *)

\* Mutant: a line that does not fit is left out, and those before it are not.
RecentWithGaps(max) ==
  LET recent[k \in 0..Len(lines)] ==
        IF k = 0 THEN <<>>
        ELSE LET line == lines[Len(lines) - k + 1] IN
             IF Held(recent[k - 1]) + Size(line) > max THEN recent[k - 1]
             ELSE <<line>> \o recent[k - 1]
  IN recent[Len(lines)]

\* What the loop has taken of the last k lines, for each k, and whether it is over.
Taking(max) ==
  LET taking[k \in 0..Len(lines)] ==
        IF k = 0 THEN [full |-> FALSE, recent |-> <<>>]
        ELSE LET line == lines[Len(lines) - k + 1]
                 r == taking[k - 1]
             IN IF r.full \/ Held(r.recent) + Size(line) > max
                THEN [r EXCEPT !.full = TRUE]
                ELSE [r EXCEPT !.recent = <<line>> \o @]
  IN taking

\* The lines from the last one back to the first that does not fit.
Recent(max) == Taking(max)[Len(lines)].recent

-----------------------------------------------------------------------------

BufferNext == AppendChunk \/ TrimLine \/ TrimDone

BufferSpec == BufferInit /\ [][BufferNext]_bufferVars

\* The loop runs in one call, which nothing interrupts.
BufferFairSpec == BufferSpec /\ WF_bufferVars(TrimLine \/ TrimDone)

-----------------------------------------------------------------------------
(* What holds.                                                              *)

\* What is held is the end of the output, without a gap: lines that follow one
\* another up to the last byte appended.
Follow(ls) == \A k \in 1..(Len(ls) - 1) : ls[k + 1].from = ls[k].to + 1

HoldsTheEnd == lines # <<>> => Last(lines).to = appended /\ Follow(lines)

\* The flag tells whether the last line held still lacks its newline, and no
\* other line does: otherwise the next chunk would be glued to a line that is
\* complete, or a line torn in two.
FlagIsRight ==
  lines # <<>> =>
    /\ last_line_incomplete = ~Last(lines).newline
    /\ \A k \in 1..(Len(lines) - 1) : lines[k].newline

\* What must hold in every state: types, with the range of the size, and the
\* flag, in one invariant.
BufferInv == BufferTypeOK /\ FlagIsRight

\* get_recent returns the end of what is held, in whole lines and no more than was
\* asked for, and as much of it as that allows: never lines with one missing
\* between them.  Nothing at all if the last line is too long.  (handle_open asks
\* for it when a peer comes back, and does not send it yet.)
RecentIsEnd ==
  \A max \in 0..MaxAppended :
    LET n == Len(Recent(max)) IN
    /\ Recent(max) = SubSeq(lines, Len(lines) - n + 1, Len(lines))
    /\ Held(Recent(max)) <= max
    /\ n < Len(lines) => Held(Recent(max)) + Size(lines[Len(lines) - n]) > max

\* total_size falls short of the bytes held by exactly those that completed a
\* line, of lines long dropped included.
SizeDrift == (total_size + completing) % Width = Held(lines)

\* The inductive invariant behind all of them.  The size is what it should be, or
\* has wrapped below zero.  The lines end within the output, so none is larger than
\* it; a line that lacks its newline is not trimmed, unless the size has wrapped,
\* and then the trimming does not end.
Drift == total_size + completing \in {Held(lines), Held(lines) + Width}

IncompleteIsKept ==
  last_line_incomplete =>
    IF lines = <<>> THEN pc = "trim" /\ total_size + completing = Width
    ELSE pc = "trim" => Size(Last(lines)) <= MaxChunk

BufferIInv == BufferInv /\ HoldsTheEnd /\ Drift /\ IncompleteIsKept

-----------------------------------------------------------------------------
(* What a comment says and the code does not do.                            *)

\* "Trim old data if buffer is too large".  The trimming ends.  It does not hold
\* once the size has wrapped below zero.
TrimEnds == (pc = "trim") ~> (pc = "append")
=============================================================================
