----------------------------- MODULE LineSplitter -----------------------------
(***************************************************************************)
(* scripts/lit-push-ready.py: split_text_fragments, and the lines that     *)
(* filtered_scan_chunks puts together from it.  A text is read in chunks   *)
(* of any size; the generator yields one fragment of a chunk after the     *)
(* other, each with the line break behind it or with none.  A CR at the    *)
(* end of a chunk waits for the next one, which may begin with its LF.     *)
(***************************************************************************)
EXTENDS Integers, Sequences, FiniteSets

CONSTANTS
  Alphabet,  \* the characters
  Texts      \* the texts that may be read

ASSUME TextsAssumption == Texts \subseteq Seq(Alphabet)

\* Two characters that break a line as a pair; any other separator does it
\* alone, as a "CR" without an "LF" does.
Separators == {"CR", "LF"}

VARIABLES
  text,       \* the text
  fed,        \* characters read so far
  start,      \* characters of them that have been yielded
  pendingCr,  \* the last one was a CR at the end of its chunk
  lineFile,   \* the line so far
  pending,    \* a fragment of it has come, be it an empty one
  complete    \* the lines that have ended

readVars == <<text, fed>>
lineVars == <<start, pendingCr, lineFile, pending, complete>>
splitVars == <<readVars, lineVars>>

-----------------------------------------------------------------------------
(* The generator.                                                          *)

BreaksAhead == {i \in (start + 1)..fed : text[i] \in Separators}
FirstBreak == CHOOSE i \in BreaksAhead : \A j \in BreaksAhead : i <= j

\* What stands in the chunk before the next break.
Fragment ==
  IF pendingCr THEN <<>>
  ELSE SubSeq(text, start + 1, IF BreaksAhead = {} THEN fed ELSE FirstBreak - 1)

\* Only the next chunk can tell whether this CR is one half of a break.
CrWaits == BreaksAhead # {} /\ FirstBreak = fed /\ text[fed] = "CR"

\* The last character of the break that begins here.  Fault: the LF behind a
\* CR counts for a line of its own.
EveryBreak(i) == i
BreakUpTo(i) == IF text[i] = "CR" /\ i < fed /\ text[i + 1] = "LF" THEN i + 1 ELSE i

-----------------------------------------------------------------------------
(* The loop over the fragments.                                            *)

ReadPiece(n) ==
  /\ start = fed /\ n \in 1..(Len(text) - fed)
  /\ fed' = fed + n
  /\ UNCHANGED <<text, lineVars>>

\* A fragment that no break follows yet.
Continue ==
  /\ ~pendingCr /\ start < fed
  /\ BreaksAhead = {} \/ CrWaits
  /\ start' = fed /\ pendingCr' = CrWaits
  /\ lineFile' = lineFile \o Fragment /\ pending' = TRUE
  /\ UNCHANGED <<readVars, complete>>

LineEnds(upTo) ==
  /\ complete' = Append(complete, lineFile \o Fragment)
  /\ start' = upTo /\ pendingCr' = FALSE
  /\ lineFile' = <<>> /\ pending' = FALSE
  /\ UNCHANGED readVars

\* At the CR of the chunk before, alone or with the LF of this one.
EndPending ==
  /\ pendingCr /\ (start < fed \/ start = Len(text))
  /\ LineEnds(BreakUpTo(start))

EndAtBreak ==
  /\ ~pendingCr /\ BreaksAhead # {} /\ ~CrWaits
  /\ LineEnds(BreakUpTo(FirstBreak))

\* At the end of the text; no empty line is invented.
EndUnterminated ==
  /\ ~pendingCr /\ pending /\ start = Len(text)
  /\ LineEnds(start)

SplitEnded == ~pendingCr /\ ~pending /\ start = Len(text)

\* A text may be read more than once.
StartOver ==
  /\ fed' = 0 /\ start' = 0 /\ pendingCr' = FALSE
  /\ lineFile' = <<>> /\ pending' = FALSE /\ complete' = <<>>
  /\ UNCHANGED text

Unread ==
  /\ fed = 0 /\ start = 0 /\ pendingCr = FALSE
  /\ lineFile = <<>> /\ pending = FALSE /\ complete = <<>>

SplitNext ==
  \/ \E n \in 1..Len(text) : ReadPiece(n)
  \/ Continue
  \/ EndPending \/ EndAtBreak \/ EndUnterminated
  \/ StartOver

Splitting == text \in Texts /\ Unread /\ [][SplitNext]_splitVars

-----------------------------------------------------------------------------
(* The lines of a whole text.                                              *)

\* A break is an LF, a CR, or both together, and counts where it ends.
Breaks ==
  {i \in 1..Len(text) : \/ text[i] = "LF"
                        \/ text[i] = "CR" /\ ~(i < Len(text) /\ text[i + 1] = "LF")}

\* What follows the last break, if anything does, is a line as well.
Ends == Breaks \cup {i \in {Len(text) + 1} : Len(text) \notin Breaks \cup {0}}

NumberOf(end) == Cardinality({e \in Ends : e <= end})
Before(end) == {0} \cup {e \in Ends : e < end}
EndBefore(end) == CHOOSE b \in Before(end) : \A c \in Before(end) : c <= b
IsPair(end) == end \in 2..Len(text) /\ text[end] = "LF" /\ text[end - 1] = "CR"
TextLine(end) == SubSeq(text, EndBefore(end) + 1, end - IF IsPair(end) THEN 2 ELSE 1)

\* split_text_fragments: however the text is cut into chunks, the lines that
\* have ended are the first ones of the whole text, with nothing lost, added or
\* moved to a line next to it, so that documented line numbers mean the same;
\* at the end they are all its lines.
LinesAreExact ==
  /\ Len(complete) <= Cardinality(Ends)
  /\ \A end \in Ends :
       NumberOf(end) <= Len(complete) => complete[NumberOf(end)] = TextLine(end)
  /\ SplitEnded => Len(complete) = Cardinality(Ends)

=============================================================================
