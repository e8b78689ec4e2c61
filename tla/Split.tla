-------------------------------- MODULE Split --------------------------------
(***************************************************************************)
(* The text iterators of asp (include/asp/iter/Split.hpp and Lines.hpp):   *)
(* splitting by a character, by a substring, by any of a set of            *)
(* characters, and into lines.                                             *)
(*                                                                         *)
(* A text is a sequence of characters and a character is a number.  The    *)
(* first part are the code's helpers: each takes the text that is left and *)
(* returns the next piece together with what is left after it.  The second *)
(* part says, by the positions of the delimiters in the whole text, which  *)
(* pieces there should be.                                                 *)
(***************************************************************************)
EXTENDS Integers, Sequences, FiniteSets

LOCAL INSTANCE FiniteSetsExt
LOCAL INSTANCE SequencesExt

LF == 10
CR == 13

\* The piece that ends before the position `pos`; `skip` characters follow it.
Piece(inp, pos, skip) ==
    [out |-> SubSeq(inp, 1, pos - 1), rest |-> SubSeq(inp, pos + skip, Len(inp))]

Remainder(inp) == [out |-> inp, rest |-> <<>>]

\* string_view::find_first_of, at or after the position `from`.
FoundAt(inp, chars, from) == {i \in from .. Len(inp) : inp[i] \in chars}

\* string_view::find of a substring.
MatchesAt(inp, delim) ==
    {i \in 1 .. Len(inp) - Len(delim) + 1 : SubSeq(inp, i, i + Len(delim) - 1) = delim}

-----------------------------------------------------------------------------
(* The helpers of the code.                                                *)

NextSplitChar(inp, delim) ==
    LET found == FoundAt(inp, {delim}, 1)
    IN  IF found = {} THEN Remainder(inp) ELSE Piece(inp, Min(found), 1)

NextSplitSub(inp, delim) ==
    LET found == MatchesAt(inp, delim)
    IN  IF found = {} THEN Remainder(inp) ELSE Piece(inp, Min(found), Len(delim))

\* The overload for bytes scans by hand and stops at the end of the span.
NextSplitBytes(inp, delim) ==
    LET pos == Min(FoundAt(inp, {delim}, 1) \cup {Len(inp) + 1})
    IN  IF pos <= Len(inp) THEN Piece(inp, pos, 1) ELSE Remainder(inp)

NextSplitAny(inp, delims) ==
    LET found == FoundAt(inp, delims, 1)
    IN  IF found = {} THEN Remainder(inp) ELSE Piece(inp, Min(found), 1)

\* A CR is only an end of line when an LF follows; else the search goes on.
RECURSIVE NextLine(_, _)

NextLine(inp, start) ==
    LET found == FoundAt(inp, {CR, LF}, start)
        pos   == Min(found)
    IN  IF found = {} THEN Remainder(inp)
        ELSE IF inp[pos] = LF THEN Piece(inp, pos, 1)
        ELSE IF pos = Len(inp) THEN Remainder(inp)
        ELSE IF inp[pos + 1] = LF THEN Piece(inp, pos, 2)
        ELSE NextLine(inp, pos + 1)

-----------------------------------------------------------------------------
(* What the pieces should be.                                              *)

\* The text between the cuts, each `len` long; an empty last piece is none.
Between(text, cuts, len) ==
    LET at     == SetToSortSeq(cuts, <)
        k      == Len(at)
        starts == <<1>> \o [i \in 1 .. k |-> at[i] + len]
        last   == SubSeq(text, starts[k + 1], Len(text))
    IN  [i \in 1 .. k |-> SubSeq(text, starts[i], at[i] - 1)]
           \o (IF last = <<>> THEN <<>> ELSE <<last>>)

AnyPieces(text, delims) == Between(text, FoundAt(text, delims, 1), 1)

\* Matches count from the left and do not overlap.
SubPieces(text, delim) ==
    LET cut[i \in 1 .. Len(text)] ==
            /\ i \in MatchesAt(text, delim)
            /\ \A j \in 1 .. i - 1 : j > i - Len(delim) => ~cut[j]
    IN  Between(text, {i \in 1 .. Len(text) : cut[i]}, Len(delim))

\* A line ends at an LF, and a CR right before it belongs to the end.
LinePieces(text) ==
    LET ends == FoundAt(text, {LF}, 1)
        raw  == Between(text, ends, 1)
        Ended(i) == i <= Cardinality(ends)
    IN  [i \in DOMAIN raw |->
            IF Ended(i) /\ raw[i] # <<>> /\ Last(raw[i]) = CR THEN Front(raw[i]) ELSE raw[i]]
=============================================================================
