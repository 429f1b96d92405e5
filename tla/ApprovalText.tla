----------------------------- MODULE ApprovalText -----------------------------
(***************************************************************************)
(* What somebody who approves a command gets to read of it: the hint is    *)
(* cut to the buffer of the device, wrapped into rows of bytes and cells   *)
(* (utf8_text_logic.h), and the rows that do not fit on the screen scroll  *)
(* by (drawApproval and drawLandscapeApproval in main.cpp).  A letter is   *)
(* one byte and one cell, a wide character three bytes and two cells.      *)
(***************************************************************************)
EXTENDS Integers, SequencesExt

CONSTANTS
  MaxText,  \* bound: characters of a hint
  HintSizes,    \* [width, bytes, rows, visible]: what the screens give to a hint
  HintCap,  \* sizeof(promptHint)
  Hold,     \* holdMs, and
  Step      \* stepMs of the scrolling, in ticks

(* A row has room for its closing zero, a screen for a row.                *)
ASSUME TextAssumption ==
  /\ {MaxText, Hold} \subseteq Nat /\ {HintCap, Step} \subseteq Nat \ {0}
  /\ HintSizes \subseteq [{"width", "bytes", "rows", "visible"} -> Nat \ {0}]

VARIABLES
  hint,        \* the hint the host sends
  size,
  rest, word,  \* what is to be wrapped, and of the word that is placed
  rows, done,  \* the rows so far
  elapsed, shownRows

textVars == <<hint, size, rest, word, rows, done, elapsed, shownRows>>

Chars == {"a", "w", " "}
Bytes(s) == Len(s) + 2 * Cardinality({i \in DOMAIN s : s[i] = "w"})
Cells(s) == Len(s) + Cardinality({i \in DOMAIN s : s[i] = "w"})
Prefix(s, n) == SubSeq(s, 1, n)
Suffix(s, n) == SubSeq(s, n + 1, Len(s))

(* utf8SafePrefixBytes and utf8ClipDisplayBytes: whole characters only.    *)
Clip(s, cells, bytes) ==
  Max({n \in 0..Len(s) : Cells(Prefix(s, n)) <= cells /\ Bytes(Prefix(s, n)) <= bytes})

CopyTruncate(s) == Prefix(s, Clip(s, 2 * MaxText, HintCap - 1))

(***************************************************************************)
(* utf8WrapInto                                                            *)
(***************************************************************************)

Row == rows[Len(rows)]
CellsLeft == size.width - Cells(Row)
\* For comparison: a row without its closing zero.
BytesLeftToTheEnd == size.bytes - Bytes(Row)
BytesLeft == size.bytes - 1 - Bytes(Row)

SkipSpaces(s) == Suffix(s, Max({n \in 0..Len(s) : \A i \in 1..n : s[i] = " "}))
WordBytes(s) == Max({n \in 0..Len(s) : \A i \in 1..n : s[i] # " "})

RowWith(s) == rows' = [rows EXCEPT ![Len(rows)] = @ \o s]

(* A row is begun, or there is none left and what is left is not shown.    *)
NextRow(s) ==
  IF Len(rows) < size.rows THEN rows' = Append(rows, s) /\ UNCHANGED done
  ELSE done' = TRUE /\ UNCHANGED rows

(* After a row with text a space goes before the word, unless the word is  *)
(* better off on the next row.                                             *)
NextWord ==
  LET line == SkipSpaces(rest)
      next == Prefix(line, WordBytes(line))
      spills == \/ Cells(Row) + 1 + Cells(next) > size.width
                \/ BytesLeft <= 1
                \/ Clip(next, CellsLeft - 1, BytesLeft - 1) = 0
  IN  /\ ~done /\ word = << >>
      /\ word' = next /\ rest' = Suffix(line, Len(next))
      /\ IF next = << >> THEN done' = TRUE /\ UNCHANGED rows
         ELSE IF Row = << >> THEN UNCHANGED <<rows, done>>
         ELSE IF spills THEN NextRow(<< >>)
         ELSE RowWith(<<" ">>) /\ UNCHANGED done
      /\ UNCHANGED <<hint, size, elapsed, shownRows>>

(* As much of the word as fits, and at least a character on an empty row.  *)
PlaceWord ==
  LET clipped == Clip(word, CellsLeft, BytesLeft)
      take == IF clipped = 0 /\ Row = << >> THEN Clip(Prefix(word, 1), 2, BytesLeft) ELSE clipped
      written == Append(Prefix(rows, Len(rows) - 1), Row \o Prefix(word, take))
  IN  /\ ~done /\ word # << >>
      /\ word' = Suffix(word, take)
      /\ IF word' = << >> THEN rows' = written /\ UNCHANGED done
         ELSE IF Len(rows) < size.rows THEN rows' = Append(written, << >>) /\ UNCHANGED done
         ELSE rows' = written /\ done' = TRUE
      /\ UNCHANGED <<hint, size, rest, elapsed, shownRows>>

(***************************************************************************)
(* The screen, drawn again all the time while the prompt is there.         *)
(***************************************************************************)

HintRows == IF rows = << << >> >> THEN 0 ELSE Len(rows)
HintBack == IF HintRows > size.visible THEN HintRows - size.visible ELSE 0

(* utf8AutoScrollOffset *)
Offset ==
  LET index == ((elapsed - Hold) \div Step) % (HintBack + 2)
  IN  IF HintBack = 0 \/ elapsed <= Hold \/ index > HintBack THEN 0 ELSE index

DrawHint ==
  /\ done
  /\ shownRows' = shownRows \cup {i \in 1..HintRows : i - Offset \in 1..size.visible}
  /\ elapsed' = IF elapsed < Hold + Step * (HintBack + 2) THEN elapsed + 1
                ELSE elapsed - Step * (HintBack + 2) + 1
  /\ UNCHANGED <<hint, size, rest, word, rows, done>>

TextInit ==
  /\ hint \in UNION {[1..n -> Chars] : n \in 0..MaxText} /\ size \in HintSizes
  /\ rest = CopyTruncate(hint) /\ word = << >> /\ rows = << << >> >> /\ done = FALSE
  /\ elapsed = 0 /\ shownRows = {}

TextNext == NextWord \/ PlaceWord \/ DrawHint
TextSpec == TextInit /\ [][TextNext]_textVars /\ WF_textVars(TextNext)

(***************************************************************************)
(* Correctness.                                                            *)
(***************************************************************************)

(* The characters of s at the places of P, in their order.                 *)
Chosen(s, P) ==
  LET told[i \in 0..Len(s)] ==
        IF i = 0 THEN << >> ELSE IF i \in P THEN Append(told[i - 1], s[i]) ELSE told[i - 1]
  IN  told[Len(s)]

Letters(s) == Chosen(s, {i \in DOMAIN s : s[i] # " "})

(* s with one space between its words, and one at its end if there is any. *)
Spaced(s) == Chosen(s, {i \in DOMAIN s : s[i] # " " \/ (i > 1 /\ s[i - 1] # " ")})

IsPieceOf(t, s) == \E from \in 0..(Len(s) - Len(t)) : t = SubSeq(s, from + 1, from + Len(t))

Kept == CopyTruncate(hint)

TextTypeOK ==
  /\ hint \in Seq(Chars) /\ size \in HintSizes /\ {rest, word} \subseteq Seq(Chars)
  /\ rows \in Seq(Seq(Chars)) /\ Len(rows) \in 1..size.rows /\ done \in BOOLEAN
  /\ elapsed \in 0..(Hold + Step * (size.rows + 2)) /\ shownRows \subseteq 1..size.rows

(* No row is longer than its buffer or wider than the screen, and what is  *)
(* on the rows is the beginning of the hint: each row reads like a piece   *)
(* of it, no letter is left out between two rows, and the rest is missing  *)
(* only when all rows are used.                                            *)
RowsTellTheHint ==
  /\ LET spaced == Spaced(Kept) IN
     \A i \in DOMAIN rows :
       /\ Bytes(rows[i]) < size.bytes
       /\ Cells(rows[i]) <= size.width \/ Len(rows[i]) = 1
       /\ IsPieceOf(rows[i], spaced)
  /\ Letters(FlattenSeq(rows)) \o word \o Letters(rest) = Letters(Kept)
  /\ done => Len(rows) = size.rows \/ word \o Letters(rest) = << >>

(* A word is broken only where it has to be: it is wider than a row, or    *)
(* the bytes of the row are used up.                                       *)
BreaksAreForced ==
  [][word' # << >> /\ word' # word /\ word # << >> =>
       Cells(word) > size.width \/ Bytes(Row \o word) >= size.bytes]_textVars

(* Every row of the hint is on the screen at some time, not only the ones  *)
(* that fit.                                                               *)
EveryRowIsSeen == <>[](done /\ shownRows = 1..HintRows)
==============================================================================
