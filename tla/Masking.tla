------------------------------ MODULE Masking ------------------------------
(***************************************************************************)
(* Redaction of a text with the map of what it replaced, and the evidence  *)
(* that is moved through that map (engine/mask-map.ts, engine/redactor.ts, *)
(* engine/review.ts, engine/evidence.ts, engine/c-quotes.ts).              *)
(*                                                                         *)
(* A text is a sequence of UTF-16 units. A position is the number of units *)
(* before it, as in the code, so an interval [start, end) is the units     *)
(* start + 1 .. end of the sequence. A redaction pattern is the set of     *)
(* units it is made of: it matches the maximal runs of them, which is how  *)
(* the default patterns of the code (a prefix and a run of letters) sit in *)
(* a line. The texts here are short, and so is the token.                  *)
(***************************************************************************)
EXTENDS CQuotes, FiniteSetsExt, Functions

CONSTANTS Token,      \* REDACTED_TOKEN
          Bytes       \* [unit outside ASCII -> UTF-8 bytes counted at its end]; the
                      \* first half of a surrogate pair counts none, the second all

Width(c) == IF c \in DOMAIN Bytes THEN Bytes[c] ELSE 1

Units(text, from, to) == SubSeq(text, from + 1, to)

----------------------------------------------------------------------------
(* Redaction.                                                              *)

\* The regular expression engine: the intervals a pattern matches, in order.
Matches(pattern, text) ==
  LET At(i) == i \in 1..Len(text) /\ text[i] \in pattern
      runs == {<<q[1] - 1, q[2]>> : q \in
                 {r \in (1..Len(text)) \X (1..Len(text)) :
                    /\ r[1] <= r[2] /\ \A k \in r[1]..r[2] : At(k)
                    /\ ~At(r[1] - 1) /\ ~At(r[2] + 1)}}
  IN  SetToSortSeq(runs, LAMBDA a, b : a[1] < b[1])

\* One pattern: every match becomes the token.
ApplyPattern(pattern, text) ==
  LET found == Matches(pattern, text)
      Piece(i) == IF \E k \in DOMAIN found : found[k][1] = i - 1 THEN Token
                  ELSE IF \E k \in DOMAIN found : i \in found[k][1] + 1..found[k][2]
                       THEN <<>> ELSE <<text[i]>>
  IN  [text |-> FlattenSeq([i \in 1..Len(text) |-> Piece(i)]), found |-> found]

\* redact: the patterns one after the other, each on what the last one left.
Redact(text, patterns) ==
  FoldLeft(LAMBDA t, p : ApplyPattern(p, t).text, text, patterns)

Shrunk(r) == (r.end - r.start) - Len(Token)

\* What the ranges found before the j-th one took out of the text.
ShrinkOf(ranges, j) ==
  FoldLeft(LAMBDA n, r : n + Shrunk(r), 0, SubSeq(ranges, 1, j - 1))

(***************************************************************************)
(* One range of stage k, moved back to the original text: the ranges of    *)
(* earlier stages that lie before it have shifted it. Whether one lies     *)
(* before is asked of its end plus what the ranges before that one took    *)
(* out, and a range that then overlaps one already placed is skipped.      *)
(***************************************************************************)
PlaceRange(placed, k, m) ==
  LET earlier == SelectSeq(placed, LAMBDA p : p.stage < k)
      before  == {j \in DOMAIN earlier : earlier[j].end + ShrinkOf(earlier, j) <= m[1]}
      shrink  == MapThenSumSet(LAMBDA j : Shrunk(earlier[j]), before)
      range   == [start |-> m[1] + shrink, end |-> m[2] + shrink, stage |-> k]
  IN  IF \E i \in DOMAIN placed : range.start < placed[i].end /\ range.end > placed[i].start
      THEN placed ELSE Append(placed, range)

\* maskWithRanges: the masked text and the ranges it hides, in the order of
\* the original text. A pattern that changed nothing is no stage.
MaskWithRanges(text, patterns) ==
  LET Stage(acc, p) ==
        LET step == ApplyPattern(p, acc.text)
        IN  IF step.text = acc.text THEN acc
            ELSE [text |-> step.text, k |-> acc.k + 1,
                  placed |-> FoldLeft(LAMBDA s, m : PlaceRange(s, acc.k + 1, m),
                                      acc.placed, step.found)]
      all == FoldLeft(Stage, [text |-> text, k |-> 0, placed |-> <<>>], patterns)
  IN  [text |-> all.text, ranges |-> SortSeq(all.placed, LAMBDA a, b : a.start < b.start)]

----------------------------------------------------------------------------
(* Moving a position or an interval of the original text to the masked one. *)

WithoutShift(ranges, start, end) == [start |-> start, end |-> end] \* mutant
MapRange(ranges, start, end) ==
  LET Delta(j)  == -Shrunk(ranges[j])
      covering  == {j \in DOMAIN ranges : ranges[j].start <= start /\ end <= ranges[j].end}
      j0        == Min(covering)
      at        == ranges[j0].start +
                     MapThenSumSet(Delta, {j \in DOMAIN ranges : ranges[j].end <= ranges[j0].start})
      Overlap(j) == Min({end, ranges[j].end}) - Max({start, ranges[j].start})
      delta     == MapThenSumSet(Delta, {j \in DOMAIN ranges : ranges[j].end <= start})
      shrink    == MapThenSumSet(LAMBDA j : Len(Token) - Overlap(j),
                     {j \in DOMAIN ranges : start < ranges[j].end /\ ranges[j].start < end})
  IN  IF covering # {} THEN [start |-> at, end |-> at + Len(Token)]
      ELSE [start |-> start + delta, end |-> end + delta + shrink]

----------------------------------------------------------------------------
(* Bytes. Both halves of a surrogate pair start at one byte, so that byte  *)
(* leads back to the second half: a slice that should begin with the pair   *)
(* loses the first.                                                        *)

ByteAt(text, i) == FoldLeft(LAMBDA n, c : n + Width(c), 0, SubSeq(text, 1, i))

\* charIndexTableOf: the unit a byte offset belongs to. The entry of a byte is
\* the last unit that starts at or before it.
UnitAt(text, b) ==
  IF b > ByteAt(text, Len(text)) THEN Len(text)
  ELSE Max({i \in 0..Len(text) : ByteAt(text, i) <= b})

SliceByBytes(text, start, end) == Units(text, UnitAt(text, start), UnitAt(text, end))

----------------------------------------------------------------------------
(* Evidence.                                                               *)

Newline == "\n"

\* lineCharOffsets over buildLineIndex: where each line starts.
LineStarts(text) == <<0>> \o SetToSortSeq({i \in 1..Len(text) : text[i] = Newline}, <)

\* evidenceToByteSpans, one span: line 0 is a position in the whole text. A
\* span that has no place in the masked text yields none.
ToByteSpans(span, raw, masked, ranges) ==
  LET starts == LineStarts(raw)
      base   == IF span.line = 0 THEN 0 ELSE starts[span.line]
      m      == MapRange(ranges, base + span.start, base + span.end)
  IN  IF span.line > Len(starts) THEN {}
      ELSE IF m.start < 0 \/ m.end > Len(masked) \/ m.end < m.start THEN {}
      ELSE {[start |-> ByteAt(masked, m.start), end |-> ByteAt(masked, m.end),
             transform |-> span.transform]}

Digits == {"0", "1", "2"}
Number(slice) ==      \* the value of a slice as a number; <<>> when it is none
  IF slice = <<>> \/ \E i \in DOMAIN slice : slice[i] \notin Digits THEN <<>>
  ELSE LET lead == {i \in DOMAIN slice : \A j \in 1..i - 1 : slice[j] = "0"}
       IN  SubSeq(slice, Max(lead), Len(slice))

\* verifySpans: some span holds the value, as it is, as a number, or after the
\* transform the span declares.
Holds(text, span, value) ==
  LET slice == SliceByBytes(text, span.start, span.end)
  IN  \/ value.type = "number" /\ Number(slice) = value.text
      \/ value.type = "string" /\ slice = value.text
      \/ /\ value.type = "string" /\ span.transform = "unescape_c_quotes"
         /\ UnquoteCQuoted(slice) = value.text

NoEvidence == [kind |-> "none", spans |-> {}]

\* One field of buildEvidence: the span verified against the masked text, or
\* the fact that there is none.
FieldEvidence(span, value, raw, masked, ranges) ==
  LET spans == ToByteSpans(span, raw, masked, ranges)
  IN  IF spans = {} \/ ~\E s \in spans : Holds(masked, s, value) THEN NoEvidence
      ELSE [kind |-> IF span.transform = "" THEN "verbatim" ELSE "derived", spans |-> spans]

=============================================================================
