------------------------------- MODULE CQuotes -------------------------------
(***************************************************************************)
(* The quoted form of a path (engine/c-quotes.ts). A text is a sequence of *)
(* units; what follows a backslash, an octal code included, is one unit.   *)
(***************************************************************************)
EXTENDS Integers, Sequences, SequencesExt

CONSTANT Escapes      \* [unit after a backslash -> the unit it stands for]

Quote     == "\""
Backslash == "\\"

\* SIMPLE_ESCAPES: what would end a token, an escape or a line has an escape,
\* and none is written with a line end.
ASSUME EscapesAssumption ==
  /\ {Quote, Backslash, "\n"} \subseteq Range(Escapes)
  /\ "\n" \notin DOMAIN Escapes

\* What is read of a quoted token from each of its units on: not ok when it
\* has no end or an escape has no meaning.
QuotedFrom(text) ==
  LET none == [ok |-> FALSE, value |-> <<>>, end |-> 0]
      Put(unit, rest) == IF rest.ok THEN [rest EXCEPT !.value = <<unit>> \o @] ELSE none
      from[i \in 1 .. Len(text) + 1] ==
        IF i > Len(text) THEN none
        ELSE IF text[i] = Quote THEN [ok |-> TRUE, value |-> <<>>, end |-> i]
        ELSE IF text[i] # Backslash THEN Put(text[i], from[i + 1])
        ELSE IF i < Len(text) /\ text[i + 1] \in DOMAIN Escapes
             THEN Put(Escapes[text[i + 1]], from[i + 2])
        ELSE none
  IN  from

\* readQuotedToken: the value of the quoted token that starts after start
\* units, and the position after its closing quote.
ReadQuotedToken(text, start) ==
  IF start < Len(text) /\ text[start + 1] = Quote THEN QuotedFrom(text)[start + 2]
  ELSE [ok |-> FALSE, value |-> <<>>, end |-> 0]

\* unquoteCQuoted: a text that is one quoted token without its quotes.
UnquoteCQuoted(text) ==
  LET read == ReadQuotedToken(text, 0)
  IN  IF read.ok /\ read.end = Len(text) THEN read.value ELSE text

=============================================================================
