------------------------------- MODULE Sanitize -------------------------------
(***************************************************************************)
(* What capture hides of an output before it is saved (fixtures/sanitize.ts)*)
(* A text is a sequence of units; a rule is [kind, units, marker]: it       *)
(* matches each longest run of its units, and a marker stands for it.       *)
(***************************************************************************)
EXTENDS Integers, Sequences, FiniteSets, SequencesExt

\* findRanges: where a rule matches, in the original text; [start, end).
FindRanges(text, rule) ==
  LET In(i) == i \in DOMAIN text /\ text[i] \in rule.units
      Run(first, last) == /\ first <= last /\ \A i \in first .. last : In(i)
                          /\ ~In(first - 1) /\ ~In(last + 1)
  IN  {[start |-> r[1] - 1, end |-> r[2], marker |-> rule.marker] :
         r \in {r \in (DOMAIN text) \X (DOMAIN text) : Run(r[1], r[2])}}

Overlap(a, b) == a.start < b.end /\ b.start < a.end

\* Each rule looks at the original text; where two overlap the earlier wins.
AddRule(text, s, rule) ==
  LET hits == {c \in FindRanges(text, rule) : \A t \in s.accepted : ~Overlap(c, t)}
  IN  [accepted   |-> s.accepted \cup hits,
       redactions |-> IF hits = {} THEN s.redactions
                      ELSE Append(s.redactions, [kind |-> rule.kind, pattern |-> rule.marker,
                                                 count |-> Cardinality(hits)])]
NothingFound == [accepted |-> {}, redactions |-> <<>>]
Accept(text, rules) == FoldLeft(LAMBDA s, rule : AddRule(text, s, rule), NothingFound, rules)

\* The accepted ranges are replaced from the last to the first, so that no
\* replacement moves a range that is still to be replaced.
FromTheFirst(ranges) == \* mutant
  CHOOSE s \in [1 .. Cardinality(ranges) -> ranges] :
    \A i, j \in DOMAIN s : i < j => s[i].start < s[j].start
FromTheLast(ranges) ==
  CHOOSE s \in [1 .. Cardinality(ranges) -> ranges] :
    \A i, j \in DOMAIN s : i < j => s[i].start > s[j].start
PutMarker(out, r) == SubSeq(out, 1, r.start) \o <<r.marker>> \o SubSeq(out, r.end + 1, Len(out))
Splice(text, order) == FoldLeft(PutMarker, text, order)

\* sanitizeText.
SanitizeText(text, rules) ==
  LET found == Accept(text, rules)
  IN  [text       |-> Splice(text, FromTheLast(found.accepted)),
       redactions |-> found.redactions,
       ranges     |-> found.accepted]

\* sanitizeArgs: the name of an argument stays, its value is hidden.
SanitizeArgs(args) ==
  LET secret == {i \in DOMAIN args : args[i].secret}
  IN  [args |-> [i \in DOMAIN args |-> IF i \in secret THEN [args[i] EXCEPT !.value = "redacted"]
                                       ELSE args[i]],
       redactions |-> IF secret = {} THEN <<>>
                      ELSE <<[kind |-> "argv_secret", pattern |-> "argv",
                              count |-> Cardinality(secret)]>>]

=============================================================================
