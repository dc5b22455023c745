----------------------------- MODULE Projection -----------------------------
(***************************************************************************)
(* The projection of a parsed value: where, sort_by, limit, select, array  *)
(* (engine/projection.ts), and the compact table a value is folded into    *)
(* (parsers/compact.ts). Parsed values are those of Registry. A row is a   *)
(* function from its fields to values, a value [type, text], and a missing *)
(* or null field is not in its domain.                                     *)
(*                                                                         *)
(* A request is a function of the arguments it gives: select (sequence of  *)
(* fields), where (a sequence of [field, op, value]), sort ([field, desc]), limit *)
(* and array. The schema check of parseProjection is external: a request   *)
(* that fails it is the record Invalid.                                    *)
(***************************************************************************)
EXTENDS Registry

CONSTANT Alphabet     \* the units a value is made of, in their order

Invalid == [invalid |-> TRUE]
NoProjection == <<>>

----------------------------------------------------------------------------
(* Comparing values.                                                       *)

Place(c) == CHOOSE i \in DOMAIN Alphabet : Alphabet[i] = c

Before(s, t) ==       \* the order of strings, unit by unit
  \E n \in 0..Len(s) :
    /\ n <= Len(t) /\ SubSeq(s, 1, n) = SubSeq(t, 1, n)
    /\ n < Len(t) /\ (n = Len(s) \/ Place(s[n + 1]) < Place(t[n + 1]))

Less(a, b) ==
  IF a.type = "number" /\ Len(a.text) # Len(b.text) THEN Len(a.text) < Len(b.text)
  ELSE Before(a.text, b.text)

IsPrefixOf(s, t) == Len(s) <= Len(t) /\ SubSeq(t, 1, Len(s)) = s
IsPartOf(s, t)   == \E i \in 0..Len(t) : IsPrefixOf(s, SubSeq(t, i + 1, Len(t)))

----------------------------------------------------------------------------
(* The steps of applyProjection. Each refusal is the reason the code gives. *)

\* pickTarget: the key of the array to project, or why there is none.
PickTarget(parsed, p, rowsKey) ==
  LET keys  == ToSet(parsed.keys)
      Key(k) == [ok |-> TRUE, key |-> k]
      No(r)  == [ok |-> FALSE, key |-> r]
  IN  IF parsed.kind = "array"
      THEN IF "array" \in DOMAIN p THEN No("array_not_found") ELSE Key("")
      ELSE IF "array" \in DOMAIN p
      THEN IF p.array \in keys THEN Key(p.array) ELSE No("array_not_found")
      ELSE IF rowsKey \in keys THEN Key(rowsKey)
      ELSE IF Cardinality(keys) = 1 THEN Key(parsed.keys[1])
      ELSE No(IF keys = {} THEN "array_not_found" ELSE "array_ambiguous")

Referenced(p) == ToSet(Own(p, "select", <<>>)) \cup {c.field : c \in ToSet(Own(p, "where", <<>>))}
                   \cup (IF "sort" \in DOMAIN p THEN {p.sort.field} ELSE {})

\* checkFields: every field named is one of the contract's or of some row's.
\* Without rows and without a contract nothing is known, and nothing refused.
FieldsKnown(rows, p, rowFields) ==
  \/ rows = <<>> /\ rowFields = {}
  \/ Referenced(p) \subseteq rowFields \cup UNION {DOMAIN rows[i] : i \in DOMAIN rows}

\* matches: FALSE for a field that is missing, except under "ne".
Mismatched(row, c) ==
  /\ c.field \in DOMAIN row
  /\ CASE c.op \in {"eq", "ne"}           -> row[c.field].type # c.value.type
       [] c.op \in {"prefix", "contains"} -> row[c.field].type # "string"
       [] OTHER                           -> row[c.field].type # "number"

Satisfies(row, c) ==
  LET v == row[c.field]
  IN  IF c.field \notin DOMAIN row THEN c.op = "ne"
      ELSE CASE c.op = "eq"       -> v = c.value
             [] c.op = "ne"       -> v # c.value
             [] c.op = "prefix"   -> IsPrefixOf(c.value.text, v.text)
             [] c.op = "contains" -> IsPartOf(c.value.text, v.text)
             [] c.op = "gt"       -> Less(c.value, v)
             [] c.op = "gte"      -> ~Less(v, c.value)
             [] c.op = "lt"       -> Less(v, c.value)
             [] c.op = "lte"      -> ~Less(c.value, v)

\* sortRows: rows without the field come last whatever the direction, and rows
\* with equal values keep their order.
SortRows(rows, s) ==
  LET Has(i) == s.field \in DOMAIN rows[i]
      V(i)   == rows[i][s.field]
      First(i, j) ==
        IF Has(i) /\ Has(j)
        THEN IF s.desc THEN Less(V(j), V(i)) ELSE Less(V(i), V(j))
        ELSE Has(i) /\ ~Has(j)
      Earlier(i, j) == First(i, j) \/ (~First(j, i) /\ i < j)
      order == SetToSortSeq(DOMAIN rows, Earlier)
  IN  [k \in DOMAIN rows |-> rows[order[k]]]

MixedTypes(rows, s) ==
  Cardinality({rows[i][s.field].type : i \in {j \in DOMAIN rows : s.field \in DOMAIN rows[j]}}) > 1

Cut(rows, n) == SubSeq(rows, 1, Min({n, Len(rows)}))

SelectFields(row, fields) == Restrict(row, DOMAIN row \cap ToSet(fields))

\* applyProjection. cap is guard.max_items (0: none); the arrays that are not
\* the target are cut to it as well, and what was cut is said in the summary.
ApplyProjection(parsed, p, contract, cap) ==
  LET rowsKey == Own(contract, "rowsKey", "")
      target  == PickTarget(parsed, p, rowsKey)
      key     == target.key
      rows    == parsed.rows[key]
      known   == IF key = rowsKey THEN Own(contract, "rowFields", {}) ELSE {}
      conds   == Own(p, "where", <<>>)
      Passes(r, n) == \A i \in 1..n : Satisfies(r, conds[i])
      kept    == SelectSeq(rows, LAMBDA r : Passes(r, Len(conds)))
      sorted  == IF "sort" \in DOMAIN p THEN SortRows(kept, p.sort) ELSE kept
      Capped(s) == IF cap > 0 THEN Cut(s, cap) ELSE s
      limited == Capped(IF "limit" \in DOMAIN p THEN Cut(sorted, p.limit) ELSE sorted)
      shown   == IF "select" \in DOMAIN p
                 THEN [i \in DOMAIN limited |-> SelectFields(limited[i], p.select)] ELSE limited
      byCap   == cap > 0 /\ Len(kept) > cap /\ Own(p, "limit", cap + 1) > cap
      Refused(why) == [ok |-> FALSE, reason |-> why]
  IN  IF ~target.ok THEN Refused(key)
      ELSE IF ~FieldsKnown(rows, p, known) THEN Refused("unknown_field")
      ELSE IF \E r \in ToSet(rows), n \in DOMAIN conds :
                Passes(r, n - 1) /\ Mismatched(r, conds[n])
           THEN Refused("type_mismatch")
      ELSE IF "sort" \in DOMAIN p /\ MixedTypes(kept, p.sort) THEN Refused("type_mismatch")
      ELSE [ok |-> TRUE, rows |-> shown,
            parsed  |-> [parsed EXCEPT !.rows = [k \in DOMAIN @ |-> IF k = key THEN shown ELSE Capped(@[k])],
                                       !.total = Len(rows)],
            summary |-> [total |-> Len(rows), matched |-> Len(kept), shown |-> Len(shown),
                         truncated |-> byCap,
                         cutArrays |-> {k \in DOMAIN parsed.rows \ {key} :
                                          Capped(parsed.rows[k]) # parsed.rows[k]}]]

----------------------------------------------------------------------------
(* toCompact: each array of rows becomes a table, every column any row has. *)
(* A value that cannot be folded without loss is refused.                  *)
ToCompact(parsed, lossless) ==
  IF ~lossless THEN [ok |-> FALSE, value |-> parsed]
  ELSE [ok |-> TRUE,
        value |-> IF parsed.kind = "object" /\ parsed.keys # <<>>
                  THEN [parsed EXCEPT !.kind = "compact"] ELSE parsed]

=============================================================================
