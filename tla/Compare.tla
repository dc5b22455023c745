------------------------------- MODULE Compare -------------------------------
(***************************************************************************)
(* The comparison of two retained results (engine/compare): whether the two *)
(* are of the same subject (fingerprint.ts), which row is which            *)
(* (identity.ts), and what was added, removed and changed (index.ts).      *)
(*                                                                         *)
(* A side is [fp, parsed, incomplete]; parsed and rows are those of        *)
(* Registry and Projection. A hash is the value it is taken of, and the    *)
(* real path of a directory its name.                                      *)
(***************************************************************************)
EXTENDS Projection

----------------------------------------------------------------------------
(* compareFingerprints: incompatible, unknown, same or compatible.          *)

Subject(fp) == <<fp.cmd, fp.args, fp.cwd, fp.parser>>

CompareFingerprints(base, current, strict) ==
  IF Subject(base) # Subject(current) THEN "incompatible"
  ELSE IF base.context # current.context \/ base.schema # current.schema THEN "unknown"
  ELSE IF strict /\ base.tools # current.tools THEN "unknown"
  ELSE IF base.content = current.content THEN "same" ELSE "compatible"

Domain(cmd) == CASE cmd = "git"     -> "git"
                 [] cmd = "kubectl" -> "kubernetes"
                 [] cmd = "ps"      -> "ps"
                 [] OTHER           -> "none"

----------------------------------------------------------------------------
(* Identities: <<>> when a row's cannot be established.                     *)

KeyFields(cmd, keys) == IF keys # <<>> THEN keys
                        ELSE IF cmd = "git" THEN <<"path">> ELSE <<"name", "uid">>

Identity(cmd, row, keys) ==
  LET fields == KeyFields(cmd, keys)
  IN  IF ToSet(fields) \subseteq DOMAIN row THEN [i \in DOMAIN fields |-> row[fields[i]]]
      ELSE <<>>

\* rowsOf: the first array of the value. The arrays of a compact value are
\* tables, and no array is found among them.
RowsOf(parsed) ==
  IF parsed.kind \in {"null", "compact"} \/ parsed.keys = <<>> THEN <<>>
  ELSE parsed.rows[parsed.keys[1]]

\* diffFields: the fields that differ, but for those the caller ignores.
DiffFields(before, after, ignore) ==
  {f \in (DOMAIN before \cup DOMAIN after) \ ignore :
     ~(f \in DOMAIN before /\ f \in DOMAIN after /\ before[f] = after[f])}

----------------------------------------------------------------------------
(* compareResults.                                                         *)

NotCompared(why) == [comparable |-> FALSE, why |-> why, added |-> {}, removed |-> {},
                     changed |-> {}, unchanged |-> 0, withheld |-> FALSE]

\* A row is claimed removed only when the current result is complete.
RemovedAnyway(gone, current, unnamed) == IF unnamed THEN {} ELSE gone \* mutant
Removed(gone, current, unnamed) == IF current.incomplete \/ unnamed THEN {} ELSE gone

CompareResults(base, current, keys, ignore, strict) ==
  LET verdict == CompareFingerprints(base.fp, current.fp, strict)
      cmd     == current.fp.cmd
      domain  == Domain(cmd)
      before  == RowsOf(base.parsed)
      after   == RowsOf(current.parsed)
      Id(row) == Identity(cmd, row, keys)
      Ids(rows) == {Id(rows[i]) : i \in DOMAIN rows} \ {<<>>}
      Twice(rows) == \E i, j \in DOMAIN rows : i # j /\ Id(rows[i]) = Id(rows[j]) /\ Id(rows[i]) # <<>>
      Unnamed(rows) == \E i \in DOMAIN rows : Id(rows[i]) = <<>>
      unnamed == Unnamed(before) \/ Unnamed(after)
      RowWith(rows, id) == rows[CHOOSE i \in DOMAIN rows : Id(rows[i]) = id]
      gone    == Ids(before) \ Ids(after)
      new     == Ids(after) \ Ids(before)
      differ  == {id \in Ids(before) \cap Ids(after) :
                    DiffFields(RowWith(before, id), RowWith(after, id), ignore) # {}}
  IN  IF verdict = "incompatible" THEN NotCompared("different_subject")
      ELSE IF verdict = "unknown" /\ (strict \/ domain = "none") THEN NotCompared("identity_unknown")
      ELSE IF domain = "none" THEN NotCompared("domain_unsupported")
      ELSE IF domain = "ps" THEN NotCompared("domain_withheld")
      ELSE IF Twice(before) \/ Twice(after) THEN NotCompared("duplicate_identity")
      ELSE [comparable |-> ~unnamed, why |-> "",
            removed   |-> Removed(gone, current, unnamed),
            added     |-> IF base.incomplete \/ unnamed THEN {} ELSE new,
            changed   |-> differ,
            unchanged |-> Cardinality((Ids(before) \cap Ids(after)) \ differ),
            withheld  |-> unnamed \/ base.incomplete \/ current.incomplete]

=============================================================================
