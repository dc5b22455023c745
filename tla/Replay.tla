-------------------------------- MODULE Replay --------------------------------
(***************************************************************************)
(* Whether a parser still reads what it read: the comparison of two JSON    *)
(* values and the replay of one saved fixture (fixtures/replay.ts), the     *)
(* report over a directory of them (fixtures/run.ts) and the fixtures a     *)
(* pack brings along (cli/test-runner.ts).                                  *)
(*                                                                         *)
(* A JSON value is [kind |-> "array", items |-> a sequence],                *)
(* [kind |-> "object", fields |-> a function] or [kind, v]. A path is the   *)
(* sequence of its steps, a key or an index: escapeToken keeps them apart   *)
(* in the code.                                                             *)
(***************************************************************************)
EXTENDS Integers, Sequences, FiniteSets, FiniteSetsExt, SequencesExt

CONSTANT MaxDepth       \* bound: how deep the values that are compared nest

Undefined == [kind |-> "undefined", v |-> ""]

\* A step into an array, or into anything with keys.
Step(kind, k) == IF kind = "array" THEN [index |-> k] ELSE [key |-> k]
Key(k) == Step("object", k)

Change(path, kind) == [path |-> path, kind |-> kind]

\* What only one side has, by the steps that lead there.
Missing(pair, expected, actual) ==
  {Change(Append(pair.path, Step(pair.expected.kind, k)), "missing") : k \in expected \ actual}
SilentExtra(pair, expected, actual) == {} \* mutant: what the parser adds is not reported
Extra(pair, expected, actual) ==
  {Change(Append(pair.path, Step(pair.actual.kind, k)), "extra") : k \in actual \ expected}

\* The parts of an array or an object, by index or key; a scalar has none.
Parts(value) ==
  CASE value.kind = "array"  -> value.items
    [] value.kind = "object" -> value.fields
    [] OTHER                 -> << >>

\* What differs where the two values of a pair lie, their shared parts left aside.
DiffHere(pair) ==
  LET expected == pair.expected
      actual   == pair.actual
      e == DOMAIN Parts(expected)
      a == DOMAIN Parts(actual)
  IN  IF expected.kind # actual.kind THEN {Change(pair.path, "type")}
      ELSE IF expected.kind \notin {"array", "object"}
           THEN IF expected.v = actual.v THEN {} ELSE {Change(pair.path, "value")}
      ELSE Missing(pair, e, a) \cup Extra(pair, e, a)

\* The parts both values of a pair have, one step further.
Within(pair) ==
  IF pair.expected.kind # pair.actual.kind THEN {}
  ELSE LET e == Parts(pair.expected)
           a == Parts(pair.actual)
       IN  {[path |-> Append(pair.path, Step(pair.expected.kind, k)),
             expected |-> e[k], actual |-> a[k]] : k \in DOMAIN e \cap DOMAIN a}

\* The pairs that lie n steps below the two values.
PairsBelow(expected, actual, base) ==
  LET below[n \in 0 .. MaxDepth] ==
        IF n = 0 THEN {[path |-> base, expected |-> expected, actual |-> actual]}
        ELSE UNION {Within(p) : p \in below[n - 1]}
  IN  below

\* diffJson: every path at which the two values differ, at any depth. The order
\* of the keys of an object is no difference, the order of an array is.
DiffJson(expected, actual, base) ==
  LET below == PairsBelow(expected, actual, base)
  IN  UNION {UNION {DiffHere(p) : p \in below[n]} : n \in 0 .. MaxDepth}

----------------------------------------------------------------------------
(* What is compared.                                                       *)

\* An array, an object with finitely many keys or a scalar.
Shaped(v) ==
  \/ /\ v.kind = "array" /\ v = [kind |-> "array", items |-> v.items]
     /\ v.items \in Seq({v.items[i] : i \in DOMAIN v.items})
  \/ /\ v.kind = "object" /\ v = [kind |-> "object", fields |-> v.fields]
     /\ v.fields = [k \in DOMAIN v.fields |-> v.fields[k]] /\ IsFiniteSet(DOMAIN v.fields)
  \/ v.kind \notin {"array", "object"} /\ v = [kind |-> v.kind, v |-> v.v]

\* A JSON value that nests at most MaxDepth deep.
IsJson(v) ==
  \A n \in 0 .. MaxDepth : \A p \in PairsBelow(v, v, <<>>)[n] :
    Shaped(p.expected) /\ (n = MaxDepth => DOMAIN Parts(p.expected) = {})

\* Evidence of one pointer: objects without objects in them (evidenceSpanSchema).
AreSpans(s) ==
  /\ s \in Seq({s[i] : i \in DOMAIN s})
  /\ \A i \in DOMAIN s :
       /\ s[i].kind = "object" /\ Shaped(s[i])
       /\ \A k \in DOMAIN s[i].fields : Shaped(s[i].fields[k]) /\ DOMAIN Parts(s[i].fields[k]) = {}

\* ... as it is written down: JSON knows no undefined.
AreEvidence(evidence) ==
  /\ IsFiniteSet(DOMAIN evidence)
  /\ \A p \in DOMAIN evidence :
       /\ AreSpans(evidence[p])
       /\ \A i \in DOMAIN evidence[p] : \A k \in DOMAIN evidence[p][i].fields :
            evidence[p][i].fields[k] # Undefined

----------------------------------------------------------------------------
(* One fixture, read by the parser of today: read is [parsed, failure,      *)
(* evidence], and the registry turns what a parser throws into a failure.   *)
(* expected holds the parts somebody wrote: parsed, failure, evidence,      *)
(* exhaustive, reviewed_by.                                                 *)

\* pickFields: of the actual spans only the fields the expected ones name.
PickFields(actual, template) ==
  LET Pick(a, t) == [kind |-> "object", fields |->
                       [f \in DOMAIN t.fields |->
                          IF f \in DOMAIN a.fields THEN a.fields[f] ELSE Undefined]]
  IN  [kind |-> "array", items |->
         [i \in DOMAIN actual |-> IF i \in DOMAIN template THEN Pick(actual[i], template[i])
                                  ELSE actual[i]]]

EvidenceChanges(expected, evidence) ==
  LET named == DOMAIN expected.evidence
      Spans(s) == [kind |-> "array", items |-> s]
  IN  {Change(<<Key("evidence"), Key(p)>>, "missing") : p \in named \ DOMAIN evidence}
        \cup (UNION {DiffJson(Spans(expected.evidence[p]),
                              PickFields(evidence[p], expected.evidence[p]),
                              <<Key("evidence"), Key(p)>>) :
                       p \in named \cap DOMAIN evidence})
        \cup IF expected.exhaustive
             THEN {Change(<<Key("evidence"), Key(p)>>, "extra") : p \in DOMAIN evidence \ named} ELSE {}

\* replayManifest.
ReplayManifest(expected, read) ==
  LET Has(part) == part \in DOMAIN expected
      changes ==
        (IF Has("failure") /\ expected.failure # read.failure
         THEN {Change(<<Key("failure"), Key("reason")>>, "value")} ELSE {})
        \cup (IF Has("parsed") THEN DiffJson(expected.parsed, read.parsed, <<>>) ELSE {})
        \cup (IF Has("evidence") THEN EvidenceChanges(expected, read.evidence) ELSE {})
      reviewed == Has("reviewed_by")
  IN  [reviewed |-> reviewed, changes |-> changes,
       status   |-> IF ~reviewed THEN "unreviewed" ELSE IF changes # {} THEN "changed" ELSE "match"]

\* replayDirectory: what is no manifest is counted, not skipped.
ReplayDirectory(files, read) ==
  LET good == {f \in DOMAIN files : files[f].kind = "manifest"}
      result == [f \in good |-> ReplayManifest(files[f].expected, read[files[f].stdout])]
      With(status) == {f \in good : result[f].status = status}
  IN  [invalid    |-> Cardinality(DOMAIN files \ good),
       unreviewed |-> Cardinality(With("unreviewed")),
       changed    |-> Cardinality(With("changed")),
       matched    |-> Cardinality(With("match")),
       contractChanges |-> Cardinality(UNION {{f} \X result[f].changes :
                                                f \in {g \in good : result[g].reviewed}})]

----------------------------------------------------------------------------
(* The fixtures of a pack: what each expects, what parse gives for it, or   *)
(* that it throws, and which of the two values its schema takes.            *)

StatusOf(fixture) ==
  IF fixture.throws THEN "error"
  ELSE IF /\ DiffJson(fixture.expected, fixture.actual, <<>>) = {}
          /\ {fixture.expected, fixture.actual} \subseteq fixture.schema
       THEN "pass" ELSE "fail"

\* runFixtureTests.
RunFixtureTests(fixtures) ==
  LET Count(status) == Cardinality({i \in DOMAIN fixtures : StatusOf(fixtures[i]) = status})
  IN  [status |-> "replayed", passed |-> Count("pass"), failed |-> Count("fail"),
       errored |-> Count("error")]

Untested(status) == [status |-> status, passed |-> 0, failed |-> 0, errored |-> 0]

\* replayRegisteredPacks, for a pack that was read and one that was not.
ReplayPack(pack) == IF pack.fixtures = <<>> THEN Untested("no_fixtures")
                    ELSE RunFixtureTests(pack.fixtures)
NotReplayable == Untested("not_replayable")

\* What parism test exits with: broken manifests, changes of reviewed
\* expectations and failed fixtures of packs.
TestExit(report, packs) ==
  IF \/ report.invalid > 0 \/ report.contractChanges > 0
     \/ \E n \in DOMAIN packs : packs[n].failed > 0
  THEN 1 ELSE 0

=============================================================================
