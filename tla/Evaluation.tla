------------------------------ MODULE Evaluation ------------------------------
(***************************************************************************)
(* parism eval (cli/eval.ts): what one case of the suite did, whether that  *)
(* is what it expects on each of three levels, and the tally of a level.    *)
(***************************************************************************)
EXTENDS Integers, Sequences, FiniteSets

Levels == {"execution", "parse", "task"}

\* observe: result is the answer of the engine: whether it ended in an
\* exception, whether the guard refused it, whether it has a value or a parse
\* error, and whether it is ok.
Seen(execution, parse, task) == [execution |-> execution, parse |-> parse, task |-> task]
Observe(result) ==
  IF result.threw THEN Seen("spawn_failed", "null", "null")
  ELSE IF result.guard THEN Seen("blocked", "null", "null")
  ELSE Seen("ran",
            IF result.parsed THEN "parsed" ELSE IF result.parse_error THEN "parse_error" ELSE "unparsed",
            IF result.ok THEN "succeeded" ELSE "failed")

\* Expectation: what a case may expect on a level.
Wanted(level) == CASE level = "execution" -> {"ran", "blocked", "spawn_failed"}
                   [] level = "parse"     -> {"parsed", "unparsed", "parse_error"}
                   [] level = "task"      -> {"succeed", "fail"}

\* observeNoReExecution: a result was stored, its source changed, and it was
\* read again. observeUnknownId: an id nobody stored was read.
StoredOutcomes == {"blocked", "not_retained", "kept", "changed", "refused", "answered"}
ObserveStored(stored) ==
  CASE stored = "blocked"      -> Seen("blocked", "null", "null")
    [] stored = "not_retained" -> Seen("ran", "null", "failed")
    [] stored = "kept"         -> Seen("ran", "parsed", "succeeded")
    [] stored = "changed"      -> Seen("ran", "parsed", "failed")
    [] stored = "refused"      -> Seen("ran", "unparsed", "succeeded")
    [] stored = "answered"     -> Seen("ran", "unparsed", "failed")

\* What an observer itself holds against a case.
OwnMismatches(c) ==
  IF "stored" \in DOMAIN c
  THEN IF c.stored \in {"not_retained", "changed", "answered"} THEN {"task"} ELSE {}
  ELSE IF c.result.threw THEN {"execution"} ELSE {}

Normalize(level, want) == IF level # "task" THEN want
                          ELSE IF want = "succeed" THEN "succeeded" ELSE "failed"

\* The levels an expectation is judged on.
JudgedAnywhere(expect) == Levels \cap DOMAIN expect \* mutant: the host decides too
Judged(expect) == IF expect.environmentDependent THEN {} ELSE Levels \cap DOMAIN expect

\* compare: the levels that missed their expectation. What was not run was not
\* observed, and misses too.
Compare(observed, expect) ==
  IF expect.environmentDependent THEN {}
  ELSE {l \in Levels \cap DOMAIN expect :
          observed[l] = "null" \/ observed[l] # Normalize(l, expect[l])}

\* statsFor: of the cases judged on a level, how many matched.
StatsFor(results, level) ==
  LET judged == {i \in DOMAIN results : level \in Judged(results[i].expect)}
  IN  [judged  |-> Cardinality(judged),
       matched |-> Cardinality({i \in judged : Normalize(level, results[i].expect[level])
                                                 = results[i].observed[level]})]

\* runEvalSuite: each case is observed, then compared once.
RunEvalSuite(cases) ==
  [i \in DOMAIN cases |->
     LET c == cases[i]
         observed == IF "stored" \in DOMAIN c THEN ObserveStored(c.stored) ELSE Observe(c.result)
     IN  [expect |-> c.expect, observed |-> observed,
          mismatches |-> OwnMismatches(c) \cup Compare(observed, c.expect)]]

EvalExit(results) == IF \E i \in DOMAIN results : results[i].mismatches # {} THEN 1 ELSE 0

=============================================================================
