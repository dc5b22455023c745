----------------------------- MODULE MCWorkshop -----------------------------
(***************************************************************************)
(* A small workshop: two packs and a third add of the first, two outputs,   *)
(* two versions of the parsers. The packs and the fixtures are directories  *)
(* of their own: one is changed while the other stays as it is.             *)
(***************************************************************************)
EXTENDS Workshop

Val(v) == [kind |-> "string", v |-> v]
Arr(items) == [kind |-> "array", items |-> items]
Obj(fields) == [kind |-> "object", fields |-> fields]
Rows1 == Obj("rows" :> Arr(<<Val("a")>>))
Rows2 == Obj("rows" :> Arr(<<Val("a"), Val("b")>>) @@ "total" :> Val("2"))
Swap2 == Obj("rows" :> Arr(<<Val("b"), Val("a")>>) @@ "total" :> Val("2"))
NoValue == [kind |-> "null", v |-> ""]
Values == {Rows1, Rows2, Swap2, NoValue}

Span(fields) == Obj(fields)
At(start) == Span("line" :> Val("1") @@ "start" :> Val(start) @@ "record" :> Val("1"))
Place(start) == Span("line" :> Val("1") @@ "start" :> Val(start))

\* The fixtures of packs: one that passes, one of each way not to.
PackFixture(e, a, schema, throws) == [expected |-> e, actual |-> a, schema |-> schema, throws |-> throws]
Good  == PackFixture(Rows1, Rows1, Values, FALSE)
Drift == PackFixture(Rows1, Rows1, {Rows2}, FALSE)
Bad   == PackFixture(Rows1, Rows2, Values, FALSE)
Boom  == PackFixture(Rows1, NoValue, Values, TRUE)
Pack(name, valid, files, fs) == [name |-> name, valid |-> valid, files |-> files, fixtures |-> fs]
MCSource == [p1 |-> Pack("a", TRUE, {"parser.js", "rows.js"}, <<Good, Boom>>),
             p2 |-> Pack("b", TRUE, {"parser.js"}, <<Bad, Drift>>),
             p3 |-> Pack("a", TRUE, {"parser.js"}, <<>>),
             p4 |-> Pack("..", FALSE, {"parser.js"}, <<Good>>)]
MCAdders == DOMAIN MCSource

MCPrinted == {<<"u", "k", "k", "h", "k">>, <<"h", "h", "u">>}
MCRules == <<[kind |-> "secret", units |-> {"k"}, marker |-> "[R]"],
             [kind |-> "home_path", units |-> {"h"}, marker |-> "~"],
             [kind |-> "argv_secret", units |-> {"k", "u"}, marker |-> "$1[R]"]>>
MCArgs == {<<[name |-> "--token", value |-> "t", secret |-> TRUE],
             [name |-> "-l", value |-> "", secret |-> FALSE]>>}

Texts == {SanitizeText(t, MCRules).text : t \in MCPrinted}
Read(parsed, failure, evidence) == [parsed |-> parsed, failure |-> failure, evidence |-> evidence]
MCReaders == {[t \in Texts |-> r] :
                r \in {Read(Rows2, "none", "/rows/0" :> <<At("0")>> @@ "/rows/1" :> <<At("2")>>),
                       Read(NoValue, "unrecognized_output", << >>)}}

Reviewed == "reviewed_by" :> "me"
Evidence(e, all) == "evidence" :> e @@ "exhaustive" :> all
MCExpectations ==
  {x @@ r : x \in {"parsed" :> v : v \in Values} \cup {"failure" :> "unrecognized_output"}
                  \cup {Evidence(e, all) :
                          e \in {"/rows/0" :> <<Place("0")>>, "/rows/0" :> <<Place("9")>>,
                                 "/rows/1" :> <<Place("2"), Place("3")>>,
                                 "/rows/7" :> <<Place("0")>>,
                                 "/rows/0" :> <<At("0")>> @@ "/rows/1" :> <<At("2")>>},
                          all \in BOOLEAN},
            r \in {Reviewed, << >>}}

Wants == {a @@ b @@ c @@ ("environmentDependent" :> e) :
            a \in {<<>>} \cup {"execution" :> w : w \in {"ran", "blocked"}},
            b \in {<<>>} \cup {"parse" :> w : w \in {"parsed", "unparsed", "parse_error"}},
            c \in {<<>>} \cup {"task" :> w : w \in {"succeed", "fail"}}, e \in BOOLEAN}
Answer(threw, guard, parsed, parse_error, ok) ==
  [threw |-> threw, guard |-> guard, parsed |-> parsed, parse_error |-> parse_error, ok |-> ok]
Results == {Answer(TRUE, FALSE, FALSE, FALSE, FALSE), Answer(FALSE, TRUE, FALSE, FALSE, FALSE)}
             \cup {Answer(FALSE, FALSE, p, e, ok) : p, e, ok \in BOOLEAN}
Succeed == "task" :> "succeed" @@ "environmentDependent" :> FALSE
MCSuites == {<<[expect |-> w, result |-> r]>> : w \in Wants, r \in Results}
  \cup {<<[expect |-> Succeed, stored |-> s], [expect |-> Succeed, result |-> r]>> :
          s \in {"blocked", "not_retained", "kept", "changed", "refused", "answered"},
          r \in Results}

\* eval looks at nothing of the directory: it runs before anything is there.
MCNext == \/ Working
          \/ parsers = << >> /\ fixtures = << >> /\ clock = 0 /\ Judging
MCSpec == Init /\ [][MCNext]_vars

\* Nothing follows an answer. Fixtures are written where no pack was added, or
\* one of them when every add has come to its end.
GoOn == /\ answer.kind = "none"
        /\ \/ fixtures = << >> /\ clock = 0
           \/ \A p \in Adders : adder[p].at = "idle"
           \/ /\ Cardinality(DOMAIN fixtures) <= 1 /\ clock = 0
              /\ \A p \in Adders : adder[p].at \in {"done", "failed"}

=============================================================================
