----------------------------- MODULE MCPipeline -----------------------------
(***************************************************************************)
(* Small instances of Pipeline: one command whose name has comparison rules,*)
(* a handful of outputs, and the requests that tell the cases apart.        *)
(***************************************************************************)
EXTENDS Pipeline

MCToken    == <<"*">>
MCAlphabet == <<"0", "1", "2", "a", "b", "c", "x", "y", "M", "R", "?", " ", "e", "high", "low", "\n">>
MCBytes    == "e" :> 2 @@ "high" :> 0 @@ "low" :> 4
MCEscapes  == "n" :> "\n" @@ Quote :> Quote @@ Backslash :> Backslash

Prints(rows, nul) == [nul |-> nul, rows |-> rows, text |-> PrintRows(rows, nul)]
Loose(text, nul) == [nul |-> nul, rows |-> <<>>, text |-> text]

Modified(path) == [xy |-> Str(<<" ", "M">>), path |-> Str(path)]
New(path)      == [xy |-> Str(<<"?", "?">>), path |-> Str(path)]
Moved(old, path) == [xy |-> Str(<<"R", " ">>), path |-> Str(path), orig_path |-> Str(old)]

Two     == <<Modified(<<"a">>), New(<<"b">>)>>
Three   == <<New(<<"c">>)>> \o Two
MovedOn == <<Moved(<<"a">>, <<"b", Arrow, "c">>), New(<<"a">>)>>
Quoted  == <<Modified(<<"e", "\n", Quote, Backslash>>), New(<<"b">>)>>
\* high and low are the two halves of one surrogate pair, an emoji.
Emoji   == <<New(<<"high", "low", "a">>), Modified(<<"b", "high", "low">>)>>
Secret  == <<New(<<"e", "x", "x">>), Modified(<<"b", " ", "c">>)>>
Twice   == <<New(<<"x", "x", "x", "y", "y">>), New(<<"b">>)>>
Doc     == <<"[", "]", "\n">>
Table   == <<"{", "}", "\n">>
MCOutputs == {Prints(rows, nul) : rows \in {<<>>, Two, Three, MovedOn, Quoted, Secret, Emoji}, nul \in BOOLEAN}
               \cup {Loose(t, FALSE) : t \in {<<"#", "#", " ", "b", "\n">>, Doc, Table}}
TwiceOutputs == {Prints(rows, FALSE) : rows \in {Two, Twice}}
\* A path in quotes of its own, which is no row (IsRow) between NULs.
OwnQuotes   == {Prints(<<New(<<Quote, "a", Quote>>), New(<<"b">>)>>, nul) : nul \in BOOLEAN}

Num(d) == [type |-> "number", text |-> <<d>>]
DocRows == <<[path |-> Str(<<"a">>), size |-> Num("1")], [path |-> Str(<<"b">>), size |-> Num("0")]>>
MCNatives == Doc :> [kind |-> "array", keys |-> <<"">>, rows |-> ("" :> DocRows), total |-> -1]
          @@ Table :> Object(<<"numbered", "other">>,
                             [numbered |-> DocRows, other |-> <<[size |-> Str(<<"a">>)]>>], -1)

Long(n, v) == [form |-> "long", name |-> n, value |-> v]
Short(n, v) == [form |-> "short", name |-> n, value |-> v]
Plain   == <<>>
Nul     == <<Short("-z", <<>>)>>
Bundled == <<Short("-z", <<"-v">>), [form |-> "word", name |-> "w", value |-> <<>>]>>
Valued  == <<Long("--format", <<"v1">>)>>
Odd     == <<Long("--odd", <<>>)>>

Flags == ("--format" :> "value" @@ "-z" :> "bool" @@ "-v" :> "value" @@ "--all" :> "bool")
Strict == [flags |-> Flags, values |-> ("--format" :> {<<"v1">>}), max |-> 0,
           exclusive |-> {"--all", "-z"}, rowsKey |-> "entries", headers |-> 0,
           hint |-> [args |-> Valued, native |-> FALSE], noise |-> {"#"}]
Nested == [leading |-> ("-C" :> "value"), subs |-> ("" :> Strict @@ "w" :> [supports |-> "no"])]
MCContracts == {NoContract, Strict, Nested}

Req(args, format, p, ev, keep) ==
  [args |-> args, format |-> format, projection |-> p, evidence |-> ev, retain |-> keep]
Is(field, op, value) == [field |-> field, op |-> op, value |-> value]
MCProjections ==
  {[where |-> <<Is("path", "eq", Str(<<"a">>))>>],
   [where |-> <<Is("path", "contains", Str(<<"b">>)), Is("size", "gte", Num("1"))>>, array |-> "numbered"],
   [array |-> "numbered", sort |-> [field |-> "size", desc |-> TRUE], limit |-> 1],
   [sort |-> [field |-> "orig_path", desc |-> FALSE]],
   [array |-> "other", where |-> <<Is("size", "lt", Num("1"))>>],
   [select |-> <<"size">>]}
MCRequests ==
  {Req(a, "json", NoProjection, FALSE, FALSE) : a \in {Nul, Bundled, Valued, Odd}}
    \cup {Req(Plain, f, NoProjection, FALSE, FALSE) : f \in {"json", "compact", "json-no-raw"}}
    \cup {Req(Plain, "json-no-raw", p, FALSE, FALSE) : p \in MCProjections \cup {Invalid}}
    \cup {Req(Plain, "json", p, TRUE, TRUE) :
            p \in {NoProjection, [limit |-> 1], [select |-> <<"path">>]}}
    \cup {Req(Plain, "compact", NoProjection, FALSE, TRUE), Req(Nul, "json", NoProjection, TRUE, TRUE)}

OnePattern  == <<{"x"}>>
TwoPatterns == <<{"x"}, {"y"}>>

\* A session goes on after its first run only when the built-in read everything
\* it printed and each result was retained; no run follows a comparison.
Kept(c) == c.req.retain /\ c.failure = "none"
GoOn ==
  LET runs == BagCardinality(stats) IN
    /\ answer.kind \notin {"compare", "explain"}
    /\ \/ runs = 0
       \/ call.stage = "redact"
       \/ /\ runs = Len(kept)
          /\ registry \in [Commands -> {Registered(NoReader, NoContract)}]
          /\ call.stage = "parse" => Kept(call)

=============================================================================
