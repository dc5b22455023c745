------------------------------ MODULE Pipeline ------------------------------
(***************************************************************************)
(* What becomes of the output of one command: Prism.run from the admitted   *)
(* request to the answer (facade/engine.ts), the review and the evidence it *)
(* retains (facade/review.ts), and what compare and explain_result say of   *)
(* retained results. The stages are those of the code: parse, project,      *)
(* choose the representation, redact, review. Guard, slots and child are    *)
(* Admission, Semaphore and ChildProcess; the budget is RunBudget.          *)
(*                                                                         *)
(* The command is git status --porcelain, the built-in with a machine       *)
(* format, field evidence and comparison rules; its arguments here are the  *)
(* ones after these.                                                        *)
(***************************************************************************)
EXTENDS Compare, Masking, StatusPorcelain, Bags

CONSTANTS Commands,    \* the commands that have a built-in function
          Outputs,     \* what git may print: [nul, text, rows], rows what it meant
          Natives,     \* [text -> its value as a JSON document], for those that are one
          Contracts,   \* the contracts a reader of the command may declare
          Requests,    \* the requests: [args, format, projection, review, evidence, retain]
          Patterns,    \* the redaction patterns, in order; <<>> when masking is off
          MaxItems,    \* guard.max_items
          CompactAt,   \* parsers.adaptive_format_threshold.compact, 0 when unset
          NoRawAt,     \* parsers.adaptive_format_threshold.json_no_raw, 0 when unset
          CaptureCap,  \* the units of stdout kept when the capture limit cuts it
          MaxRuns      \* bound: runs of a session

\* guard.max_items is a whole number, 0 or more (LIMIT_SCHEMA).
ASSUME ItemsAssumption == MaxItems \in Nat

\* The mark of an isolated pack is the registry's: no contract declares it.
ASSUME ContractsAssumption ==
  \A k \in Contracts :
    /\ "isolated" \notin DOMAIN k
    /\ \A w \in DOMAIN Own(k, "subs", <<>>) : "isolated" \notin DOMAIN Own(k, "subs", <<>>)[w]

VARIABLES registry,    \* ParserRegistry: who reads each command
          call,        \* the run in progress, or Idle
          kept,        \* the retained results, oldest first
          stats,       \* OutcomeStats: a bag of <<cmd, outcome>>
          answer       \* what the last request of the client was answered

vars == <<registry, call, kept, stats, answer>>

Idle == [stage |-> "idle"]

----------------------------------------------------------------------------
(* The built-in reader: the rows of StatusPorcelain, cut to the cap, and    *)
(* where each field was read. found is what ParseStatus gives.              *)

UsesNul(args) == \E i \in DOMAIN args :
  args[i].value = <<>> /\ <<args[i].form, args[i].name>> \in {<<"short", "-z">>, <<"long", "--null">>}

\* What the reader makes of the rows it found.
ReadRows(found, cap) ==
  LET rows == [i \in DOMAIN found |-> found[i].row]
      cut  == cap > 0 /\ Len(rows) > cap
  IN  Object(<<"entries">>, [entries |-> IF cut THEN Cut(rows, cap) ELSE rows],
             IF cut THEN Len(rows) ELSE -1)

\* The evidence table: the place of each field, by its pointer.
SpansOf(found) ==
  [p \in UNION {{<<"entries", i, f>> : f \in DOMAIN found[i].spans} : i \in DOMAIN found} |->
     found[p[2]].spans[p[3]]]

\* What a reader makes of the text: the built-in reads it; a pack may also
\* throw, fail to recognize it, return null or break its own schema.
Readings(entry, found, cap) ==
  LET good == [parsed |-> ReadRows(found, cap), throws |-> "", violates |-> FALSE]
  IN  {good} \cup IF entry.reader = "function" THEN {}
                  ELSE {[good EXCEPT !.violates = TRUE], [good EXCEPT !.parsed = Null],
                        [good EXCEPT !.throws = "parser_exception"],
                        [good EXCEPT !.throws = "unrecognized_output"]}

----------------------------------------------------------------------------

\* createRegistry registers the built-ins, each under its contract.
Init == /\ registry \in [Commands -> {Registered(NoReader, k) : k \in Contracts}]
        /\ call = Idle /\ kept = <<>> /\ stats = EmptyBag
        /\ answer = [kind |-> "none"]

\* loadExternalParsers: a pack of the same name takes the built-in's place.
LoadPack(cmd) ==
  /\ call = Idle /\ kept = <<>> /\ stats = EmptyBag
  /\ registry[cmd].reader = "function"
  /\ \E k \in Contracts :
       \/ registry' = [registry EXCEPT ![cmd] = RegisteredPack(k)]
       \/ registry' = [registry EXCEPT ![cmd] = RegisteredIsolated(Over([isolated |-> TRUE], k))]
  /\ UNCHANGED <<call, kept, stats, answer>>

Count(cmd, outcome) == stats (+) SetToBag({<<cmd, outcome>>})

\* A run starts when its guard let it pass; a refusal is answered and counted.
Refuse(cmd) ==
  /\ call = Idle /\ BagCardinality(stats) < MaxRuns
  /\ stats' = Count(cmd, "guard")
  /\ answer' = [kind |-> "rejected"]
  /\ UNCHANGED <<registry, call, kept>>

\* A projection outside its schema is refused before the command runs.
RefuseProjection(req) ==
  /\ call = Idle /\ req.projection = Invalid
  /\ answer' = [kind |-> "rejected"]
  /\ UNCHANGED <<registry, call, kept, stats>>

\* The command ran: it printed a text, perhaps cut at the capture limit, and
\* ended well or not; a failed spawn printed nothing.
Execute(cmd, req) ==
  /\ call = Idle /\ BagCardinality(stats) < MaxRuns /\ req.projection # Invalid
  /\ \E out \in Outputs, failure \in {"none", "exit", "timeout", "spawn"}, cut \in BOOLEAN :
       /\ out.nul = UsesNul(req.args)
       /\ cut => Len(out.text) > CaptureCap
       /\ failure = "spawn" => out.text = <<>>
       /\ LET seen == IF cut THEN SubSeq(out.text, 1, CaptureCap) ELSE out.text
          IN  call' = [stage |-> "parse", cmd |-> cmd, req |-> req, printed |-> out.rows,
                       failure |-> failure, truncated |-> cut \/ failure = "timeout",
                       output |-> [text |-> seen, json |-> Own(Natives, seen, Null)]]
  /\ UNCHANGED <<registry, kept, stats, answer>>

Reorders(p) == DOMAIN p \cap {"where", "sort", "limit", "array"} # {}

\* parseWithEvidence: the builder of the command runs when the contract accepts
\* the arguments; it is the built-in's, whoever reads the command now.
Located(entry, args, found) ==
  LET f == CheckFormat(entry.contract, args, ValueVerdicts(entry, args))
  IN  IF f.throws \/ ~f.accepted THEN <<>> ELSE SpansOf(found)

----------------------------------------------------------------------------
(* Parse, project and represent: one synchronous stretch of run.            *)

\* The outcome recordRun counts.
Outcome(failure, result) ==
  IF failure # "none" THEN failure
  ELSE IF result.error # "none" THEN result.error
  ELSE IF result.parsed = Null THEN "parser_not_found" ELSE "parsed"

Wanted(size) ==    \* adaptive format: what the number of rows asks for
  IF NoRawAt > 0 /\ size >= NoRawAt THEN {"compact", "no_raw"}
  ELSE IF CompactAt > 0 /\ size >= CompactAt THEN {"compact"} ELSE {}

\* The value after the projection; a projection that failed leaves none.
Projected(parsed, p, contract) ==
  LET whole == [ok |-> TRUE, reason |-> "none", done |-> FALSE, parsed |-> parsed,
                rows |-> IF parsed.keys = <<>> THEN <<>> ELSE parsed.rows[parsed.keys[1]]]
      out   == ApplyProjection(parsed, p, contract, MaxItems)
  IN  IF p = NoProjection \/ parsed = Null THEN whole
      ELSE IF out.ok THEN [whole EXCEPT !.done = TRUE, !.parsed = out.parsed, !.rows = out.rows]
      ELSE [whole EXCEPT !.ok = FALSE, !.reason = out.reason, !.parsed = Null, !.rows = <<>>]

\* The form it is answered in, and whether the raw output is to be left out:
\* never when the value could not be folded without loss.
Represented(req, value, lossless) ==
  LET wanted == IF req.evidence \/ value.parsed = Null \/ value.rows = <<>> THEN {}
                ELSE Wanted(Len(value.rows))
      folds  == req.format = "compact" \/ "compact" \in wanted
      folded == IF folds THEN ToCompact(value.parsed, lossless)
                ELSE [ok |-> TRUE, value |-> value.parsed]
  IN  [ok |-> folded.ok, value |-> folded.value, folds |-> folds,
       dropRaw |-> /\ folded.ok
                   /\ req.format = "json-no-raw" \/ "no_raw" \in wanted \/ value.done]

\* failure of the answer: a parse error never hides that the command failed,
\* but a projection or a representation that failed takes its place.
ParserIsBlamed(failure, result, projected, form, stderrOnly) == \* mutant
  IF ~form.ok THEN "representation_not_lossless"
  ELSE IF ~projected.ok THEN projected.reason
  ELSE IF result.error # "none" THEN result.error ELSE failure
FailureOf(failure, result, projected, form, stderrOnly) ==
  IF ~form.ok THEN "representation_not_lossless"
  ELSE IF ~projected.ok THEN projected.reason
  ELSE IF failure # "none" THEN failure
  ELSE IF result.error # "none" THEN IF stderrOnly THEN "none" ELSE result.error
  ELSE IF result.parsed = Null THEN "parser_not_found" ELSE "none"

RawOmitted(dropRaw, final) == dropRaw /\ final # Null

Parse ==
  /\ call.stage = "parse"
  /\ LET req   == call.req
         entry == registry[call.cmd]
         text  == call.output.text
         cap   == IF req.projection = NoProjection THEN MaxItems ELSE 0
     IN  \E found \in {ParseStatus(text, UsesNul(req.args))} :
         \E read \in Readings(entry, found, cap), strict, lossless, stderrOnly \in BOOLEAN :
         \E result \in {ParseWithFallback(entry, req.args, call.output, read, strict)} :
         \E shape \in {IF result.native THEN NoContract ELSE ContractFor(entry, req.args)} :
         \E value \in {Projected(result.parsed, req.projection, shape)} :
         \E form \in {Represented(req, value, lossless)} :
           /\ lossless \/ form.folds
           /\ stderrOnly => text = <<>> /\ call.failure = "none"
           /\ call' = [stage |-> "redact", cmd |-> call.cmd, req |-> req, printed |-> call.printed,
                       truncated |-> call.truncated, text |-> text, found |-> Len(found),
                       raw |-> IF req.evidence THEN Located(entry, req.args, found) ELSE <<>>,
                       parsed |-> result.parsed, error |-> result.error, hint |-> result.hint,
                       native |-> result.native, exec |-> call.failure,
                       final |-> form.value, lossless |-> form.ok,
                       omitted |-> RawOmitted(form.dropRaw, form.value),
                       failure |-> FailureOf(call.failure, result, value, form, stderrOnly)]
           /\ stats' = Count(call.cmd, Outcome(call.failure, result))
  /\ UNCHANGED <<registry, kept, answer>>

----------------------------------------------------------------------------
(* Redact, review and retain.                                              *)

\* buildEvidence: nothing is recorded when the projection moved the rows.
\* resolvePointer finds the field in the value that is answered.
Resolves(value, p) ==
  /\ value.kind = "object" /\ p[1] \in DOMAIN value.rows
  /\ p[2] \in DOMAIN value.rows[p[1]] /\ p[3] \in DOMAIN value.rows[p[1]][p[2]]
ValueAt(value, p) == value.rows[p[1]][p[2]][p[3]]

BuildEvidence(c, masked) ==
  LET located == IF Reorders(c.req.projection) THEN {} ELSE DOMAIN c.raw
  IN  [p \in {q \in located : Resolves(c.final, q)} |->
         FieldEvidence(c.raw[p], ValueAt(c.final, p), c.text, masked.text, masked.ranges)]

ParseComplete(c) == IF c.error = "unrecognized_output" \/ c.parsed = Null THEN "no"
                    ELSE IF c.native THEN "unknown" ELSE "yes"

Incomplete(c) == c.truncated \/ ParseComplete(c) = "no" \/ ~c.lossless

FingerprintOf(c, text) ==
  [cmd |-> c.cmd, args |-> c.req.args, cwd |-> "/", context |-> "", schema |-> "1", tools |-> "",
   parser |-> IF c.native THEN "native_json"
              ELSE IF registry[c.cmd].reader = "none" THEN "none" ELSE c.cmd,
   content |-> text]

\* What is retained. text, raw, printed, proven and whole say what it was made
\* from: the properties read them, the code does not keep them.
Retained(c, masked) ==
  [fp |-> FingerprintOf(c, masked.text), parsed |-> c.final, incomplete |-> Incomplete(c),
   stdout |-> masked.text, evidence |-> BuildEvidence(c, masked),
   text |-> c.text, raw |-> c.raw, printed |-> c.printed,
   proven |-> /\ c.req.evidence /\ ~Reorders(c.req.projection) /\ ~c.native
              /\ registry[c.cmd].reader = "function",
   whole  |-> /\ ~c.native /\ c.req.projection = NoProjection
              /\ MaxItems = 0 \/ c.found <= MaxItems]

Review ==
  /\ call.stage = "redact"
  /\ \E masked \in {MaskWithRanges(call.text, Patterns)} :
       /\ answer' = [kind |-> "run", run |-> call,
                     raw |-> IF call.omitted THEN <<>> ELSE masked.text]
       /\ kept' = IF call.req.retain THEN Append(kept, Retained(call, masked)) ELSE kept
  /\ call' = Idle
  /\ UNCHANGED <<registry, stats>>

\* compare: two retained results, nothing is run again.
CompareKept(i, j, keys, strict) ==
  /\ call = Idle
  /\ answer' = [kind |-> "compare", base |-> kept[i], current |-> kept[j], keys |-> keys,
                said |-> CompareResults(kept[i], kept[j], keys, {}, strict)]
  /\ UNCHANGED <<registry, call, kept, stats>>

\* explain_result: the value at a pointer with the evidence kept for it.
Explain(i, p) ==
  /\ call = Idle /\ Resolves(kept[i].parsed, p)
  /\ answer' = [kind |-> "explain", result |-> kept[i], pointer |-> p,
                evidence |-> Own(kept[i].evidence, p, NoEvidence)]
  /\ UNCHANGED <<registry, call, kept, stats>>

Next == \/ \E cmd \in Commands : LoadPack(cmd) \/ Refuse(cmd)
        \/ \E req \in Requests : RefuseProjection(req)
        \/ \E cmd \in Commands, req \in Requests : Execute(cmd, req)
        \/ Parse \/ Review
        \/ \E i, j \in DOMAIN kept, keys \in {<<>>, <<"xy">>}, strict \in BOOLEAN :
             CompareKept(i, j, keys, strict)
        \/ \E i \in DOMAIN kept : \E p \in DOMAIN kept[i].raw : Explain(i, p)

Spec == Init /\ [][Next]_vars

----------------------------------------------------------------------------
(* What an answer may not do.                                              *)

\* An answer without a failure has read something of an output that has data:
\* "nothing there" is never what an unreadable output looks like. A JSON
\* document is left out: a parser that reads it may find it empty.
HonestEmptiness ==
  answer.kind = "run" =>
    LET r == answer.run
        k == ContractFor(registry[r.cmd], r.req.args)
    IN  r.failure = "none" /\ r.text \notin DOMAIN Natives /\ DataLines(r.text, k) # {}
          => ~IsDefaultValue(r.parsed)

\* What the built-in parser answers is what git meant: the rows it printed in
\* either form, in order, unless the answer says that output was cut.
RowsAreTrue ==
  answer.kind = "run" =>
    LET r    == answer.run
        rows == r.printed
    IN  /\ r.failure = "none" /\ registry[r.cmd].reader = "function" /\ ~r.native
        /\ r.req.projection = NoProjection /\ ~r.truncated /\ r.final.kind = "object"
        => r.final.rows["entries"] = IF MaxItems > 0 THEN Cut(rows, MaxItems) ELSE rows

\* A command that failed is answered with a failure, and never with one that
\* blames the parser for what a failed command printed.
CauseIsKept ==
  answer.kind = "run" /\ answer.run.exec # "none" =>
    answer.run.failure \notin {"none", "unsupported_format", "unrecognized_output",
                               "parser_exception", "schema_violation", "parser_not_found"}

\* Where each unit of the masked text was in the original: 0 in a token.
Origins(text, patterns) ==
  LET Step(acc, p) ==
        LET found == Matches(p, acc.text)
            From(i) == IF \E k \in DOMAIN found : found[k][1] = i - 1 THEN [j \in DOMAIN Token |-> 0]
                       ELSE IF \E k \in DOMAIN found : i \in found[k][1] + 1..found[k][2]
                            THEN <<>> ELSE <<acc.from[i]>>
        IN  [text |-> ApplyPattern(p, acc.text).text,
             from |-> FlattenSeq([i \in DOMAIN acc.from |-> From(i)])]
  IN  FoldLeft(Step, [text |-> text, from |-> [i \in DOMAIN text |-> i]], patterns).from

\* A field the built-in parser located, and that no redaction touched, is
\* proven: its evidence is the bytes it was read from, in the text shown, and
\* never any other place. Only a field that begins with a surrogate pair, an
\* emoji, may be left without: the table of review.ts:195-199 leads its first
\* byte back to the middle of the pair, and the value is not found there.
BeginsInPair(text, span) == Width(text[span.start + 1]) = 0
EvidenceIsExact ==
  answer.kind = "explain" =>
    LET r    == answer.result
        span == r.raw[answer.pointer]
        from == Origins(r.text, Patterns)
        Now(i) == CHOOSE k \in DOMAIN from : from[k] = i
        whole  == \A i \in span.start + 1..span.end : \E k \in DOMAIN from : from[k] = i
        place  == [start |-> ByteAt(r.stdout, Now(span.start + 1) - 1),
                   end |-> ByteAt(r.stdout, Now(span.end)), transform |-> span.transform]
    IN  r.proven /\ whole /\ span.start < span.end =>
          \/ answer.evidence.spans = {place}
          \/ BeginsInPair(r.text, span) /\ answer.evidence = NoEvidence

\* The rows git printed, whether or not they reached the answer.
Printed(r) == {r.printed[i].path : i \in DOMAIN r.printed}

\* A row is said to be gone only when the command no longer prints it. The
\* answers a cap or a projection shortened are left to RemovedIsGone.
Entire(r) == r.parsed.kind = "object" /\ r.whole
HonestComparison ==
  answer.kind = "compare" /\ answer.keys = <<>> =>
    LET said == answer.said IN
      /\ Entire(answer.current) => \A id \in said.removed : id[1] \notin Printed(answer.current)
      /\ Entire(answer.base)    => \A id \in said.added : id[1] \notin Printed(answer.base)

\* engine/compare/index.ts: an incomplete result never has its missing rows
\* called removed.
RemovedIsGone ==
  answer.kind = "compare" /\ answer.keys = <<>> =>
    \A id \in answer.said.removed : id[1] \notin Printed(answer.current)

=============================================================================
