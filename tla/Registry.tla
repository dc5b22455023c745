------------------------------ MODULE Registry ------------------------------
(***************************************************************************)
(* The parser registry (parsers/registry.ts): who reads the output of a    *)
(* command, under which contract (parsers/format.ts), and when a reading   *)
(* is refused (parsers/invariants.ts).                                     *)
(*                                                                         *)
(* An argument is a record: a word, the end mark "--", a long flag with or *)
(* without "=value", or a bundle of short letters. A value is a sequence   *)
(* of tokens. A contract is a function of the fields it declares, so a     *)
(* subcommand's contract laid over its parent is Over(sub, base).          *)
(*                                                                         *)
(* A parsed value is [kind, keys, rows, total]: "null", an "object" whose  *)
(* arrays are rows[k] for k in keys, in order, an "array" (keys = <<"">>)  *)
(* or a "compact" table; total is what the value says there was before a   *)
(* cap cut it, or -1. An output is [text, json]: json is the value of the  *)
(* text as a JSON document, or Null (JSON.parse is external).              *)
(***************************************************************************)
EXTENDS Integers, Sequences, SequencesExt, FiniteSetsExt, Functions, TLC

Null == [kind |-> "null", keys |-> <<>>, rows |-> <<>>, total |-> -1]

Object(keys, rows, total) == [kind |-> "object", keys |-> keys, rows |-> rows, total |-> total]

Own(f, x, default) == IF x \in DOMAIN f THEN f[x] ELSE default

\* { ...base, ...top }: the keys of both, those of top with its values.
Over(top, base) == [x \in DOMAIN top \cup DOMAIN base |->
                      IF x \in DOMAIN top THEN top[x] ELSE base[x]]

----------------------------------------------------------------------------
(* The format a contract accepts.                                          *)

\* resolveContract: the global options in front, the subcommand word, and the
\* contract that holds for the rest.
SkipLeadingFlags(flags, args) ==
  LET Known(i) == args[i].form = "long" /\ args[i].name \in DOMAIN flags
      taken[i \in DOMAIN args] ==          \* the value of the option before it
        /\ i > 1 /\ ~taken[i - 1]
        /\ Known(i - 1) /\ flags[args[i - 1].name] = "value" /\ args[i - 1].value = <<>>
  IN  Max({n \in 0..Len(args) : \A i \in 1..n : taken[i] \/ Known(i)})

\* The contract of the subcommand a word names, laid over its parent.
Subcontract(contract, args, start, word, n) ==
  LET subs == Own(contract, "subs", <<>>)
      base == [x \in DOMAIN contract \ {"subs"} |-> contract[x]]
  IN  IF word \in DOMAIN subs
      THEN [contract |-> Over(subs[word], base), found |-> TRUE, prefix |-> SubSeq(args, 1, start + n),
            rest |-> SubSeq(args, start + n + 1, Len(args))]
      ELSE [contract |-> base, found |-> "subs" \notin DOMAIN contract,
            prefix |-> SubSeq(args, 1, start), rest |-> SubSeq(args, start + 1, Len(args))]

ResolveAfter(contract, args, start) ==
  IF start < Len(args) /\ args[start + 1].form = "word"
  THEN Subcontract(contract, args, start, args[start + 1].name, 1)
  ELSE Subcontract(contract, args, start, "", 0)

ResolveContract(contract, args) ==
  ResolveAfter(contract, args, SkipLeadingFlags(Own(contract, "leading", <<>>), args))

\* tokenize: flags with their values, and words; ok is FALSE at the first flag
\* that is not in the table. A flag that takes a value takes the next argument
\* when none is attached to it.
Tokenize(table, args) ==
  LET rejected == [flags |-> <<>>, words |-> <<>>, ok |-> FALSE]
      done     == [flags |-> <<>>, words |-> <<>>, ok |-> TRUE]
      Before(name, value, t) == [t EXCEPT !.flags = <<[name |-> name, value |-> value]>> \o @]
      most == Max({0} \cup {Len(args[i].value) : i \in {k \in DOMAIN args : args[k].form = "short"}})
      \* What the arguments from the i-th on hold, j letters of it being read.
      from[i \in 1..(Len(args) + 1), j \in 0..most] ==
        LET a     == args[i]
            name  == IF j = 0 THEN a.name ELSE a.value[j]
            value == SubSeq(a.value, j + 1, Len(a.value))
        IN  IF i > Len(args) THEN done
            ELSE IF a.form = "end" THEN [done EXCEPT !.words = SubSeq(args, i + 1, Len(args))]
            ELSE IF a.form = "word" THEN [from[i + 1, 0] EXCEPT !.words = <<a>> \o @]
            ELSE IF name \notin DOMAIN table THEN rejected
            ELSE CASE a.form = "long" /\ table[name] = "bool" /\ value # <<>> -> rejected
                   [] a.form = "short" /\ table[name] = "bool" /\ value # <<>> ->
                        Before(name, <<>>, from[i, j + 1])
                   [] table[name] = "value" /\ value = <<>> /\ i < Len(args) ->
                        Before(name, <<args[i + 1].name>>, from[i + 2, 0])
                   [] OTHER -> Before(name, value, from[i + 1, 0])
  IN  from[1, 0]

Declares(contract) == DOMAIN contract \cap {"flags", "words", "subs"} # {}

(***************************************************************************)
(* checkFormat. The patterns of an isolated pack are descriptors: only its *)
(* worker can judge a value, and verdicts is what it said when it was      *)
(* asked; testing a descriptor throws, as a contract's supports() may.     *)
(***************************************************************************)
Unasked == [asked |-> FALSE, says |-> <<>>]

\* withOutputFlags: each flag that is given may change what the output is.
Shaped(eff, flags) ==
  FoldLeft(LAMBDA c, f : Over(Own(Own(eff, "shapes", <<>>), f.name, <<>>), c), eff, flags)

Judge(eff, t, verdicts) ==
  LET seen   == {t.flags[i].name : i \in DOMAIN t.flags}
      valued == {i \in DOMAIN t.flags : t.flags[i].name \in DOMAIN Own(eff, "values", <<>>)}
      remote == Own(eff, "isolated", FALSE)
      Good(f) == IF verdicts.asked THEN Own(verdicts.says, f.name, FALSE)
                 ELSE f.value \in eff.values[f.name]
      fits   == /\ \A i \in valued : Good(t.flags[i])
                /\ "required" \in DOMAIN eff => eff.required \cap seen # {}
                /\ Cardinality(Own(eff, "exclusive", {}) \cap seen) <= 1
                /\ Len(t.words) \in Own(eff, "min", 0)..Own(eff, "max", Len(t.words))
      shaped == Shaped(eff, t.flags)
      Say(accepted, throws, c) == [accepted |-> accepted, throws |-> throws, contract |-> c]
      custom == Own(eff, "supports", "yes")
      Custom(c) == IF custom = "yes" THEN Say(TRUE, FALSE, c) ELSE Say(FALSE, custom = "throws", eff)
  IN  IF ~Declares(eff) THEN Custom(eff)
      ELSE IF ~t.ok THEN Say(FALSE, FALSE, eff)
      ELSE IF remote /\ ~verdicts.asked /\ valued # {} THEN Say(FALSE, TRUE, eff)
      ELSE IF ~fits THEN Say(FALSE, FALSE, eff)
      ELSE IF "words" \notin DOMAIN eff \/ t.words = <<>> THEN Custom(shaped)
      ELSE IF remote THEN Say(FALSE, TRUE, eff)
      ELSE IF \E i \in DOMAIN t.words : t.words[i].name \notin eff.words THEN Say(FALSE, FALSE, eff)
      ELSE Custom(shaped)

CheckResolved(r, verdicts) ==
  IF ~r.found THEN [accepted |-> FALSE, throws |-> FALSE, contract |-> r.contract]
  ELSE Judge(r.contract, Tokenize(Own(r.contract, "flags", <<>>), r.rest), verdicts)

CheckFormat(contract, args, verdicts) == CheckResolved(ResolveContract(contract, args), verdicts)

\* buildHint: the arguments that give the same information in a format the
\* parser reads. A draft that is not native JSON must pass the same check.
NoHint == <<>>
Hint(h, throws) == [hint |-> h, throws |-> throws]
Checked(full, check) == Hint(IF check.accepted THEN full ELSE NoHint, check.throws)
BuildHint(contract, args, verdicts) ==
  LET r     == ResolveContract(contract, args)
      draft == Own(r.contract, "hint", <<>>)
      full  == r.prefix \o Own(draft, "args", <<>>)
  IN  IF draft = <<>> \/ full = args THEN Hint(NoHint, FALSE)
      ELSE IF draft.native THEN Hint(full, FALSE)
      ELSE Checked(full, CheckFormat(contract, full, verdicts))

----------------------------------------------------------------------------
(* The registry: for each command who reads it ("none", a built-in         *)
(* "function", a "pack" in this thread, an "isolated" pack in a worker),    *)
(* its contract, and the pack whose schema strict mode checks.             *)

NoContract == <<>>

NoReader == [reader |-> "none", contract |-> NoContract, schema |-> "none", worker |-> FALSE]

\* register keeps the schema an earlier pack left; each closes the worker of
\* an isolated pack it replaces.
Registered(entry, contract) ==
  [entry EXCEPT !.reader = "function", !.contract = contract, !.worker = FALSE]

RegisteredPack(contract) ==
  [reader |-> "pack", contract |-> contract, schema |-> "pack", worker |-> FALSE]

RegisteredIsolated(contract) ==
  [reader |-> "isolated", contract |-> contract, schema |-> "none", worker |-> TRUE]

\* valueVerdicts: what the worker says of the values, as each accepted set has
\* it; of a flag that is repeated it judges the last value.
Verdicts(flags, values) ==
  LET Given(n) == flags[Max({i \in DOMAIN flags : flags[i].name = n})].value
  IN  [asked |-> TRUE,
       says  |-> [n \in {flags[i].name : i \in DOMAIN flags} \cap DOMAIN values |->
                    Given(n) \in values[n]]]

VerdictsOf(r) ==
  Verdicts(Tokenize(Own(r.contract, "flags", <<>>), r.rest).flags, Own(r.contract, "values", <<>>))

ValueVerdicts(entry, args) ==
  IF ~entry.worker THEN Unasked
  ELSE VerdictsOf(ResolveContract(entry.contract, args))

\* contractFor: the contract that holds for these arguments, none when there
\* is none or asking for it failed.
ContractFor(entry, args) ==
  IF entry.contract = NoContract THEN NoContract
  ELSE LET f == CheckFormat(entry.contract, args, ValueVerdicts(entry, args))
       IN  IF f.throws THEN NoContract ELSE f.contract

----------------------------------------------------------------------------
(* What a reading may not be.                                              *)

\* Where the lines that are not blank begin.
Lines(text) ==
  {i \in 1..Len(text) : text[i] # "\n" /\ (i > 1 => text[i - 1] = "\n")}

\* countDataLines: the lines left after blank ones, headers and noise.
DataLines(text, contract) ==
  {i \in Lines(text) : /\ Cardinality({j \in Lines(text) : j < i}) >= Own(contract, "headers", 0)
                       /\ text[i] \notin Own(contract, "noise", {})}

\* A value is its arrays of rows: the other fields isDefaultValue looks at (scalars,
\* META_KEYS) and the records of numbers it spares are left out.
IsDefaultValue(parsed) == \A k \in DOMAIN parsed.rows : parsed.rows[k] = <<>>

NeverEmpty(parsed, text, contract) == FALSE \* mutant
IsSilentEmpty(parsed, text, contract) ==
  DataLines(text, contract) # {} /\ IsDefaultValue(parsed)

----------------------------------------------------------------------------
(* parse, and the native JSON document it falls back to. read is what the   *)
(* parser makes of the output: a value, Null, or the exception it throws.   *)

Failed(reason) == [parsed |-> Null, error |-> reason, hint |-> NoHint, native |-> FALSE]

ReadOutput(entry, contract, output, read, strict) ==
  IF read.throws # "" THEN Failed(read.throws)
  ELSE IF read.parsed = Null THEN Failed("none")
  ELSE IF IsSilentEmpty(read.parsed, output.text, contract) /\ output.json = Null
       THEN Failed("unrecognized_output")
  ELSE IF strict /\ (entry.schema # "none" \/ entry.worker) /\ read.violates
       THEN Failed("schema_violation")
  ELSE [Failed("none") EXCEPT !.parsed = read.parsed]

ParseOnce(entry, args, output, read, strict) ==
  LET f == CheckFormat(entry.contract, args, Unasked)
      h == BuildHint(entry.contract, args, Unasked)
  IN  IF entry.reader = "none" THEN Failed("none")
      ELSE IF entry.contract = NoContract THEN ReadOutput(entry, NoContract, output, read, strict)
      ELSE IF f.throws \/ (~f.accepted /\ h.throws) THEN Failed("parser_exception")
      ELSE IF ~f.accepted THEN [Failed("unsupported_format") EXCEPT !.hint = h.hint]
      ELSE ReadOutput(entry, f.contract, output, read, strict)

Fallback(result, output) ==
  IF result.parsed # Null \/ output.json = Null THEN result
  ELSE [result EXCEPT !.parsed = output.json, !.native = TRUE,
                      !.error = IF @ = "unsupported_format" THEN "none" ELSE @,
                      !.hint = IF result.error = "unsupported_format" THEN NoHint ELSE @]

ParseWithFallback(entry, args, output, read, strict) ==
  Fallback(ParseOnce(entry, args, output, read, strict), output)

=============================================================================
