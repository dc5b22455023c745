-------------------------------- MODULE Policy --------------------------------
(***************************************************************************)
(* The allow lists of commands and the reading of an argument list under   *)
(* them: which argument is a flag, which the value of a flag, which stands *)
(* for itself (engine/policy.ts).                                          *)
(*                                                                         *)
(* An argument keeps its form and what the checks tell apart of its text.  *)
(* The value classes: "plain" names nothing that exists, "num" is a count, *)
(* "in" and "out" look like paths within and outside the tree, "link" is   *)
(* an existing bare name that leads outside it, "url" is a web address,    *)
(* "at" starts with @, "pct" holds a form curl -w is never given, "word"   *)
(* is made of the option letters of ps, "plus" begins with +, "op" holds an *)
(* operator of the shell; "none" is no text at all.                        *)
(*                                                                         *)
(* Left out: long options with one dash (singleDashLong: find, terraform)  *)
(* and options with a + (plusFlags: lsof).                                 *)
(***************************************************************************)
EXTENDS Integers, Sequences, SequencesExt, FiniteSets, TLC

Arg(form, name, letters, rest) ==
    [form |-> form, name |-> name, letters |-> letters, rest |-> rest]
Word(v) == Arg("word", v, <<>>, "none")
Long(name, v) == Arg("long", name, <<>>, v)           \* --name or --name=v
Bundle(letters, v) == Arg("bundle", "none", letters, v)   \* -abc, with text after it
Number == Arg("num", "-5", <<>>, "none")
EndOfFlags == Arg("end", "--", <<>>, "none")

Arguments ==      \* only a bundle has letters, only a flag has text after it
    {a \in [form : {"word", "long", "bundle", "num", "end"}, name : STRING,
            letters : Seq(STRING), rest : STRING] :
       /\ a.letters # <<>> <=> a.form = "bundle"
       /\ a.rest # "none" => a.form \in {"long", "bundle"}}

(* What an argument says when a flag takes it for its value. *)
Text(a) == IF a.form = "word" THEN a.name ELSE "dash"

ParsedArg(kind, name, value) ==
    [kind |-> kind, name |-> name, value |-> value, arg |-> EndOfFlags]
Passed(a) == [kind |-> "passed", name |-> "none", value |-> "none", arg |-> a]

(* { ...base, ...top }: the keys of both, those of top with its values.    *)
Over(top, base) == [k \in DOMAIN top \cup DOMAIN base |->
                      IF k \in DOMAIN top THEN top[k] ELSE base[k]]

(* A policy; flags maps a flag to its kind: bool, value, path, attached or *)
(* count. No subcommand list is the empty set.                             *)
NoFlags == [f \in {} |-> "bool"]
Base == [subs |-> {}, flags |-> NoFlags, positionals |-> "any", leading |-> {},
         numeric |-> FALSE, stop |-> FALSE, text |-> FALSE, letters |-> FALSE,
         refs |-> {}, subFlags |-> [s \in {} |-> NoFlags],
         subPositionals |-> [s \in {} |-> "any"],
         verbs |-> [s \in {} |-> {}], most |-> 9, prefix |-> "none", only |-> [f \in {} |-> {}],
         never |-> [f \in {} |-> {}]]

IsPolicy(p) == DOMAIN p = DOMAIN Base /\ p = [k \in DOMAIN p |-> p[k]]

(* One command for each shape the tables know, with some of its flags.    *)
READ_COMMAND_POLICIES ==
    [ls |-> [Base EXCEPT !.flags = ("l" :> "bool" @@ "w" :> "value"),
                         !.positionals = "path"],
     ps |-> [Base EXCEPT !.flags = [e |-> "bool", o |-> "value"],
                         !.letters = TRUE],
     grep |-> [Base EXCEPT !.flags = ("e" :> "value" @@ "f" :> "path" @@ "o" :> "bool"),
                           !.numeric = TRUE, !.text = TRUE],
     uname |-> [Base EXCEPT !.flags = ("o" :> "bool"), !.positionals = "none"],
     id |-> [Base EXCEPT !.flags = ("n" :> "bool")],
     date |-> [Base EXCEPT !.flags = ("u" :> "bool"), !.prefix = "plus", !.most = 1]]
DEFAULT_POLICIES == Over(READ_COMMAND_POLICIES,
    [git |-> [Base EXCEPT !.subs = {"log", "branch"}, !.leading = {"--no-pager"},
                !.flags = ("--no-pager" :> "bool" @@ "--format" :> "attached"),
                !.subFlags = ("branch" :> ("--format" :> "value")),
                !.subPositionals = ("branch" :> "none"), !.numeric = TRUE],
     gh |-> [Base EXCEPT !.subs = {"pr"}, !.flags = ("w" :> "bool" @@ "L" :> "value"),
                !.verbs = ("pr" :> {"list"})],
     journalctl |-> [Base EXCEPT !.flags = ("n" :> "count" @@ "r" :> "bool"),
                !.positionals = "none"],
     curl |-> [Base EXCEPT !.flags = ("L" :> "bool" @@ "w" :> "value"),
                !.positionals = "url", !.refs = {"w"}, !.never = ("w" :> {"pct"})],
     kubectl |-> [Base EXCEPT !.subs = {"get"}, !.flags = ("o" :> "value" @@ "w" :> "bool"),
                !.only = ("o" :> {"plain"})],
     node |-> [Base EXCEPT !.flags = ("--version" :> "bool"),
                !.positionals = "none"],
     npx |-> [Base EXCEPT !.flags = ("--version" :> "bool"),
                !.positionals = "none"]])
extendSubcommands(policy, more) == [policy EXCEPT !.subs = @ \cup more]
BUILD_PROFILE_POLICIES ==
    [node |-> [DEFAULT_POLICIES.node EXCEPT !.positionals = "path", !.stop = TRUE],
     npx |-> [DEFAULT_POLICIES.npx EXCEPT !.positionals = "any", !.stop = TRUE],
     yarn |-> extendSubcommands(
                [Base EXCEPT !.subs = {"list"}, !.flags = ("--depth" :> "value")], {"run"})]

(* resolvePolicies, policySource: command_policies before the build        *)
(* profile before the defaults.                                            *)
resolvePolicies(guard) ==
    Over(guard.policies,
         IF guard.profile = "build" THEN Over(BUILD_PROFILE_POLICIES, DEFAULT_POLICIES)
         ELSE DEFAULT_POLICIES)
policySource(guard, cmd) ==
    IF cmd \in DOMAIN guard.policies THEN "config"
    ELSE IF guard.profile = "build" /\ cmd \in DOMAIN BUILD_PROFILE_POLICIES THEN "build"
    ELSE IF cmd \in DOMAIN DEFAULT_POLICIES THEN "default" ELSE "none"
-----------------------------------------------------------------------------
flagKind(flags, name) == IF name \in DOMAIN flags THEN flags[name] ELSE "unknown"
effectiveFlags(policy, sub) ==
    IF sub \in DOMAIN policy.subFlags THEN policy.subFlags[sub] @@ policy.flags
    ELSE policy.flags

(* Whether a flag without an attached value takes the next argument. *)
consumesNext(flags, name, next) ==
    \/ flagKind(flags, name) \in {"value", "path"}
    \/ flagKind(flags, name) = "count" /\ next = Word("num")

(* The first letter of a bundle that takes a value, 0 if none does. *)
Valued(flags, letters) ==
    LET takes == {j \in DOMAIN letters :
                    flagKind(flags, letters[j]) \notin {"unknown", "bool"}}
    IN  IF takes = {} THEN 0 ELSE CHOOSE j \in takes : \A k \in takes : j <= k

(* The flag an argument leaves waiting for a value, "none" for none. *)
Waits(flags, a) ==
    CASE a.form = "long" /\ a.rest = "none" -> a.name
      [] a.form = "bundle" /\ a.rest = "none" /\ Valued(flags, a.letters) = Len(a.letters)
           -> a.letters[Len(a.letters)]
      [] OTHER -> "none"
TakesNext(flags, args, i) ==
    i < Len(args) /\ Waits(flags, args[i]) # "none"
        /\ consumesNext(flags, Waits(flags, args[i]), args[i + 1])

(* The tokens of one flag argument, whose value may be the next argument. *)
FlagTokens(flags, a, next) ==
    IF a.form = "long" THEN
        <<ParsedArg("flag", a.name, IF a.rest # "none" THEN a.rest ELSE next)>>
    ELSE IF a.form = "num" THEN <<ParsedArg("flag", "digit", "none")>>
    ELSE LET v == Valued(flags, a.letters)
             plain == [j \in 1..(IF v = 0 THEN Len(a.letters) ELSE v - 1) |->
                            ParsedArg("flag", a.letters[j], "none")]
         IN  IF v = 0
             THEN plain \o (IF a.rest = "none" THEN <<>>
                            ELSE <<ParsedArg("flag", "text", "none")>>)
             ELSE Append(plain, ParsedArg("flag", a.letters[v],
                    IF v < Len(a.letters) THEN "letters"
                    ELSE IF a.rest # "none" THEN a.rest ELSE next))

(* The tokens of the arguments from the i-th on, options being open or     *)
(* having ended.                                                           *)
TokensFrom(args, flags, policy) ==
    LET tokens[i \in 1..(Len(args) + 1)] == [options \in {"open", "ended"} |->
          IF i > Len(args) THEN <<>>
          ELSE LET a == args[i] IN
            IF options = "ended" \/ a.form = "word" THEN
              <<ParsedArg("positional", Text(a), "none")>> \o
                (IF policy.stop THEN [j \in 1..(Len(args) - i) |-> Passed(args[i + j])]
                 ELSE tokens[i + 1][options])
            ELSE IF a.form = "end" THEN tokens[i + 1]["ended"]
            ELSE IF a.form = "num" /\ policy.numeric THEN
              <<ParsedArg("flag", a.name, "none")>> \o tokens[i + 1]["open"]
            ELSE IF TakesNext(flags, args, i) THEN
              FlagTokens(flags, a, Text(args[i + 1])) \o tokens[i + 2]["open"]
            ELSE FlagTokens(flags, a, "none") \o tokens[i + 1]["open"]]
    IN  tokens
tokenizeArgs(args, flags, policy) == TokensFrom(args, flags, policy)[1]["open"]

(* Without a table every letter of a bundle may be the flag whose value    *)
(* follows: each reading keeps a token. Nothing asks for their order.      *)
PolicylessTokens(a) ==
    CASE a.form = "word" -> {ParsedArg("positional", a.name, "none")}
      [] a.form = "end" -> {}
      [] a.form = "bundle" -> {ParsedArg("flag", "any", a.rest)}
      [] OTHER -> {ParsedArg("flag", a.name, a.rest)}
tokenizePolicyless(args) == UNION {PolicylessTokens(a) : a \in args}
-----------------------------------------------------------------------------
(* rewritePsSelectAll: the letter e becomes A where it is an option.       *)
Rewritten(flags, a) ==
    LET v == Valued(flags, a.letters) IN
    [a EXCEPT !.letters = [j \in DOMAIN a.letters |->
        IF a.letters[j] = "e" /\ (v = 0 \/ j < v) THEN "A" ELSE a.letters[j]]]

rewriteEveryArgument(args, flags) ==        \* mutant: values are rewritten too
    [i \in DOMAIN args |-> IF args[i].form = "bundle" THEN Rewritten(flags, args[i])
                           ELSE args[i]]
Taken(args, flags) ==           \* which are the value of the option before
    LET taken[i \in DOMAIN args] ==
          /\ i > 1 /\ ~taken[i - 1]
          /\ args[i - 1].form # "word" /\ TakesNext(flags, args, i - 1)
    IN  taken
rewritePsSelectAll(args, flags) ==
    [i \in DOMAIN args |-> IF args[i].form = "bundle" /\ ~Taken(args, flags)[i]
                           THEN Rewritten(flags, args[i]) ELSE args[i]]

(* How many leading flags come before the subcommand. *)
Leading(policy, args) ==
    CHOOSE n \in 0..Len(args) :
        /\ \A i \in 1..n : args[i].form = "long" /\ args[i].rest = "none"
                             /\ args[i].name \in policy.leading
        /\ n < Len(args) => ~(args[n + 1].form = "long" /\ args[n + 1].rest = "none"
                             /\ args[n + 1].name \in policy.leading)

(* What is executed: git gets settings in front and options after its      *)
(* subcommand, npx is kept from fetching what is not installed, ps gets its *)
(* letters replaced, the rest runs as it was asked.                        *)
GIT_CONFIG_OVERRIDES == <<Bundle(<<"c">>, "none"), Word("setting")>>
NPX_LOCAL_ONLY == <<Long("--no", "none")>>
GIT_SUBCOMMAND_OVERRIDES == [log |-> <<Long("--no-textconv", "none")>>]
buildExecArgs(cmd, args, guard) ==
    LET policy == resolvePolicies(guard)[cmd]
        n == Leading(policy, args)
        sub == IF n < Len(args) THEN args[n + 1].name ELSE "none"
    IN  CASE cmd = "npx" -> NPX_LOCAL_ONLY \o args
          [] cmd = "ps" -> rewritePsSelectAll(args, policy.flags)
          [] cmd = "git" /\ sub \notin DOMAIN GIT_SUBCOMMAND_OVERRIDES ->
               GIT_CONFIG_OVERRIDES \o args
          [] cmd = "git" /\ sub \in DOMAIN GIT_SUBCOMMAND_OVERRIDES ->
               GIT_CONFIG_OVERRIDES \o SubSeq(args, 1, n + 1)
                 \o GIT_SUBCOMMAND_OVERRIDES[sub] \o SubSeq(args, n + 2, Len(args))
          [] OTHER -> args
-----------------------------------------------------------------------------
(* A second reading, position by position, to hold the tokens against: an *)
(* argument is a value when the option before it waits for one.            *)
Roles(args, flags) ==
    LET role[i \in DOMAIN args] ==
          IF \E j \in 1..(i - 1) : role[j] = "end" THEN "positional"
          ELSE IF i > 1 /\ role[i - 1] = "option" /\ Waits(flags, args[i - 1]) # "none"
                  /\ consumesNext(flags, Waits(flags, args[i - 1]), args[i]) THEN "value"
          ELSE CASE args[i].form = "end" -> "end"
                 [] args[i].form = "word" -> "positional"
                 [] OTHER -> "option"
    IN  role
=============================================================================
