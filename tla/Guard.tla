-------------------------------- MODULE Guard --------------------------------
(***************************************************************************)
(* The execution guard: whether a command may run with these arguments in  *)
(* this directory (engine/guard.ts). A path is one of the abstract tree    *)
(* "/w", "/w/sub" and "/other"; "/w/link" is a link to "/other".           *)
(***************************************************************************)
EXTENDS Policy

cwd == "/w"
realPathOf(p) == IF p = "/w/link" THEN "/other" ELSE p
isWithin(child, root) == child = root \/ (root = "/w" /\ child \in {"/w/sub", "/w/link"})

(* Where a value leads from the working directory. *)
Leads(v) == CASE v = "out" -> "/other"
              [] v = "link" -> "/w/link"
              [] OTHER -> "/w/sub"

(* isAllowedPath compares real paths, the link resolved. *)
isAllowedPath(p, roots) ==
    \E r \in roots : isWithin(realPathOf(p), realPathOf(r))

isPathLikeValue(v) == v \in {"in", "out", "url", "kv"}
existsUnder(v) == v = "link"
isPathArg(v) == isPathLikeValue(v) \/ existsUnder(v)

(* The values that are checked as paths: those that look like one or exist *)
(* here, those of flags and positions that take a path, what follows the = *)
(* of a word, and what a passed-on argument may hold under any reading.    *)
ValueOf(policy, known, t) ==
    IF t.kind = "flag" THEN
      IF t.value # "none" /\ (isPathArg(t.value)
                          \/ (known /\ flagKind(policy.flags, t.name) = "path"))
      THEN {t.value} ELSE {}
    ELSE (IF isPathArg(t.name) \/ (known /\ policy.positionals = "path")
          THEN {t.name} ELSE {})
      \cup (IF t.name = "kv" /\ ~(known /\ (policy.positionals = "url" \/ policy.text))
            THEN {"out"} ELSE {})
NothingPassedOn(tokens) == {}        \* mutant: arguments of a script are not read
PassedOn(tokens) ==
    tokenizePolicyless({t.arg : t \in {u \in tokens : u.kind = "passed"}})
collectPathCandidates(tokens, policy, known) ==
    (UNION {ValueOf(policy, known, t) : t \in {u \in tokens : u.kind # "passed"}})
      \cup (UNION {ValueOf(policy, FALSE, t) : t \in PassedOn(tokens)})

(* isAllowedPositional: letters, beginning and number of the positional     *)
(* arguments.                                                               *)
isAllowedPositional(policy, v, position) ==
    /\ position <= policy.most
    /\ policy.letters => v = "word"
    /\ policy.prefix # "none" => v = policy.prefix
isAllowedValue(policy, t) ==
    t.name \in DOMAIN policy.only => t.value \in policy.only[t.name]

(* A request without its leading flags: the subcommand, and what follows. *)
Split(args, policy) ==
    LET n == Leading(policy, args)
        after == SubSeq(args, n + 1, Len(args))
        named == policy.subs # {} /\ after # <<>>
    IN  [sub |-> IF named THEN Text(after[1]) ELSE "none",
         rest |-> IF named THEN Tail(after) ELSE after]

Positionals(tokens) ==          \* in their order
    LET own[i \in 0..Len(tokens)] ==
          IF i = 0 THEN <<>>
          ELSE IF tokens[i].kind = "positional" THEN Append(own[i - 1], tokens[i])
          ELSE own[i - 1]
    IN  own[Len(tokens)]

(* checkPolicy: the tokens that pass, or a denial. *)
Denied == [denied |-> TRUE, tokens |-> {}, policy |-> Base]
checkPolicy(args, policy) ==
    LET sub == Split(args, policy).sub
        rest == Split(args, policy).rest
        mode == IF sub \in DOMAIN policy.subPositionals
                THEN policy.subPositionals[sub] ELSE policy.positionals
        flags == effectiveFlags(policy, sub)
        tokens == tokenizeArgs(rest, flags, policy)
        own == Positionals(tokens)
        verbs == sub \in DOMAIN policy.verbs
        operands == IF verbs /\ own # <<>> THEN Tail(own) ELSE own
        flagFits(t) == /\ \/ flagKind(flags, t.name) # "unknown"
                          \/ policy.numeric /\ t.name = "-5"
                       /\ t.name \in policy.refs => t.value # "at"
                       /\ t.name \in DOMAIN policy.never =>
                            t.value \notin policy.never[t.name]
                       /\ t.value # "none" => isAllowedValue(policy, t)
        fits == /\ policy.subs # {} => sub \in policy.subs
                /\ \A t \in Range(tokens) : t.kind = "flag" => flagFits(t)
                /\ verbs => (own # <<>> /\ own[1].name \in policy.verbs[sub])
                /\ mode = "none" => operands = <<>>
                /\ mode = "url" => \A t \in Range(operands) : t.name = "url"
                /\ \A i \in DOMAIN operands :
                     isAllowedPositional(policy, operands[i].name, i)
    IN  IF ~fits THEN Denied
        ELSE [denied |-> FALSE,
              policy |-> [policy EXCEPT !.flags = flags, !.positionals = mode],
              tokens |-> {t \in Range(tokens) : t.kind # "positional"} \cup Range(operands)]

isVersionQuery(cmd, args, source) ==
    args = <<Long("--version", "none")>> /\ source # "config"
        /\ cmd \in DOMAIN DEFAULT_POLICIES

(* What an argument holds, in whatever part of it: a pattern is looked for *)
(* in the whole argument.                                                  *)
Holds(a) == {a.name, a.rest} \cup Range(a.letters)
            \cup (IF "kv" \in {a.name, a.rest} THEN {"out"} ELSE {})

(* The name an argument is compared by with a list of blocked flags. *)
Blocked(a) == CASE a.form = "long" -> a.name
                [] a.form = "bundle" /\ Len(a.letters) = 1 /\ a.rest = "none" -> a.letters[1]
                [] OTHER -> "none"

(* What is read of the arguments, and under which policy. *)
NothingRead == [denied |-> FALSE, policy |-> Base, tokens |-> {}]
Checked(cmd, args, guard) ==
    LET policies == resolvePolicies(guard)
    IN  IF cmd \notin DOMAIN policies
        THEN [NothingRead EXCEPT !.tokens = tokenizePolicyless(Range(args))]
        ELSE IF isVersionQuery(cmd, args, policySource(guard, cmd)) THEN NothingRead
        ELSE checkPolicy(args, policies[cmd])

(* checkGuard, in its order; the outcome is "pass" or the reason. *)
checkGuard(cmd, args, guard) ==
    LET known == cmd \in DOMAIN resolvePolicies(guard)
        checked == Checked(cmd, args, guard)
        candidates == collectPathCandidates(checked.tokens, checked.policy, known)
    IN  IF cmd \notin guard.commands THEN "command_not_allowed"
        ELSE IF \E a \in Range(args) : Holds(a) \cap guard.patterns # {} THEN "injection_pattern"
        ELSE IF cmd \in DOMAIN guard.restrictions
                  /\ \E a \in Range(args) : Blocked(a) \in guard.restrictions[cmd]
             THEN "arg_not_allowed"
        ELSE IF ~known /\ cmd \in DOMAIN BUILD_PROFILE_POLICIES THEN "command_not_allowed"
        ELSE IF checked.denied THEN "arg_not_allowed"
        ELSE IF guard.paths # {} /\ (\/ ~isAllowedPath(cwd, guard.paths)
                                     \/ \E v \in candidates :
                                          ~isAllowedPath(Leads(v), guard.paths))
             THEN "path_not_allowed"
        ELSE "pass"
=============================================================================
