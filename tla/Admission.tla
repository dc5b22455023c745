------------------------------ MODULE Admission ------------------------------
(***************************************************************************)
(* A request under the configuration that was loaded: the guard's verdict  *)
(* and the arguments the program is started with (facade/engine.ts execute *)
(* calls checkGuard, then runs buildExecArgs).                             *)
(***************************************************************************)
EXTENDS Config

CONSTANT Requests            \* pairs of a command and its arguments

VARIABLES request, verdict, executed
vars == <<configVars, request, verdict, executed>>

AInit == Init /\ request = <<>> /\ verdict = "none" /\ executed = <<>>

guardOf(c) == [commands |-> c.commands, paths |-> c.paths, patterns |-> c.patterns,
               restrictions |-> c.restrictions, policies |-> c.policies,
               profile |-> c.profile]

Admit(r) ==
    /\ phase = "ready" /\ request = <<>>
    /\ request' = r
    /\ verdict' = checkGuard(r[1], r[2], guardOf(config))
    /\ executed' = IF verdict' = "pass" THEN buildExecArgs(r[1], r[2], guardOf(config))
                   ELSE <<>>
    /\ UNCHANGED configVars

Next == \/ Load /\ UNCHANGED <<request, verdict, executed>>
        \/ \E r \in Requests : Admit(r)
Spec == AInit /\ [][Next]_vars

policyOf(cmd) ==
    LET policies == resolvePolicies(guardOf(config))
    IN  IF cmd \in DOMAIN policies THEN policies[cmd] ELSE Base

(* PathsStayInside: with allowed paths no admitted argument after the      *)
(* subcommand names, on its own, as a flag's value or glued to one,        *)
(* anything that leads outside them, links resolved, but for text that is  *)
(* not a path. Arguments that no table reads, those of a command without a *)
(* policy and those passed on to a script, do so under no reading.         *)
LeadsOut(v) == ~isAllowedPath(Leads(v), config.paths)
PathsStayInside ==
    verdict = "pass" /\ config.paths # {} =>
      LET policy == policyOf(request[1])
          split == Split(request[2], policy)
          args == split.rest
          flags == effectiveFlags(policy, split.sub)
          role == Roles(args, flags)
          Verb(a) == split.sub \in DOMAIN policy.verbs /\ a.name \in policy.verbs[split.sub]
          Unread(i) == \/ request[1] \notin DOMAIN resolvePolicies(guardOf(config))
                       \/ policy.stop /\ \E j \in 1..(i - 1) : role[j] = "positional"
          Glued(a) == a.form = "long" \/ Valued(flags, a.letters) = Len(a.letters)
      IN  /\ isAllowedPath(cwd, config.paths)
          /\ \A i \in DOMAIN args : LET a == args[i] IN
               /\ a.form = "word" /\ ~Verb(a) => ~LeadsOut(a.name)
               /\ a.rest # "none" /\ (Unread(i) \/ (role[i] = "option" /\ Glued(a)))
                    => ~LeadsOut(a.rest)
               /\ a = Word("kv") /\ ~Verb(a)
                    /\ (Unread(i) \/ (role[i] = "positional" /\ ~policy.text))
                    => ~LeadsOut("out")

(* ExecutesWhatWasChecked: every argument of a program plays the part it   *)
(* had when it was checked: the letter e of ps is replaced as an option    *)
(* and never inside a value (under the table of ps that comes with it), and *)
(* what git and npx are given besides stands in front of, or right after,  *)
(* what was checked as the subcommand.                                     *)
ExecutesWhatWasChecked ==
    verdict = "pass" =>
      LET args == request[2]
          policy == policyOf(request[1])
      IN
      CASE request[1] = "ps" ->
             "ps" \notin DOMAIN config.policies =>
             LET roles == Roles(args, policy.flags)
             IN  /\ DOMAIN executed = DOMAIN args /\ Roles(executed, policy.flags) = roles
                 /\ \A i \in DOMAIN args :
                      IF roles[i] # "option" THEN executed[i] = args[i]
                      ELSE executed[i].rest = args[i].rest
                           /\ (Valued(policy.flags, args[i].letters) = 0
                                => "e" \notin Range(executed[i].letters))
        [] request[1] = "git" ->
             \E n \in 0..Len(args), mine \in {<<>>, <<Long("--no-textconv", "none")>>} :
               /\ executed = GIT_CONFIG_OVERRIDES \o SubSeq(args, 1, n) \o mine
                                \o SubSeq(args, n + 1, Len(args))
               /\ mine # <<>> /\ policy.subs # {}
                    => SubSeq(args, n + 1, Len(args)) = Split(args, policy).rest
        [] request[1] = "npx" -> executed = NPX_LOCAL_ONLY \o args
        [] OTHER -> executed = args
=============================================================================
