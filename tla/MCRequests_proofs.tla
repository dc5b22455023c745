-------------------------- MODULE MCRequests_proofs --------------------------
(***************************************************************************)
(* What holds of every request, whatever the layers, the contracts and the *)
(* requests are.                                                           *)
(***************************************************************************)
EXTENDS MCRequests, FiniteSetTheorems, SequenceTheorems, WellFoundedInduction, TLAPS

Limits == {"timeout", "output", "time", "memory"}
Fields == {"commands", "paths", "items", "page", "maxPage", "concurrency", "patterns",
           "restrictions", "policies", "profile", "secrets", "isolation", "caps",
           "thresholds", "strict", "telemetry"} \cup Limits

\* Every field has a value, and the limits are whole numbers.
Complete(c) == DOMAIN c = Fields /\ \A k \in Limits : c[k] \in Nat

\* A layer whose limits are whole numbers.
Measured(layer) == \A k \in DOMAIN layer \cap Limits : layer[k] \in Nat

\* The defaults for the restricted arguments have been filled in.
Filled(c) == DOMAIN A!Restrictions \subseteq DOMAIN c.restrictions

\* c permits nothing that w does not.
Narrower(c, w) ==
  /\ c.commands \subseteq w.commands
  /\ w.paths # {} => c.paths # {} /\ \A p \in c.paths : A!isAllowedPath(p, w.paths)
  /\ A!Stricter(c.timeout, w.timeout)
  /\ A!Stricter(c.output, w.output)
  /\ w.patterns \subseteq c.patterns
  /\ DOMAIN w.restrictions \subseteq DOMAIN c.restrictions
  /\ \A cmd \in DOMAIN w.restrictions : w.restrictions[cmd] \subseteq c.restrictions[cmd]
  /\ c.policies = w.policies
  /\ c.profile = w.profile
  /\ c.secrets = w.secrets
  /\ w.isolation = "worker" => c.isolation = "worker"
  /\ c.time <= w.time
  /\ c.memory <= w.memory
  /\ c.caps \subseteq w.caps

\* The layers are read in order; a project file nobody vouched for has left
\* less than there was, and an environment never undoes that.
LoadInv ==
  /\ Complete(config) /\ Complete(without)
  /\ phase \in {"global", "project", "env", "ready"}
  /\ phase # "global" => Filled(without)
  /\ phase \in {"global", "project"} => without = config
  /\ phase \in {"env", "ready"} /\ ~trusted => Narrower(config, without)

-----------------------------------------------------------------------------
LEMMA DefaultIsComplete == Complete(A!DEFAULT_CONFIG)
  BY DEF Complete, Fields, Limits, A!DEFAULT_CONFIG

\* What is valid of a file has whole numbers for limits.
LEMMA FilesAreMeasured ==
  \A file \in GlobalFiles \cup ProjectFiles : Measured(A!validateConfigLayer(file))
<1> SUFFICES ASSUME NEW file \in GlobalFiles \cup ProjectFiles,
                    NEW k \in DOMAIN A!validateConfigLayer(file) \cap Limits
             PROVE  A!validateConfigLayer(file)[k] \in Nat
  BY DEF Measured
<1>1. k \in DOMAIN file /\ file[k].ok /\ A!validateConfigLayer(file)[k] = file[k].v
  BY DEF A!validateConfigLayer, A!pickValid, A!Entries, A!Parts, Limits
<1> QED
  BY <1>1, LimitsAssumption DEF Limits

LEMMA EnvironmentsAreMeasured ==
  \A env \in Environments :
    Measured(A!envToConfig(env)) /\ DOMAIN A!envToConfig(env) \subseteq A!EnvFields
<1> SUFFICES ASSUME NEW env \in Environments
             PROVE  Measured(A!envToConfig(env)) /\ DOMAIN A!envToConfig(env) \subseteq A!EnvFields
  OBVIOUS
<1>1. DOMAIN A!envToConfig(env) \subseteq A!EnvFields
  BY DEF A!envToConfig, A!EnvFields
<1>2. ASSUME NEW k \in DOMAIN A!envToConfig(env) \cap Limits
      PROVE  A!envToConfig(env)[k] \in Nat
  <2>1. k \in DOMAIN env /\ env[k].ok /\ A!envToConfig(env)[k] = env[k].v
    BY DEF A!envToConfig, A!EnvFields, Limits
  <2> QED
    BY <2>1, LimitsAssumption DEF Limits
<1> QED
  BY <1>1, <1>2 DEF Measured

\* Merging a layer leaves a complete configuration, the defaults filled in.
LEMMA MergeCompletes ==
  ASSUME NEW base, NEW layer, Complete(base), Measured(layer)
  PROVE  Complete(A!mergeConfig(base, layer)) /\ Filled(A!mergeConfig(base, layer))
<1> DEFINE m == A!mergeConfig(base, layer)
<1>1. DOMAIN m = Fields
  BY DEF Complete, A!mergeConfig, A!mergeGuardConfig
<1>2. \A k \in Limits : m[k] \in Nat
  BY DEF Complete, Measured, Limits, Fields, A!mergeConfig, A!mergeGuardConfig
<1>3. Filled(m)
  BY DEF Complete, Filled, Fields, A!mergeConfig, A!mergeGuardConfig, A!Over
<1> QED
  BY <1>1, <1>2, <1>3 DEF Complete
-----------------------------------------------------------------------------
LEMMA NarrowLimitIsStricter ==
  ASSUME NEW a \in Nat, NEW b \in Nat
  PROVE  A!narrowLimit(a, b) \in Nat /\ A!Stricter(A!narrowLimit(a, b), a)
<1>1. A!Min({a, b}) \in {a, b} /\ A!Min({a, b}) <= a
  <2>1. \E x \in {a, b} : \A y \in {a, b} : x <= y
    OBVIOUS
  <2> QED
    BY <2>1 DEF A!Min
<1> QED
  BY <1>1 DEF A!narrowLimit, A!Stricter

LEMMA AllowedIsReflexive ==
  ASSUME NEW roots, NEW p \in roots
  PROVE  A!isAllowedPath(p, roots)
  BY DEF A!isAllowedPath, A!isWithin

\* The paths that remain are real ones, each inside a path there was.
LEMMA NarrowedPathsAreAllowed ==
  ASSUME NEW base, NEW project, base # {}
  PROVE  /\ A!narrowAllowedPaths(base, project) # {}
         /\ \A p \in A!narrowAllowedPaths(base, project) : A!isAllowedPath(p, base)
<1> DEFINE inside == {A!realPathOf(p) : p \in
                      {p \in project : \E r \in base : A!isWithin(A!realPathOf(p), A!realPathOf(r))}}
<1>1. \A p \in inside : A!isAllowedPath(p, base)
  BY DEF A!isAllowedPath, A!realPathOf
<1>2. A!narrowAllowedPaths(base, project) = IF inside = {} THEN base ELSE inside
  BY DEF A!narrowAllowedPaths
<1> QED
  BY <1>1, <1>2, AllowedIsReflexive

\* Narrowing leaves a complete configuration that permits nothing new.
LEMMA NarrowNarrows ==
  ASSUME NEW base, NEW layer, Complete(base), Filled(base), Measured(layer)
  PROVE  Complete(A!narrow(base, layer)) /\ Narrower(A!narrow(base, layer), base)
<1> DEFINE n == A!narrow(base, layer)
<1>1. /\ DOMAIN n = Fields
      /\ \A k \in Fields : n[k] = IF k \in DOMAIN layer THEN A!narrowed(base, k, layer[k])
                                  ELSE base[k]
  BY DEF Complete, A!narrow
<1>2. \A k \in Limits : n[k] \in Nat
  <2>1. \A k \in {"timeout", "output"} : k \in DOMAIN layer => A!narrowed(base, k, layer[k]) \in Nat
    BY NarrowLimitIsStricter DEF Complete, Measured, Limits, A!narrowed, A!narrowTimeout
  <2>2. \A k \in {"time", "memory"} : k \in DOMAIN layer => A!narrowed(base, k, layer[k]) \in Nat
    BY DEF Complete, Measured, Limits, A!narrowed
  <2> QED
    BY <1>1, <2>1, <2>2 DEF Complete, Fields, Limits
<1>3. /\ n.commands \subseteq base.commands
      /\ base.patterns \subseteq n.patterns
      /\ n.caps \subseteq base.caps
      /\ n.policies = base.policies
      /\ n.profile = base.profile
      /\ n.secrets = base.secrets
      /\ base.isolation = "worker" => n.isolation = "worker"
  BY <1>1 DEF Fields, A!narrowed
<1>4. base.paths # {} => n.paths # {} /\ \A p \in n.paths : A!isAllowedPath(p, base.paths)
  BY <1>1, NarrowedPathsAreAllowed, AllowedIsReflexive DEF Fields, A!narrowed
<1>5. A!Stricter(n.timeout, base.timeout) /\ A!Stricter(n.output, base.output)
  <2>1. A!Stricter(base.timeout, base.timeout) /\ A!Stricter(base.output, base.output)
    BY DEF Complete, Limits, A!Stricter
  <2>2. "timeout" \in DOMAIN layer => A!Stricter(A!narrowed(base, "timeout", layer["timeout"]), base.timeout)
    BY NarrowLimitIsStricter DEF Complete, Measured, Limits, A!narrowed, A!narrowTimeout
  <2>3. "output" \in DOMAIN layer => A!Stricter(A!narrowed(base, "output", layer["output"]), base.output)
    BY NarrowLimitIsStricter DEF Complete, Measured, Limits, A!narrowed
  <2> QED
    BY <1>1, <2>1, <2>2, <2>3 DEF Fields, Limits
<1>6. /\ DOMAIN base.restrictions \subseteq DOMAIN n.restrictions
      /\ \A cmd \in DOMAIN base.restrictions : base.restrictions[cmd] \subseteq n.restrictions[cmd]
  BY <1>1 DEF Fields, A!narrowed, A!narrowArgRestrictions
<1>7. n.time <= base.time /\ n.memory <= base.memory
  BY <1>1 DEF Complete, Measured, Fields, Limits, A!narrowed
<1> QED
  BY <1>1, <1>2, <1>3, <1>4, <1>5, <1>6, <1>7 DEF Complete, Narrower

\* The environment says the same of both, and what it leaves alone stays.
LEMMA EnvironmentKeepsNarrower ==
  ASSUME NEW c, NEW w, NEW layer, Complete(c), Complete(w), Filled(w), Narrower(c, w),
         Measured(layer), DOMAIN layer \subseteq A!EnvFields
  PROVE  Narrower(A!mergeConfig(c, layer), A!mergeConfig(w, layer))
<1> DEFINE d == A!mergeConfig(c, layer)
           v == A!mergeConfig(w, layer)
<1>1. \A k \in Fields \ {"restrictions", "secrets", "page", "thresholds", "policies"} :
         /\ d[k] = IF k \in DOMAIN layer THEN layer[k] ELSE c[k]
         /\ v[k] = IF k \in DOMAIN layer THEN layer[k] ELSE w[k]
  BY DEF Complete, A!mergeConfig, A!mergeGuardConfig
<1>2. /\ d.restrictions = A!Over(c.restrictions, A!Restrictions)
      /\ v.restrictions = A!Over(w.restrictions, A!Restrictions)
      /\ d.secrets = A!Over(c.secrets, A!Secrets) /\ v.secrets = A!Over(w.secrets, A!Secrets)
      /\ d.policies = c.policies /\ v.policies = w.policies
  BY DEF Complete, Fields, A!EnvFields, A!mergeConfig, A!mergeGuardConfig
<1>3. /\ DOMAIN v.restrictions \subseteq DOMAIN d.restrictions
      /\ \A cmd \in DOMAIN v.restrictions : v.restrictions[cmd] \subseteq d.restrictions[cmd]
  BY <1>2 DEF Narrower, Filled, A!Over
<1>4. v.paths # {} => d.paths # {} /\ \A p \in d.paths : A!isAllowedPath(p, v.paths)
  BY <1>1, AllowedIsReflexive DEF Narrower, Fields
<1>5. A!Stricter(d.timeout, v.timeout) /\ A!Stricter(d.output, v.output)
  BY <1>1 DEF Narrower, Fields, Limits, Measured, A!Stricter
<1>6. d.time <= v.time /\ d.memory <= v.memory
  BY <1>1 DEF Narrower, Fields, Limits, A!EnvFields
<1>7. /\ d.commands \subseteq v.commands /\ v.patterns \subseteq d.patterns
      /\ d.caps \subseteq v.caps /\ d.profile = v.profile
      /\ d.policies = v.policies /\ d.secrets = v.secrets
      /\ v.isolation = "worker" => d.isolation = "worker"
  BY <1>1, <1>2 DEF Narrower, Fields, A!EnvFields
<1> QED
  BY <1>3, <1>4, <1>5, <1>6, <1>7 DEF Narrower
-----------------------------------------------------------------------------
LEMMA LoadInitially == MCInit => LoadInv
  BY DefaultIsComplete DEF MCInit, A!AInit, A!Init, LoadInv

LEMMA LoadStep == LoadInv /\ [MCNext]_allVars => LoadInv'
<1> SUFFICES ASSUME LoadInv, [MCNext]_allVars PROVE LoadInv'
  OBVIOUS
<1>1. ASSUME UNCHANGED <<config, trusted, without, phase>> PROVE LoadInv'
  BY <1>1 DEF LoadInv
<1>2. ASSUME NEW file \in GlobalFiles, NEW trust \in BOOLEAN, A!ReadGlobal(file, trust)
      PROVE  LoadInv'
  BY <1>2, FilesAreMeasured, MergeCompletes DEF LoadInv, A!ReadGlobal
<1>3. ASSUME NEW file \in ProjectFiles, A!ReadProject(file) PROVE LoadInv'
  <2>1. Measured(A!validateConfigLayer(file))
    BY FilesAreMeasured
  <2>2. CASE trusted
    BY <1>3, <2>1, <2>2, MergeCompletes DEF LoadInv, A!ReadProject
  <2>3. CASE ~trusted
    BY <1>3, <2>1, <2>3, NarrowNarrows DEF LoadInv, A!ReadProject
  <2> QED
    BY <2>2, <2>3
<1>4. ASSUME NEW env \in Environments, A!ReadEnv(env) PROVE LoadInv'
  BY <1>4, EnvironmentsAreMeasured, MergeCompletes, EnvironmentKeepsNarrower DEF LoadInv, A!ReadEnv
<1>5. MCNext => A!Load \/ UNCHANGED <<config, trusted, without, phase>>
  BY DEF MCNext, Answering, Admitting, A!Next, A!Admit, admissionVars, A!configVars
<1> QED
  BY <1>1, <1>2, <1>3, <1>4, <1>5 DEF A!Load, allVars, admissionVars

\* A project file that the user did not vouch for makes nothing possible that
\* would not be possible without it, whatever the files and the environment
\* hold (loadConfigMultiLayer, narrowGuard, mergeGuardConfig).
THEOREM UntrustedNeverWidens == MCSpec => []UntrustedOnlyNarrows
<1>1. LoadInv => UntrustedOnlyNarrows
  BY DEF LoadInv, Narrower, UntrustedOnlyNarrows, A!UntrustedOnlyNarrows
<1> QED
  BY <1>1, LoadInitially, LoadStep, PTL DEF MCSpec
-----------------------------------------------------------------------------
(***************************************************************************)
(* What became of the output.                                              *)
(***************************************************************************)
Endings == {"none", "exit", "timeout", "spawn"}

\* What the parser is blamed with.
Blames == {"none", "unsupported_format", "unrecognized_output", "parser_exception",
           "schema_violation", "parser_not_found"}

\* The command's own failure is still the cause when the output is reviewed.
CauseInv ==
  /\ call.stage = "parse" => call.failure \in Endings
  /\ call.stage = "redact" /\ call.exec # "none" => call.failure \notin Blames
  /\ CauseIsKept

LEMMA RefusalsBlameTheProjection ==
  ASSUME NEW parsed, NEW p, NEW contract, NEW cap, ~ApplyProjection(parsed, p, contract, cap).ok
  PROVE  ApplyProjection(parsed, p, contract, cap).reason \notin Blames
  BY DEF ApplyProjection, PickTarget, Blames

\* A projection that failed is told apart from a reading that failed.
LEMMA FailedProjectionHasReason ==
  ASSUME NEW parsed, NEW p, NEW contract, ~Projected(parsed, p, contract).ok
  PROVE  Projected(parsed, p, contract).reason \notin Blames
<1>1. ~ApplyProjection(parsed, p, contract, MaxItems).ok
  BY DEF Projected
<1>2. Projected(parsed, p, contract).reason = ApplyProjection(parsed, p, contract, MaxItems).reason
  BY <1>1 DEF Projected
<1> QED
  BY <1>1, <1>2, RefusalsBlameTheProjection

LEMMA FailedCommandIsTheCause ==
  ASSUME NEW failure \in Endings \ {"none"}, NEW result, NEW value, NEW form, NEW stderrOnly,
         ~value.ok => value.reason \notin Blames
  PROVE  FailureOf(failure, result, value, form, stderrOnly) \notin Blames
  BY DEF FailureOf, Endings, Blames

LEMMA CauseStep == CauseInv /\ [MCNext]_allVars => CauseInv'
<1> SUFFICES ASSUME CauseInv, [MCNext]_allVars PROVE CauseInv'
  OBVIOUS
<1>1. ASSUME UNCHANGED <<call, answer>> PROVE CauseInv'
  BY <1>1 DEF CauseInv, CauseIsKept
<1>2. ASSUME UNCHANGED call, answer'.kind # "run" PROVE CauseInv'
  BY <1>2 DEF CauseInv, CauseIsKept
<1>3. ASSUME NEW cmd \in Commands, NEW req \in Requests, Execute(cmd, req) PROVE CauseInv'
  BY <1>3 DEF CauseInv, CauseIsKept, Execute, Endings
<1>4. ASSUME Parse PROVE CauseInv'
  <2>1. PICK result, value, form, stderrOnly, parsed, projection, contract :
          /\ call'.stage = "redact" /\ call'.exec = call.failure
          /\ value = Projected(parsed, projection, contract)
          /\ call'.failure = FailureOf(call.failure, result, value, form, stderrOnly)
    BY <1>4 DEF Parse
  <2>2. call.failure \in Endings /\ UNCHANGED answer
    BY <1>4 DEF CauseInv, Parse
  <2>3. ~value.ok => value.reason \notin Blames
    BY <2>1, FailedProjectionHasReason
  <2> QED
    BY <2>1, <2>2, <2>3, FailedCommandIsTheCause DEF CauseInv, CauseIsKept
<1>5. ASSUME Review PROVE CauseInv'
  BY <1>5 DEF CauseInv, CauseIsKept, Review, Idle, Blames
<1> QED
  BY <1>1, <1>2, <1>3, <1>4, <1>5
  DEF MCNext, Answering, Admitting, Next, LoadPack, Refuse, RefuseProjection, CompareKept, Explain,
      allVars, vars

\* A command that failed is answered with what made it fail, or with the
\* projection or the table that could not be made of its output, and never
\* with a verdict on the parser (Prism.run).
THEOREM CauseSurvives == MCSpec => []CauseIsKept
<1>1. MCInit => CauseInv
  BY DEF MCInit, Init, CauseInv, CauseIsKept, Idle
<1>2. CauseInv => CauseIsKept
  BY DEF CauseInv
<1> QED
  BY <1>1, <1>2, CauseStep, PTL DEF MCSpec
-----------------------------------------------------------------------------
\* The contract of an isolated pack says so, in whatever subcommand.
Marked(contract) ==
  /\ "isolated" \in DOMAIN contract /\ contract.isolated = TRUE
  /\ \A w \in DOMAIN Own(contract, "subs", <<>>) :
       "isolated" \notin DOMAIN Own(contract, "subs", <<>>)[w]

\* r says "nothing there" only of an output without a line of data.
Honest(r) ==
  r.failure = "none" /\ r.text \notin DOMAIN Natives
    /\ DataLines(r.text, ContractFor(registry[r.cmd], r.req.args)) # {}
    => ~IsDefaultValue(r.parsed)

\* Packs are loaded before the first run, so that the contract an output was
\* read under is the one it is judged by.
EmptinessInv ==
  /\ DOMAIN registry = Commands
  /\ \A cmd \in Commands : registry[cmd].worker => Marked(registry[cmd].contract)
  /\ call.stage = "parse" => /\ call.cmd \in Commands
                             /\ call.output.json = Own(Natives, call.output.text, Null)
  /\ call.stage = "redact" => stats # EmptyBag /\ Honest(call)
  /\ answer.kind = "run" => stats # EmptyBag /\ Honest(answer.run)

LEMMA ResolvedIsMarked ==
  ASSUME NEW contract, NEW args, Marked(contract)
  PROVE  LET k == ResolveContract(contract, args).contract
         IN  "isolated" \in DOMAIN k /\ k["isolated"] = TRUE
<1>1. ASSUME NEW start, NEW word, NEW n
      PROVE  LET k == Subcontract(contract, args, start, word, n).contract
             IN  "isolated" \in DOMAIN k /\ k["isolated"] = TRUE
  BY DEF Subcontract, Marked, Over, Own
<1> QED
  BY <1>1 DEF ResolveContract, ResolveAfter

\* What is accepted without asking the worker of an isolated pack had no value
\* and no word to ask about, so that its answer changes nothing.
LEMMA AcceptedUnasked ==
  ASSUME NEW eff, NEW t, NEW verdicts, "isolated" \in DOMAIN eff, eff["isolated"] = TRUE,
         Judge(eff, t, Unasked).accepted
  PROVE  Judge(eff, t, verdicts) = Judge(eff, t, Unasked)
  BY DEF Judge, Unasked, Own

LEMMA VerdictsChangeNothing ==
  ASSUME NEW entry, NEW args, entry.worker => Marked(entry.contract),
         CheckFormat(entry.contract, args, Unasked).accepted
  PROVE  CheckFormat(entry.contract, args, ValueVerdicts(entry, args))
           = CheckFormat(entry.contract, args, Unasked)
<1>1. CASE ~entry.worker
  BY <1>1 DEF ValueVerdicts
<1>2. CASE entry.worker
  BY <1>2, ResolvedIsMarked, AcceptedUnasked DEF CheckFormat, CheckResolved
<1> QED
  BY <1>1, <1>2

LEMMA ReadingIsNotSilent ==
  ASSUME NEW entry, NEW contract, NEW output, NEW read, NEW strict, output.json = Null,
         ReadOutput(entry, contract, output, read, strict).error = "none",
         ReadOutput(entry, contract, output, read, strict).parsed # Null
  PROVE  ~IsSilentEmpty(ReadOutput(entry, contract, output, read, strict).parsed,
                        output.text, contract)
  BY DEF ReadOutput, Failed

LEMMA ParsedIsNotSilent ==
  ASSUME NEW entry, entry.worker => Marked(entry.contract),
         NEW args, NEW output, NEW read, NEW strict, output.json = Null,
         ParseWithFallback(entry, args, output, read, strict).error = "none",
         ParseWithFallback(entry, args, output, read, strict).parsed # Null
  PROVE  ~IsSilentEmpty(ParseWithFallback(entry, args, output, read, strict).parsed,
                        output.text, ContractFor(entry, args))
<1> DEFINE f == CheckFormat(entry.contract, args, Unasked)
           result == ParseOnce(entry, args, output, read, strict)
<1>1. ParseWithFallback(entry, args, output, read, strict) = result
  BY DEF ParseWithFallback, Fallback
<1>2. CASE entry.contract = NoContract
  <2>1. result = ReadOutput(entry, NoContract, output, read, strict)
    BY <1>1, <1>2 DEF ParseOnce, Failed
  <2> QED
    BY <1>1, <1>2, <2>1, ReadingIsNotSilent DEF ContractFor
<1>3. CASE entry.contract # NoContract
  <2>1. /\ result = ReadOutput(entry, f.contract, output, read, strict)
        /\ f.accepted /\ ~f.throws
    BY <1>1, <1>3 DEF ParseOnce, Failed
  <2>2. ContractFor(entry, args) = f.contract
    BY <1>3, <2>1, VerdictsChangeNothing DEF ContractFor
  <2> QED
    BY <1>1, <2>1, <2>2, ReadingIsNotSilent
<1> QED
  BY <1>2, <1>3

LEMMA NothingPrinted == \A contract : DataLines(<<>>, contract) = {}
  BY DEF DataLines, Lines

\* An answer without a failure was read, or had nothing to read on stdout.
LEMMA FineAnswerWasRead ==
  ASSUME NEW failure, NEW result, NEW value, NEW form, NEW stderrOnly,
         ~value.ok => value.reason # "none",
         FailureOf(failure, result, value, form, stderrOnly) = "none"
  PROVE  stderrOnly \/ (result.error = "none" /\ result.parsed # Null)
  BY DEF FailureOf

LEMMA CountIsNotEmpty == \A cmd, outcome : Count(cmd, outcome) # EmptyBag
  BY DEF Count, (+), EmptyBag, SetToBag

LEMMA EmptinessStep == EmptinessInv /\ [MCNext]_allVars => EmptinessInv'
<1> SUFFICES ASSUME EmptinessInv, [MCNext]_allVars PROVE EmptinessInv'
  OBVIOUS
<1>1. ASSUME UNCHANGED <<registry, call, stats, answer>> PROVE EmptinessInv'
  BY <1>1 DEF EmptinessInv, Honest
<1>2. ASSUME UNCHANGED <<registry, call>>, call = Idle, answer'.kind # "run" PROVE EmptinessInv'
  BY <1>2 DEF EmptinessInv, Idle
<1>3. ASSUME NEW cmd \in Commands, LoadPack(cmd) PROVE EmptinessInv'
  <2>1. \A k \in Contracts : Marked(Over([isolated |-> TRUE], k))
    BY ContractsAssumption DEF Marked, Over, Own
  <2>2. /\ DOMAIN registry' = Commands
        /\ \A c \in Commands : registry'[c].worker => Marked(registry'[c].contract)
    BY <1>3, <2>1 DEF EmptinessInv, LoadPack, RegisteredPack, RegisteredIsolated
  <2> QED
    BY <1>3, <2>2 DEF EmptinessInv, LoadPack, Idle
<1>4. ASSUME NEW cmd \in Commands, NEW req \in Requests, Execute(cmd, req) PROVE EmptinessInv'
  <2>1. PICK seen : call'.output.text = seen /\ call'.output.json = Own(Natives, seen, Null)
    <3>1. PICK out, failure, cut :
            LET seen == IF cut THEN SubSeq(out.text, 1, CaptureCap) ELSE out.text
            IN  call' = [stage |-> "parse", cmd |-> cmd, req |-> req, printed |-> out.rows,
                         failure |-> failure, truncated |-> cut \/ failure = "timeout",
                         output |-> [text |-> seen, json |-> Own(Natives, seen, Null)]]
      BY <1>4 DEF Execute
    <3> QED
      BY <3>1
  <2>2. call'.stage = "parse" /\ call'.cmd = cmd /\ UNCHANGED <<registry, stats, answer>>
    BY <1>4 DEF Execute
  <2> QED
    BY <2>1, <2>2 DEF EmptinessInv, Honest
<1>5. ASSUME Parse PROVE EmptinessInv'
  <2>1. PICK result, value, form, stderrOnly, read, strict :
          /\ result = ParseWithFallback(registry[call.cmd], call.req.args, call.output, read, strict)
          /\ ~value.ok => value.reason \notin Blames
          /\ stderrOnly => call.output.text = <<>> /\ call.failure = "none"
          /\ call'.stage = "redact" /\ call'.cmd = call.cmd /\ call'.req = call.req
          /\ call'.text = call.output.text /\ call'.parsed = result.parsed
          /\ call'.failure = FailureOf(call.failure, result, value, form, stderrOnly)
    <3>1. PICK found, read, strict, lossless, stderrOnly, result, shape, value, form :
            /\ result = ParseWithFallback(registry[call.cmd], call.req.args, call.output, read, strict)
            /\ value = Projected(result.parsed, call.req.projection, shape)
            /\ stderrOnly => call.output.text = <<>> /\ call.failure = "none"
            /\ call'.stage = "redact" /\ call'.cmd = call.cmd /\ call'.req = call.req
            /\ call'.text = call.output.text /\ call'.parsed = result.parsed
            /\ call'.failure = FailureOf(call.failure, result, value, form, stderrOnly)
      BY <1>5, SMTT(90) DEF Parse
    <3>2. ~value.ok => value.reason \notin Blames
      BY <3>1, FailedProjectionHasReason
    <3> QED
      BY <3>1, <3>2
  <2>2. UNCHANGED <<registry, answer>> /\ stats' # EmptyBag
    BY <1>5, CountIsNotEmpty DEF Parse
  <2>3. Honest(call')
    <3> DEFINE entry == registry[call.cmd]
    <3> SUFFICES ASSUME call'.failure = "none", call'.text \notin DOMAIN Natives,
                        DataLines(call'.text, ContractFor(entry, call.req.args)) # {}
                 PROVE  ~IsDefaultValue(result.parsed)
      BY <2>1 DEF Honest
    <3>1. call.output.json = Null /\ (entry.worker => Marked(entry.contract))
      BY <1>5, <2>1 DEF EmptinessInv, Parse, Own
    <3>3. result.error = "none" /\ result.parsed # Null
      <4>1. ~value.ok => value.reason # "none"
        BY <2>1 DEF Blames
      <4>2. ~stderrOnly
        BY <2>1, NothingPrinted
      <4> QED
        BY <2>1, <4>1, <4>2, FineAnswerWasRead
    <3> QED
      BY <2>1, <3>1, <3>3, ParsedIsNotSilent DEF IsSilentEmpty
  <2> QED
    BY <2>1, <2>2, <2>3 DEF EmptinessInv, Honest
<1>6. ASSUME Review PROVE EmptinessInv'
  BY <1>6 DEF EmptinessInv, Review, Idle, Honest
<1> QED
  BY <1>1, <1>2, <1>3, <1>4, <1>5, <1>6
  DEF MCNext, Answering, Admitting, Next, Refuse, RefuseProjection, CompareKept, Explain,
      allVars, vars

\* "Nothing there" is never what an unreadable output looks like, whatever the
\* contract, the reader and the subcommand (isSilentEmpty, contractFor).
THEOREM EmptinessIsHonest == MCSpec => []HonestEmptiness
<1>1. ASSUME MCInit PROVE EmptinessInv
  <2>1. registry \in [Commands -> {Registered(NoReader, k) : k \in Contracts \cup {NoContract}}]
    BY <1>1 DEF MCInit, Init
  <2>2. \A k : Registered(NoReader, k).worker = FALSE
    BY DEF Registered, NoReader
  <2>3. call.stage = "idle" /\ answer.kind = "none"
    BY <1>1 DEF MCInit, Init, Idle
  <2> QED
    BY <2>1, <2>2, <2>3 DEF EmptinessInv
<1>2. EmptinessInv => HonestEmptiness
  BY DEF EmptinessInv, Honest, HonestEmptiness
<1> QED
  BY <1>1, <1>2, EmptinessStep, PTL DEF MCSpec
-----------------------------------------------------------------------------
(***************************************************************************)
(* How the guard reads an argument list.                                   *)
(***************************************************************************)

\* Every set of numbers has a least one.
LEMMA Least ==
  ASSUME NEW T, T \subseteq Nat, T # {} PROVE \E m \in T : \A n \in T : m <= n
<1> DEFINE Below == {p \in Nat \X Nat : p[1] < p[2]}
<1>1. IsWellFoundedOn(Below, Nat)
  BY NatLessThanWellFounded DEF OpToRel
<1>2. PICK m \in T : \A n \in T : <<n, m>> \notin Below
  BY <1>1, WFMin
<1>3. ASSUME NEW n \in T PROVE m <= n
  <2>1. n \in Nat /\ m \in Nat /\ ~(<<n, m>>[1] < <<n, m>>[2])
    BY <1>2
  <2> QED
    BY <2>1
<1> QED
  BY <1>3

\* A set of numbers that holds 0 and every successor of its members holds all.
LEMMA Induct ==
  ASSUME NEW T, 0 \in T, \A n \in Nat : n \in T => n + 1 \in T PROVE Nat \subseteq T
<1> SUFFICES ASSUME ~(Nat \subseteq T) PROVE FALSE
  OBVIOUS
<1>1. PICK m \in Nat \ T : \A n \in Nat \ T : m <= n
  BY Least
<1> QED
  BY <1>1, m - 1 \in Nat \/ m = 0

\* An argument, and a token of one.
Texts == STRING \cup {"none", "digit", "text", "letters", "dash"}
Token1 == [kind : {"flag", "positional", "passed"}, name : Texts, value : Texts,
           arg : A!Arguments \cup {A!EndOfFlags}]

Takes(flags, letter) == A!flagKind(flags, letter) \notin {"unknown", "bool"}

\* The first letter of a bundle that takes a value.
LEMMA FirstThatTakes ==
  ASSUME NEW flags, NEW letters \in Seq(STRING)
  PROVE  /\ A!Valued(flags, letters) \in 0 .. Len(letters)
         /\ A!Valued(flags, letters) # 0 => Takes(flags, letters[A!Valued(flags, letters)])
         /\ \A k \in 1 .. Len(letters) :
              A!Valued(flags, letters) = 0 \/ k < A!Valued(flags, letters)
                => ~Takes(flags, letters[k])
<1> DEFINE takes == {j \in DOMAIN letters : A!flagKind(flags, letters[j]) \notin {"unknown", "bool"}}
           first == CHOOSE j \in takes : \A k \in takes : j <= k
<1>1. A!Valued(flags, letters) = IF takes = {} THEN 0 ELSE first
  BY DEF A!Valued
<1>2. takes \subseteq Nat /\ takes \subseteq 1 .. Len(letters) /\ Len(letters) \in Nat
  OBVIOUS
<1>3. takes # {} => first \in takes /\ \A k \in takes : first <= k
  BY <1>2, Least
<1>4. \A k \in 1 .. Len(letters) : Takes(flags, letters[k]) <=> k \in takes
  BY DEF Takes
<1> HIDE DEF takes, first
<1>5. CASE takes = {}
  BY <1>1, <1>2, <1>4, <1>5
<1>6. CASE takes # {}
  <2>1. A!Valued(flags, letters) = first /\ first \in takes /\ first \in 1 .. Len(letters)
    BY <1>1, <1>2, <1>3, <1>6
  <2>2. ASSUME NEW k \in 1 .. Len(letters), k < first PROVE k \notin takes
    <3> SUFFICES ASSUME k \in takes PROVE FALSE
      OBVIOUS
    <3>1. first <= k /\ first \in Nat /\ k \in Nat
      BY <1>2, <1>3, <1>6
    <3> QED
      BY <2>2, <3>1
  <2> QED
    BY <1>2, <1>4, <2>1, <2>2
<1> QED
  BY <1>5, <1>6

\* What the i-th argument is for, when the ones before it are for h.
RoleAt(args, flags, h, i) ==
  IF \E j \in 1 .. (i - 1) : h[j] = "end" THEN "positional"
  ELSE IF i > 1 /\ h[i - 1] = "option" /\ A!Waits(flags, args[i - 1]) # "none"
          /\ A!consumesNext(flags, A!Waits(flags, args[i - 1]), args[i]) THEN "value"
  ELSE CASE args[i].form = "end" -> "end"
         [] args[i].form = "word" -> "positional"
         [] OTHER -> "option"

\* What an argument is for depends on the ones before it.
LEMMA RoleFromBefore ==
  ASSUME NEW args, NEW flags, NEW i \in Nat, NEW f, NEW h,
         \A j \in 1 .. (i - 1) : f[j] = h[j]
  PROVE  RoleAt(args, flags, f, i) = RoleAt(args, flags, h, i)
<1>1. (\E j \in 1 .. (i - 1) : f[j] = "end") <=> (\E j \in 1 .. (i - 1) : h[j] = "end")
  OBVIOUS
<1>2. i > 1 => f[i - 1] = h[i - 1]
  OBVIOUS
<1> QED
  BY <1>1, <1>2 DEF RoleAt

ByRole(args, flags, h) ==
  /\ h = [i \in DOMAIN args |-> h[i]]
  /\ \A i \in DOMAIN args : h[i] = RoleAt(args, flags, h, i)

\* Every argument has its role from the ones before it.
LEMMA RolesByPlace ==
  ASSUME NEW args, NEW n \in Nat, DOMAIN args = 1 .. n, NEW flags
  PROVE  ByRole(args, flags, A!Roles(args, flags))
<1> DEFINE body(f) == [i \in DOMAIN args |-> RoleAt(args, flags, f, i)]
           roles == CHOOSE f : f = body(f)
           Good(m, f) == \A k \in 1 .. m : f[k] = RoleAt(args, flags, f, k)
           T == {m \in Nat : \E f : Good(m, f)}
<1> HIDE DEF Good
<1>1. Nat \subseteq T
  <2>1. 0 \in T
    <3>1. Good(0, args)
      BY DEF Good
    <3> QED
      BY <3>1
  <2>2. ASSUME NEW m \in Nat, m \in T PROVE m + 1 \in T
    <3>1. PICK f : Good(m, f)
      BY <2>2
    <3> DEFINE h == [k \in 1 .. m + 1 |-> IF k = m + 1 THEN RoleAt(args, flags, f, k) ELSE f[k]]
    <3>2. ASSUME NEW k \in 1 .. m + 1 PROVE h[k] = RoleAt(args, flags, h, k)
      <4>1. \A j \in 1 .. (k - 1) : f[j] = h[j]
        OBVIOUS
      <4>2. RoleAt(args, flags, f, k) = RoleAt(args, flags, h, k)
        <5> HIDE DEF h
        <5> QED
          BY <4>1, RoleFromBefore
      <4>3. CASE k = m + 1
        BY <4>2, <4>3
      <4>4. CASE k # m + 1
        <5>1. f[k] = RoleAt(args, flags, f, k)
          BY <3>1, <4>4 DEF Good
        <5> QED
          BY <4>2, <4>4, <5>1
      <4> QED
        BY <4>3, <4>4
    <3> HIDE DEF h
    <3>3. Good(m + 1, h)
      BY <3>2 DEF Good
    <3> QED
      BY <3>3
  <2> HIDE DEF T
  <2> QED
    BY <2>1, <2>2, Induct
<1>2. PICK f : Good(n, f)
  BY <1>1
<1> DEFINE h == [i \in DOMAIN args |-> f[i]]
<1>3. h = body(h)
  <2>1. ASSUME NEW i \in DOMAIN args PROVE h[i] = RoleAt(args, flags, h, i)
    <3>1. i \in 1 .. n /\ \A j \in 1 .. (i - 1) : f[j] = h[j]
      OBVIOUS
    <3>2. f[i] = RoleAt(args, flags, f, i)
      BY <1>2, <3>1 DEF Good
    <3>3. RoleAt(args, flags, f, i) = RoleAt(args, flags, h, i)
      <4> HIDE DEF h
      <4> QED
        BY <3>1, RoleFromBefore
    <3> QED
      BY <3>2, <3>3
  <2> QED
    BY <2>1
<1> HIDE DEF h
<1>4. roles = body(roles)
  BY <1>3
<1>5. A!Roles(args, flags) = roles
  BY DEF A!Roles, RoleAt
<1> HIDE DEF roles
<1> QED
  BY <1>4, <1>5 DEF ByRole

\* Two lists of arguments that are alike, place by place, have the same roles.
LEMMA SameRoles ==
  ASSUME NEW args, NEW other, NEW n \in Nat, DOMAIN args = 1 .. n, DOMAIN other = 1 .. n,
         NEW flags,
         \A i \in 1 .. n : \A h : RoleAt(args, flags, h, i) = RoleAt(other, flags, h, i)
  PROVE  A!Roles(args, flags) = A!Roles(other, flags)
<1> DEFINE f == A!Roles(args, flags)
           h == A!Roles(other, flags)
           Differ == {i \in 1 .. n : f[i] # h[i]}
<1> HIDE DEF f, h
<1>1. f = [i \in 1 .. n |-> f[i]] /\ \A i \in 1 .. n : f[i] = RoleAt(args, flags, f, i)
  BY RolesByPlace DEF ByRole, f
<1>2. h = [i \in 1 .. n |-> h[i]] /\ \A i \in 1 .. n : h[i] = RoleAt(other, flags, h, i)
  BY RolesByPlace DEF ByRole, h
<1>3. SUFFICES ASSUME Differ # {} PROVE FALSE
  <2>1. \A i \in 1 .. n : f[i] = h[i]
    BY <1>3
  <2> QED
    BY <1>1, <1>2, <2>1 DEF f, h
<1>4. PICK i \in Differ : \A j \in Differ : i <= j
  <2>1. Differ \subseteq Nat
    OBVIOUS
  <2> QED
    BY <1>3, <2>1, Least
<1>5. \A j \in 1 .. (i - 1) : f[j] = h[j]
  <2>1. SUFFICES ASSUME NEW j \in 1 .. (i - 1), f[j] # h[j] PROVE FALSE
    OBVIOUS
  <2>2. j \in Differ /\ j < i
    BY <2>1
  <2> QED
    BY <1>4, <2>2
<1>6. RoleAt(args, flags, f, i) = RoleAt(args, flags, h, i)
  BY <1>5, RoleFromBefore
<1> QED
  BY <1>1, <1>2, <1>6

\* Which arguments are the value of the option before, when those before are.
TakenAt(args, flags, h, i) ==
  /\ i > 1 /\ ~h[i - 1]
  /\ args[i - 1].form # "word" /\ A!TakesNext(flags, args, i - 1)

\* Every argument is a value, or not, by the one before it.
LEMMA TakenByPlace ==
  ASSUME NEW args, NEW n \in Nat, DOMAIN args = 1 .. n, NEW flags
  PROVE  LET h == A!Taken(args, flags)
         IN  DOMAIN h = DOMAIN args /\ \A i \in DOMAIN args : h[i] = TakenAt(args, flags, h, i)
<1> DEFINE body(f) == [i \in DOMAIN args |-> TakenAt(args, flags, f, i)]
           taken == CHOOSE f : f = body(f)
           Good(m, f) == \A k \in 1 .. m : f[k] = TakenAt(args, flags, f, k)
           T == {m \in Nat : \E f : Good(m, f)}
<1> HIDE DEF Good
<1>1. Nat \subseteq T
  <2>1. 0 \in T
    <3>1. Good(0, args)
      BY DEF Good
    <3> QED
      BY <3>1
  <2>2. ASSUME NEW m \in Nat, m \in T PROVE m + 1 \in T
    <3>1. PICK f : Good(m, f)
      BY <2>2
    <3> DEFINE h == [k \in 1 .. m + 1 |-> IF k = m + 1 THEN TakenAt(args, flags, f, k) ELSE f[k]]
    <3>2. ASSUME NEW k \in 1 .. m + 1 PROVE h[k] = TakenAt(args, flags, h, k)
      <4>1. TakenAt(args, flags, f, k) = TakenAt(args, flags, h, k)
        <5>1. k > 1 => f[k - 1] = h[k - 1]
          OBVIOUS
        <5> HIDE DEF h
        <5> QED
          BY <5>1 DEF TakenAt
      <4>3. CASE k = m + 1
        BY <4>1, <4>3
      <4>4. CASE k # m + 1
        <5>1. f[k] = TakenAt(args, flags, f, k)
          BY <3>1, <4>4 DEF Good
        <5> QED
          BY <4>1, <4>4, <5>1
      <4> QED
        BY <4>3, <4>4
    <3> HIDE DEF h
    <3>3. Good(m + 1, h)
      BY <3>2 DEF Good
    <3> QED
      BY <3>3
  <2> HIDE DEF T
  <2> QED
    BY <2>1, <2>2, Induct
<1>2. PICK f : Good(n, f)
  BY <1>1
<1> DEFINE h == [i \in DOMAIN args |-> f[i]]
<1>3. h = body(h)
  <2>1. ASSUME NEW i \in DOMAIN args PROVE h[i] = TakenAt(args, flags, h, i)
    <3>1. i \in 1 .. n /\ (i > 1 => f[i - 1] = h[i - 1])
      OBVIOUS
    <3>2. f[i] = TakenAt(args, flags, f, i)
      BY <1>2, <3>1 DEF Good
    <3>3. TakenAt(args, flags, f, i) = TakenAt(args, flags, h, i)
      <4> HIDE DEF h
      <4> QED
        BY <3>1 DEF TakenAt
    <3> QED
      BY <3>2, <3>3
  <2> QED
    BY <2>1
<1> HIDE DEF h
<1>4. taken = body(taken)
  BY <1>3
<1>5. A!Taken(args, flags) = taken
  BY DEF A!Taken, TakenAt
<1> HIDE DEF taken
<1> QED
  BY <1>4, <1>5

\* The tokens from the i-th argument on, when those of the ones after it are h.
TokenAt(args, flags, policy, h, i) == [options \in {"open", "ended"} |->
  IF i > Len(args) THEN <<>>
  ELSE LET a == args[i] IN
    IF options = "ended" \/ a.form = "word" THEN
      <<A!ParsedArg("positional", A!Text(a), "none")>> \o
        (IF policy.stop THEN [j \in 1 .. (Len(args) - i) |-> A!Passed(args[i + j])]
         ELSE h[i + 1][options])
    ELSE IF a.form = "end" THEN h[i + 1]["ended"]
    ELSE IF a.form = "num" /\ policy.numeric THEN
      <<A!ParsedArg("flag", a.name, "none")>> \o h[i + 1]["open"]
    ELSE IF A!TakesNext(flags, args, i) THEN
      A!FlagTokens(flags, a, A!Text(args[i + 1])) \o h[i + 2]["open"]
    ELSE A!FlagTokens(flags, a, "none") \o h[i + 1]["open"]]

\* The tokens from an argument on depend on the arguments after it.
LEMMA TokensFromAfter ==
  ASSUME NEW args, Len(args) \in Nat, NEW flags, NEW policy, NEW i \in 1 .. Len(args) + 1,
         NEW f, NEW h, \A j \in (i + 1) .. (Len(args) + 1) : f[j] = h[j]
  PROVE  TokenAt(args, flags, policy, f, i) = TokenAt(args, flags, policy, h, i)
<1>1. i <= Len(args) => f[i + 1] = h[i + 1]
  OBVIOUS
<1>2. A!TakesNext(flags, args, i) => f[i + 2] = h[i + 2]
  <2>1. A!TakesNext(flags, args, i) => i < Len(args)
    BY DEF A!TakesNext
  <2>2. i < Len(args) => i + 2 \in (i + 1) .. (Len(args) + 1)
    OBVIOUS
  <2> QED
    BY <2>1, <2>2
<1>3. i > Len(args) \/ i <= Len(args)
  OBVIOUS
<1>4. CASE i > Len(args)
  BY <1>4, Zenon DEF TokenAt
<1>5. CASE i <= Len(args) /\ A!TakesNext(flags, args, i)
  BY <1>1, <1>2, <1>5, Zenon DEF TokenAt
<1>6. CASE i <= Len(args) /\ ~A!TakesNext(flags, args, i)
  BY <1>1, <1>6, Zenon DEF TokenAt
<1> QED
  BY <1>3, <1>4, <1>5, <1>6

ByToken(args, flags, policy, h) ==
  \A i \in 1 .. Len(args) + 1 : h[i] = TokenAt(args, flags, policy, h, i)

\* The tokens from an argument on come from the arguments after it.
LEMMA TokensByPlace ==
  ASSUME NEW args, NEW n \in Nat, Len(args) = n, NEW flags, NEW policy
  PROVE  ByToken(args, flags, policy, A!TokensFrom(args, flags, policy))
<1> DEFINE body(f) == [i \in 1 .. (Len(args) + 1) |-> TokenAt(args, flags, policy, f, i)]
           tokens == CHOOSE f : f = body(f)
           Good(m, f) ==
             \A k \in 1 .. n + 1 : k >= n + 2 - m => f[k] = TokenAt(args, flags, policy, f, k)
           T == {m \in Nat : \E f : Good(m, f)}
<1> HIDE DEF Good
<1>1. Nat \subseteq T
  <2>1. 0 \in T
    <3>1. Good(0, args)
      BY DEF Good
    <3> QED
      BY <3>1
  <2>2. ASSUME NEW m \in Nat, m \in T PROVE m + 1 \in T
    <3>1. PICK f : Good(m, f)
      BY <2>2
    <3> DEFINE p == n + 1 - m
               h == [k \in 1 .. n + 1 |->
                       IF k = p THEN TokenAt(args, flags, policy, f, k) ELSE f[k]]
    <3>2. ASSUME NEW k \in 1 .. n + 1, k >= n + 2 - (m + 1)
          PROVE  h[k] = TokenAt(args, flags, policy, h, k)
      <4>1. \A j \in (k + 1) .. (Len(args) + 1) : f[j] = h[j]
        BY <3>2
      <4>2. TokenAt(args, flags, policy, f, k) = TokenAt(args, flags, policy, h, k)
        <5> HIDE DEF h
        <5> QED
          BY <4>1, TokensFromAfter
      <4>3. CASE k = p
        BY <4>2, <4>3
      <4>4. CASE k # p
        <5>1. k >= n + 2 - m
          BY <3>2, <4>4
        <5>2. f[k] = TokenAt(args, flags, policy, f, k)
          BY <3>1, <5>1 DEF Good
        <5> QED
          BY <4>2, <4>4, <5>2
      <4> QED
        BY <4>3, <4>4
    <3> HIDE DEF h
    <3>3. Good(m + 1, h)
      BY <3>2 DEF Good
    <3> QED
      BY <3>3
  <2> HIDE DEF T
  <2> QED
    BY <2>1, <2>2, Induct
<1>2. PICK f : Good(n + 1, f)
  BY <1>1
<1> DEFINE h == [i \in 1 .. (Len(args) + 1) |-> f[i]]
<1>3. h = body(h)
  <2>1. ASSUME NEW i \in 1 .. (Len(args) + 1) PROVE h[i] = TokenAt(args, flags, policy, h, i)
    <3>1. \A j \in (i + 1) .. (Len(args) + 1) : f[j] = h[j]
      OBVIOUS
    <3>2. f[i] = TokenAt(args, flags, policy, f, i)
      BY <1>2 DEF Good
    <3>3. TokenAt(args, flags, policy, f, i) = TokenAt(args, flags, policy, h, i)
      <4> HIDE DEF h
      <4> QED
        BY <3>1, TokensFromAfter
    <3> QED
      BY <3>2, <3>3
  <2> QED
    BY <2>1
<1> HIDE DEF h
<1>4. tokens = body(tokens)
  BY <1>3
<1>5. A!TokensFrom(args, flags, policy) = tokens
  BY DEF A!TokensFrom, TokenAt
<1> HIDE DEF tokens
<1> QED
  BY <1>4, <1>5 DEF ByToken

\* What the reading builds are tokens.
LEMMA ParsedIsToken ==
  ASSUME NEW kind \in {"flag", "positional", "passed"}, NEW name \in Texts, NEW value \in Texts
  PROVE  A!ParsedArg(kind, name, value) \in Token1
  BY DEF A!ParsedArg, Token1

\* The texts that the model itself writes.
LEMMA LiteralTexts == {"none", "digit", "text", "letters", "dash"} \subseteq Texts
  BY DEF Texts

\* An argument that is passed on is a token of its own.
LEMMA PassedIsToken == \A a \in A!Arguments : A!Passed(a) \in Token1
  BY LiteralTexts DEF A!Passed, Token1

\* The fields of an argument.
LEMMA ArgumentIsRead ==
  ASSUME NEW a \in A!Arguments
  PROVE  /\ a.form \in {"word", "long", "bundle", "num", "end"} /\ a.letters \in Seq(STRING)
         /\ a.name \in STRING /\ a.rest \in STRING
         /\ a.name \in Texts /\ a.rest \in Texts /\ A!Text(a) \in Texts
         /\ a.letters # <<>> <=> a.form = "bundle"
         /\ a.rest # "none" => a.form \in {"long", "bundle"}
<1>1. /\ a \in [form : {"word", "long", "bundle", "num", "end"}, name : STRING,
                letters : Seq(STRING), rest : STRING]
      /\ a.letters # <<>> <=> a.form = "bundle"
      /\ a.rest # "none" => a.form \in {"long", "bundle"}
  BY Zenon DEF A!Arguments
<1>2. /\ a.form \in {"word", "long", "bundle", "num", "end"} /\ a.letters \in Seq(STRING)
      /\ a.name \in STRING /\ a.rest \in STRING
  BY <1>1
<1>3. a.name \in Texts /\ a.rest \in Texts /\ "dash" \in Texts
  BY <1>2 DEF Texts
<1>4. A!Text(a) \in Texts
  BY <1>3 DEF A!Text
<1> QED
  BY <1>1, <1>2, <1>3, <1>4, Zenon

\* The tokens of one option: the letters before the one that takes a value,
\* and that letter with its value.
LEMMA TokensOfOption ==
  ASSUME NEW flags, NEW a \in A!Arguments, NEW next \in Texts
  PROVE  A!FlagTokens(flags, a, next) \in Seq(Token1)
<1> DEFINE v == A!Valued(flags, a.letters)
           m == IF v = 0 THEN Len(a.letters) ELSE v - 1
           plain == [j \in 1 .. m |-> A!ParsedArg("flag", a.letters[j], "none")]
<1>1. a.name \in Texts /\ a.rest \in Texts /\ a.letters \in Seq(STRING)
  BY ArgumentIsRead
<1>2. CASE a.form \in {"long", "num"}
  <2>1. A!FlagTokens(flags, a, next)
          = <<A!ParsedArg("flag", IF a.form = "long" THEN a.name ELSE "digit",
                          IF a.form = "num" THEN "none" ELSE IF a.rest # "none" THEN a.rest ELSE next)>>
    BY <1>2 DEF A!FlagTokens
  <2>2. A!ParsedArg("flag", IF a.form = "long" THEN a.name ELSE "digit",
                    IF a.form = "num" THEN "none" ELSE IF a.rest # "none" THEN a.rest ELSE next) \in Token1
    BY <1>1, ParsedIsToken, LiteralTexts
  <2> QED
    BY <2>1, <2>2
<1>3. CASE a.form \notin {"long", "num"}
  <2>1. v \in 0 .. Len(a.letters) /\ Len(a.letters) \in Nat /\ m \in Nat /\ m <= Len(a.letters)
    BY <1>1, FirstThatTakes
  <2>2. \A j \in 1 .. m : a.letters[j] \in Texts
    BY <1>1, <2>1 DEF Texts
  <2>3. \A j \in 1 .. m : A!ParsedArg("flag", a.letters[j], "none") \in Token1
    BY <2>2, ParsedIsToken, LiteralTexts
  <2>4. plain \in Seq(Token1)
    BY <2>1, <2>3
  <2>5. A!ParsedArg("flag", "text", "none") \in Token1
    BY ParsedIsToken, LiteralTexts
  <2>6. v # 0 => A!ParsedArg("flag", a.letters[v],
                   IF v < Len(a.letters) THEN "letters"
                   ELSE IF a.rest # "none" THEN a.rest ELSE next) \in Token1
    <3>1. v # 0 => a.letters[v] \in Texts
      BY <1>1, <2>1 DEF Texts
    <3> QED
      BY <1>1, <3>1, ParsedIsToken, LiteralTexts
  <2>7. A!FlagTokens(flags, a, next)
          = IF v = 0
            THEN plain \o (IF a.rest = "none" THEN <<>> ELSE <<A!ParsedArg("flag", "text", "none")>>)
            ELSE Append(plain, A!ParsedArg("flag", a.letters[v],
                   IF v < Len(a.letters) THEN "letters"
                   ELSE IF a.rest # "none" THEN a.rest ELSE next))
    BY <1>3 DEF A!FlagTokens
  <2> HIDE DEF v, m, plain
  <2> QED
    BY <2>4, <2>5, <2>6, <2>7
<1> QED
  BY <1>2, <1>3

\* Two lists put together hold what each held.
LEMMA RangeOfBoth ==
  ASSUME NEW U, NEW s \in Seq(U), NEW t \in Seq(U)
  PROVE  A!Range(s) \subseteq A!Range(s \o t) /\ A!Range(t) \subseteq A!Range(s \o t)
<1>1. \A i \in DOMAIN s : i \in DOMAIN (s \o t) /\ (s \o t)[i] = s[i]
  OBVIOUS
<1>2. \A i \in DOMAIN t : Len(s) + i \in DOMAIN (s \o t) /\ (s \o t)[Len(s) + i] = t[i]
  OBVIOUS
<1> QED
  BY <1>1, <1>2, Zenon DEF A!Range

\* A list of one holds it.
LEMMA RangeOfOne == \A e : e \in A!Range(<<e>>)
  BY DEF A!Range

\* An option with the value v is among the tokens.
Given(tokens, v) == \E t \in A!Range(tokens) : t.kind = "flag" /\ t.value = v

\* An option whose value is the last token is given.
LEMMA LastIsGiven ==
  ASSUME NEW s \in Seq(Token1), NEW name \in Texts, NEW v \in Texts
  PROVE  Given(Append(s, A!ParsedArg("flag", name, v)), v)
<1> DEFINE t == A!ParsedArg("flag", name, v)
<1>1. t.kind = "flag" /\ t.value = v
  BY DEF A!ParsedArg
<1>2. Append(s, t)[Len(s) + 1] = t /\ Len(s) + 1 \in DOMAIN Append(s, t)
  OBVIOUS
<1> HIDE DEF t
<1> QED
  BY <1>1, <1>2, Zenon DEF Given, A!Range, t

\* The value that is glued to an option, and the one it takes from the next
\* argument, are values of its tokens.
LEMMA ValueIsGiven ==
  ASSUME NEW flags, NEW a \in A!Arguments, NEW next \in Texts
  PROVE  /\ a.rest # "none" /\ (a.form = "long" \/ A!Valued(flags, a.letters) = Len(a.letters))
              => Given(A!FlagTokens(flags, a, next), a.rest)
         /\ A!Waits(flags, a) # "none" => Given(A!FlagTokens(flags, a, next), next)
<1> DEFINE v == A!Valued(flags, a.letters)
           plain == [j \in 1 .. (v - 1) |-> A!ParsedArg("flag", a.letters[j], "none")]
           value == IF a.rest # "none" THEN a.rest ELSE next
<1>1. /\ a.name \in Texts /\ a.rest \in Texts /\ a.letters \in Seq(STRING)
      /\ a.rest # "none" => a.form \in {"long", "bundle"}
      /\ a.letters # <<>> <=> a.form = "bundle"
  BY ArgumentIsRead
<1>2. value \in Texts
  BY <1>1
<1>3. ASSUME a.form = "long" PROVE Given(A!FlagTokens(flags, a, next), value)
  <2>1. A!FlagTokens(flags, a, next) = <<A!ParsedArg("flag", a.name, value)>>
    BY <1>3 DEF A!FlagTokens
  <2>2. <<>> \in Seq(Token1) /\ Append(<<>>, A!ParsedArg("flag", a.name, value))
                                  = <<A!ParsedArg("flag", a.name, value)>>
    OBVIOUS
  <2> HIDE DEF value
  <2> QED
    BY <1>1, <1>2, <2>1, <2>2, LastIsGiven
<1>4. ASSUME a.form = "bundle", v = Len(a.letters) PROVE Given(A!FlagTokens(flags, a, next), value)
  <2>1. v \in Nat /\ v # 0 /\ v \in DOMAIN a.letters
    BY <1>1, <1>4
  <2>2. A!FlagTokens(flags, a, next) = Append(plain, A!ParsedArg("flag", a.letters[v], value))
    BY <1>4, <2>1 DEF A!FlagTokens
  <2>3. a.letters[v] \in Texts /\ \A j \in 1 .. (v - 1) : a.letters[j] \in Texts
    BY <1>1, <1>4, <2>1 DEF Texts
  <2>4. plain \in Seq(Token1)
    <3>1. \A j \in 1 .. (v - 1) : A!ParsedArg("flag", a.letters[j], "none") \in Token1
      BY <2>3, ParsedIsToken, LiteralTexts
    <3> QED
      BY <2>1, <3>1
  <2> HIDE DEF value, plain, v
  <2> QED
    BY <1>2, <2>2, <2>3, <2>4, LastIsGiven
<1>5. A!Waits(flags, a) # "none" =>
        a.rest = "none" /\ (a.form = "long" \/ (a.form = "bundle" /\ v = Len(a.letters)))
  BY DEF A!Waits
<1> QED
  BY <1>1, <1>3, <1>4, <1>5

\* What the tokens from the i-th argument on are, case by case.
TokenCases(args, flags, policy, h, i, options) ==
  LET a == args[i]
      read == A!ParsedArg("positional", A!Text(a), "none")
      digits == a.form = "num" /\ policy.numeric
  IN  /\ (options = "ended" \/ a.form = "word") /\ policy.stop
           => h[i][options] = <<read>> \o [j \in 1 .. (Len(args) - i) |-> A!Passed(args[i + j])]
      /\ (options = "ended" \/ a.form = "word") /\ ~policy.stop
           => h[i][options] = <<read>> \o h[i + 1][options]
      /\ options = "open" /\ a.form = "end" => h[i][options] = h[i + 1]["ended"]
      /\ options = "open" /\ digits
           => h[i][options] = <<A!ParsedArg("flag", a.name, "none")>> \o h[i + 1]["open"]
      /\ options = "open" /\ a.form \notin {"word", "end"} /\ ~digits /\ A!TakesNext(flags, args, i)
           => h[i][options] = A!FlagTokens(flags, a, A!Text(args[i + 1])) \o h[i + 2]["open"]
      /\ options = "open" /\ a.form \notin {"word", "end"} /\ ~digits /\ ~A!TakesNext(flags, args, i)
           => h[i][options] = A!FlagTokens(flags, a, "none") \o h[i + 1]["open"]

\* The cases of TokenCases are those of the reading.
LEMMA TokensByCase ==
  ASSUME NEW args, Len(args) \in Nat, NEW flags, NEW policy, NEW i \in 1 .. Len(args),
         NEW options \in {"open", "ended"}
  PROVE  TokenCases(args, flags, policy, A!TokensFrom(args, flags, policy), i, options)
<1> DEFINE h == A!TokensFrom(args, flags, policy)
<1>1. ~(i > Len(args)) /\ h[i] = TokenAt(args, flags, policy, h, i)
  <2>1. i \in 1 .. Len(args) + 1 /\ ~(i > Len(args))
    OBVIOUS
  <2> QED
    BY <2>1, TokensByPlace DEF ByToken
<1> HIDE DEF h
<1>2. h[i][options] = TokenAt(args, flags, policy, h, i)[options]
  BY <1>1
<1>3. TokenCases(args, flags, policy, h, i, options)
  BY <1>1, <1>2, Zenon DEF TokenAt, TokenCases
<1> QED
  BY <1>3 DEF h

\* The reading of a list of arguments is a list of tokens.
LEMMA TokensAreTokens ==
  ASSUME NEW args \in Seq(A!Arguments), NEW flags, NEW policy
  PROVE  \A i \in 1 .. Len(args) + 1, options \in {"open", "ended"} :
           A!TokensFrom(args, flags, policy)[i][options] \in Seq(Token1)
<1> DEFINE n == Len(args)
           h == A!TokensFrom(args, flags, policy)
           Good(k) == \A options \in {"open", "ended"} : h[k][options] \in Seq(Token1)
           T == {m \in Nat : \A k \in 1 .. n + 1 : k >= n + 1 - m => Good(k)}
<1>1. n \in Nat
  OBVIOUS
<1>2. Nat \subseteq T
  <2>1. 0 \in T
    <3>1. Good(n + 1)
      <4> HIDE DEF h
      <4> HIDE DEF h
      <4>1. h[n + 1] = TokenAt(args, flags, policy, h, n + 1) /\ n + 1 > Len(args)
        <5> HIDE DEF h
        <5>1. n + 1 \in 1 .. Len(args) + 1 /\ n + 1 > Len(args)
          BY <1>1
        <5>2. ByToken(args, flags, policy, h)
          BY <1>1, TokensByPlace DEF h
        <5> QED
          BY <5>1, <5>2 DEF ByToken
      <4>2. \A options \in {"open", "ended"} : h[n + 1][options] = <<>>
        <5> HIDE DEF h
        <5> QED
          BY <4>1, Zenon DEF TokenAt
      <4> QED
        <5> HIDE DEF h, n
        <5>1. <<>> \in Seq(Token1)
          OBVIOUS
        <5> QED
          BY <4>2, <5>1, Zenon
    <3> HIDE DEF Good
    <3> QED
      BY <1>1, <3>1
  <2>2. ASSUME NEW m \in Nat, m \in T PROVE m + 1 \in T
    <3>1. SUFFICES ASSUME NEW k \in 1 .. n, k = n - m PROVE Good(k)
      BY <1>1, <2>2
    <3>2. Good(k + 1) /\ (k + 2 <= n + 1 => Good(k + 2))
      BY <1>1, <2>2, <3>1
    <3>3. SUFFICES ASSUME NEW options \in {"open", "ended"} PROVE h[k][options] \in Seq(Token1)
      OBVIOUS
    <3> DEFINE a == args[k]
               read == A!ParsedArg("positional", A!Text(a), "none")
    <3>4. a \in A!Arguments /\ TokenCases(args, flags, policy, h, k, options)
      BY <1>1, TokensByCase
    <3>5. read \in Token1 /\ A!ParsedArg("flag", a.name, "none") \in Token1
      BY <3>4, ArgumentIsRead, ParsedIsToken, LiteralTexts
    <3>6. [j \in 1 .. (n - k) |-> A!Passed(args[k + j])] \in Seq(Token1)
      <4>1. n - k \in Nat /\ \A j \in 1 .. (n - k) : A!Passed(args[k + j]) \in Token1
        <5>1. \A j \in 1 .. (n - k) : args[k + j] \in A!Arguments
          BY <1>1
        <5> QED
          BY <1>1, <5>1, PassedIsToken
      <4> QED
        BY <4>1
    <3>7. A!FlagTokens(flags, a, "none") \in Seq(Token1)
      BY <3>4, TokensOfOption, LiteralTexts
    <3>8. A!TakesNext(flags, args, k) =>
            k + 2 <= n + 1 /\ A!FlagTokens(flags, a, A!Text(args[k + 1])) \in Seq(Token1)
      <4>1. SUFFICES ASSUME A!TakesNext(flags, args, k)
                     PROVE  k + 2 <= n + 1
                              /\ A!FlagTokens(flags, a, A!Text(args[k + 1])) \in Seq(Token1)
        OBVIOUS
      <4>2. k < n /\ args[k + 1] \in A!Arguments
        BY <1>1, <4>1 DEF A!TakesNext
      <4> QED
        BY <1>1, <3>4, <4>2, ArgumentIsRead, TokensOfOption
    <3>9. CASE (options = "ended" \/ a.form = "word") /\ policy.stop
      <4>1. h[k][options] = <<read>> \o [j \in 1 .. (n - k) |-> A!Passed(args[k + j])]
        BY <3>4, <3>9 DEF TokenCases
      <4> HIDE DEF read, n
      <4> QED
        BY <3>5, <3>6, <4>1
    <3>10. CASE (options = "ended" \/ a.form = "word") /\ ~policy.stop
      <4> HIDE DEF h
      <4>1. h[k][options] = <<read>> \o h[k + 1][options]
        BY <3>4, <3>10 DEF TokenCases
      <4> HIDE DEF read, n
      <4> QED
        BY <3>2, <3>5, <4>1
    <3>11. CASE options = "open" /\ a.form = "end"
      <4>1. h[k][options] = h[k + 1]["ended"]
        BY <3>4, <3>11 DEF TokenCases
      <4> HIDE DEF n
      <4> QED
        BY <3>2, <4>1
    <3>12. CASE options = "open" /\ a.form = "num" /\ policy.numeric
      <4> HIDE DEF h
      <4>1. h[k][options] = <<A!ParsedArg("flag", a.name, "none")>> \o h[k + 1]["open"]
        BY <3>4, <3>12 DEF TokenCases
      <4> HIDE DEF n
      <4> QED
        BY <3>2, <3>5, <4>1
    <3>13. CASE options = "open" /\ a.form \notin {"word", "end"} /\ ~(a.form = "num" /\ policy.numeric)
      <4> HIDE DEF h
      <4>1. CASE A!TakesNext(flags, args, k)
        <5>1. h[k][options] = A!FlagTokens(flags, a, A!Text(args[k + 1])) \o h[k + 2]["open"]
          BY <3>4, <3>13, <4>1 DEF TokenCases
        <5>2. h[k + 2]["open"] \in Seq(Token1)
          BY <3>2, <3>8, <4>1
        <5> HIDE DEF n, a
        <5> QED
          BY <3>8, <4>1, <5>1, <5>2
      <4>2. CASE ~A!TakesNext(flags, args, k)
        <5>1. h[k][options] = A!FlagTokens(flags, a, "none") \o h[k + 1]["open"]
          BY <3>4, <3>13, <4>2 DEF TokenCases
        <5>2. h[k + 1]["open"] \in Seq(Token1)
          BY <3>2
        <5> HIDE DEF n, a
        <5> QED
          BY <3>7, <5>1, <5>2
      <4> QED
        BY <4>1, <4>2
    <3> QED
      BY <3>9, <3>10, <3>11, <3>12, <3>13
  <2> HIDE DEF T
  <2> QED
    BY <2>1, <2>2, Induct
<1>3. ASSUME NEW k \in 1 .. n + 1 PROVE Good(k)
  <2>1. n + 1 \in T /\ k >= n + 1 - (n + 1)
    <3> HIDE DEF T, n
    <3> QED
      BY <1>1, <1>2
  <2> HIDE DEF Good
  <2> QED
    BY <2>1
<1> QED
  BY <1>3

\* Whether options have ended before the i-th argument, and whether it is one
\* that is passed on unread.
Ended(role, i) == IF \E j \in 1 .. (i - 1) : role[j] = "end" THEN "ended" ELSE "open"
Behind(policy, role, i) == policy.stop /\ \E j \in 1 .. (i - 1) : role[j] = "positional"

WaitsFor(args, flags, i) ==
  A!Waits(flags, args[i]) # "none" /\ A!consumesNext(flags, A!Waits(flags, args[i]), args[i + 1])

\* What the role of an argument says of it and of the one before.
RoleCases(args, flags, role, i) ==
  /\ role[i] \in {"end", "positional", "option", "value"}
  /\ role[i] = "end" => Ended(role, i) = "open" /\ args[i].form = "end"
  /\ role[i] = "positional" => Ended(role, i) = "ended" \/ args[i].form = "word"
  /\ role[i] = "option" => Ended(role, i) = "open" /\ args[i].form \notin {"end", "word"}
  /\ role[i] = "value" => /\ Ended(role, i) = "open" /\ i > 1 /\ role[i - 1] = "option"
                          /\ WaitsFor(args, flags, i - 1)
  /\ role[i] # "value" /\ Ended(role, i) = "open" /\ i > 1 /\ role[i - 1] = "option"
       => ~WaitsFor(args, flags, i - 1)
  /\ args[i].form = "word" => role[i] \in {"positional", "value"}

\* The cases of RoleCases are those of the second reading.
LEMMA RolesByCase ==
  ASSUME NEW args, NEW n \in Nat, DOMAIN args = 1 .. n, NEW flags, NEW i \in 1 .. n
  PROVE  RoleCases(args, flags, A!Roles(args, flags), i)
<1> DEFINE role == A!Roles(args, flags)
           open == ~\E j \in 1 .. (i - 1) : role[j] = "end"
<1>1. role[i] = RoleAt(args, flags, role, i)
  BY RolesByPlace DEF ByRole
<1>0. SUFFICES RoleCases(args, flags, role, i)
  OBVIOUS
<1> HIDE DEF role
<1>2. Ended(role, i) = IF open THEN "open" ELSE "ended"
  BY DEF Ended
<1>3. i > 1 => (i - 1) + 1 = i
  OBVIOUS
<1>4. CASE ~open
  <2>1. role[i] = "positional"
    BY <1>1, <1>4 DEF RoleAt
  <2>2. Ended(role, i) = "ended"
    BY <1>2, <1>4
  <2> HIDE DEF open
  <2> QED
    BY <1>4, <2>1, <2>2 DEF RoleCases
<1>5. CASE open /\ i > 1 /\ role[i - 1] = "option" /\ WaitsFor(args, flags, i - 1)
  <2>1. role[i] = "value"
    BY <1>1, <1>3, <1>5 DEF RoleAt, WaitsFor
  <2>2. Ended(role, i) = "open"
    BY <1>2, <1>5
  <2> HIDE DEF open
  <2> QED
    BY <1>5, <2>1, <2>2 DEF RoleCases
<1>6. CASE open /\ ~(i > 1 /\ role[i - 1] = "option" /\ WaitsFor(args, flags, i - 1))
  <2>1. role[i] = CASE args[i].form = "end" -> "end"
                    [] args[i].form = "word" -> "positional"
                    [] OTHER -> "option"
    BY <1>1, <1>3, <1>6 DEF RoleAt, WaitsFor
  <2>2. Ended(role, i) = "open"
    BY <1>2, <1>6
  <2> HIDE DEF open
  <2> QED
    BY <1>6, <2>1, <2>2 DEF RoleCases
<1> QED
  BY <1>4, <1>5, <1>6

\* Options end where an argument ends them, and stay so.
LEMMA EndedStep ==
  ASSUME NEW role, NEW i \in Nat, i >= 1
  PROVE  Ended(role, i + 1) = IF role[i] = "end" THEN "ended" ELSE Ended(role, i)
<1>1. \A j : j \in 1 .. ((i + 1) - 1) <=> (j \in 1 .. (i - 1) \/ j = i)
  OBVIOUS
<1> QED
  BY <1>1, Zenon DEF Ended

\* The tokens follow the roles: those from an argument on that is neither a
\* value nor passed on are among those of the whole list.
LEMMA TokensFollowRoles ==
  ASSUME NEW args \in Seq(A!Arguments), NEW flags, NEW policy, NEW i \in 1 .. Len(args)
  PROVE  LET role == A!Roles(args, flags)
             tokens == A!TokensFrom(args, flags, policy)
         IN  ~Behind(policy, role, i) /\ role[i] # "value"
               => A!Range(tokens[i][Ended(role, i)]) \subseteq A!Range(tokens[1]["open"])
<1> DEFINE n == Len(args)
           role == A!Roles(args, flags)
           tokens == A!TokensFrom(args, flags, policy)
           all == A!Range(tokens[1]["open"])
           Good(k) == ~Behind(policy, role, k) /\ role[k] # "value"
                        => A!Range(tokens[k][Ended(role, k)]) \subseteq all
           Bad == {k \in 1 .. n : ~Good(k)}
<1>1. n \in Nat /\ DOMAIN args = 1 .. n
  OBVIOUS
<1>2. \A k \in 1 .. n : RoleCases(args, flags, role, k) /\ args[k] \in A!Arguments
  BY <1>1, RolesByCase
<1>3. \A k \in 1 .. n, options \in {"open", "ended"} :
        TokenCases(args, flags, policy, tokens, k, options)
  BY <1>1, TokensByCase
<1>4. \A k \in 1 .. n + 1, options \in {"open", "ended"} : tokens[k][options] \in Seq(Token1)
  BY TokensAreTokens
<1>5. \A k \in 1 .. n : Ended(role, k + 1) = IF role[k] = "end" THEN "ended" ELSE Ended(role, k)
  <2>1. \A k \in 1 .. n : k \in Nat /\ k >= 1
    OBVIOUS
  <2> HIDE DEF role, n
  <2> QED
    BY <2>1, EndedStep
<1>6. \A k \in 1 .. n, j \in 1 .. n : j < k /\ ~Behind(policy, role, k) =>
        ~Behind(policy, role, j) /\ (policy.stop => role[j] # "positional")
  BY DEF Behind
<1>7. \A k : Ended(role, k) \in {"open", "ended"}
  BY DEF Ended
<1>8. SUFFICES Bad = {}
  OBVIOUS
<1> HIDE DEF role, tokens
<1>9. SUFFICES ASSUME Bad # {} PROVE FALSE
  OBVIOUS
<1>10. PICK k \in Bad : \A j \in Bad : k <= j
  <2>1. Bad \subseteq Nat
    OBVIOUS
  <2> HIDE DEF Bad
  <2> QED
    BY <1>9, <2>1, Least
<1>11. /\ k \in 1 .. n /\ ~Behind(policy, role, k) /\ role[k] # "value"
       /\ ~(A!Range(tokens[k][Ended(role, k)]) \subseteq all)
       /\ \A j \in 1 .. (k - 1) : Good(j)
  BY <1>1, <1>10
<1> HIDE DEF Bad
<1>12. k > 1
  <2>1. CASE k = 1
    <3>1. Ended(role, 1) = "open"
      BY DEF Ended
    <3> QED
      BY <1>11, <2>1, <3>1
  <2> QED
    BY <1>11, <2>1
<1> DEFINE p == k - 1
<1>13. p \in 1 .. n /\ p + 1 = k /\ p < k
  BY <1>11, <1>12
<1>14. Ended(role, k) = IF role[p] = "end" THEN "ended" ELSE Ended(role, p)
  BY <1>5, <1>13
<1>15. RoleCases(args, flags, role, k) /\ RoleCases(args, flags, role, p)
  BY <1>2, <1>11, <1>13
<1>16. CASE role[p] # "value"
  <2>1. A!Range(tokens[p][Ended(role, p)]) \subseteq all
    BY <1>6, <1>11, <1>13, <1>16
  <2>2. TokenCases(args, flags, policy, tokens, p, Ended(role, p))
    BY <1>3, <1>7, <1>13
  <2>3. k \in 1 .. n + 1 /\ Ended(role, k) \in {"open", "ended"}
    BY <1>1, <1>7, <1>11
  <2>8. tokens[k][Ended(role, k)] \in Seq(Token1)
    BY <1>4, <2>3
  <2>4. SUFFICES A!Range(tokens[k][Ended(role, k)]) \subseteq A!Range(tokens[p][Ended(role, p)])
    BY <1>11, <2>1
  <2>9. args[p] \in A!Arguments
    BY <1>2, <1>13
  <2>5. CASE role[p] = "positional"
    <3> DEFINE read == A!ParsedArg("positional", A!Text(args[p]), "none")
    <3>1. ~policy.stop
      BY <1>6, <1>11, <1>13, <2>5
    <3>2. Ended(role, k) = Ended(role, p) /\ (Ended(role, p) = "ended" \/ args[p].form = "word")
      BY <1>14, <1>15, <2>5 DEF RoleCases
    <3>3. tokens[p][Ended(role, p)] = <<read>> \o tokens[k][Ended(role, k)]
      <4> HIDE DEF p
      <4> QED
        BY <1>13, <2>2, <3>1, <3>2 DEF TokenCases
    <3>4. <<read>> \in Seq(Token1)
      <4>1. read \in Token1
        BY <2>9, ArgumentIsRead, ParsedIsToken, LiteralTexts
      <4> HIDE DEF read
      <4> QED
        BY <4>1
    <3> HIDE DEF read
    <3> QED
      BY <2>8, <3>3, <3>4, RangeOfBoth
  <2>6. CASE role[p] = "end"
    <3>1. Ended(role, k) = "ended" /\ Ended(role, p) = "open" /\ args[p].form = "end"
      BY <1>14, <1>15, <2>6 DEF RoleCases
    <3>2. tokens[p]["open"] = tokens[k]["ended"]
      <4> HIDE DEF p
      <4> QED
        BY <1>13, <2>2, <3>1 DEF TokenCases
    <3> QED
      BY <3>1, <3>2
  <2>7. CASE role[p] = "option"
    <3>1. /\ Ended(role, k) = "open" /\ Ended(role, p) = "open"
          /\ args[p].form \notin {"end", "word"}
      BY <1>14, <1>15, <2>7 DEF RoleCases
    <3>2. ~WaitsFor(args, flags, p)
      BY <1>11, <1>12, <1>15, <2>7, <3>1 DEF RoleCases
    <3>3. ~A!TakesNext(flags, args, p)
      BY <3>2 DEF WaitsFor, A!TakesNext
    <3>4. PICK own \in Seq(Token1) : tokens[p]["open"] = own \o tokens[k]["open"]
      <4>1. CASE args[p].form = "num" /\ policy.numeric
        <5> DEFINE own == <<A!ParsedArg("flag", args[p].name, "none")>>
        <5>1. tokens[p]["open"] = own \o tokens[k]["open"]
          <6> HIDE DEF p
          <6> QED
            BY <1>13, <2>2, <3>1, <4>1 DEF TokenCases
        <5>2. own \in Seq(Token1)
          <6>1. A!ParsedArg("flag", args[p].name, "none") \in Token1
            BY <2>9, ArgumentIsRead, ParsedIsToken, LiteralTexts
          <6> QED
            BY <6>1
        <5> HIDE DEF own
        <5> QED
          BY <5>1, <5>2
      <4>2. CASE ~(args[p].form = "num" /\ policy.numeric)
        <5>1. tokens[p]["open"] = A!FlagTokens(flags, args[p], "none") \o tokens[k]["open"]
          <6> HIDE DEF p
          <6> QED
            BY <1>13, <2>2, <3>1, <3>3, <4>2 DEF TokenCases
        <5>2. A!FlagTokens(flags, args[p], "none") \in Seq(Token1)
          BY <2>9, TokensOfOption, LiteralTexts
        <5> QED
          BY <5>1, <5>2
      <4> QED
        BY <4>1, <4>2
    <3> QED
      BY <2>8, <3>1, <3>4, RangeOfBoth
  <2> QED
    BY <1>15, <1>16, <2>5, <2>6, <2>7 DEF RoleCases
<1>17. CASE role[p] = "value"
  <2> DEFINE q == p - 1
  <2>1. /\ Ended(role, p) = "open" /\ p > 1 /\ role[q] = "option" /\ WaitsFor(args, flags, q)
    BY <1>15, <1>17 DEF RoleCases
  <2>2. q \in 1 .. n /\ q + 1 = p /\ q + 2 = k /\ q < k /\ q < n
    BY <1>1, <1>11, <1>13, <2>1
  <2>3. Good(q)
    BY <1>11, <2>2
  <2>4. RoleCases(args, flags, role, q) /\ args[q] \in A!Arguments /\ args[p] \in A!Arguments
    BY <1>2, <1>13, <2>2
  <2> HIDE DEF q
  <2>5. Ended(role, q) = "open" /\ args[q].form \notin {"end", "word"}
    BY <2>1, <2>4 DEF RoleCases
  <2>6. A!Range(tokens[q]["open"]) \subseteq all
    BY <1>6, <1>11, <2>1, <2>2, <2>3, <2>5
  <2>7. A!TakesNext(flags, args, q) /\ args[q].form # "num"
    BY <2>1, <2>2 DEF WaitsFor, A!TakesNext, A!Waits
  <2>8. TokenCases(args, flags, policy, tokens, q, "open")
    BY <1>3, <2>2
  <2>9. tokens[q]["open"] = A!FlagTokens(flags, args[q], A!Text(args[p])) \o tokens[k]["open"]
    BY <2>2, <2>5, <2>7, <2>8 DEF TokenCases
  <2>10. A!FlagTokens(flags, args[q], A!Text(args[p])) \in Seq(Token1)
    BY <2>4, ArgumentIsRead, TokensOfOption
  <2>11. tokens[k]["open"] \in Seq(Token1)
    BY <1>1, <1>4, <1>11
  <2>12. Ended(role, k) = "open"
    BY <1>14, <1>17, <2>1
  <2> QED
    BY <1>11, <2>6, <2>9, <2>10, <2>11, <2>12, RangeOfBoth
<1> QED
  BY <1>16, <1>17

Glued(flags, a) == a.form = "long" \/ A!Valued(flags, a.letters) = Len(a.letters)

\* What becomes of an argument: it is passed on, a token of its own, or the
\* value of one; so is what is glued to an option.
ReadAs(a, flags, policy, role, tokens, i) ==
  /\ Behind(policy, role, i) => A!Passed(a) \in A!Range(tokens)
  /\ ~Behind(policy, role, i) =>
       /\ role[i] = "positional" =>
            A!ParsedArg("positional", A!Text(a), "none") \in A!Range(tokens)
       /\ role[i] = "value" => Given(tokens, A!Text(a))
       /\ role[i] = "option" /\ a.rest # "none" /\ Glued(flags, a) => Given(tokens, a.rest)

\* No argument is left out by the reading.
LEMMA EveryArgumentIsRead ==
  ASSUME NEW args \in Seq(A!Arguments), NEW flags, NEW policy, NEW i \in 1 .. Len(args)
  PROVE  ReadAs(args[i], flags, policy, A!Roles(args, flags),
                A!tokenizeArgs(args, flags, policy), i)
<1> DEFINE n == Len(args)
           role == A!Roles(args, flags)
           tokens == A!TokensFrom(args, flags, policy)
           all == A!tokenizeArgs(args, flags, policy)
<1>1. n \in Nat /\ DOMAIN args = 1 .. n
  OBVIOUS
<1>2. \A k \in 1 .. n : RoleCases(args, flags, role, k) /\ args[k] \in A!Arguments
  BY <1>1, RolesByCase
<1>3. \A k \in 1 .. n, options \in {"open", "ended"} :
        TokenCases(args, flags, policy, tokens, k, options)
  BY <1>1, TokensByCase
<1>4. \A k \in 1 .. n + 1, options \in {"open", "ended"} : tokens[k][options] \in Seq(Token1)
  BY TokensAreTokens
<1>5. \A k \in 1 .. n : ~Behind(policy, role, k) /\ role[k] # "value"
        => A!Range(tokens[k][Ended(role, k)]) \subseteq A!Range(all)
  BY TokensFollowRoles DEF A!tokenizeArgs
<1>6. \A k : Ended(role, k) \in {"open", "ended"}
  BY DEF Ended
<1>7. SUFFICES ReadAs(args[i], flags, policy, role, all, i)
  OBVIOUS
<1> HIDE DEF role, tokens, all
<1> DEFINE read(k) == A!ParsedArg("positional", A!Text(args[k]), "none")
<1>8. \A k \in 1 .. n : read(k) \in Token1
  BY <1>2, ArgumentIsRead, ParsedIsToken, LiteralTexts
\* The first token of a positional argument is its own.
<1>9. ASSUME NEW k \in 1 .. n, ~Behind(policy, role, k), role[k] = "positional"
      PROVE  /\ read(k) \in A!Range(all)
             /\ policy.stop => \A j \in 1 .. n - k : A!Passed(args[k + j]) \in A!Range(all)
  <2> DEFINE o == Ended(role, k)
             after == IF policy.stop THEN [j \in 1 .. (Len(args) - k) |-> A!Passed(args[k + j])]
                      ELSE tokens[k + 1][o]
  <2>1. o \in {"open", "ended"} /\ TokenCases(args, flags, policy, tokens, k, o)
    BY <1>3, <1>6
  <2>2. o = "ended" \/ args[k].form = "word"
    BY <1>2, <1>9 DEF RoleCases
  <2>3. tokens[k][o] = <<read(k)>> \o after
    <3> HIDE DEF o
    <3>1. CASE policy.stop
      BY <2>1, <2>2, <3>1 DEF TokenCases
    <3>2. CASE ~policy.stop
      BY <2>1, <2>2, <3>2 DEF TokenCases
    <3> QED
      BY <3>1, <3>2
  <2>4. after \in Seq(Token1)
    <3>1. CASE policy.stop
      <4>1. n - k \in Nat /\ \A j \in 1 .. (n - k) : A!Passed(args[k + j]) \in Token1
        <5>1. \A j \in 1 .. (n - k) : args[k + j] \in A!Arguments
          BY <1>1, <1>2
        <5> QED
          BY <1>1, <5>1, PassedIsToken
      <4> QED
        BY <3>1, <4>1
    <3>2. CASE ~policy.stop
      <4>1. k + 1 \in 1 .. n + 1
        BY <1>1
      <4> HIDE DEF o
      <4> QED
        BY <1>4, <2>1, <3>2, <4>1
    <3> QED
      BY <3>1, <3>2
  <2>5. <<read(k)>> \in Seq(Token1)
    <3>1. read(k) \in Token1
      BY <1>8
    <3> HIDE DEF read
    <3> QED
      BY <3>1
  <2>6. read(k) \in A!Range(<<read(k)>>)
    BY RangeOfOne
  <2>7. A!Range(tokens[k][o]) \subseteq A!Range(all)
    BY <1>5, <1>9
  <2>8. policy.stop => \A j \in 1 .. n - k : A!Passed(args[k + j]) \in A!Range(after)
    BY <1>1 DEF A!Range
  <2> HIDE DEF o, after, read
  <2> QED
    BY <2>3, <2>4, <2>5, <2>6, <2>7, <2>8, RangeOfBoth
<1> HIDE DEF read
<1>10. ASSUME Behind(policy, role, i) PROVE A!Passed(args[i]) \in A!Range(all)
  <2> DEFINE S == {j \in 1 .. (i - 1) : role[j] = "positional"}
  <2>1. S # {} /\ S \subseteq Nat /\ policy.stop
    BY <1>10 DEF Behind
  <2>2. PICK k \in S : \A j \in S : k <= j
    <3> HIDE DEF S
    <3> QED
      BY <2>1, Least
  <2>3. k \in 1 .. n /\ role[k] = "positional" /\ i - k \in 1 .. n - k /\ k + (i - k) = i
    BY <1>1, <2>2
  <2>4. ~Behind(policy, role, k)
    <3>1. SUFFICES ASSUME NEW j \in 1 .. (k - 1), role[j] = "positional" PROVE FALSE
      BY DEF Behind
    <3>2. j \in S /\ j < k
      BY <2>2, <3>1
    <3> QED
      BY <2>2, <3>2
  <2> QED
    BY <1>9, <2>1, <2>3, <2>4
<1>11. ASSUME ~Behind(policy, role, i), role[i] = "value" PROVE Given(all, A!Text(args[i]))
  <2> DEFINE q == i - 1
  <2>1. Ended(role, i) = "open" /\ i > 1 /\ role[q] = "option" /\ WaitsFor(args, flags, q)
    BY <1>2, <1>11 DEF RoleCases
  <2>2. q \in 1 .. n /\ q + 1 = i /\ q < n
    BY <1>1, <2>1
  <2>3. ~Behind(policy, role, q)
    BY <1>1, <1>11, <2>2 DEF Behind
  <2>4. RoleCases(args, flags, role, q) /\ args[q] \in A!Arguments /\ args[i] \in A!Arguments
    BY <1>2, <2>2
  <2> HIDE DEF q
  <2>5. Ended(role, q) = "open" /\ args[q].form \notin {"end", "word"}
    BY <2>1, <2>4 DEF RoleCases
  <2>6. A!Range(tokens[q]["open"]) \subseteq A!Range(all)
    BY <1>5, <2>1, <2>2, <2>3, <2>5
  <2>7. A!TakesNext(flags, args, q) /\ args[q].form # "num"
    BY <2>1, <2>2 DEF WaitsFor, A!TakesNext, A!Waits
  <2>8. TokenCases(args, flags, policy, tokens, q, "open")
    BY <1>3, <2>2
  <2>9. tokens[q]["open"] = A!FlagTokens(flags, args[q], A!Text(args[i])) \o tokens[q + 2]["open"]
    BY <2>2, <2>5, <2>7, <2>8 DEF TokenCases
  <2>10. A!FlagTokens(flags, args[q], A!Text(args[i])) \in Seq(Token1)
    BY <2>4, ArgumentIsRead, TokensOfOption
  <2>11. tokens[q + 2]["open"] \in Seq(Token1)
    <3>1. q + 2 \in 1 .. n + 1
      BY <1>1, <2>2
    <3> QED
      BY <1>4, <3>1
  <2>12. Given(A!FlagTokens(flags, args[q], A!Text(args[i])), A!Text(args[i]))
    BY <2>1, <2>4, ArgumentIsRead, ValueIsGiven DEF WaitsFor
  <2> QED
    BY <2>6, <2>9, <2>10, <2>11, <2>12, RangeOfBoth DEF Given
<1>12. ASSUME ~Behind(policy, role, i), role[i] = "option", args[i].rest # "none",
              Glued(flags, args[i])
       PROVE  Given(all, args[i].rest)
  <2>1. Ended(role, i) = "open" /\ args[i].form \notin {"end", "word"} /\ args[i] \in A!Arguments
    BY <1>2, <1>12 DEF RoleCases
  <2>2. args[i].form \in {"long", "bundle"}
    BY <1>12, <2>1, ArgumentIsRead
  <2>3. A!Waits(flags, args[i]) = "none"
    BY <1>12, <2>2 DEF A!Waits
  <2>4. TokenCases(args, flags, policy, tokens, i, "open")
    BY <1>3
  <2>5. ~A!TakesNext(flags, args, i)
    BY <2>3 DEF A!TakesNext
  <2>6. tokens[i]["open"] = A!FlagTokens(flags, args[i], "none") \o tokens[i + 1]["open"]
    BY <2>1, <2>2, <2>4, <2>5 DEF TokenCases
  <2>7. A!FlagTokens(flags, args[i], "none") \in Seq(Token1)
    BY <2>1, TokensOfOption, LiteralTexts
  <2>8. tokens[i + 1]["open"] \in Seq(Token1)
    <3>1. i + 1 \in 1 .. n + 1
      BY <1>1
    <3> QED
      BY <1>4, <3>1
  <2>9. A!Range(tokens[i]["open"]) \subseteq A!Range(all)
    BY <1>5, <1>12, <2>1
  <2>10. Given(A!FlagTokens(flags, args[i], "none"), args[i].rest)
    BY <1>12, <2>1, ValueIsGiven, LiteralTexts DEF Glued
  <2> QED
    BY <2>6, <2>7, <2>8, <2>9, <2>10, RangeOfBoth DEF Given
<1>13. ~Behind(policy, role, i) /\ role[i] = "positional" =>
         A!ParsedArg("positional", A!Text(args[i]), "none") \in A!Range(all)
  BY <1>9 DEF read
<1> QED
  BY <1>10, <1>11, <1>12, <1>13 DEF ReadAs

-----------------------------------------------------------------------------
\* A leading flag of a policy.
LeadingFlag(policy, a) == a.form = "long" /\ a.rest = "none" /\ a.name \in policy.leading

\* What comes before the subcommand are leading flags, and all of them.
LEMMA LeadingFlags ==
  ASSUME NEW args, NEW m \in Nat, Len(args) = m, NEW policy
  PROVE  /\ A!Leading(policy, args) \in 0 .. m
         /\ \A i \in 1 .. A!Leading(policy, args) : LeadingFlag(policy, args[i])
         /\ A!Leading(policy, args) < m => ~LeadingFlag(policy, args[A!Leading(policy, args) + 1])
<1> DEFINE Fits(n) == /\ \A i \in 1 .. n : LeadingFlag(policy, args[i])
                      /\ n < m => ~LeadingFlag(policy, args[n + 1])
           Ends == {i \in 1 .. m : ~LeadingFlag(policy, args[i])}
<1>1. A!Leading(policy, args) = CHOOSE n \in 0 .. m : Fits(n)
  BY DEF A!Leading, LeadingFlag
<1>2. \E n \in 0 .. m : Fits(n)
  <2>1. CASE Ends = {}
    <3>1. m \in 0 .. m /\ Fits(m)
      BY <2>1
    <3> QED
      BY <3>1
  <2>2. CASE Ends # {}
    <3>1. PICK k \in Ends : \A i \in Ends : k <= i
      <4>1. Ends \subseteq Nat
        OBVIOUS
      <4> HIDE DEF Ends
      <4> QED
        BY <2>2, <4>1, Least
    <3>2. k - 1 \in 0 .. m /\ (k - 1) + 1 = k
      OBVIOUS
    <3>3. ASSUME NEW i \in 1 .. (k - 1) PROVE LeadingFlag(policy, args[i])
      <4>1. i \in 1 .. m /\ i < k
        OBVIOUS
      <4> QED
        BY <3>1, <4>1
    <3>4. Fits(k - 1)
      BY <3>1, <3>2, <3>3
    <3> HIDE DEF Fits
    <3> QED
      BY <3>2, <3>4
  <2> QED
    BY <2>1, <2>2
<1>3. A!Leading(policy, args) \in 0 .. m /\ Fits(A!Leading(policy, args))
  <2> HIDE DEF Fits
  <2> QED
    BY <1>1, <1>2
<1> QED
  BY <1>3

\* What is read after the subcommand are arguments of the request.
Within(args, rest) == \A i \in DOMAIN rest : \E j \in DOMAIN args : rest[i] = args[j]

\* What follows the subcommand is a part of the request, all of it for a policy
\* without subcommands.
LEMMA SplitIsPart ==
  ASSUME NEW S, NEW args \in Seq(S), NEW policy
  PROVE  /\ A!Split(args, policy).rest \in Seq(S) /\ Within(args, A!Split(args, policy).rest)
         /\ policy.subs = {} /\ policy.leading = {}
              => A!Split(args, policy).rest = args /\ A!Split(args, policy).sub = "none"
<1> DEFINE n == A!Leading(policy, args)
           after == SubSeq(args, n + 1, Len(args))
           named == policy.subs # {} /\ after # <<>>
<1>1. n \in 0 .. Len(args) /\ Len(args) \in Nat /\ \A i \in 1 .. n : LeadingFlag(policy, args[i])
  BY LeadingFlags
<1>2. A!Split(args, policy).rest = IF named THEN Tail(after) ELSE after
  BY DEF A!Split
<1>3. ~named => A!Split(args, policy).sub = "none"
  BY DEF A!Split
<1> HIDE DEF n
<1>4. after \in Seq(S) /\ Len(after) = Len(args) - n
      /\ \A i \in 1 .. Len(args) - n : after[i] = args[n + i]
  BY <1>1
<1>5. Within(args, after)
  BY <1>1, <1>4 DEF Within
<1>6. after # <<>> => /\ Tail(after) \in Seq(S)
                      /\ \A i \in DOMAIN Tail(after) : i + 1 \in DOMAIN after
                                                         /\ Tail(after)[i] = after[i + 1]
  <2> HIDE DEF after
  <2> QED
    BY <1>4
<1>7. after # <<>> => Within(args, Tail(after))
  BY <1>5, <1>6 DEF Within
<1>8. policy.leading = {} => n = 0
  BY <1>1 DEF LeadingFlag
<1>9. n = 0 => after = args
  BY <1>1
<1> HIDE DEF after
<1> QED
  BY <1>2, <1>3, <1>4, <1>5, <1>6, <1>7, <1>8, <1>9

\* The positional tokens are those of the list, in their order.
LEMMA PositionalsOfTokens ==
  ASSUME NEW U, NEW tokens \in Seq(U)
  PROVE  /\ A!Positionals(tokens) \in Seq(U)
         /\ \A t \in A!Range(tokens) : t.kind = "positional" => t \in A!Range(A!Positionals(tokens))
<1> DEFINE n == Len(tokens)
           body(f) == [i \in 0 .. Len(tokens) |->
                         IF i = 0 THEN <<>>
                         ELSE IF tokens[i].kind = "positional" THEN Append(f[i - 1], tokens[i])
                         ELSE f[i - 1]]
           own == CHOOSE f : f = body(f)
           Good(m, f) ==
             /\ f \in [0 .. m -> Seq(U)] /\ f[0] = <<>>
             /\ \A k \in 1 .. m : k <= n =>
                  f[k] = IF tokens[k].kind = "positional" THEN Append(f[k - 1], tokens[k])
                         ELSE f[k - 1]
           T == {m \in Nat : m <= n => \E f : Good(m, f)}
<1> HIDE DEF Good
<1>0. n \in Nat /\ DOMAIN tokens = 1 .. n
  OBVIOUS
<1>1. Nat \subseteq T
  <2>1. 0 \in T
    <3> DEFINE f == [k \in {0} |-> <<>>]
    <3>1. Good(0, f)
      BY DEF Good
    <3> HIDE DEF f
    <3> QED
      BY <3>1
  <2>2. ASSUME NEW m \in Nat, m \in T PROVE m + 1 \in T
    <3>1. SUFFICES ASSUME m + 1 <= n PROVE \E f : Good(m + 1, f)
      OBVIOUS
    <3>2. PICK f : Good(m, f)
      BY <1>0, <2>2, <3>1
    <3> DEFINE last == IF tokens[m + 1].kind = "positional" THEN Append(f[m], tokens[m + 1])
                       ELSE f[m]
               h == [k \in 0 .. m + 1 |-> IF k = m + 1 THEN last ELSE f[k]]
    <3>3. last \in Seq(U)
      <4>1. f[m] \in Seq(U) /\ tokens[m + 1] \in U
        BY <1>0, <3>1, <3>2 DEF Good
      <4> QED
        BY <4>1
    <3> HIDE DEF last
    <3>4. h \in [0 .. m + 1 -> Seq(U)] /\ h[0] = <<>>
      BY <3>2, <3>3 DEF Good
    <3>5. ASSUME NEW k \in 1 .. m + 1
          PROVE  h[k] = IF tokens[k].kind = "positional" THEN Append(h[k - 1], tokens[k])
                        ELSE h[k - 1]
      <4>1. CASE k = m + 1
        <5>1. h[k] = last /\ h[k - 1] = f[m]
          BY <4>1
        <5> QED
          BY <4>1, <5>1 DEF last
      <4>2. CASE k # m + 1
        <5>1. k \in 1 .. m /\ k <= n /\ k - 1 \in 0 .. m
          BY <1>0, <3>1, <4>2
        <5>2. h[k] = f[k] /\ h[k - 1] = f[k - 1]
          BY <5>1
        <5> HIDE DEF h
        <5> QED
          BY <3>2, <5>1, <5>2 DEF Good
      <4> QED
        BY <4>1, <4>2
    <3> HIDE DEF h
    <3>6. Good(m + 1, h)
      BY <3>4, <3>5 DEF Good
    <3> QED
      BY <3>6
  <2> HIDE DEF T
  <2> QED
    BY <2>1, <2>2, Induct
<1>2. PICK F : Good(n, F)
  BY <1>0, <1>1
<1>3. own = body(own)
  <2>1. F = body(F)
    <3>1. F = [i \in 0 .. n |-> F[i]]
      BY <1>2 DEF Good
    <3>2. ASSUME NEW i \in 0 .. n, i # 0
          PROVE  F[i] = IF tokens[i].kind = "positional" THEN Append(F[i - 1], tokens[i])
                        ELSE F[i - 1]
      <4>1. i \in 1 .. n /\ i <= n
        BY <1>0, <3>2
      <4> QED
        BY <1>2, <4>1 DEF Good
    <3>3. F[0] = <<>>
      BY <1>2 DEF Good
    <3>4. \A i \in 0 .. n : F[i] = body(F)[i]
      BY <3>2, <3>3
    <3> QED
      BY <3>1, <3>4
  <2> QED
    BY <2>1
<1>4. A!Positionals(tokens) = own[n]
  BY DEF A!Positionals
<1> HIDE DEF own
<1> DEFINE Gathered(k) == /\ own[k] \in Seq(U)
                          /\ \A j \in 1 .. k : tokens[j].kind = "positional"
                               => tokens[j] \in A!Range(own[k])
           V == {k \in Nat : k <= n => Gathered(k)}
<1>5. Nat \subseteq V
  <2>1. 0 \in V
    <3>1. own[0] = <<>>
      BY <1>0, <1>3
    <3>2. <<>> \in Seq(U) /\ 1 .. 0 = {}
      OBVIOUS
    <3>3. Gathered(0)
      BY <3>1, <3>2
    <3> HIDE DEF Gathered
    <3> QED
      BY <3>3
  <2>2. ASSUME NEW k \in Nat, k \in V PROVE k + 1 \in V
    <3>1. SUFFICES ASSUME k + 1 <= n PROVE Gathered(k + 1)
      OBVIOUS
    <3>2. Gathered(k)
      BY <1>0, <2>2, <3>1
    <3>3. own[k + 1] = IF tokens[k + 1].kind = "positional" THEN Append(own[k], tokens[k + 1])
                       ELSE own[k]
      <4>1. own[k + 1] = body(own)[k + 1]
        BY <1>3
      <4>2. k + 1 \in 0 .. Len(tokens) /\ k + 1 # 0 /\ (k + 1) - 1 = k
        BY <1>0, <3>1
      <4> QED
        BY <4>1, <4>2
    <3>4. tokens[k + 1] \in U
      BY <1>0, <3>1
    <3>5. CASE tokens[k + 1].kind = "positional"
      <4>1. own[k + 1] = Append(own[k], tokens[k + 1])
        BY <3>3, <3>5
      <4>2. own[k + 1] \in Seq(U)
        BY <3>2, <3>4, <4>1
      <4>3. A!Range(own[k]) \subseteq A!Range(own[k + 1]) /\ tokens[k + 1] \in A!Range(own[k + 1])
        <5> DEFINE s == own[k]
        <5>1. \A i \in DOMAIN s : i \in DOMAIN Append(s, tokens[k + 1])
                                    /\ Append(s, tokens[k + 1])[i] = s[i]
          BY <3>2
        <5>2. Append(s, tokens[k + 1])[Len(s) + 1] = tokens[k + 1]
                /\ Len(s) + 1 \in DOMAIN Append(s, tokens[k + 1])
          BY <3>2
        <5> HIDE DEF s
        <5> QED
          BY <4>1, <5>1, <5>2, Zenon DEF A!Range, s
      <4>4. \A j \in 1 .. k + 1 : j \in 1 .. k \/ j = k + 1
        OBVIOUS
      <4> QED
        BY <3>2, <4>2, <4>3, <4>4
    <3>6. CASE tokens[k + 1].kind # "positional"
      <4>1. own[k + 1] = own[k] /\ \A j \in 1 .. k + 1 : j \in 1 .. k \/ j = k + 1
        BY <3>3, <3>6
      <4> QED
        BY <3>2, <3>6, <4>1
    <3> QED
      BY <3>5, <3>6
  <2> HIDE DEF V
  <2> QED
    BY <2>1, <2>2, Induct
<1>6. Gathered(n)
  BY <1>0, <1>5
<1> QED
  BY <1>0, <1>4, <1>6 DEF A!Range

-----------------------------------------------------------------------------
\* A verb of the subcommand.
VerbOf(policy, sub, name) == sub \in DOMAIN policy.verbs /\ name \in policy.verbs[sub]

TokensOf(args, policy) ==
  LET split == A!Split(args, policy)
  IN  A!tokenizeArgs(split.rest, A!effectiveFlags(policy, split.sub), policy)

\* What a policy lets pass has all its tokens looked at, but for a verb.
PolicyPasses(args, policy) ==
  LET tokens == A!Range(TokensOf(args, policy))
      c == A!checkPolicy(args, policy)
      sub == A!Split(args, policy).sub
  IN  /\ \A t \in tokens : t.kind # "positional" => t \in c.tokens
      /\ \A t \in tokens : t.kind = "positional" =>
           \/ VerbOf(policy, sub, t.name)
           \/ /\ t \in c.tokens
              /\ c.policy.positionals = "url" => t.name = "url"
              /\ policy.letters => t.name = "word"
      /\ c.policy.text <=> policy.text

\* A policy that does not deny a request has looked at all its tokens.
LEMMA PolicyReadsAll ==
  ASSUME NEW args \in Seq(A!Arguments), NEW policy, A!IsPolicy(policy),
         ~A!checkPolicy(args, policy).denied
  PROVE  PolicyPasses(args, policy)
<1> DEFINE sub == A!Split(args, policy).sub
           rest == A!Split(args, policy).rest
           mode == IF sub \in DOMAIN policy.subPositionals
                   THEN policy.subPositionals[sub] ELSE policy.positionals
           flags == A!effectiveFlags(policy, sub)
           tokens == A!tokenizeArgs(rest, flags, policy)
           own == A!Positionals(tokens)
           verbs == sub \in DOMAIN policy.verbs
           operands == IF verbs /\ own # <<>> THEN Tail(own) ELSE own
           c == A!checkPolicy(args, policy)
<1>1. /\ verbs => (own # <<>> /\ own[1].name \in policy.verbs[sub])
      /\ mode = "url" => \A t \in A!Range(operands) : t.name = "url"
      /\ \A i \in DOMAIN operands : A!isAllowedPositional(policy, operands[i].name, i)
      /\ c.policy = [policy EXCEPT !.flags = flags, !.positionals = mode]
      /\ c.tokens = {t \in A!Range(tokens) : t.kind # "positional"} \cup A!Range(operands)
  BY DEF A!checkPolicy, A!Denied
<1>2. tokens \in Seq(Token1)
  <2>1. rest \in Seq(A!Arguments)
    BY SplitIsPart
  <2>2. 1 \in 1 .. Len(rest) + 1 /\ "open" \in {"open", "ended"}
    BY <2>1
  <2> HIDE DEF rest, flags
  <2> QED
    BY <2>1, <2>2, TokensAreTokens DEF A!tokenizeArgs
<1>3. own \in Seq(Token1) /\ \A t \in A!Range(tokens) : t.kind = "positional" => t \in A!Range(own)
  <2> HIDE DEF tokens
  <2> QED
    BY <1>2, PositionalsOfTokens
<1>4. c.policy.positionals = mode /\ (c.policy.text <=> policy.text)
  <2>1. {"flags", "positionals", "text"} \subseteq DOMAIN policy
    BY DEF A!IsPolicy, A!Base
  <2> HIDE DEF mode, flags, c
  <2> QED
    BY <1>1, <2>1
<1> HIDE DEF own, tokens, c, mode, flags
<1>5. ASSUME NEW t \in A!Range(own) PROVE VerbOf(policy, sub, t.name) \/ t \in A!Range(operands)
  <2>1. CASE ~verbs
    BY <2>1
  <2>2. CASE verbs
    <3>1. PICK i \in DOMAIN own : t = own[i]
      BY DEF A!Range
    <3>2. CASE i = 1
      BY <1>1, <2>2, <3>1, <3>2 DEF VerbOf
    <3>3. CASE i # 1
      <4>1. i - 1 \in DOMAIN Tail(own) /\ Tail(own)[i - 1] = t
        BY <1>1, <1>3, <2>2, <3>1, <3>3
      <4> QED
        BY <1>1, <2>2, <4>1 DEF A!Range
    <3> QED
      BY <3>2, <3>3
  <2> QED
    BY <2>1, <2>2
<1>6. \A t \in A!Range(operands) : policy.letters => t.name = "word"
  <2> SUFFICES ASSUME NEW i \in DOMAIN operands, policy.letters
               PROVE  operands[i].name = "word"
    BY DEF A!Range
  <2>1. A!isAllowedPositional(policy, operands[i].name, i)
    BY <1>1
  <2> HIDE DEF operands
  <2> QED
    BY <2>1 DEF A!isAllowedPositional
<1>7. TokensOf(args, policy) = tokens
  BY DEF TokensOf, tokens, flags
<1> HIDE DEF operands, sub
<1>8. \A t \in A!Range(tokens) : t.kind = "positional" =>
           \/ VerbOf(policy, sub, t.name)
           \/ /\ t \in c.tokens
              /\ c.policy.positionals = "url" => t.name = "url"
              /\ policy.letters => t.name = "word"
  BY <1>1, <1>3, <1>4, <1>5, <1>6
<1>9. \A t \in A!Range(tokens) : t.kind # "positional" => t \in c.tokens
  BY <1>1
<1> QED
  BY <1>4, <1>7, <1>8, <1>9 DEF PolicyPasses, c, sub

-----------------------------------------------------------------------------
ArePolicies(table) == \A cmd \in DOMAIN table : A!IsPolicy(table[cmd])

\* The fields that every table starts from.
LEMMA BaseIsPolicy == A!IsPolicy(A!Base)
  BY DEF A!IsPolicy, A!Base

\* Which of two tables an entry of both together is from.
LEMMA JoinedTables ==
  ASSUME NEW f, NEW g
  PROVE  /\ DOMAIN A!Over(f, g) = DOMAIN f \cup DOMAIN g
         /\ \A x \in DOMAIN f : A!Over(f, g)[x] = f[x]
         /\ \A x \in DOMAIN g \ DOMAIN f : A!Over(f, g)[x] = g[x]
  BY DEF A!Over

\* Two tables of policies put together are one.
LEMMA JoinedArePolicies ==
  ASSUME NEW f, NEW g, ArePolicies(f), ArePolicies(g) PROVE ArePolicies(A!Over(f, g))
  BY DEF ArePolicies, A!Over

\* The tables that come with the program are policies.
LEMMA ReadTablesArePolicies == ArePolicies(A!READ_COMMAND_POLICIES)
<1>1. DOMAIN A!READ_COMMAND_POLICIES = {"ls", "ps", "grep", "uname", "id", "date"}
  BY DEF A!READ_COMMAND_POLICIES
<1>2. A!IsPolicy(A!READ_COMMAND_POLICIES.ls)
  BY BaseIsPolicy DEF A!READ_COMMAND_POLICIES, A!IsPolicy
<1>3. A!IsPolicy(A!READ_COMMAND_POLICIES.ps)
  BY BaseIsPolicy DEF A!READ_COMMAND_POLICIES, A!IsPolicy
<1>4. A!IsPolicy(A!READ_COMMAND_POLICIES.grep)
  BY BaseIsPolicy DEF A!READ_COMMAND_POLICIES, A!IsPolicy
<1>5. A!IsPolicy(A!READ_COMMAND_POLICIES.uname)
  BY BaseIsPolicy DEF A!READ_COMMAND_POLICIES, A!IsPolicy
<1>6. A!IsPolicy(A!READ_COMMAND_POLICIES.id)
  BY BaseIsPolicy DEF A!READ_COMMAND_POLICIES, A!IsPolicy
<1>7. A!IsPolicy(A!READ_COMMAND_POLICIES.date)
  BY BaseIsPolicy DEF A!READ_COMMAND_POLICIES, A!IsPolicy
<1> QED
  BY <1>1, <1>2, <1>3, <1>4, <1>5, <1>6, <1>7 DEF ArePolicies

\* The commands of the tables, and those that only read.
LEMMA DefaultCommands ==
  /\ DOMAIN A!DEFAULT_POLICIES = DOMAIN A!READ_COMMAND_POLICIES
             \cup {"git", "gh", "journalctl", "curl", "kubectl", "node", "npx"}
  /\ \A cmd \in DOMAIN A!READ_COMMAND_POLICIES :
           A!DEFAULT_POLICIES[cmd] = A!READ_COMMAND_POLICIES[cmd]
  BY JoinedTables DEF A!DEFAULT_POLICIES

\* The tables of the default profile hold policies.
LEMMA DefaultTablesArePolicies == ArePolicies(A!DEFAULT_POLICIES)
<1>1. A!IsPolicy(A!DEFAULT_POLICIES.git)
  BY BaseIsPolicy, ZenonT(60) DEF A!DEFAULT_POLICIES, A!READ_COMMAND_POLICIES, A!Over, A!IsPolicy
<1>2. A!IsPolicy(A!DEFAULT_POLICIES.gh)
  BY BaseIsPolicy DEF A!DEFAULT_POLICIES, A!READ_COMMAND_POLICIES, A!Over, A!IsPolicy
<1>3. A!IsPolicy(A!DEFAULT_POLICIES.journalctl)
  BY BaseIsPolicy DEF A!DEFAULT_POLICIES, A!READ_COMMAND_POLICIES, A!Over, A!IsPolicy
<1>4. A!IsPolicy(A!DEFAULT_POLICIES.curl)
  BY BaseIsPolicy DEF A!DEFAULT_POLICIES, A!READ_COMMAND_POLICIES, A!Over, A!IsPolicy
<1>5. A!IsPolicy(A!DEFAULT_POLICIES.kubectl)
  BY BaseIsPolicy DEF A!DEFAULT_POLICIES, A!READ_COMMAND_POLICIES, A!Over, A!IsPolicy
<1>6. A!IsPolicy(A!DEFAULT_POLICIES.node)
  BY BaseIsPolicy DEF A!DEFAULT_POLICIES, A!READ_COMMAND_POLICIES, A!Over, A!IsPolicy
<1>7. A!IsPolicy(A!DEFAULT_POLICIES.npx)
  BY BaseIsPolicy DEF A!DEFAULT_POLICIES, A!READ_COMMAND_POLICIES, A!Over, A!IsPolicy
<1> QED
  BY DefaultCommands, <1>1, <1>2, <1>3, <1>4, <1>5, <1>6, <1>7, ReadTablesArePolicies DEF ArePolicies

\* The tables of the build profile hold policies.
LEMMA BuildTablesArePolicies == ArePolicies(A!BUILD_PROFILE_POLICIES)
<1>1. DOMAIN A!BUILD_PROFILE_POLICIES = {"node", "npx", "yarn"}
  BY DEF A!BUILD_PROFILE_POLICIES
<1>2. A!IsPolicy(A!DEFAULT_POLICIES.node) /\ A!IsPolicy(A!DEFAULT_POLICIES.npx)
  <2>1. {"node", "npx"} \subseteq DOMAIN A!DEFAULT_POLICIES
    BY DefaultCommands
  <2> QED
    BY <2>1, DefaultTablesArePolicies DEF ArePolicies
<1>3. A!IsPolicy(A!BUILD_PROFILE_POLICIES.node)
  BY <1>2 DEF A!BUILD_PROFILE_POLICIES, A!IsPolicy
<1>4. A!IsPolicy(A!BUILD_PROFILE_POLICIES.npx)
  BY <1>2 DEF A!BUILD_PROFILE_POLICIES, A!IsPolicy
<1>5. A!IsPolicy(A!BUILD_PROFILE_POLICIES.yarn)
  BY BaseIsPolicy DEF A!BUILD_PROFILE_POLICIES, A!extendSubcommands, A!IsPolicy
<1> QED
  BY <1>1, <1>3, <1>4, <1>5 DEF ArePolicies

\* What a command is checked by is a policy.
LEMMA ResolvedArePolicies ==
  ASSUME NEW guard, ArePolicies(guard.policies) PROVE ArePolicies(A!resolvePolicies(guard))
  BY DefaultTablesArePolicies, BuildTablesArePolicies, JoinedArePolicies DEF A!resolvePolicies

\* Policies are policies, and a request that was admitted had passed the guard
\* under the configuration there still is.
AdmissionInv ==
  /\ LoadInv
  /\ ArePolicies(config.policies)
  /\ verdict = "pass" =>
       /\ phase = "ready" /\ request \in Admissions
       /\ A!checkGuard(request[1], request[2], A!guardOf(config)) = "pass"
       /\ executed = A!buildExecArgs(request[1], request[2], A!guardOf(config))

\* What a file adds to the tables passed the schema of a policy.
LEMMA FilesHoldPolicies ==
  ASSUME NEW file \in GlobalFiles \cup ProjectFiles, "policies" \in DOMAIN A!validateConfigLayer(file)
  PROVE  ArePolicies(A!validateConfigLayer(file)["policies"])
<1> DEFINE raw == file["policies"].v
           layer == A!validateConfigLayer(file)
<1>1. "policies" \in DOMAIN file /\ file["policies"].ok /\ layer["policies"] = A!pickValid(raw)
  BY DEF A!validateConfigLayer, A!pickValid, A!Entries
<1>2. \A cmd \in DOMAIN raw : raw[cmd].ok => A!IsPolicy(raw[cmd].v)
  BY <1>1, PoliciesAssumption
<1> HIDE DEF raw
<1>3. ArePolicies(A!pickValid(raw))
  BY <1>2 DEF ArePolicies, A!pickValid
<1> QED
  BY <1>1, <1>3

\* The policies of a layer go before those there are.
LEMMA MergedPolicies ==
  ASSUME NEW base, Complete(base), NEW layer
  PROVE  A!mergeConfig(base, layer).policies =
           IF "policies" \in DOMAIN layer THEN A!Over(layer["policies"], base.policies)
           ELSE base.policies
  BY DEF Complete, Fields, A!mergeConfig, A!mergeGuardConfig

\* No step gives up AdmissionInv: a layer only adds policies, and an admission
\* is decided under the configuration it leaves.
LEMMA AdmissionStep == AdmissionInv /\ [MCNext]_allVars => AdmissionInv'
<1> SUFFICES ASSUME AdmissionInv, [MCNext]_allVars PROVE AdmissionInv'
  OBVIOUS
<1>1. LoadInv'
  BY LoadStep DEF AdmissionInv
<1>2. Complete(config)
  BY DEF AdmissionInv, LoadInv
<1>3. ASSUME UNCHANGED admissionVars PROVE AdmissionInv'
  BY <1>1, <1>3 DEF AdmissionInv, admissionVars
<1>4. ASSUME A!Load, UNCHANGED <<request, verdict, executed>> PROVE AdmissionInv'
  <2>1. verdict' # "pass"
    <3>1. phase # "ready"
      BY <1>4 DEF A!Load, A!ReadGlobal, A!ReadProject, A!ReadEnv
    <3> QED
      BY <1>4, <3>1 DEF AdmissionInv
  <2>2. ASSUME NEW file \in GlobalFiles \cup ProjectFiles,
               config' = A!mergeConfig(config, A!validateConfigLayer(file))
        PROVE  ArePolicies(config'.policies)
    BY <1>2, <2>2, FilesHoldPolicies, MergedPolicies, JoinedArePolicies DEF AdmissionInv
  <2>3. ASSUME NEW file \in ProjectFiles, config' = A!narrow(config, A!validateConfigLayer(file))
        PROVE  ArePolicies(config'.policies)
    <3>1. config'.policies = config.policies
      BY <1>2, <2>3 DEF Complete, Fields, A!narrow, A!narrowed
    <3> QED
      BY <3>1 DEF AdmissionInv
  <2>4. ASSUME NEW env \in Environments, config' = A!mergeConfig(config, A!envToConfig(env))
        PROVE  ArePolicies(config'.policies)
    <3>1. "policies" \notin DOMAIN A!envToConfig(env)
      BY DEF A!envToConfig, A!EnvFields
    <3>2. config'.policies = config.policies
      BY <1>2, <2>4, <3>1, MergedPolicies
    <3> QED
      BY <3>2 DEF AdmissionInv
  <2>5. ArePolicies(config'.policies)
    BY <1>4, <2>2, <2>3, <2>4 DEF A!Load, A!ReadGlobal, A!ReadProject, A!ReadEnv
  <2> QED
    BY <1>1, <2>1, <2>5 DEF AdmissionInv
<1>5. ASSUME NEW r \in Admissions, A!Admit(r) PROVE AdmissionInv'
  BY <1>1, <1>5 DEF AdmissionInv, A!Admit, A!configVars
<1> QED
  BY <1>3, <1>4, <1>5 DEF MCNext, Answering, Admitting, A!Next, allVars

\* Before anything is loaded there is no policy and no verdict.
LEMMA AdmissionInitially == MCInit => AdmissionInv
<1>1. MCInit => config.policies = <<>> /\ verdict = "none"
  BY DEF MCInit, A!AInit, A!Init, A!DEFAULT_CONFIG
<1> QED
  BY <1>1, LoadInitially DEF AdmissionInv, ArePolicies

-----------------------------------------------------------------------------
\* What a verdict of "pass" says: nothing was denied and, with allowed paths, the
\* directory and all that was found lie within them.
LEMMA PassedTheGuard ==
  ASSUME NEW cmd, NEW args, NEW guard, A!checkGuard(cmd, args, guard) = "pass"
  PROVE  LET c == A!Checked(cmd, args, guard)
             found == A!collectPathCandidates(c.tokens, c.policy,
                                              cmd \in DOMAIN A!resolvePolicies(guard))
         IN  /\ ~c.denied
             /\ guard.paths # {} => /\ A!isAllowedPath(A!cwd, guard.paths)
                                    /\ \A v \in found : A!isAllowedPath(A!Leads(v), guard.paths)
  BY Zenon DEF A!checkGuard

\* Where the working directory is allowed, only these values lead outside.
Outward == {"out", "link"}

\* A value leads outside only if it is one of Outward.
LEMMA OnlyOutward ==
  ASSUME NEW roots, A!isAllowedPath(A!cwd, roots), NEW v, ~A!isAllowedPath(A!Leads(v), roots)
  PROVE  v \in Outward
<1>1. A!isAllowedPath("/w/sub", roots)
  BY DEF A!isAllowedPath, A!isWithin, A!realPathOf, A!cwd
<1>2. v \notin Outward => A!Leads(v) = "/w/sub"
  BY DEF A!Leads, Outward
<1> QED
  BY <1>1, <1>2

\* Both are recognised as paths.
LEMMA OutwardIsPath == \A v \in Outward : A!isPathArg(v) /\ v # "none" /\ v # "kv"
  BY DEF Outward, A!isPathArg, A!isPathLikeValue, A!existsUnder

\* What a token holds is looked at.
LEMMA TokenIsLookedAt ==
  ASSUME NEW tokens, NEW policy, NEW known, NEW t \in tokens, t.kind # "passed"
  PROVE  A!ValueOf(policy, known, t) \subseteq A!collectPathCandidates(tokens, policy, known)
  BY DEF A!collectPathCandidates

\* So is the value of an option.
LEMMA GivenIsLookedAt ==
  ASSUME NEW tokens, NEW policy, NEW known, NEW t \in tokens, t.kind = "flag", t.value \in Outward
  PROVE  t.value \in A!collectPathCandidates(tokens, policy, known)
<1>1. t.value \in A!ValueOf(policy, known, t)
  BY OutwardIsPath DEF A!ValueOf
<1> QED
  BY <1>1, TokenIsLookedAt

\* So is a positional argument, and what follows the = of one.
LEMMA PositionalIsLookedAt ==
  ASSUME NEW tokens, NEW policy, NEW known, NEW t \in tokens, t.kind = "positional"
  PROVE  /\ t.name \in Outward => t.name \in A!collectPathCandidates(tokens, policy, known)
         /\ t.name = "kv" /\ ~(known /\ (policy.positionals = "url" \/ policy.text))
              => "out" \in A!collectPathCandidates(tokens, policy, known)
<1>1. t.name \in Outward => t.name \in A!ValueOf(policy, known, t)
  BY OutwardIsPath DEF A!ValueOf
<1>2. t.name = "kv" /\ ~(known /\ (policy.positionals = "url" \/ policy.text))
        => "out" \in A!ValueOf(policy, known, t)
  BY Zenon DEF A!ValueOf
<1> QED
  BY <1>1, <1>2, TokenIsLookedAt

\* An argument without a table is looked at under every reading.
LEMMA UnreadIsLookedAt ==
  ASSUME NEW a, NEW policy
  PROVE  LET found == UNION {A!ValueOf(policy, FALSE, t) : t \in A!PolicylessTokens(a)}
         IN  /\ a.form = "word" /\ a.name \in Outward => a.name \in found
             /\ a.form \in {"long", "bundle"} /\ a.rest \in Outward => a.rest \in found
             /\ a = A!Word("kv") => "out" \in found
<1> DEFINE read == A!ParsedArg("positional", a.name, "none")
           option == A!ParsedArg("flag", IF a.form = "bundle" THEN "any" ELSE a.name, a.rest)
<1>1. a.form = "word" => read \in A!PolicylessTokens(a)
  BY DEF A!PolicylessTokens
<1>2. a.form \in {"long", "bundle"} => option \in A!PolicylessTokens(a)
  BY DEF A!PolicylessTokens
<1>3. a.name \in Outward => a.name \in A!ValueOf(policy, FALSE, read)
  BY OutwardIsPath DEF A!ValueOf, A!ParsedArg
<1>4. a.rest \in Outward => a.rest \in A!ValueOf(policy, FALSE, option)
  BY OutwardIsPath DEF A!ValueOf, A!ParsedArg
<1>5. a.name = "kv" => "out" \in A!ValueOf(policy, FALSE, read)
  BY DEF A!ValueOf, A!ParsedArg
<1>6. a = A!Word("kv") => a.form = "word" /\ a.name = "kv"
  BY DEF A!Word, A!Arg
<1> HIDE DEF read, option
<1> QED
  BY <1>1, <1>2, <1>3, <1>4, <1>5, <1>6

\* So is an argument that is passed on.
LEMMA PassedIsLookedAt ==
  ASSUME NEW tokens, NEW policy, NEW known, NEW a, A!Passed(a) \in tokens
  PROVE  UNION {A!ValueOf(policy, FALSE, t) : t \in A!PolicylessTokens(a)}
           \subseteq A!collectPathCandidates(tokens, policy, known)
<1>1. A!Passed(a).kind = "passed" /\ A!Passed(a).arg = a
  BY DEF A!Passed
<1>2. A!PolicylessTokens(a) \subseteq A!PassedOn(tokens)
  BY <1>1, Zenon DEF A!PassedOn, A!tokenizePolicyless
<1>3. UNION {A!ValueOf(policy, FALSE, t) : t \in A!PassedOn(tokens)}
        \subseteq A!collectPathCandidates(tokens, policy, known)
  BY DEF A!collectPathCandidates
<1> QED
  BY <1>2, <1>3

\* What may lead outside is among the values that were looked at.
LookedAt(a, verb, unread, option, plain, found) ==
  /\ a.form = "word" /\ ~verb => (a.name \in Outward => a.name \in found)
  /\ a.rest # "none" /\ (unread \/ option) => (a.rest \in Outward => a.rest \in found)
  /\ a = A!Word("kv") /\ ~verb /\ (unread \/ plain) => "out" \in found

\* An argument of a command that no policy is for.
LEMMA UnknownIsLookedAt ==
  ASSUME NEW args, NEW a \in A!Range(args), a \in A!Arguments,
         NEW verb, NEW unread, NEW option, NEW plain
  PROVE  LookedAt(a, verb, unread, option, plain,
           A!collectPathCandidates(A!tokenizePolicyless(A!Range(args)), A!Base, FALSE))
<1> DEFINE tokens == A!tokenizePolicyless(A!Range(args))
           read == A!ParsedArg("positional", a.name, "none")
           named == A!ParsedArg("flag", IF a.form = "bundle" THEN "any" ELSE a.name, a.rest)
           found == A!collectPathCandidates(tokens, A!Base, FALSE)
<1>1. A!PolicylessTokens(a) \subseteq tokens
  BY Zenon DEF A!tokenizePolicyless
<1>2. a.form = "word" => read \in tokens
  BY <1>1 DEF A!PolicylessTokens
<1>3. a.form \in {"long", "bundle"} => named \in tokens
  BY <1>1 DEF A!PolicylessTokens
<1>4. /\ read.kind = "positional" /\ read.name = a.name
      /\ named.kind = "flag" /\ named.value = a.rest
  BY DEF A!ParsedArg
<1>5. a.rest # "none" => a.form \in {"long", "bundle"}
  BY ArgumentIsRead
<1>6. a = A!Word("kv") => a.form = "word" /\ a.name = "kv"
  BY DEF A!Word, A!Arg
<1> HIDE DEF tokens, read, named
<1>7. a.form = "word" => /\ a.name \in Outward => a.name \in found
                         /\ a.name = "kv" => "out" \in found
  BY <1>2, <1>4, PositionalIsLookedAt
<1>8. a.form \in {"long", "bundle"} /\ a.rest \in Outward => a.rest \in found
  BY <1>3, <1>4, GivenIsLookedAt
<1> HIDE DEF found
<1>9. LookedAt(a, verb, unread, option, plain, found)
  BY <1>5, <1>6, <1>7, <1>8 DEF LookedAt
<1> QED
  BY <1>9 DEF found, tokens

\* An argument of a command whose policy let it pass.
LEMMA KnownIsLookedAt ==
  ASSUME NEW all \in Seq(A!Arguments), NEW policy, A!IsPolicy(policy),
         ~A!checkPolicy(all, policy).denied,
         NEW i \in DOMAIN A!Split(all, policy).rest
  PROVE  LET split == A!Split(all, policy)
             a == split.rest[i]
             flags == A!effectiveFlags(policy, split.sub)
             role == A!Roles(split.rest, flags)
             c == A!checkPolicy(all, policy)
         IN  LookedAt(a, VerbOf(policy, split.sub, a.name), Behind(policy, role, i),
                      role[i] = "option" /\ Glued(flags, a),
                      role[i] = "positional" /\ ~policy.text,
                      A!collectPathCandidates(c.tokens, c.policy, TRUE))
<1> DEFINE split == A!Split(all, policy)
           args == split.rest
           a == args[i]
           flags == A!effectiveFlags(policy, split.sub)
           role == A!Roles(args, flags)
           c == A!checkPolicy(all, policy)
           tokens == A!tokenizeArgs(args, flags, policy)
           verb == VerbOf(policy, split.sub, a.name)
           found == A!collectPathCandidates(c.tokens, c.policy, TRUE)
<1>1. args \in Seq(A!Arguments) /\ i \in 1 .. Len(args)
  <2>1. args \in Seq(A!Arguments) /\ i \in DOMAIN args
    BY SplitIsPart
  <2> HIDE DEF args
  <2> QED
    BY <2>1
<1>2. a \in A!Arguments
  BY <1>1
<1>3. ReadAs(a, flags, policy, role, tokens, i) /\ RoleCases(args, flags, role, i)
  <2> HIDE DEF args, flags
  <2>1. Len(args) \in Nat /\ DOMAIN args = 1 .. Len(args)
    BY <1>1
  <2> QED
    BY <1>1, <2>1, EveryArgumentIsRead, RolesByCase
<1>4. PolicyPasses(all, policy) /\ TokensOf(all, policy) = tokens
  BY PolicyReadsAll DEF TokensOf
<1>5. /\ a.rest # "none" => a.form \in {"long", "bundle"}
      /\ a.form = "word" => A!Text(a) = a.name
      /\ a = A!Word("kv") => a.form = "word" /\ a.name = "kv" /\ a.rest = "none"
  BY <1>2, ArgumentIsRead DEF A!Text, A!Word, A!Arg
<1>6. /\ \A t \in A!Range(tokens) : t.kind # "positional" => t \in c.tokens
      /\ \A t \in A!Range(tokens) : t.kind = "positional" =>
           \/ VerbOf(policy, split.sub, t.name)
           \/ t \in c.tokens /\ (c.policy.positionals = "url" => t.name = "url")
      /\ c.policy.text <=> policy.text
  BY <1>4, Zenon DEF PolicyPasses
<1>0. SUFFICES LookedAt(a, verb, Behind(policy, role, i), role[i] = "option" /\ Glued(flags, a),
                        role[i] = "positional" /\ ~policy.text, found)
  OBVIOUS
<1> HIDE DEF split, args, a, flags, role, c, tokens, verb, found
\* It is passed on and read in every way.
<1>7. CASE Behind(policy, role, i)
  <2>1. A!Passed(a) \in A!Range(tokens) /\ A!Passed(a).kind = "passed"
    BY <1>3, <1>7 DEF ReadAs, A!Passed
  <2>2. A!Passed(a) \in c.tokens
    BY <1>6, <2>1
  <2>3. UNION {A!ValueOf(c.policy, FALSE, t) : t \in A!PolicylessTokens(a)} \subseteq found
    BY <2>2, PassedIsLookedAt DEF found
  <2>4. /\ a.form = "word" /\ a.name \in Outward => a.name \in found
        /\ a.form \in {"long", "bundle"} /\ a.rest \in Outward => a.rest \in found
        /\ a = A!Word("kv") => "out" \in found
    BY <2>3, UnreadIsLookedAt
  <2> QED
    BY <1>5, <2>4 DEF LookedAt
<1>8. CASE ~Behind(policy, role, i) /\ role[i] = "positional"
  <2> DEFINE t == A!ParsedArg("positional", A!Text(a), "none")
  <2>1. t \in A!Range(tokens) /\ t.kind = "positional" /\ t.name = A!Text(a)
    BY <1>3, <1>8 DEF ReadAs, A!ParsedArg
  <2> HIDE DEF t
  <2>2. a.form = "word" /\ ~verb =>
          t \in c.tokens /\ t.name = a.name /\ (c.policy.positionals = "url" => t.name = "url")
    BY <1>5, <1>6, <2>1 DEF verb
  <2>3. a.form = "word" /\ ~verb /\ a.name \in Outward => a.name \in found
    BY <2>1, <2>2, PositionalIsLookedAt DEF found
  <2>4. a.form = "word" /\ ~verb /\ a.name = "kv" /\ ~policy.text => "out" \in found
    <3>1. SUFFICES ASSUME a.form = "word", ~verb, a.name = "kv", ~policy.text
                   PROVE  "out" \in found
      OBVIOUS
    <3>2. t \in c.tokens /\ t.name = "kv" /\ t.kind = "positional"
      BY <2>1, <2>2, <3>1
    <3>3. c.policy.positionals # "url" /\ ~c.policy.text
      BY <1>6, <2>2, <3>1
    <3> QED
      BY <3>2, <3>3, PositionalIsLookedAt DEF found
  <2> QED
    BY <1>5, <1>8, <2>3, <2>4 DEF LookedAt
<1>9. ASSUME NEW v \in Outward, Given(tokens, v) PROVE v \in found
  <2>1. PICK t \in A!Range(tokens) : t.kind = "flag" /\ t.value = v
    BY <1>9 DEF Given
  <2>2. t \in c.tokens
    BY <1>6, <2>1
  <2> QED
    BY <2>1, <2>2, GivenIsLookedAt DEF found
<1>10. CASE ~Behind(policy, role, i) /\ role[i] # "positional"
  <2>1. a.form = "word" => role[i] = "value"
    BY <1>3, <1>10 DEF RoleCases, a
  <2>2. role[i] = "value" => Given(tokens, A!Text(a))
    BY <1>3, <1>10 DEF ReadAs
  <2>3. a.form = "word" /\ a.name \in Outward => a.name \in found
    BY <1>5, <1>9, <2>1, <2>2
  <2>4. role[i] = "option" /\ a.rest # "none" /\ Glued(flags, a) => Given(tokens, a.rest)
    BY <1>3, <1>10 DEF ReadAs
  <2> QED
    BY <1>5, <1>9, <1>10, <2>3, <2>4 DEF LookedAt
<1> QED
  BY <1>7, <1>8, <1>10

\* What the guard lets pass of a request it admitted.
LEMMA EveryArgumentIsLookedAt ==
  ASSUME NEW cmd, NEW all \in Seq(A!Arguments), NEW guard, ArePolicies(guard.policies),
         ~A!Checked(cmd, all, guard).denied,
         NEW policies, policies = A!resolvePolicies(guard),
         NEW policy, policy = IF cmd \in DOMAIN policies THEN policies[cmd] ELSE A!Base,
         NEW i \in DOMAIN A!Split(all, policy).rest
  PROVE  LET split == A!Split(all, policy)
             a == split.rest[i]
             flags == A!effectiveFlags(policy, split.sub)
             role == A!Roles(split.rest, flags)
             c == A!Checked(cmd, all, guard)
         IN  LookedAt(a, VerbOf(policy, split.sub, a.name),
                      cmd \notin DOMAIN policies \/ Behind(policy, role, i),
                      role[i] = "option" /\ Glued(flags, a),
                      role[i] = "positional" /\ ~policy.text,
                      A!collectPathCandidates(c.tokens, c.policy, cmd \in DOMAIN policies))
<1> DEFINE split == A!Split(all, policy)
           args == split.rest
           a == args[i]
           flags == A!effectiveFlags(policy, split.sub)
           role == A!Roles(args, flags)
           c == A!Checked(cmd, all, guard)
           verb == VerbOf(policy, split.sub, a.name)
           unread == cmd \notin DOMAIN policies \/ Behind(policy, role, i)
           option == role[i] = "option" /\ Glued(flags, a)
           plain == role[i] = "positional" /\ ~policy.text
           found == A!collectPathCandidates(c.tokens, c.policy, cmd \in DOMAIN policies)
           version == A!isVersionQuery(cmd, all, A!policySource(guard, cmd))
<1>1. a \in A!Range(all) /\ a \in A!Arguments /\ \E j \in DOMAIN all : a = all[j]
  <2>1. Within(all, args)
    BY SplitIsPart
  <2>2. PICK j \in DOMAIN all : a = all[j]
    BY <2>1 DEF Within
  <2> HIDE DEF a
  <2> QED
    BY <2>2 DEF A!Range
<1>2. CASE cmd \notin DOMAIN policies
  <2>1. c.tokens = A!tokenizePolicyless(A!Range(all)) /\ c.policy = A!Base
    BY <1>2, Zenon DEF A!Checked, A!NothingRead
  <2>2. found = A!collectPathCandidates(A!tokenizePolicyless(A!Range(all)), A!Base, FALSE)
    <3>1. (cmd \in DOMAIN policies) = FALSE
      BY <1>2
    <3> HIDE DEF c
    <3> QED
      BY <2>1, <3>1
  <2> HIDE DEF a, verb, unread, option, plain, found
  <2>3. LookedAt(a, verb, unread, option, plain, found)
    BY <1>1, <2>2, UnknownIsLookedAt
  <2> QED
    BY <2>3 DEF a, verb, unread, option, plain, found
<1>3. CASE cmd \in DOMAIN policies /\ version
  <2>1. all = <<A!Long("--version", "none")>>
    BY <1>3 DEF A!isVersionQuery
  <2>2. a = A!Long("--version", "none")
    BY <1>1, <2>1
  <2>3. a.form = "long" /\ a.rest = "none" /\ a # A!Word("kv")
    BY <2>2 DEF A!Long, A!Word, A!Arg
  <2> HIDE DEF a, verb, unread, option, plain, found
  <2>4. LookedAt(a, verb, unread, option, plain, found)
    BY <2>3 DEF LookedAt
  <2> QED
    BY <2>4 DEF a, verb, unread, option, plain, found
<1>4. CASE cmd \in DOMAIN policies /\ ~version
  <2>1. policy = policies[cmd] /\ A!IsPolicy(policy)
    BY <1>4, ResolvedArePolicies DEF ArePolicies
  <2>2. c = A!checkPolicy(all, policy)
    BY <1>4, <2>1 DEF A!Checked
  <2>3. ~A!checkPolicy(all, policy).denied
    BY <2>2
  <2>4. LookedAt(a, verb, Behind(policy, role, i), option, plain,
                 A!collectPathCandidates(A!checkPolicy(all, policy).tokens,
                                         A!checkPolicy(all, policy).policy, TRUE))
    BY <2>1, <2>3, KnownIsLookedAt
  <2>5. found = A!collectPathCandidates(A!checkPolicy(all, policy).tokens,
                                        A!checkPolicy(all, policy).policy, TRUE)
    BY <1>4, <2>2
  <2> HIDE DEF a, verb, option, plain, found, role, c
  <2>6. LookedAt(a, verb, unread, option, plain, found)
    BY <1>4, <2>4, <2>5 DEF LookedAt
  <2> QED
    BY <2>6 DEF a, verb, option, plain, found, role, c
<1> QED
  BY <1>2, <1>3, <1>4

\* PathsStayInside follows from the verdict of the guard.
LEMMA AdmittedStayInside == AdmissionInv => PathsStayInside
<1> DEFINE guard == A!guardOf(config)
           cmd == request[1]
           all == request[2]
           policies == A!resolvePolicies(guard)
           policy == A!policyOf(cmd)
           split == A!Split(all, policy)
           args == split.rest
           flags == A!effectiveFlags(policy, split.sub)
           role == A!Roles(args, flags)
           c == A!Checked(cmd, all, guard)
           found == A!collectPathCandidates(c.tokens, c.policy, cmd \in DOMAIN policies)
           verb(i) == VerbOf(policy, split.sub, args[i].name)
           unread(i) == cmd \notin DOMAIN policies \/ Behind(policy, role, i)
           option(i) == role[i] = "option" /\ Glued(flags, args[i])
           plain(i) == role[i] = "positional" /\ ~policy.text
<1> SUFFICES ASSUME AdmissionInv, verdict = "pass", config.paths # {} PROVE PathsStayInside
  BY DEF PathsStayInside, A!PathsStayInside
<1>1. guard.paths = config.paths /\ guard.policies = config.policies
  BY DEF A!guardOf
<1>2. all \in Seq(A!Arguments)
  BY ArgumentsAssumption DEF AdmissionInv
<1>3. /\ ~c.denied /\ A!isAllowedPath(A!cwd, config.paths)
      /\ \A v \in found : A!isAllowedPath(A!Leads(v), config.paths)
  BY <1>1, PassedTheGuard DEF AdmissionInv
<1>4. policy = IF cmd \in DOMAIN policies THEN policies[cmd] ELSE A!Base
  BY DEF A!policyOf
<1>5. ASSUME NEW i \in DOMAIN args
      PROVE  LookedAt(args[i], verb(i), unread(i), option(i), plain(i), found)
  <2>1. ArePolicies(guard.policies)
    BY <1>1 DEF AdmissionInv
  <2> HIDE DEF guard, cmd, all, policy
  <2> QED
    BY <1>2, <1>3, <1>4, <1>5, <2>1, EveryArgumentIsLookedAt
<1>6. \A v : ~A!isAllowedPath(A!Leads(v), config.paths) => v \in Outward /\ v \notin found
  BY <1>3, OnlyOutward
<1>7. ASSUME NEW i \in DOMAIN args
      PROVE  /\ args[i].form = "word" /\ ~verb(i) => ~A!LeadsOut(args[i].name)
             /\ args[i].rest # "none" /\ (unread(i) \/ option(i)) => ~A!LeadsOut(args[i].rest)
             /\ args[i] = A!Word("kv") /\ ~verb(i) /\ (unread(i) \/ plain(i))
                  => ~A!LeadsOut("out")
  <2>1. LookedAt(args[i], verb(i), unread(i), option(i), plain(i), found)
    BY <1>5
  <2> HIDE DEF args, verb, unread, option, plain, found
  <2> QED
    BY <1>6, <2>1 DEF LookedAt, A!LeadsOut
<1> QED
  BY <1>3, <1>7 DEF PathsStayInside, A!PathsStayInside, VerbOf, Behind, Glued

\* PathsStayInside for all configuration files, requests and allowed paths.
THEOREM AdmittedPathsStayInside == MCSpec => []PathsStayInside
  BY AdmissionInitially, AdmissionStep, AdmittedStayInside, PTL DEF MCSpec

-----------------------------------------------------------------------------
(***************************************************************************)
(* What is executed of an admitted request.                                *)
(***************************************************************************)

\* What git is given: settings in front, and options right after what was
\* checked as its subcommand.
GitIsGiven(args, policy, executed1) ==
  \E n \in 0 .. Len(args), mine \in {<<>>, <<A!Long("--no-textconv", "none")>>} :
    /\ executed1 = A!GIT_CONFIG_OVERRIDES \o SubSeq(args, 1, n) \o mine
                     \o SubSeq(args, n + 1, Len(args))
    /\ mine # <<>> /\ policy.subs # {} =>
         SubSeq(args, n + 1, Len(args)) = A!Split(args, policy).rest

\* GitIsGiven holds of what buildExecArgs makes of a request of git.
LEMMA GitOptionsFollow ==
  ASSUME NEW args \in Seq(A!Arguments), NEW guard,
         NEW policy, policy = A!resolvePolicies(guard)["git"]
  PROVE  GitIsGiven(args, policy, A!buildExecArgs("git", args, guard))
<1> DEFINE m == Len(args)
           n == A!Leading(policy, args)
           sub == IF n < m THEN args[n + 1].name ELSE "none"
           front == A!GIT_CONFIG_OVERRIDES
           mine == <<A!Long("--no-textconv", "none")>>
           e == A!buildExecArgs("git", args, guard)
<1>1. m \in Nat /\ n \in 0 .. m
  BY LeadingFlags
<1>2. DOMAIN A!GIT_SUBCOMMAND_OVERRIDES = {"log"} /\ A!GIT_SUBCOMMAND_OVERRIDES["log"] = mine
  BY DEF A!GIT_SUBCOMMAND_OVERRIDES
<1>3. sub # "log" => e = front \o args
  BY <1>2 DEF A!buildExecArgs
<1>4. sub = "log" => e = front \o SubSeq(args, 1, n + 1) \o mine \o SubSeq(args, n + 2, m)
  BY <1>2 DEF A!buildExecArgs
<1>5. front \in Seq({front[1], front[2]})
  BY DEF A!GIT_CONFIG_OVERRIDES
<1> HIDE DEF n, e, front
<1>6. CASE sub # "log"
  <2>1. SubSeq(args, 1, 0) = <<>> /\ SubSeq(args, 0 + 1, m) = args
    BY <1>1
  <2>2. front \o SubSeq(args, 1, 0) \o <<>> \o SubSeq(args, 0 + 1, m) = front \o args
    BY <1>5, <2>1
  <2>3. 0 \in 0 .. Len(args) /\ e = front \o SubSeq(args, 1, 0) \o <<>> \o SubSeq(args, 0 + 1, m)
    BY <1>1, <1>3, <1>6, <2>2
  <2> QED
    BY <2>3, Zenon DEF GitIsGiven, e, front
<1>7. CASE sub = "log"
  <2>1. n < m
    BY <1>7
  <2>2. n + 1 \in 0 .. Len(args) /\ (n + 1) + 1 = n + 2
    BY <1>1, <2>1
  <2>3. e = front \o SubSeq(args, 1, n + 1) \o mine \o SubSeq(args, (n + 1) + 1, Len(args))
    BY <1>4, <1>7, <2>2
  <2>4. policy.subs # {} => SubSeq(args, (n + 1) + 1, Len(args)) = A!Split(args, policy).rest
    <3>1. SubSeq(args, n + 1, m) # <<>>
      <4> DEFINE after == SubSeq(args, n + 1, m)
      <4>1. Len(after) = m - n
        BY <1>1, <2>1
      <4> HIDE DEF after
      <4>2. after # <<>>
        BY <1>1, <2>1, <4>1
      <4> QED
        BY <4>2 DEF after
    <3>2. Tail(SubSeq(args, n + 1, m)) = SubSeq(args, n + 2, m)
      BY <1>1, <2>1, <2>2, n + 1 \in 1 .. m, m \in (n + 1) .. m, HeadTailOfSubSeq
    <3>3. policy.subs # {} => A!Split(args, policy).rest = Tail(SubSeq(args, n + 1, m))
      BY <3>1 DEF A!Split, n
    <3> QED
      BY <2>2, <3>2, <3>3
  <2> QED
    BY <2>2, <2>3, <2>4 DEF GitIsGiven, e, front
<1> QED
  BY <1>6, <1>7

\* An argument of ps whose letters are replaced, and how it is read.
Alike(flags, a, b) ==
  /\ b.form = a.form /\ b.rest = a.rest
  /\ A!Waits(flags, b) = A!Waits(flags, a)
  /\ (b = A!Word("num")) <=> (a = A!Word("num"))

\* The letters e and A take no value.
PsFlags(flags) == A!flagKind(flags, "e") = "bool" /\ A!flagKind(flags, "A") = "unknown"

\* Replacing some e by A leaves the first letter that takes a value.
LEMMA SameFirstThatTakes ==
  ASSUME NEW flags, PsFlags(flags), NEW letters, NEW other, NEW n \in Nat,
         DOMAIN letters = 1 .. n, DOMAIN other = 1 .. n,
         \A j \in 1 .. n : other[j] = letters[j] \/ (letters[j] = "e" /\ other[j] = "A")
  PROVE  A!Valued(flags, other) = A!Valued(flags, letters)
<1> DEFINE takes(l) == {j \in DOMAIN l : A!flagKind(flags, l[j]) \notin {"unknown", "bool"}}
<1>1. takes(other) = takes(letters)
  <2>2. ASSUME NEW j \in 1 .. n
        PROVE  A!flagKind(flags, other[j]) \notin {"unknown", "bool"}
                 <=> A!flagKind(flags, letters[j]) \notin {"unknown", "bool"}
    BY DEF PsFlags
  <2> QED
    BY <2>2
<1>2. \A l : A!Valued(flags, l) = IF takes(l) = {} THEN 0
                                  ELSE CHOOSE j \in takes(l) : \A k \in takes(l) : j <= k
  BY DEF A!Valued
<1> HIDE DEF takes
<1> QED
  BY <1>1, <1>2

\* Replacing the letters of a bundle changes nothing that its reading asks for.
LEMMA RewrittenIsAlike ==
  ASSUME NEW flags, PsFlags(flags), NEW a \in A!Arguments, a.form = "bundle"
  PROVE  /\ Alike(flags, a, A!Rewritten(flags, a))
         /\ A!Valued(flags, a.letters) = 0 => "e" \notin A!Range(A!Rewritten(flags, a).letters)
<1> DEFINE b == A!Rewritten(flags, a)
           l == a.letters
           v == A!Valued(flags, l)
           other == [j \in DOMAIN l |-> IF l[j] = "e" /\ (v = 0 \/ j < v) THEN "A" ELSE l[j]]
<1>1. l \in Seq(STRING) /\ l # <<>> /\ a = [form |-> a.form, name |-> a.name,
                                            letters |-> a.letters, rest |-> a.rest]
  <2>1. l \in Seq(STRING) /\ l # <<>>
    BY ArgumentIsRead
  <2>2. a \in [form : {"word", "long", "bundle", "num", "end"}, name : STRING,
               letters : Seq(STRING), rest : STRING]
    BY Zenon DEF A!Arguments
  <2> QED
    BY <2>1, <2>2
<1>2. b = [a EXCEPT !.letters = other]
  BY DEF A!Rewritten
<1> HIDE DEF b, other
<1>3. b.form = a.form /\ b.rest = a.rest /\ b.letters = other
  BY <1>1, <1>2
<1> HIDE DEF l, v
<1>4. /\ DOMAIN other = 1 .. Len(l) /\ DOMAIN l = 1 .. Len(l) /\ Len(l) \in Nat \ {0}
      /\ \A j \in 1 .. Len(l) : other[j] = IF l[j] = "e" /\ (v = 0 \/ j < v) THEN "A" ELSE l[j]
  BY <1>1 DEF other
<1>5. Len(other) = Len(l)
  BY <1>1 DEF other
<1>6. A!Valued(flags, other) = v
  BY <1>4, SameFirstThatTakes DEF v, l
<1>7. v = Len(l) => other[Len(l)] = l[Len(l)]
  BY <1>4
<1>8. A!Waits(flags, b) = A!Waits(flags, a)
  BY <1>3, <1>5, <1>6, <1>7 DEF A!Waits, l, v
<1>9. b # A!Word("num") /\ a # A!Word("num")
  BY <1>3 DEF A!Word, A!Arg
<1>10. v = 0 => "e" \notin A!Range(other)
  BY <1>4 DEF A!Range
<1> QED
  BY <1>3, <1>8, <1>9, <1>10 DEF Alike, b, l, v

\* Every positional argument is a word.
WordsOnly(args, flags) ==
  \A i \in 1 .. Len(args) : A!Roles(args, flags)[i] = "positional" => args[i].form = "word"

\* The two readings agree on which arguments are values.
LEMMA TakenIsValue ==
  ASSUME NEW args \in Seq(A!Arguments), NEW flags, WordsOnly(args, flags)
  PROVE  \A i \in 1 .. Len(args) :
           A!Taken(args, flags)[i] <=> A!Roles(args, flags)[i] = "value"
<1> DEFINE n == Len(args)
           role == A!Roles(args, flags)
           taken == A!Taken(args, flags)
           T == {m \in Nat : \A i \in 1 .. n : i <= m => (taken[i] <=> role[i] = "value")}
<1>1. n \in Nat /\ DOMAIN args = 1 .. n
  OBVIOUS
<1>2. \A i \in 1 .. n : taken[i] = TakenAt(args, flags, taken, i)
  BY <1>1, TakenByPlace
<1>3. \A i \in 1 .. n : RoleCases(args, flags, role, i)
  BY <1>1, RolesByCase
<1>4. \A i \in 1 .. n : role[i] = "positional" => args[i].form = "word"
  BY DEF WordsOnly
<1>5. \A i \in 1 .. n : A!Waits(flags, args[i]) # "none" => args[i].form \in {"long", "bundle"}
  BY DEF A!Waits
<1> HIDE DEF n, role, taken
<1>6. 0 \in T
  BY <1>1
<1>7. ASSUME NEW m \in Nat, m \in T PROVE m + 1 \in T
  <2>1. SUFFICES ASSUME m + 1 \in 1 .. n PROVE taken[m + 1] <=> role[m + 1] = "value"
    BY <1>1, <1>7
  <2>2. taken[m + 1] <=> /\ m >= 1 /\ ~taken[m]
                         /\ args[m].form # "word" /\ m < Len(args) /\ WaitsFor(args, flags, m)
    <3>1. taken[m + 1] = TakenAt(args, flags, taken, m + 1)
      BY <1>2, <2>1
    <3> QED
      BY <3>1 DEF TakenAt, A!TakesNext, WaitsFor
  <2>3. RoleCases(args, flags, role, m + 1)
    BY <1>3, <2>1
  <2>4. CASE m = 0
    BY <2>2, <2>3, <2>4 DEF RoleCases
  <2>5. CASE m >= 1
    <3>1. m \in 1 .. n /\ m < Len(args) /\ (m + 1) - 1 = m
      BY <1>1, <2>1, <2>5 DEF n
    <3>2. RoleCases(args, flags, role, m) /\ (taken[m] <=> role[m] = "value")
      BY <1>3, <1>7, <3>1
    <3>3. role[m + 1] = "value" => role[m] = "option" /\ WaitsFor(args, flags, m)
      BY <2>3, <3>1 DEF RoleCases
    <3>4. role[m] = "option" => args[m].form # "word"
      BY <3>2 DEF RoleCases
    <3>5. taken[m + 1] => role[m] = "option"
      <4>1. WaitsFor(args, flags, m) => args[m].form \in {"long", "bundle"}
        BY <1>5, <3>1 DEF WaitsFor
      <4>2. role[m] = "end" => args[m].form = "end"
        BY <3>2 DEF RoleCases
      <4>3. role[m] \in {"end", "positional", "option", "value"}
        BY <3>2 DEF RoleCases
      <4> QED
        BY <1>4, <2>2, <3>1, <3>2, <4>1, <4>2, <4>3
    <3>6. role[m] = "option" => Ended(role, m + 1) = "open"
      BY <2>5, <3>2, EndedStep DEF RoleCases
    <3>7. role[m] = "option" /\ WaitsFor(args, flags, m) => role[m + 1] = "value"
      BY <2>3, <2>5, <3>1, <3>6 DEF RoleCases
    <3> QED
      BY <2>2, <2>5, <3>1, <3>2, <3>3, <3>4, <3>5, <3>7
  <2> QED
    BY <2>4, <2>5
<1>8. n \in T
  <2> HIDE DEF T
  <2> QED
    BY <1>1, <1>6, <1>7, Induct
<1> QED
  BY <1>1, <1>8 DEF n, role, taken

\* What becomes of one argument of ps.
PsRewrites(args, flags, other) ==
  LET roles == A!Roles(args, flags)
  IN  /\ DOMAIN other = DOMAIN args /\ A!Roles(other, flags) = roles
      /\ \A i \in DOMAIN args :
           IF roles[i] # "option" THEN other[i] = args[i]
           ELSE other[i].rest = args[i].rest
                /\ (A!Valued(flags, args[i].letters) = 0 => "e" \notin A!Range(other[i].letters))

\* PsRewrites holds of what rewritePsSelectAll makes of words and options.
LEMMA RewrittenPlaysItsPart ==
  ASSUME NEW args \in Seq(A!Arguments), NEW flags, PsFlags(flags), WordsOnly(args, flags)
  PROVE  PsRewrites(args, flags, A!rewritePsSelectAll(args, flags))
<1> DEFINE n == Len(args)
           roles == A!Roles(args, flags)
           taken == A!Taken(args, flags)
           other == A!rewritePsSelectAll(args, flags)
<1>1. n \in Nat /\ DOMAIN args = 1 .. n
  OBVIOUS
<1>2. /\ DOMAIN other = 1 .. n
      /\ \A i \in 1 .. n :
           other[i] = IF args[i].form = "bundle" /\ ~taken[i] THEN A!Rewritten(flags, args[i])
                      ELSE args[i]
  BY DEF A!rewritePsSelectAll
<1>3. \A i \in 1 .. n : RoleCases(args, flags, roles, i)
  BY <1>1, RolesByCase
<1>4. \A i \in 1 .. n : /\ args[i] \in A!Arguments
                        /\ taken[i] <=> roles[i] = "value"
                        /\ roles[i] = "positional" => args[i].form = "word"
  BY TakenIsValue DEF WordsOnly
<1> HIDE DEF n, roles, taken, other
<1>5. \A i \in 1 .. n : Alike(flags, args[i], other[i])
  BY <1>2, <1>4, RewrittenIsAlike DEF Alike
<1>6. ASSUME NEW i \in 1 .. n, roles[i] # "option" PROVE other[i] = args[i]
  <2>1. roles[i] \in {"end", "positional", "value"} /\ (roles[i] = "end" => args[i].form = "end")
    BY <1>3, <1>6 DEF RoleCases
  <2> QED
    BY <1>2, <1>4, <2>1
<1>7. ASSUME NEW i \in 1 .. n, roles[i] = "option", A!Valued(flags, args[i].letters) = 0
      PROVE  "e" \notin A!Range(other[i].letters)
  <2>1. CASE args[i].form = "bundle"
    BY <1>2, <1>4, <1>7, <2>1, RewrittenIsAlike
  <2>2. CASE args[i].form # "bundle"
    <3>1. other[i] = args[i] /\ args[i].letters = <<>>
      BY <1>2, <1>4, <2>2, ArgumentIsRead
    <3>2. A!Range(<<>>) = {}
      BY DEF A!Range
    <3> QED
      BY <3>1, <3>2
  <2> QED
    BY <2>1, <2>2
<1>8. \A i \in 1 .. n : other[i].rest = args[i].rest
  BY <1>5 DEF Alike
<1>9. A!Roles(other, flags) = roles
  <2>1. ASSUME NEW i \in 1 .. n, NEW h
        PROVE  RoleAt(args, flags, h, i) = RoleAt(other, flags, h, i)
    <3>1. Alike(flags, args[i], other[i]) /\ (i > 1 => Alike(flags, args[i - 1], other[i - 1]))
      BY <1>1, <1>5
    <3>2. \A f : A!consumesNext(flags, f, args[i]) <=> A!consumesNext(flags, f, other[i])
      BY <3>1 DEF Alike, A!consumesNext
    <3> QED
      BY <3>1, <3>2 DEF RoleAt, Alike
  <2> QED
    BY <1>1, <1>2, <2>1, SameRoles DEF roles
<1> QED
  BY <1>1, <1>2, <1>6, <1>7, <1>8, <1>9 DEF PsRewrites, roles, other

\* What a table adds to one that does not have it.
LEMMA JoinedAt ==
  ASSUME NEW f, NEW g, NEW x, x \in DOMAIN g, x \notin DOMAIN f
  PROVE  x \in DOMAIN A!Over(f, g) /\ A!Over(f, g)[x] = g[x]
  BY DEF A!Over

\* The table of ps that comes with the program.
LEMMA TableOfPs ==
  ASSUME NEW guard, "ps" \notin DOMAIN guard.policies
  PROVE  /\ "ps" \in DOMAIN A!resolvePolicies(guard)
         /\ A!resolvePolicies(guard)["ps"] = A!READ_COMMAND_POLICIES["ps"]
<1>1. "ps" \in DOMAIN A!DEFAULT_POLICIES
      /\ A!DEFAULT_POLICIES["ps"] = A!READ_COMMAND_POLICIES["ps"]
  <2>1. "ps" \in DOMAIN A!READ_COMMAND_POLICIES
    BY DEF A!READ_COMMAND_POLICIES
  <2> QED
    BY <2>1, DefaultCommands
<1>2. "ps" \notin DOMAIN A!BUILD_PROFILE_POLICIES
  BY DEF A!BUILD_PROFILE_POLICIES
<1>3. "ps" \in DOMAIN A!Over(A!BUILD_PROFILE_POLICIES, A!DEFAULT_POLICIES)
      /\ A!Over(A!BUILD_PROFILE_POLICIES, A!DEFAULT_POLICIES)["ps"] = A!DEFAULT_POLICIES["ps"]
  BY <1>1, <1>2, JoinedAt
<1>4. ASSUME NEW g, "ps" \in DOMAIN g
      PROVE  /\ "ps" \in DOMAIN A!Over(guard.policies, g)
             /\ A!Over(guard.policies, g)["ps"] = g["ps"]
  BY <1>4, JoinedAt
<1> QED
  BY <1>1, <1>3, <1>4 DEF A!resolvePolicies

\* What the table of ps says, as far as it is needed.
LEMMA PolicyOfPs ==
  LET policy == A!READ_COMMAND_POLICIES["ps"]
  IN  /\ A!IsPolicy(policy) /\ policy.subs = {} /\ policy.leading = {} /\ ~policy.stop
      /\ policy.letters = TRUE /\ DOMAIN policy.subFlags = {} /\ DOMAIN policy.verbs = {}
      /\ PsFlags(policy.flags)
<1>1. A!IsPolicy(A!READ_COMMAND_POLICIES["ps"])
  BY ReadTablesArePolicies DEF ArePolicies, A!READ_COMMAND_POLICIES
<1> QED
  BY <1>1 DEF A!READ_COMMAND_POLICIES, A!Base, A!NoFlags, PsFlags, A!flagKind

\* What the guard lets pass of ps has words for its positional arguments.
LEMMA PsHasWordsOnly ==
  ASSUME NEW args \in Seq(A!Arguments), NEW guard, ArePolicies(guard.policies),
         "ps" \notin DOMAIN guard.policies, ~A!Checked("ps", args, guard).denied
  PROVE  WordsOnly(args, A!READ_COMMAND_POLICIES["ps"].flags)
<1> DEFINE policy == A!READ_COMMAND_POLICIES["ps"]
           flags == policy.flags
           role == A!Roles(args, flags)
           tokens == A!tokenizeArgs(args, flags, policy)
           version == A!isVersionQuery("ps", args, A!policySource(guard, "ps"))
<1>1. \A i \in 1 .. Len(args) : RoleCases(args, flags, role, i)
  <2>1. Len(args) \in Nat /\ DOMAIN args = 1 .. Len(args)
    OBVIOUS
  <2> QED
    BY <2>1, RolesByCase
<1>2. CASE version
  <2>1. args = <<A!Long("--version", "none")>>
    BY <1>2 DEF A!isVersionQuery
  <2>2. Len(args) = 1
    BY <2>1
  <2> HIDE DEF role, flags
  <2>3. ASSUME NEW i \in 1 .. Len(args), role[i] = "positional" PROVE args[i].form = "word"
    <3>1. i = 1 /\ Ended(role, i) = "open"
      BY <2>2 DEF Ended
    <3> QED
      BY <1>1, <2>3, <3>1 DEF RoleCases
  <2> QED
    BY <2>3 DEF WordsOnly, role, flags
<1>3. CASE ~version
  <2>1. "ps" \in DOMAIN A!resolvePolicies(guard) /\ A!resolvePolicies(guard)["ps"] = policy
    BY TableOfPs
  <2>2. ~A!checkPolicy(args, policy).denied
    <3>1. A!Checked("ps", args, guard) = A!checkPolicy(args, policy)
      BY <1>3, <2>1 DEF A!Checked
    <3> QED
      BY <3>1
  <2>3. PolicyPasses(args, policy)
    BY <2>2, PolicyOfPs, PolicyReadsAll
  <2>4. A!Split(args, policy).rest = args /\ A!Split(args, policy).sub = "none"
    <3>1. policy.subs = {} /\ policy.leading = {}
      BY PolicyOfPs
    <3> HIDE DEF policy
    <3> QED
      BY <3>1, SplitIsPart
  <2>5. TokensOf(args, policy) = tokens
    BY <2>4, PolicyOfPs DEF TokensOf, A!effectiveFlags
  <2>6. \A t \in A!Range(tokens) : t.kind = "positional" => t.name = "word"
    <3> HIDE DEF policy, tokens
    <3> QED
      BY <2>3, <2>5, PolicyOfPs DEF PolicyPasses, VerbOf, policy
  <2>7. ASSUME NEW i \in 1 .. Len(args), role[i] = "positional" PROVE args[i].form = "word"
    <3> DEFINE t == A!ParsedArg("positional", A!Text(args[i]), "none")
    <3>1. ReadAs(args[i], flags, policy, role, tokens, i)
      BY EveryArgumentIsRead
    <3>2. ~Behind(policy, role, i)
      BY PolicyOfPs DEF Behind
    <3>3. t \in A!Range(tokens)
      BY <2>7, <3>1, <3>2 DEF ReadAs
    <3>4. t.kind = "positional" /\ t.name = A!Text(args[i])
      BY DEF A!ParsedArg
    <3>5. A!Text(args[i]) = "word"
      BY <2>6, <3>3, <3>4
    <3> QED
      BY <3>5 DEF A!Text
  <2> QED
    BY <2>7 DEF WordsOnly
<1> QED
  BY <1>2, <1>3

\* What is executed plays the part it was checked for.
LEMMA AdmittedIsExecuted == AdmissionInv => ExecutesWhatWasChecked
<1> DEFINE guard == A!guardOf(config)
           cmd == request[1]
           args == request[2]
           policies == A!resolvePolicies(guard)
           policy == A!policyOf(cmd)
<1> SUFFICES ASSUME AdmissionInv, verdict = "pass" PROVE ExecutesWhatWasChecked
  BY DEF ExecutesWhatWasChecked, A!ExecutesWhatWasChecked
<1>1. guard.policies = config.policies /\ ArePolicies(guard.policies)
  BY DEF A!guardOf, AdmissionInv
<1>2. args \in Seq(A!Arguments)
  BY ArgumentsAssumption DEF AdmissionInv
<1>3. ~A!Checked(cmd, args, guard).denied /\ executed = A!buildExecArgs(cmd, args, guard)
  BY PassedTheGuard DEF AdmissionInv
<1>4. policy = IF cmd \in DOMAIN policies THEN policies[cmd] ELSE A!Base
  BY DEF A!policyOf
<1> HIDE DEF guard, policy
<1>5. ASSUME cmd = "ps", "ps" \notin DOMAIN config.policies
      PROVE  PsRewrites(args, policy.flags, executed)
  <2>1. policies["ps"] = A!READ_COMMAND_POLICIES["ps"] /\ policy = policies["ps"]
    BY <1>1, <1>4, <1>5, TableOfPs
  <2>2. executed = A!rewritePsSelectAll(args, policy.flags)
    BY <1>3, <1>5, <2>1 DEF A!buildExecArgs
  <2>3. PsFlags(policy.flags) /\ WordsOnly(args, policy.flags)
    BY <1>1, <1>2, <1>3, <1>5, <2>1, PolicyOfPs, PsHasWordsOnly
  <2> HIDE DEF args, policies
  <2> QED
    BY <1>2, <2>2, <2>3, RewrittenPlaysItsPart
<1>6. ASSUME cmd = "git" PROVE GitIsGiven(args, policy, executed)
  <2>1. "git" \in DOMAIN policies
    <3>1. "git" \in DOMAIN A!DEFAULT_POLICIES
      BY DefaultCommands
    <3>2. \A f, g : "git" \in DOMAIN g => "git" \in DOMAIN A!Over(f, g)
      BY DEF A!Over
    <3> QED
      BY <3>1, <3>2 DEF A!resolvePolicies
  <2>2. policy = A!resolvePolicies(guard)["git"]
    BY <1>4, <1>6, <2>1
  <2> HIDE DEF args, policies
  <2> QED
    BY <1>2, <1>3, <1>6, <2>2, GitOptionsFollow
<1>7. cmd = "npx" => executed = A!NPX_LOCAL_ONLY \o args
  BY <1>3 DEF A!buildExecArgs
<1>8. cmd \notin {"ps", "git", "npx"} => executed = args
  BY <1>3 DEF A!buildExecArgs
<1> QED
  BY <1>5, <1>6, <1>7, <1>8
  DEF ExecutesWhatWasChecked, A!ExecutesWhatWasChecked, PsRewrites, GitIsGiven, policy

\* ExecutesWhatWasChecked for all configuration files and requests.
THEOREM ExecutedAsChecked == MCSpec => []ExecutesWhatWasChecked
  BY AdmissionInitially, AdmissionStep, AdmittedIsExecuted, PTL DEF MCSpec
-----------------------------------------------------------------------------
(***************************************************************************)
(* The rows of git status, from what was printed to what is retained.      *)
(***************************************************************************)

\* s stands in T after at units.
Stands(s, T, at) ==
  /\ at \in Nat /\ at + Len(s) <= Len(T)
  /\ \A k \in 1 .. Len(s) : T[at + k] = s[k]

LEMMA ListFacts ==
  ASSUME NEW s, IsList(s)
  PROVE  Len(s) \in Nat /\ DOMAIN s = 1 .. Len(s) /\ s \in Seq(ToSet(s))
BY DEF IsList

LEMMA ListOf ==
  ASSUME NEW U, NEW s \in Seq(U) PROVE IsList(s)
<1>1. \A i \in 1 .. Len(s) : s[i] \in ToSet(s)
  BY DEF ToSet
<1>2. s \in Seq(ToSet(s))
  BY <1>1, SeqDef, IsASeq
<1> QED
  BY <1>2 DEF IsList

LEMMA SameLists ==
  ASSUME NEW s, NEW t, IsList(s), IsList(t), Len(s) = Len(t),
         \A i \in 1 .. Len(s) : s[i] = t[i]
  PROVE  s = t
<1>1. s \in Seq(ToSet(s) \cup ToSet(t)) /\ t \in Seq(ToSet(s) \cup ToSet(t))
  BY DEF IsList
<1> QED
  BY <1>1, SeqEqual

LEMMA Joined ==
  ASSUME NEW s, NEW t, IsList(s), IsList(t)
  PROVE  /\ IsList(s \o t) /\ Len(s \o t) = Len(s) + Len(t)
         /\ \A i \in 1 .. Len(s) : (s \o t)[i] = s[i]
         /\ \A i \in 1 .. Len(t) : (s \o t)[Len(s) + i] = t[i]
<1> DEFINE U == ToSet(s) \cup ToSet(t)
<1>1. s \in Seq(U) /\ t \in Seq(U)
  BY DEF IsList
<1> HIDE DEF U
<1>2. s \o t \in Seq(U)
  BY <1>1
<1>3. /\ Len(s \o t) = Len(s) + Len(t)
      /\ \A i \in 1 .. Len(s) : (s \o t)[i] = s[i]
      /\ \A i \in 1 .. Len(t) : (s \o t)[Len(s) + i] = t[i]
  BY <1>1, ConcatProperties
<1> QED
  BY <1>2, <1>3, ListOf

LEMMA Slice ==
  ASSUME NEW s, IsList(s), NEW a \in Nat, NEW b \in Nat, 1 <= a, a <= b + 1, b <= Len(s)
  PROVE  /\ IsList(SubSeq(s, a, b)) /\ Len(SubSeq(s, a, b)) = b - a + 1
         /\ \A i \in 1 .. b - a + 1 : SubSeq(s, a, b)[i] = s[a + i - 1]
<1>1. s \in Seq(ToSet(s))
  BY DEF IsList
<1>2. CASE a <= b
  <2>1. SubSeq(s, a, b) \in Seq(ToSet(s))
    BY <1>1, SubSeqProperties
  <2>2. /\ Len(SubSeq(s, a, b)) = b - a + 1
        /\ \A i \in 1 .. b - a + 1 : SubSeq(s, a, b)[i] = s[a + i - 1]
    BY <1>1, <1>2, SubSeqProperties
  <2> QED
    BY <2>1, <2>2, ListOf
<1>3. CASE b < a
  <2>1. SubSeq(s, a, b) = <<>>
    BY <1>1, <1>3, SubSeqProperties
  <2>2. <<>> \in Seq({}) /\ Len(<<>>) = 0 /\ b - a + 1 = 0
    BY <1>3
  <2>3. IsList(<<>>)
    BY <2>2, ListOf
  <2> QED
    BY <2>1, <2>2, <2>3
<1> QED
  BY <1>2, <1>3

LEMMA Single == \A c : IsList(<<c>>) /\ Len(<<c>>) = 1 /\ <<c>>[1] = c
<1> SUFFICES ASSUME NEW c PROVE IsList(<<c>>) /\ Len(<<c>>) = 1 /\ <<c>>[1] = c
  OBVIOUS
<1>1. <<c>> \in Seq({c})
  OBVIOUS
<1> QED
  BY <1>1, ListOf

LEMMA StandsJoined ==
  ASSUME NEW s, NEW t, IsList(s), IsList(t), NEW T, IsList(T), NEW at \in Nat
  PROVE  Stands(s \o t, T, at) <=> Stands(s, T, at) /\ Stands(t, T, at + Len(s))
<1>1. Len(s) \in Nat /\ Len(t) \in Nat /\ Len(T) \in Nat
  BY ListFacts
<1>2. /\ Len(s \o t) = Len(s) + Len(t)
      /\ \A i \in 1 .. Len(s) : (s \o t)[i] = s[i]
      /\ \A i \in 1 .. Len(t) : (s \o t)[Len(s) + i] = t[i]
  BY Joined
<1>3. ASSUME Stands(s \o t, T, at) PROVE Stands(s, T, at) /\ Stands(t, T, at + Len(s))
  <2>1. \A k \in 1 .. Len(s) + Len(t) : T[at + k] = (s \o t)[k]
    BY <1>2, <1>3 DEF Stands
  <2>2. ASSUME NEW k \in 1 .. Len(t) PROVE T[at + Len(s) + k] = t[k]
    BY <1>1, <1>2, <2>1, Len(s) + k \in 1 .. Len(s) + Len(t), at + (Len(s) + k) = at + Len(s) + k
  <2> QED
    BY <1>1, <1>2, <1>3, <2>1, <2>2 DEF Stands
<1>4. ASSUME Stands(s, T, at), Stands(t, T, at + Len(s)) PROVE Stands(s \o t, T, at)
  <2>1. ASSUME NEW k \in 1 .. Len(s) + Len(t) PROVE T[at + k] = (s \o t)[k]
    <3>1. CASE k <= Len(s)
      BY <1>1, <1>2, <1>4, <3>1 DEF Stands
    <3>2. CASE k > Len(s)
      <4>1. k - Len(s) \in 1 .. Len(t) /\ k = Len(s) + (k - Len(s)) /\ at + k = at + Len(s) + (k - Len(s))
        BY <1>1, <3>2
      <4> QED
        BY <1>2, <1>4, <4>1 DEF Stands
    <3> QED
      BY <1>1, <3>1, <3>2
  <2> QED
    BY <1>1, <1>2, <1>4, <2>1 DEF Stands
<1> QED
  BY <1>3, <1>4

\* The lists of ss, one after the other, fill T; the i-th stands at at[i].
Tiles(ss, T, at) ==
  /\ at \in [1 .. Len(ss) + 1 -> Nat] /\ at[1] = 0 /\ at[Len(ss) + 1] = Len(T)
  /\ \A i \in 1 .. Len(ss) : at[i + 1] = at[i] + Len(ss[i]) /\ Stands(ss[i], T, at[i])

\* What is joined from the first of ss on.
JoinedAt1(ss, f, i) == IF i = 1 THEN ss[i] ELSE f[i - 1] \o ss[i]

LEMMA FlattenByPlace ==
  ASSUME NEW ss, NEW n \in Nat \ {0}, Len(ss) = n
  PROVE  \E f : FlattenSeq(ss) = f[n] /\ \A i \in 1 .. n : f[i] = JoinedAt1(ss, f, i)
<1> DEFINE body(f) == [i \in 1 .. Len(ss) |-> IF i = 1 THEN ss[i] ELSE f[i - 1] \o ss[i]]
           flatten == CHOOSE f : f = body(f)
           Good(m, f) == \A k \in 1 .. m : f[k] = JoinedAt1(ss, f, k)
           T == {m \in Nat : \E f : Good(m, f)}
<1> HIDE DEF Good
<1>1. Nat \subseteq T
  <2>1. 0 \in T
    <3>1. Good(0, ss)
      BY DEF Good
    <3> QED
      BY <3>1
  <2>2. ASSUME NEW m \in Nat, m \in T PROVE m + 1 \in T
    <3>1. PICK f : Good(m, f)
      BY <2>2
    <3> DEFINE h == [k \in 1 .. m + 1 |-> IF k = m + 1 THEN JoinedAt1(ss, f, k) ELSE f[k]]
    <3>2. ASSUME NEW k \in 1 .. m + 1 PROVE h[k] = JoinedAt1(ss, h, k)
      <4>1. k # 1 => k - 1 \in 1 .. m /\ h[k - 1] = f[k - 1]
        OBVIOUS
      <4>2. JoinedAt1(ss, f, k) = JoinedAt1(ss, h, k)
        <5> HIDE DEF h
        <5> QED
          BY <4>1 DEF JoinedAt1
      <4>3. CASE k = m + 1
        BY <4>2, <4>3
      <4>4. CASE k # m + 1
        <5>1. f[k] = JoinedAt1(ss, f, k)
          BY <3>1, <4>4 DEF Good
        <5> QED
          BY <4>2, <4>4, <5>1
      <4> QED
        BY <4>3, <4>4
    <3> HIDE DEF h
    <3>3. Good(m + 1, h)
      BY <3>2 DEF Good
    <3> QED
      BY <3>3
  <2> HIDE DEF T
  <2> QED
    BY <2>1, <2>2, Induct
<1>2. PICK f : Good(n, f)
  BY <1>1
<1> DEFINE h == [i \in 1 .. Len(ss) |-> f[i]]
<1>3. h = body(h)
  <2>1. ASSUME NEW i \in 1 .. Len(ss) PROVE h[i] = body(h)[i]
    <3>1. f[i] = JoinedAt1(ss, f, i)
      BY <1>2 DEF Good
    <3>2. i # 1 => i - 1 \in 1 .. Len(ss) /\ f[i - 1] = h[i - 1]
      OBVIOUS
    <3> QED
      BY <3>1, <3>2 DEF JoinedAt1
  <2> QED
    BY <2>1
<1> HIDE DEF h
<1>4. flatten = body(flatten)
  BY <1>3
<1>5. FlattenSeq(ss) = flatten[n]
  BY DEF FlattenSeq
<1> HIDE DEF flatten
<1>6. \A i \in 1 .. n : flatten[i] = JoinedAt1(ss, flatten, i)
  BY <1>4 DEF JoinedAt1
<1> QED
  BY <1>5, <1>6

LEMMA StandsInLonger ==
  ASSUME NEW s, NEW T, NEW t, IsList(s), IsList(T), IsList(t), NEW at, Stands(s, T, at)
  PROVE  Stands(s, T \o t, at)
<1>1. Len(s) \in Nat /\ Len(t) \in Nat /\ Len(T) \in Nat /\ at \in Nat
  BY ListFacts DEF Stands
<1>2. Len(T \o t) = Len(T) + Len(t) /\ \A i \in 1 .. Len(T) : (T \o t)[i] = T[i]
  BY Joined
<1>3. \A k \in 1 .. Len(s) : at + k \in 1 .. Len(T)
  BY <1>1 DEF Stands
<1> QED
  BY <1>1, <1>2, <1>3 DEF Stands

LEMMA StandsAtEnd ==
  ASSUME NEW T, NEW t, IsList(T), IsList(t) PROVE Stands(t, T \o t, Len(T))
BY ListFacts, Joined DEF Stands

LEMMA FlattenTiles ==
  ASSUME NEW ss, IsList(ss), \A i \in 1 .. Len(ss) : IsList(ss[i])
  PROVE  IsList(FlattenSeq(ss)) /\ \E at : Tiles(ss, FlattenSeq(ss), at)
<1> DEFINE n == Len(ss)
<1>1. n \in Nat
  BY ListFacts
<1>2. CASE n = 0
  <2>1. FlattenSeq(ss) = ss
    BY <1>2 DEF FlattenSeq
  <2> DEFINE at == [i \in 1 .. Len(ss) + 1 |-> 0]
  <2>2. Tiles(ss, ss, at)
    BY <1>2 DEF Tiles
  <2> QED
    BY <2>1, <2>2
<1>3. CASE n # 0
  <2>1. PICK f : FlattenSeq(ss) = f[n] /\ \A i \in 1 .. n : f[i] = JoinedAt1(ss, f, i)
    BY <1>1, <1>3, FlattenByPlace
  <2> DEFINE at == [i \in 1 .. n + 1 |-> IF i = 1 THEN 0 ELSE Len(f[i - 1])]
             Fine(m) == IsList(f[m]) /\ \A i \in 1 .. m : Stands(ss[i], f[m], at[i])
             T == {m \in Nat : m = 0 \/ m > n \/ Fine(m)}
  <2>2. \A i \in 1 .. n : f[i] = IF i = 1 THEN ss[1] ELSE f[i - 1] \o ss[i]
    BY <2>1 DEF JoinedAt1
  <2>3. /\ at[1] = 0 /\ \A i \in 1 .. n : at[i + 1] = Len(f[i])
    BY <1>1
  <2> HIDE DEF at
  <2>4. Nat \subseteq T
    <3>1. 0 \in T
      OBVIOUS
    <3>2. ASSUME NEW m \in Nat, m \in T PROVE m + 1 \in T
      <4>1. CASE m + 1 > n
        BY <4>1
      <4>2. CASE m = 0 /\ m + 1 <= n
        <5>1. f[1] = ss[1] /\ IsList(ss[1]) /\ Len(ss[1]) \in Nat
          BY <1>1, <2>2, <4>2, ListFacts
        <5>2. Stands(ss[1], f[1], at[1])
          BY <2>3, <5>1 DEF Stands
        <5>3. Fine(1)
          BY <5>1, <5>2
        <5> HIDE DEF Fine
        <5> QED
          BY <4>2, <5>3
      <4>3. CASE m # 0 /\ m + 1 <= n
        <5>1. Fine(m) /\ m \in 1 .. n /\ m + 1 \in 1 .. n
          BY <1>1, <3>2, <4>3
        <5>2. f[m + 1] = f[m] \o ss[m + 1] /\ at[m + 1] = Len(f[m])
          <6>1. (m + 1) - 1 = m /\ m + 1 # 1
            BY <4>3
          <6>2. f[m + 1] = f[(m + 1) - 1] \o ss[m + 1]
            BY <2>2, <5>1, <6>1
          <6> QED
            BY <2>3, <5>1, <6>1, <6>2
        <5>3. IsList(f[m]) /\ IsList(ss[m + 1])
          BY <5>1
        <5>4. IsList(f[m + 1])
          BY <5>2, <5>3, Joined
        <5>5. ASSUME NEW i \in 1 .. m + 1 PROVE Stands(ss[i], f[m + 1], at[i])
          <6>1. CASE i = m + 1
            BY <5>2, <5>3, <6>1, StandsAtEnd
          <6>2. CASE i # m + 1
            <7>1. i \in 1 .. m /\ IsList(ss[i])
              BY <5>1, <6>2
            <7>2. Stands(ss[i], f[m], at[i])
              BY <5>1, <7>1
            <7> QED
              BY <5>2, <5>3, <7>1, <7>2, StandsInLonger
          <6> QED
            BY <6>1, <6>2
        <5>6. Fine(m + 1)
          BY <5>4, <5>5
        <5> HIDE DEF Fine
        <5> QED
          BY <5>6
      <4> QED
        BY <1>1, <4>1, <4>2, <4>3
    <3> HIDE DEF T
    <3> QED
      BY <3>1, <3>2, Induct
  <2>5. Fine(n)
    BY <1>1, <1>3, <2>4
  <2>6. ASSUME NEW m \in 1 .. n PROVE IsList(f[m])
    <3>1. m \in T
      BY <1>1, <2>4
    <3> QED
      BY <3>1
  <2>7. ASSUME NEW i \in 1 .. n PROVE at[i + 1] = at[i] + Len(ss[i])
    <3>1. CASE i = 1
      BY <2>2, <2>3, <2>6, <3>1, ListFacts
    <3>2. CASE i # 1
      <4>1. i - 1 \in 1 .. n /\ f[i] = f[i - 1] \o ss[i]
        <5>1. i - 1 \in 1 .. n
          BY <1>1, <3>2
        <5>2. f[i] = IF i = 1 THEN ss[1] ELSE f[i - 1] \o ss[i]
          BY <2>2
        <5> QED
          BY <3>2, <5>1, <5>2
      <4>2. at[i] = Len(f[i - 1]) /\ at[i + 1] = Len(f[i])
        <5>1. at[(i - 1) + 1] = Len(f[i - 1]) /\ (i - 1) + 1 = i
          BY <1>1, <2>3, <4>1
        <5> QED
          BY <2>3, <5>1
      <4>3. IsList(f[i - 1]) /\ IsList(ss[i])
        BY <2>6, <4>1
      <4> QED
        BY <4>1, <4>2, <4>3, Joined
    <3> QED
      BY <3>1, <3>2
  <2>8. at \in [1 .. n + 1 -> Nat]
    <3>1. ASSUME NEW i \in 1 .. n + 1 PROVE (IF i = 1 THEN 0 ELSE Len(f[i - 1])) \in Nat
      BY <1>1, <2>6, ListFacts, i # 1 => i - 1 \in 1 .. n
    <3> QED
      BY <3>1 DEF at
  <2>9. Tiles(ss, f[n], at)
    BY <1>1, <1>3, <2>3, <2>5, <2>7, <2>8 DEF Tiles
  <2> QED
    BY <2>1, <2>5, <2>9
<1> QED
  BY <1>2, <1>3

Unread == [ok |-> FALSE, value |-> <<>>, end |-> 0]
Put(unit, rest) == IF rest.ok THEN [rest EXCEPT !.value = <<unit>> \o @] ELSE Unread

\* What is read of a quoted token from the i-th unit on, when f is read after it.
QuotedAt(text, f, i) ==
  IF i > Len(text) THEN Unread
  ELSE IF text[i] = Quote THEN [ok |-> TRUE, value |-> <<>>, end |-> i]
  ELSE IF text[i] # Backslash THEN Put(text[i], f[i + 1])
  ELSE IF i < Len(text) /\ text[i + 1] \in DOMAIN Escapes
       THEN Put(Escapes[text[i + 1]], f[i + 2])
  ELSE Unread

LEMMA QuotedFromAfter ==
  ASSUME NEW text, Len(text) \in Nat, NEW i \in 1 .. Len(text) + 1, NEW f, NEW h,
         \A j \in i + 1 .. Len(text) + 1 : f[j] = h[j]
  PROVE  QuotedAt(text, f, i) = QuotedAt(text, h, i)
<1>1. i <= Len(text) => f[i + 1] = h[i + 1]
  OBVIOUS
<1>2. i < Len(text) => f[i + 2] = h[i + 2]
  OBVIOUS
<1> QED
  BY <1>1, <1>2 DEF QuotedAt

ByQuoted(text, h) == \A i \in 1 .. Len(text) + 1 : h[i] = QuotedAt(text, h, i)

\* What is read of a token is read unit by unit.
LEMMA QuotedByPlace ==
  ASSUME NEW text, NEW n \in Nat, Len(text) = n
  PROVE  ByQuoted(text, QuotedFrom(text))
<1> DEFINE body(f) == [i \in 1 .. (Len(text) + 1) |-> QuotedAt(text, f, i)]
           all == CHOOSE f : f = body(f)
           Good(m, f) == \A k \in 1 .. n + 1 : k >= n + 2 - m => f[k] = QuotedAt(text, f, k)
           T == {m \in Nat : \E f : Good(m, f)}
<1> HIDE DEF Good
<1>1. Nat \subseteq T
  <2>1. 0 \in T
    <3>1. Good(0, text)
      BY DEF Good
    <3> QED
      BY <3>1
  <2>2. ASSUME NEW m \in Nat, m \in T PROVE m + 1 \in T
    <3>1. PICK f : Good(m, f)
      BY <2>2
    <3> DEFINE p == n + 1 - m
               h == [k \in 1 .. n + 1 |-> IF k = p THEN QuotedAt(text, f, k) ELSE f[k]]
    <3>2. ASSUME NEW k \in 1 .. n + 1, k >= n + 2 - (m + 1)
          PROVE  h[k] = QuotedAt(text, h, k)
      <4>1. \A j \in (k + 1) .. (Len(text) + 1) : f[j] = h[j]
        BY <3>2
      <4>2. QuotedAt(text, f, k) = QuotedAt(text, h, k)
        <5> HIDE DEF h
        <5> QED
          BY <4>1, QuotedFromAfter
      <4>3. CASE k = p
        BY <4>2, <4>3
      <4>4. CASE k # p
        <5>1. k >= n + 2 - m
          BY <3>2, <4>4
        <5>2. f[k] = QuotedAt(text, f, k)
          BY <3>1, <5>1 DEF Good
        <5> QED
          BY <4>2, <4>4, <5>2
      <4> QED
        BY <4>3, <4>4
    <3> HIDE DEF h
    <3>3. Good(m + 1, h)
      BY <3>2 DEF Good
    <3> QED
      BY <3>3
  <2> HIDE DEF T
  <2> QED
    BY <2>1, <2>2, Induct
<1>2. PICK f : Good(n + 1, f)
  BY <1>1
<1> DEFINE h == [i \in 1 .. (Len(text) + 1) |-> f[i]]
<1>3. h = body(h)
  <2>1. ASSUME NEW i \in 1 .. (Len(text) + 1) PROVE h[i] = QuotedAt(text, h, i)
    <3>1. \A j \in (i + 1) .. (Len(text) + 1) : f[j] = h[j]
      OBVIOUS
    <3>2. f[i] = QuotedAt(text, f, i)
      BY <1>2 DEF Good
    <3>3. QuotedAt(text, f, i) = QuotedAt(text, h, i)
      <4> HIDE DEF h
      <4> QED
        BY <3>1, QuotedFromAfter
    <3> QED
      BY <3>2, <3>3
  <2> QED
    BY <2>1
<1> HIDE DEF h
<1>4. all = body(all)
  BY <1>3
<1>5. QuotedFrom(text) = all
  BY DEF QuotedFrom, QuotedAt, Put, Unread
<1> HIDE DEF all
<1> QED
  BY <1>4, <1>5 DEF ByQuoted

\* A unit and what it is printed as.
EscapedFacts(c) ==
  /\ IsList(Escaped(c)) /\ Len(Escaped(c)) \in {1, 2}
  /\ Len(Escaped(c)) = 1 => /\ Escaped(c)[1] = c
                            /\ c \notin {Quote, Backslash, "\n"} /\ c \notin Range(Escapes)
  /\ Len(Escaped(c)) = 2 => /\ Escaped(c)[1] = Backslash /\ Escaped(c)[2] \in DOMAIN Escapes
                            /\ Escapes[Escaped(c)[2]] = c

LEMMA EscapedIsRead == \A c : EscapedFacts(c)
<1> SUFFICES ASSUME NEW c PROVE EscapedFacts(c)
  OBVIOUS
<1>1. CASE c \in Range(Escapes)
  <2> DEFINE e == CHOOSE e \in DOMAIN Escapes : Escapes[e] = c
  <2>1. Escaped(c) = <<Backslash, e>>
    BY <1>1 DEF Escaped
  <2>2. e \in DOMAIN Escapes /\ Escapes[e] = c
    BY <1>1 DEF Range
  <2> HIDE DEF e
  <2>3. /\ <<Backslash, e>> \in Seq({Backslash, e}) /\ Len(<<Backslash, e>>) = 2
        /\ <<Backslash, e>>[1] = Backslash /\ <<Backslash, e>>[2] = e
    OBVIOUS
  <2>4. IsList(<<Backslash, e>>)
    BY <2>3, ListOf
  <2> QED
    BY <2>1, <2>2, <2>3, <2>4 DEF EscapedFacts
<1>2. CASE c \notin Range(Escapes)
  <2>1. Escaped(c) = <<c>>
    BY <1>2 DEF Escaped
  <2> QED
    BY <1>2, <2>1, Single, EscapesAssumption DEF EscapedFacts
<1> QED
  BY <1>1, <1>2

LEMMA Peel ==
  ASSUME NEW s, IsList(s), NEW i \in 1 .. Len(s)
  PROVE  SubSeq(s, i, Len(s)) = <<s[i]>> \o SubSeq(s, i + 1, Len(s))
<1> DEFINE n == Len(s)
           r == SubSeq(s, i + 1, n)
<1>1. n \in Nat
  BY ListFacts
<1>2. /\ IsList(SubSeq(s, i, n)) /\ Len(SubSeq(s, i, n)) = n - i + 1
      /\ \A k \in 1 .. n - i + 1 : SubSeq(s, i, n)[k] = s[i + k - 1]
  BY <1>1, Slice
<1>3. IsList(r) /\ Len(r) = n - i /\ \A k \in 1 .. n - i : r[k] = s[i + k]
  <2>1. /\ IsList(r) /\ Len(r) = n - (i + 1) + 1
        /\ \A k \in 1 .. n - (i + 1) + 1 : r[k] = s[(i + 1) + k - 1]
    BY <1>1, Slice
  <2> QED
    BY <1>1, <2>1
<1> HIDE DEF r
<1>4. /\ IsList(<<s[i]>> \o r) /\ Len(<<s[i]>> \o r) = n - i + 1
      /\ (<<s[i]>> \o r)[1] = s[i] /\ \A k \in 1 .. n - i : (<<s[i]>> \o r)[1 + k] = r[k]
  <2> DEFINE c == <<s[i]>>
  <2>1. IsList(c) /\ Len(c) = 1 /\ c[1] = s[i]
    BY Single
  <2> HIDE DEF c
  <2>2. /\ IsList(c \o r) /\ Len(c \o r) = Len(c) + Len(r)
        /\ \A k \in 1 .. Len(c) : (c \o r)[k] = c[k]
        /\ \A k \in 1 .. Len(r) : (c \o r)[Len(c) + k] = r[k]
    <3>1. IsList(c) /\ IsList(r)
      BY <1>3, <2>1
    <3> QED
      BY <3>1, Joined
  <2>3. /\ IsList(c \o r) /\ Len(c \o r) = n - i + 1 /\ (c \o r)[1] = s[i]
        /\ \A k \in 1 .. n - i : (c \o r)[1 + k] = r[k]
    BY <1>1, <1>3, <2>1, <2>2
  <2> QED
    BY <2>3 DEF c
<1>5. ASSUME NEW k \in 1 .. n - i + 1 PROVE SubSeq(s, i, n)[k] = (<<s[i]>> \o r)[k]
  <2>1. CASE k = 1
    BY <1>1, <1>2, <1>4, <2>1
  <2>2. CASE k # 1
    <3>1. k - 1 \in 1 .. n - i /\ 1 + (k - 1) = k /\ i + (k - 1) = i + k - 1
      BY <1>1, <2>2
    <3> QED
      BY <1>2, <1>3, <1>4, <3>1
  <2> QED
    BY <2>1, <2>2
<1> DEFINE t == SubSeq(s, i, n)
           u == <<s[i]>> \o r
<1>6. /\ IsList(t) /\ IsList(u) /\ Len(t) = Len(u) /\ Len(t) = n - i + 1
      /\ \A k \in 1 .. Len(t) : t[k] = u[k]
  BY <1>2, <1>4, <1>5
<1> HIDE DEF t, u
<1>7. t = u
  BY <1>6, SameLists
<1> QED
  BY <1>7 DEF t, u, r

\* The units of a path, as they are printed in quotes, stand in T after a
\* units, the i-th after q[i].
Spells(path, T, a, q) ==
  /\ IsList(path) /\ a \in Nat /\ q \in [1 .. Len(path) + 1 -> Nat] /\ q[1] = a + 1
  /\ T[a + 1] = Quote /\ T[q[Len(path) + 1] + 1] = Quote /\ q[Len(path) + 1] < Len(T)
  /\ \A i \in 1 .. Len(path) :
       q[i + 1] = q[i] + Len(Escaped(path[i])) /\ Stands(Escaped(path[i]), T, q[i])

LEMMA TokenEnds ==
  ASSUME NEW T, IsList(T), NEW i \in 1 .. Len(T), T[i] = Quote
  PROVE  QuotedFrom(T)[i] = [ok |-> TRUE, value |-> <<>>, end |-> i]
<1>1. Len(T) \in Nat /\ i \in 1 .. Len(T) + 1 /\ ~(i > Len(T))
  BY ListFacts
<1>2. QuotedFrom(T)[i] = QuotedAt(T, QuotedFrom(T), i)
  BY <1>1, QuotedByPlace DEF ByQuoted
<1> QED
  BY <1>1, <1>2 DEF QuotedAt

LEMMA PlainIsRead ==
  ASSUME NEW T, IsList(T), NEW i \in 1 .. Len(T), T[i] # Quote, T[i] # Backslash
  PROVE  QuotedFrom(T)[i] = Put(T[i], QuotedFrom(T)[i + 1])
<1>1. Len(T) \in Nat /\ i \in 1 .. Len(T) + 1 /\ ~(i > Len(T))
  BY ListFacts
<1>2. QuotedFrom(T)[i] = QuotedAt(T, QuotedFrom(T), i)
  BY <1>1, QuotedByPlace DEF ByQuoted
<1> QED
  BY <1>1, <1>2 DEF QuotedAt

LEMMA EscapeIsRead ==
  ASSUME NEW T, IsList(T), NEW i \in 1 .. Len(T), i < Len(T), T[i] = Backslash,
         T[i + 1] \in DOMAIN Escapes
  PROVE  QuotedFrom(T)[i] = Put(Escapes[T[i + 1]], QuotedFrom(T)[i + 2])
<1>1. Len(T) \in Nat /\ i \in 1 .. Len(T) + 1 /\ ~(i > Len(T)) /\ T[i] # Quote
  BY ListFacts DEF Backslash, Quote
<1>2. QuotedFrom(T)[i] = QuotedAt(T, QuotedFrom(T), i)
  BY <1>1, QuotedByPlace DEF ByQuoted
<1> QED
  BY <1>1, <1>2 DEF QuotedAt

\* A unit that stands escaped is read before what is read after it.
LEMMA UnitIsRead ==
  ASSUME NEW T, IsList(T), NEW c, NEW at, Stands(Escaped(c), T, at), NEW next,
         next = at + Len(Escaped(c))
  PROVE  QuotedFrom(T)[at + 1] = Put(c, QuotedFrom(T)[next + 1])
<1> DEFINE e == Escaped(c)
<1>1. at \in Nat /\ Len(T) \in Nat /\ at + Len(e) <= Len(T) /\ EscapedFacts(c)
  BY ListFacts, EscapedIsRead DEF Stands
<1>2. CASE Len(e) = 1
  <2>1. T[at + 1] = c /\ c # Quote /\ c # Backslash /\ at + 1 \in 1 .. Len(T)
    BY <1>1, <1>2 DEF Stands, EscapedFacts
  <2>2. (at + 1) + 1 = next + 1
    BY <1>1, <1>2
  <2> QED
    BY <2>1, <2>2, PlainIsRead
<1>3. CASE Len(e) = 2
  <2>1. T[at + 1] = Backslash /\ T[at + 2] \in DOMAIN Escapes /\ Escapes[T[at + 2]] = c
    BY <1>1, <1>3 DEF Stands, EscapedFacts
  <2>2. /\ at + 1 \in 1 .. Len(T) /\ at + 1 < Len(T) /\ (at + 1) + 1 = at + 2
        /\ (at + 1) + 2 = next + 1
    BY <1>1, <1>3
  <2> QED
    BY <2>1, <2>2, EscapeIsRead
<1> QED
  BY <1>1, <1>2, <1>3 DEF EscapedFacts

LEMMA PutInFront ==
  \A unit, value, end :
    Put(unit, [ok |-> TRUE, value |-> value, end |-> end])
      = [ok |-> TRUE, value |-> <<unit>> \o value, end |-> end]
BY DEF Put

LEMMA SpelledIsRead ==
  ASSUME NEW T, IsList(T), NEW path, NEW a, NEW q, Spells(path, T, a, q)
  PROVE  ReadQuotedToken(T, a) = [ok |-> TRUE, value |-> path, end |-> q[Len(path) + 1] + 1]
<1> DEFINE m == Len(path)
           end == q[m + 1] + 1
           Read(i) == [ok |-> TRUE, value |-> SubSeq(path, i, m), end |-> end]
           Fine(i) == QuotedFrom(T)[q[i] + 1] = Read(i)
           Done == {k \in Nat : k <= m => Fine(m + 1 - k)}
<1>1. m \in Nat /\ Len(T) \in Nat /\ IsList(path) /\ a \in Nat
  BY ListFacts DEF Spells
<1>2. /\ q \in [1 .. m + 1 -> Nat] /\ q[1] = a + 1 /\ end \in 1 .. Len(T) /\ T[end] = Quote
      /\ T[a + 1] = Quote
      /\ \A i \in 1 .. m : q[i + 1] = q[i] + Len(Escaped(path[i])) /\ Stands(Escaped(path[i]), T, q[i])
  BY <1>1 DEF Spells
<1> HIDE DEF end
<1>3. Fine(m + 1)
  <2>1. SubSeq(path, m + 1, m) = <<>>
    BY <1>1, SubSeqProperties DEF IsList
  <2>2. QuotedFrom(T)[end] = [ok |-> TRUE, value |-> <<>>, end |-> end]
    BY <1>2, TokenEnds
  <2> QED
    BY <2>1, <2>2 DEF end
<1>4. ASSUME NEW i \in 1 .. m, Fine(i + 1) PROVE Fine(i)
  <2>1. QuotedFrom(T)[q[i] + 1] = Put(path[i], QuotedFrom(T)[q[i + 1] + 1])
    BY <1>2, UnitIsRead
  <2>2. SubSeq(path, i, m) = <<path[i]>> \o SubSeq(path, i + 1, m)
    BY <1>1, Peel
  <2> QED
    <3>1. Put(path[i], Read(i + 1))
            = [ok |-> TRUE, value |-> <<path[i]>> \o SubSeq(path, i + 1, m), end |-> end]
      BY PutInFront
    <3>2. Put(path[i], Read(i + 1)) = Read(i)
      BY <2>2, <3>1
    <3> HIDE DEF Read
    <3> QED
      BY <1>4, <2>1, <3>2
<1> HIDE DEF Fine
<1>5. Nat \subseteq Done
  <2>1. 0 \in Done
    BY <1>1, <1>3
  <2>2. ASSUME NEW k \in Nat, k \in Done PROVE k + 1 \in Done
    <3>1. k + 1 <= m => m - k \in 1 .. m /\ (m - k) + 1 = m + 1 - k /\ m - k = m + 1 - (k + 1) /\ k <= m
      BY <1>1
    <3> QED
      BY <1>4, <2>2, <3>1
  <2> HIDE DEF Done
  <2> QED
    BY <2>1, <2>2, Induct
<1>6. Fine(1)
  <2>1. m \in Done /\ m + 1 - m = 1
    BY <1>1, <1>5
  <2> QED
    BY <1>1, <2>1
<1>7. SubSeq(path, 1, m) = path
  <2> DEFINE t == SubSeq(path, 1, m)
  <2>1. IsList(t) /\ Len(t) = m - 1 + 1 /\ \A k \in 1 .. m - 1 + 1 : t[k] = path[1 + k - 1]
    BY <1>1, Slice
  <2> HIDE DEF t
  <2>2. t = path
    BY <1>1, <2>1, SameLists
  <2> QED
    BY <2>2 DEF t
<1>8. a + 1 < Len(T)
  <2>1. CASE m = 0
    BY <1>1, <1>2, <2>1 DEF end
  <2>2. CASE m # 0
    <3>1. Stands(Escaped(path[1]), T, q[1]) /\ Len(Escaped(path[1])) \in {1, 2}
      BY <1>1, <1>2, <2>2, EscapedIsRead DEF EscapedFacts
    <3>2. q[1] + Len(Escaped(path[1])) <= Len(T)
      BY <3>1 DEF Stands
    <3>3. q[1] = a + 1
      BY <1>2
    <3>4. \A k, l : k \in {1, 2} /\ l \in Nat /\ a + 1 + k <= l => a + 1 < l
      BY <1>1
    <3> QED
      BY <1>1, <3>1, <3>2, <3>3, <3>4, Zenon
  <2> QED
    BY <2>1, <2>2
<1>9. a < Len(T) /\ q[1] + 1 = a + 2
  BY <1>1, <1>2, <1>8
<1>10. QuotedFrom(T)[a + 2] = [ok |-> TRUE, value |-> path, end |-> end]
  BY <1>6, <1>7, <1>9 DEF Fine
<1> QED
  BY <1>2, <1>9, <1>10 DEF ReadQuotedToken, end

LEMMA StandsWithin ==
  ASSUME NEW s, NEW t, NEW T, IsList(s), IsList(t), IsList(T), NEW a, NEW b,
         Stands(s, t, a), Stands(t, T, b)
  PROVE  Stands(s, T, b + a)
<1>1. /\ Len(s) \in Nat /\ Len(t) \in Nat /\ Len(T) \in Nat /\ a \in Nat /\ b \in Nat
      /\ a + Len(s) <= Len(t) /\ b + Len(t) <= Len(T)
  BY ListFacts DEF Stands
<1>2. ASSUME NEW k \in 1 .. Len(s) PROVE T[b + a + k] = s[k]
  <2>1. a + k \in 1 .. Len(t) /\ b + (a + k) = b + a + k
    BY <1>1
  <2>2. T[b + (a + k)] = t[a + k] /\ t[a + k] = s[k]
    BY <2>1 DEF Stands
  <2> QED
    BY <2>1, <2>2
<1> QED
  BY <1>1, <1>2 DEF Stands

LEMMA StandsItself == \A s : IsList(s) => Stands(s, s, 0)
BY ListFacts DEF Stands

LEMMA EscapesOf ==
  ASSUME NEW path, IsList(path), NEW ss, ss = [i \in DOMAIN path |-> Escaped(path[i])]
  PROVE  /\ IsList(ss) /\ Len(ss) = Len(path) /\ \A i \in 1 .. Len(path) : ss[i] = Escaped(path[i])
         /\ \A i \in 1 .. Len(ss) : IsList(ss[i])
<1>1. Len(path) \in Nat /\ DOMAIN path = 1 .. Len(path)
  BY ListFacts
<1>2. ss \in Seq({Escaped(path[i]) : i \in DOMAIN path}) /\ Len(ss) = Len(path)
  BY <1>1
<1>3. IsList(ss)
  BY <1>2, ListOf
<1> QED
  BY <1>1, <1>2, <1>3, EscapedIsRead DEF EscapedFacts

LEMMA QuotedIsList == ASSUME NEW path, IsList(path) PROVE IsList(CQuoted(path))
<1> DEFINE ss == [i \in DOMAIN path |-> Escaped(path[i])]
<1>1. IsList(ss) /\ \A i \in 1 .. Len(ss) : IsList(ss[i])
  BY EscapesOf
<1> HIDE DEF ss
<1>2. IsList(FlattenSeq(ss))
  BY <1>1, FlattenTiles
<1>3. IsList(<<Quote>> \o FlattenSeq(ss))
  BY <1>2, Joined, Single
<1>4. IsList((<<Quote>> \o FlattenSeq(ss)) \o <<Quote>>)
  BY <1>3, Joined, Single
<1> QED
  BY <1>4 DEF CQuoted, ss

LEMMA QuotedIsSpelled ==
  ASSUME NEW path, IsList(path), NEW T, IsList(T), NEW a \in Nat, Stands(CQuoted(path), T, a)
  PROVE  \E q : Spells(path, T, a, q) /\ q[Len(path) + 1] + 1 = a + Len(CQuoted(path))
<1> DEFINE ss == [i \in DOMAIN path |-> Escaped(path[i])]
           flat == FlattenSeq(ss)
           front == <<Quote>> \o flat
           m == Len(path)
<1>1. /\ IsList(ss) /\ Len(ss) = m /\ \A i \in 1 .. m : ss[i] = Escaped(path[i])
      /\ \A i \in 1 .. Len(ss) : IsList(ss[i])
  BY EscapesOf
<1>2. CQuoted(path) = front \o <<Quote>>
  BY DEF CQuoted
<1> HIDE DEF ss
<1>3. IsList(flat) /\ \E at : Tiles(ss, flat, at)
  BY <1>1, FlattenTiles
<1>4. PICK at : Tiles(ss, flat, at)
  BY <1>3
<1> HIDE DEF flat
<1>5. m \in Nat /\ Len(flat) \in Nat /\ Len(T) \in Nat
  BY <1>3, ListFacts
<1>6. IsList(front) /\ Len(front) = 1 + Len(flat) /\ IsList(<<Quote>>) /\ Len(<<Quote>>) = 1
  BY <1>3, Joined, Single
<1>7. Stands(front, T, a) /\ Stands(<<Quote>>, T, a + Len(front))
  BY <1>2, <1>6, StandsJoined
<1>8. Stands(<<Quote>>, T, a) /\ Stands(flat, T, a + 1)
  BY <1>3, <1>6, <1>7, StandsJoined
<1>9. Len(CQuoted(path)) = 1 + Len(flat) + 1
  BY <1>2, <1>6, Joined
<1> DEFINE q == [i \in 1 .. m + 1 |-> a + 1 + at[i]]
<1>10. /\ at \in [1 .. m + 1 -> Nat] /\ at[1] = 0 /\ at[m + 1] = Len(flat)
       /\ \A i \in 1 .. m : at[i + 1] = at[i] + Len(ss[i]) /\ Stands(ss[i], flat, at[i])
  BY <1>1, <1>4 DEF Tiles
<1>11. /\ q \in [1 .. m + 1 -> Nat] /\ q[1] = a + 1 /\ q[m + 1] = a + 1 + Len(flat)
  <2>1. \A i \in 1 .. m + 1 : at[i] \in Nat /\ a + 1 + at[i] \in Nat
    BY <1>10
  <2>2. 1 \in 1 .. m + 1 /\ m + 1 \in 1 .. m + 1
    BY <1>5
  <2> HIDE DEF m
  <2>3. q \in [1 .. m + 1 -> Nat] /\ q[1] = a + 1 + at[1] /\ q[m + 1] = a + 1 + at[m + 1]
    BY <2>1, <2>2
  <2> QED
    BY <1>10, <2>3
<1>12. T[a + 1] = Quote /\ T[a + (1 + Len(flat)) + 1] = Quote /\ a + (1 + Len(flat)) + 1 <= Len(T)
  <2>1. T[a + 1] = <<Quote>>[1]
    BY <1>6, <1>8 DEF Stands
  <2>2. T[a + Len(front) + 1] = <<Quote>>[1] /\ a + Len(front) + 1 <= Len(T)
    BY <1>6, <1>7 DEF Stands
  <2> QED
    BY <1>6, <2>1, <2>2
<1>13. ASSUME NEW i \in 1 .. m
       PROVE  q[i + 1] = q[i] + Len(Escaped(path[i])) /\ Stands(Escaped(path[i]), T, q[i])
  <2>1. ss[i] = Escaped(path[i]) /\ IsList(ss[i]) /\ Len(ss[i]) \in Nat
    BY <1>1, ListFacts
  <2>2. Stands(ss[i], T, a + 1 + at[i])
    BY <1>3, <1>8, <1>10, <2>1, StandsWithin
  <2>3. q[i] = a + 1 + at[i] /\ q[i + 1] = a + 1 + at[i + 1] /\ at[i] \in Nat
    BY <1>5, <1>10
  <2>4. at[i + 1] = at[i] + Len(ss[i])
    BY <1>10
  <2> HIDE DEF q
  <2> QED
    BY <2>1, <2>2, <2>3, <2>4
<1> HIDE DEF q
<1>14. /\ T[q[m + 1] + 1] = Quote /\ q[m + 1] < Len(T) /\ q[m + 1] + 1 = a + Len(CQuoted(path))
  <2>1. a + (1 + Len(flat)) + 1 = q[m + 1] + 1
    BY <1>5, <1>11
  <2> QED
    BY <1>5, <1>9, <1>11, <1>12, <2>1
<1>15. Spells(path, T, a, q)
  BY <1>11, <1>12, <1>13, <1>14 DEF Spells
<1> QED
  BY <1>14, <1>15

\* Where the scan for the arrow stands after one more unit.
Scan(state, unit) ==
  IF state = "escaped" THEN "in"
  ELSE IF unit = Quote THEN IF state = "in" THEN "out" ELSE "in"
  ELSE IF state = "in" /\ unit = Backslash THEN "escaped" ELSE state

ScanAt(T, f, i) == IF i = 0 THEN "out" ELSE Scan(f[i - 1], T[i])

LEMMA QuotingByPlace ==
  ASSUME NEW T, NEW n \in Nat, Len(T) = n
  PROVE  /\ Quoting(T)[0] = "out"
         /\ \A i \in 1 .. n : Quoting(T)[i] = Scan(Quoting(T)[i - 1], T[i])
<1> DEFINE body(f) == [i \in 0 .. Len(T) |-> ScanAt(T, f, i)]
           all == CHOOSE f : f = body(f)
           Good(m, f) == \A k \in 0 .. m : f[k] = ScanAt(T, f, k)
           Done == {m \in Nat : \E f : Good(m, f)}
<1> HIDE DEF Good
<1>1. Nat \subseteq Done
  <2>1. 0 \in Done
    <3> DEFINE h == [k \in {0} |-> "out"]
    <3>1. Good(0, h)
      BY DEF Good, ScanAt
    <3> QED
      BY <3>1
  <2>2. ASSUME NEW m \in Nat, m \in Done PROVE m + 1 \in Done
    <3>1. PICK f : Good(m, f)
      BY <2>2
    <3> DEFINE h == [k \in 0 .. m + 1 |-> IF k = m + 1 THEN ScanAt(T, f, k) ELSE f[k]]
    <3>2. ASSUME NEW k \in 0 .. m + 1 PROVE h[k] = ScanAt(T, h, k)
      <4>1. k # 0 => k - 1 \in 0 .. m /\ h[k - 1] = f[k - 1]
        OBVIOUS
      <4>2. ScanAt(T, f, k) = ScanAt(T, h, k)
        <5> HIDE DEF h
        <5> QED
          BY <4>1 DEF ScanAt
      <4>3. CASE k = m + 1
        BY <4>2, <4>3
      <4>4. CASE k # m + 1
        <5>1. f[k] = ScanAt(T, f, k)
          BY <3>1, <4>4 DEF Good
        <5> QED
          BY <4>2, <4>4, <5>1
      <4> QED
        BY <4>3, <4>4
    <3> HIDE DEF h
    <3>3. Good(m + 1, h)
      BY <3>2 DEF Good
    <3> QED
      BY <3>3
  <2> HIDE DEF Done
  <2> QED
    BY <2>1, <2>2, Induct
<1>2. PICK f : Good(n, f)
  BY <1>1
<1> DEFINE h == [i \in 0 .. Len(T) |-> f[i]]
<1>3. h = body(h)
  <2>1. ASSUME NEW i \in 0 .. Len(T) PROVE h[i] = ScanAt(T, h, i)
    <3>1. f[i] = ScanAt(T, f, i)
      BY <1>2 DEF Good
    <3>2. i # 0 => i - 1 \in 0 .. Len(T) /\ f[i - 1] = h[i - 1]
      OBVIOUS
    <3> QED
      BY <3>1, <3>2 DEF ScanAt
  <2> QED
    BY <2>1
<1> HIDE DEF h
<1>4. all = body(all)
  BY <1>3
<1>5. Quoting(T) = all
  BY DEF Quoting, ScanAt, Scan
<1> HIDE DEF all
<1>6. \A i \in 0 .. n : Quoting(T)[i] = ScanAt(T, Quoting(T), i)
  BY <1>4, <1>5
<1> QED
  BY <1>6 DEF ScanAt

\* From a to b no line ends and no arrow is outside quotes; none is open at b.
Scanned(T, a, b) ==
  /\ Quoting(T)[b] = "out"
  /\ \A j \in a + 1 .. b : T[j] # "\n" /\ (T[j] = Arrow => Quoting(T)[j - 1] # "out")

LEMMA QuotingAfter ==
  ASSUME NEW T, IsList(T), NEW i \in Nat, i + 1 <= Len(T)
  PROVE  Quoting(T)[i + 1] = Scan(Quoting(T)[i], T[i + 1])
<1>1. Len(T) \in Nat
  BY ListFacts
<1>2. i + 1 \in 1 .. Len(T) /\ (i + 1) - 1 = i
  BY <1>1
<1>3. Quoting(T)[i + 1] = Scan(Quoting(T)[(i + 1) - 1], T[i + 1])
  BY <1>1, <1>2, QuotingByPlace
<1> QED
  BY <1>2, <1>3

LEMMA UnitIsScanned ==
  ASSUME NEW T, IsList(T), NEW c, NEW at, Stands(Escaped(c), T, at), Quoting(T)[at] = "in"
  PROVE  /\ Quoting(T)[at + Len(Escaped(c))] = "in"
         /\ \A j \in at + 1 .. at + Len(Escaped(c)) : T[j] # "\n" /\ Quoting(T)[j - 1] # "out"
<1> DEFINE e == Escaped(c)
<1>1. at \in Nat /\ Len(T) \in Nat /\ at + Len(e) <= Len(T) /\ EscapedFacts(c)
  BY ListFacts, EscapedIsRead DEF Stands
<1>2. CASE Len(e) = 1
  <2>1. T[at + 1] = c /\ c # Quote /\ c # Backslash /\ c # "\n"
    BY <1>1, <1>2 DEF Stands, EscapedFacts
  <2>2. Quoting(T)[at + 1] = "in"
    BY <1>1, <1>2, <2>1, QuotingAfter DEF Scan
  <2>3. \A j \in at + 1 .. at + 1 : j = at + 1 /\ j - 1 = at
    BY <1>1
  <2> QED
    BY <1>2, <2>1, <2>2, <2>3
<1>3. CASE Len(e) = 2
  <2>1. T[at + 1] = Backslash /\ T[at + 2] \in DOMAIN Escapes
    BY <1>1, <1>3 DEF Stands, EscapedFacts
  <2>2. T[at + 2] # "\n" /\ T[at + 1] # "\n" /\ T[at + 1] # Quote
    BY <2>1, EscapesAssumption DEF Backslash, Quote
  <2>3. Quoting(T)[at + 1] = "escaped"
    <3>1. Quoting(T)[at + 1] = Scan(Quoting(T)[at], T[at + 1])
      BY <1>1, <1>3, QuotingAfter
    <3> QED
      BY <2>1, <2>2, <3>1 DEF Scan
  <2>4. Quoting(T)[at + 2] = "in"
    <3>1. at + 1 \in Nat /\ (at + 1) + 1 <= Len(T) /\ (at + 1) + 1 = at + 2
      BY <1>1, <1>3
    <3>2. Quoting(T)[at + 2] = Scan(Quoting(T)[at + 1], T[at + 2])
      BY <3>1, QuotingAfter
    <3> QED
      BY <2>3, <3>2 DEF Scan
  <2>5. \A j \in at + 1 .. at + 2 : (j = at + 1 /\ j - 1 = at) \/ (j = at + 2 /\ j - 1 = at + 1)
    BY <1>1
  <2> QED
    BY <1>3, <2>2, <2>3, <2>4, <2>5
<1> QED
  BY <1>1, <1>2, <1>3 DEF EscapedFacts

LEMMA SpelledIsScanned ==
  ASSUME NEW T, IsList(T), NEW path, NEW a, NEW q, Spells(path, T, a, q), Quoting(T)[a] = "out"
  PROVE  Scanned(T, a, q[Len(path) + 1] + 1)
<1> DEFINE m == Len(path)
           Fine(i) == /\ Quoting(T)[q[i]] = "in"
                      /\ \A j \in a + 2 .. q[i] : T[j] # "\n" /\ Quoting(T)[j - 1] # "out"
           Done == {k \in Nat : k <= m => Fine(k + 1)}
<1>1. m \in Nat /\ Len(T) \in Nat /\ a \in Nat
  BY ListFacts DEF Spells
<1>2. /\ q \in [1 .. m + 1 -> Nat] /\ q[1] = a + 1 /\ q[m + 1] < Len(T)
      /\ T[a + 1] = Quote /\ T[q[m + 1] + 1] = Quote
      /\ \A i \in 1 .. m : q[i + 1] = q[i] + Len(Escaped(path[i])) /\ Stands(Escaped(path[i]), T, q[i])
  BY <1>1 DEF Spells
<1>3. \A i \in 1 .. m + 1 : q[i] \in Nat
  BY <1>2
<1>4. ASSUME NEW i \in 1 .. m, Fine(i) PROVE Fine(i + 1)
  <2>1. /\ Quoting(T)[q[i + 1]] = "in"
        /\ \A j \in q[i] + 1 .. q[i + 1] : T[j] # "\n" /\ Quoting(T)[j - 1] # "out"
    BY <1>2, <1>4, UnitIsScanned
  <2>2. q[i] \in Nat /\ q[i + 1] \in Nat
    BY <1>1, <1>3
  <2>3. \A j \in a + 2 .. q[i + 1] : j \in a + 2 .. q[i] \/ j \in q[i] + 1 .. q[i + 1]
    BY <1>1, <2>2
  <2> QED
    BY <1>4, <2>1, <2>3
<1>5. a + 1 <= Len(T)
  <2>1. Nat \subseteq {k \in Nat : k <= m => q[k + 1] >= a + 1}
    <3> DEFINE S == {k \in Nat : k <= m => q[k + 1] >= a + 1}
    <3>1. 0 \in S
      BY <1>1, <1>2
    <3>2. ASSUME NEW k \in Nat, k \in S PROVE k + 1 \in S
      <4>1. CASE k + 1 <= m
        <5>1. k + 1 \in 1 .. m /\ k + 1 \in 1 .. m + 1 /\ (k + 1) + 1 \in 1 .. m + 1
          BY <1>1, <4>1
        <5>2. q[(k + 1) + 1] = q[k + 1] + Len(Escaped(path[k + 1])) /\ q[k + 1] >= a + 1
          BY <1>1, <1>2, <3>2, <4>1, <5>1
        <5>3. Len(Escaped(path[k + 1])) \in {1, 2}
          BY EscapedIsRead DEF EscapedFacts
        <5>4. q[k + 1] \in Nat
          BY <1>3, <5>1
        <5>5. \A x, y : x \in Nat /\ x >= a + 1 /\ y \in {1, 2} => x + y >= a + 1
          BY <1>1
        <5>6. q[(k + 1) + 1] >= a + 1
          BY <5>2, <5>3, <5>4, <5>5
        <5> QED
          BY <5>6
      <4>2. CASE ~(k + 1 <= m)
        BY <4>2
      <4> QED
        BY <4>1, <4>2
    <3> HIDE DEF S
    <3>3. Nat \subseteq S
      BY <3>1, <3>2, Induct
    <3> QED
      BY <3>3 DEF S
  <2>2. q[m + 1] >= a + 1
    BY <1>1, <2>1
  <2> QED
    BY <1>1, <1>2, <1>3, <2>2
<1>6. Quoting(T)[a + 1] = "in" /\ T[a + 1] # "\n" /\ T[a + 1] # Arrow
  <2>1. Quoting(T)[a + 1] = Scan(Quoting(T)[a], T[a + 1])
    BY <1>1, <1>5, QuotingAfter
  <2> QED
    BY <1>2, <2>1 DEF Scan, Quote, Arrow
<1>7. Fine(1)
  BY <1>1, <1>2, <1>6
<1> HIDE DEF Fine
<1>8. Nat \subseteq Done
  <2>1. 0 \in Done
    BY <1>7
  <2>2. ASSUME NEW k \in Nat, k \in Done PROVE k + 1 \in Done
    <3>1. k + 1 <= m => k + 1 \in 1 .. m /\ k <= m
      BY <1>1
    <3> QED
      BY <1>4, <2>2, <3>1
  <2> HIDE DEF Done
  <2> QED
    BY <2>1, <2>2, Induct
<1>9. Fine(m + 1)
  BY <1>1, <1>8
<1>10. q[m + 1] \in Nat /\ q[m + 1] + 1 <= Len(T)
  BY <1>1, <1>2, <1>3
<1> DEFINE e == q[m + 1]
<1> HIDE DEF e
<1>11. Quoting(T)[e + 1] = "out" /\ T[e + 1] # "\n" /\ T[e + 1] # Arrow
  <2>1. Quoting(T)[e + 1] = Scan(Quoting(T)[e], T[e + 1]) /\ Quoting(T)[e] = "in" /\ T[e + 1] = Quote
    BY <1>2, <1>9, <1>10, QuotingAfter DEF Fine, e
  <2> QED
    BY <2>1 DEF Scan, Quote, Arrow
<1>12. \A j \in a + 2 .. e : T[j] # "\n" /\ Quoting(T)[j - 1] # "out"
  BY <1>9 DEF Fine, e
<1>13. \A j \in a + 1 .. e + 1 : j = a + 1 \/ j \in a + 2 .. e \/ j = e + 1
  BY <1>1, <1>10 DEF e
<1>14. Scanned(T, a, e + 1)
  BY <1>6, <1>11, <1>12, <1>13 DEF Scanned
<1> QED
  BY <1>14 DEF e

LEMMA PlainIsScanned ==
  ASSUME NEW T, IsList(T), NEW path, IsList(path), NEW a, Stands(path, T, a), Quoting(T)[a] = "out",
         {Quote, Arrow, "\n"} \cap ToSet(path) = {}
  PROVE  Scanned(T, a, a + Len(path))
<1> DEFINE m == Len(path)
           Done == {k \in Nat : k <= m => Quoting(T)[a + k] = "out"}
<1>1. m \in Nat /\ Len(T) \in Nat /\ a \in Nat /\ a + m <= Len(T)
  BY ListFacts DEF Stands
<1>2. ASSUME NEW k \in 1 .. m PROVE T[a + k] \notin {Quote, Arrow, "\n"}
  <2>1. T[a + k] = path[k] /\ path[k] \in ToSet(path)
    BY DEF Stands, ToSet
  <2> QED
    BY <2>1
<1>3. Nat \subseteq Done
  <2>1. 0 \in Done
    BY <1>1
  <2>2. ASSUME NEW k \in Nat, k \in Done PROVE k + 1 \in Done
    <3>1. CASE k + 1 <= m
      <4>1. a + k \in Nat /\ (a + k) + 1 <= Len(T) /\ (a + k) + 1 = a + (k + 1) /\ k + 1 \in 1 .. m /\ k <= m
        BY <1>1, <3>1
      <4>2. Quoting(T)[a + (k + 1)] = Scan(Quoting(T)[a + k], T[a + (k + 1)])
        BY <4>1, QuotingAfter
      <4>3. T[a + (k + 1)] # Quote /\ Quoting(T)[a + k] = "out"
        BY <1>2, <2>2, <4>1
      <4>4. Quoting(T)[a + (k + 1)] = "out"
        BY <4>2, <4>3 DEF Scan
      <4> QED
        BY <4>4
    <3>2. CASE ~(k + 1 <= m)
      BY <3>2
    <3> QED
      BY <3>1, <3>2
  <2> HIDE DEF Done
  <2> QED
    BY <2>1, <2>2, Induct
<1>4. Quoting(T)[a + m] = "out"
  BY <1>1, <1>3
<1>5. ASSUME NEW j \in a + 1 .. a + m PROVE T[j] # "\n" /\ T[j] # Arrow
  <2>1. j - a \in 1 .. m /\ a + (j - a) = j
    BY <1>1
  <2>2. T[a + (j - a)] \notin {Quote, Arrow, "\n"}
    BY <1>2, <2>1
  <2> QED
    BY <2>1, <2>2
<1> QED
  BY <1>4, <1>5 DEF Scanned

\* A path a row may name.
IsPath(path) == IsList(path) /\ path # <<>> /\ "NUL" \notin ToSet(path)

LEMMA PathHasUnits == ASSUME NEW path, IsPath(path) PROVE Len(path) \in Nat /\ Len(path) > 0
BY ListFacts, EmptySeq DEF IsPath

LEMMA QuotedFacts ==
  ASSUME NEW path, IsList(path)
  PROVE  /\ IsList(CQuoted(path)) /\ Len(CQuoted(path)) > 0 /\ CQuoted(path)[1] = Quote
         /\ "\n" \notin ToSet(CQuoted(path))
<1> DEFINE s == CQuoted(path)
<1>1. IsList(s) /\ Stands(s, s, 0) /\ 0 \in Nat
  BY QuotedIsList, StandsItself
<1>2. PICK q : Spells(path, s, 0, q) /\ q[Len(path) + 1] + 1 = 0 + Len(s)
  BY <1>1, QuotedIsSpelled
<1>3. Len(s) \in Nat
  BY <1>1, ListFacts
<1>4. Quoting(s)[0] = "out"
  BY <1>3, QuotingByPlace
<1> HIDE DEF s
<1>5. Scanned(s, 0, Len(s))
  BY <1>1, <1>2, <1>3, <1>4, SpelledIsScanned
<1>6. "\n" \notin ToSet(s)
  BY <1>3, <1>5 DEF Scanned, ToSet, IsList
<1>7. Len(s) > 0 /\ s[1] = Quote
  <2>1. s[0 + 1] = Quote /\ q[Len(path) + 1] < Len(s) /\ q \in [1 .. Len(path) + 1 -> Nat]
    BY <1>2 DEF Spells
  <2>2. Len(path) \in Nat
    BY ListFacts
  <2> QED
    BY <1>3, <2>1, <2>2
<1> QED
  BY <1>1, <1>6, <1>7 DEF s

\* A path as it is shown, in the text it stands in.
LEMMA ShownIsList ==
  ASSUME NEW path, IsPath(path), NEW nul \in BOOLEAN
  PROVE  /\ IsList(Shown(path, nul)) /\ Len(Shown(path, nul)) \in Nat /\ Len(Shown(path, nul)) > 0
         /\ Separator(nul) \notin ToSet(Shown(path, nul))
<1>1. IsList(path) /\ Len(path) \in Nat /\ Len(path) > 0
  BY PathHasUnits DEF IsPath
<1>2. CASE nul
  BY <1>1, <1>2 DEF Shown, Separator, IsPath
<1>3. CASE ~nul /\ ToSet(path) \cap ({Blank, Arrow} \cup Range(Escapes)) = {}
  <2>1. Shown(path, nul) = path
    BY <1>3 DEF Shown
  <2>2. "\n" \notin ToSet(path)
    BY <1>3, EscapesAssumption
  <2> QED
    BY <1>1, <1>3, <2>1, <2>2 DEF Separator
<1>4. CASE ~nul /\ ToSet(path) \cap ({Blank, Arrow} \cup Range(Escapes)) # {}
  <2>1. Shown(path, nul) = CQuoted(path)
    BY <1>4 DEF Shown
  <2> QED
    BY <1>1, <1>4, <2>1, QuotedFacts, ListFacts DEF Separator
<1> QED
  BY <1>2, <1>3, <1>4

LEMMA ShownIsRead ==
  ASSUME NEW path, IsPath(path), NEW nul \in BOOLEAN, nul => path[1] # Quote,
         NEW T, IsList(T), NEW a, Stands(Shown(path, nul), T, a)
  PROVE  LET read == ReadPathIn(T, a, a + Len(Shown(path, nul)))
         IN  read.ok /\ read.value = path /\ "value" \in DOMAIN read
<1> DEFINE s == Shown(path, nul)
           end == a + Len(s)
           read == ReadPathIn(T, a, end)
<1>1. IsList(path) /\ Len(path) \in Nat /\ Len(path) > 0 /\ Len(T) \in Nat
  BY PathHasUnits, ListFacts DEF IsPath
<1>2. Len(s) \in Nat /\ Len(s) > 0 /\ a \in Nat /\ a + Len(s) <= Len(T)
  BY ShownIsList DEF Stands
<1>3. ~(end <= a)
  BY <1>2
<1>4. ASSUME s = path, path[1] # Quote PROVE read.ok /\ read.value = path /\ "value" \in DOMAIN read
  <2>1. T[a + 1] = path[1]
    BY <1>1, <1>4 DEF Stands
  <2>3. SubSeq(T, a + 1, end) = path
    <3> DEFINE t == SubSeq(T, a + 1, end)
    <3>1. IsList(t) /\ Len(t) = end - (a + 1) + 1 /\ \A i \in 1 .. end - (a + 1) + 1 : t[i] = T[a + 1 + i - 1]
      <4>1. a + 1 \in Nat /\ end \in Nat /\ 1 <= a + 1 /\ a + 1 <= end + 1 /\ end <= Len(T)
        BY <1>1, <1>2
      <4> HIDE DEF end
      <4> QED
        BY <4>1, Slice
    <3>2. Len(t) = Len(path)
      <4>1. end - (a + 1) + 1 = Len(s)
        BY <1>2
      <4> HIDE DEF t, s
      <4> QED
        BY <1>4, <3>1, <4>1
    <3>3. ASSUME NEW i \in 1 .. Len(t) PROVE t[i] = path[i]
      <4>1. a + 1 + i - 1 = a + i /\ i \in 1 .. Len(path) /\ i \in 1 .. end - (a + 1) + 1
        BY <1>1, <1>2, <1>4, <3>2
      <4> QED
        BY <1>4, <3>1, <4>1 DEF Stands
    <3> HIDE DEF t
    <3>4. t = path
      BY <1>1, <3>1, <3>2, <3>3, SameLists
    <3> QED
      BY <3>4 DEF t
  <2>4. read = [ok |-> TRUE, value |-> path, quoted |-> FALSE, start |-> a, end |-> end]
    <3> HIDE DEF end
    <3> QED
      BY <1>3, <1>4, <2>1, <2>3 DEF ReadPathIn
  <2> QED
    BY <2>4
<1>5. ASSUME s = CQuoted(path) PROVE read.ok /\ read.value = path /\ "value" \in DOMAIN read
  <2>1. s = CQuoted(path)
    BY <1>5
  <2>2. PICK q : Spells(path, T, a, q) /\ q[Len(path) + 1] + 1 = end
    BY <1>1, <1>2, <2>1, QuotedIsSpelled
  <2>3. ReadQuotedToken(T, a) = [ok |-> TRUE, value |-> path, end |-> end]
    BY <2>2, SpelledIsRead
  <2>4. T[a + 1] = Quote
    BY <2>2 DEF Spells
  <2>5. end \in Nat
    BY <1>2
  <2>6. read = [ok |-> TRUE, value |-> path, quoted |-> TRUE, start |-> a, end |-> end]
    <3> HIDE DEF end
    <3> QED
      BY <1>3, <2>3, <2>4, <2>5 DEF ReadPathIn
  <2> QED
    BY <2>6
<1>6. CASE nul
  BY <1>4, <1>6 DEF Shown
<1>7. CASE ~nul /\ ToSet(path) \cap ({Blank, Arrow} \cup Range(Escapes)) = {}
  <2>1. path[1] \in ToSet(path)
    BY <1>1 DEF ToSet, IsList
  <2>2. Quote \in Range(Escapes)
    BY EscapesAssumption
  <2>3. path[1] # Quote
    BY <1>7, <2>1, <2>2
  <2> QED
    BY <1>4, <1>7, <2>3 DEF Shown
<1>8. CASE ~nul /\ ToSet(path) \cap ({Blank, Arrow} \cup Range(Escapes)) # {}
  BY <1>5, <1>8 DEF Shown
<1> QED
  BY <1>6, <1>7, <1>8

LEMMA ShownIsScanned ==
  ASSUME NEW path, IsPath(path), NEW T, IsList(T), NEW a, Stands(Shown(path, FALSE), T, a),
         Quoting(T)[a] = "out"
  PROVE  Scanned(T, a, a + Len(Shown(path, FALSE)))
<1>1. IsList(path) /\ a \in Nat
  BY DEF IsPath, Stands
<1>2. CASE ToSet(path) \cap ({Blank, Arrow} \cup Range(Escapes)) = {}
  <2>1. Shown(path, FALSE) = path
    BY <1>2 DEF Shown
  <2>2. {Quote, Arrow, "\n"} \cap ToSet(path) = {}
    BY <1>2, EscapesAssumption
  <2> QED
    BY <1>1, <2>1, <2>2, PlainIsScanned
<1>3. CASE ToSet(path) \cap ({Blank, Arrow} \cup Range(Escapes)) # {}
  <2>1. Shown(path, FALSE) = CQuoted(path)
    BY <1>3 DEF Shown
  <2>2. PICK q : Spells(path, T, a, q) /\ q[Len(path) + 1] + 1 = a + Len(CQuoted(path))
    BY <1>1, <2>1, QuotedIsSpelled
  <2> QED
    BY <2>1, <2>2, SpelledIsScanned
<1> QED
  BY <1>2, <1>3

\* Where a record ends, and where the one after it starts.
LEMMA RecordBounds ==
  ASSUME NEW T, IsList(T), NEW sep, NEW at \in 0 .. Len(T) + 1
  PROVE  LET r == RecordAt(T, sep, at)
         IN  /\ r.next \in Nat /\ r.next <= Len(T) + 1 /\ r.at = at
             /\ at <= Len(T) => at + 1 <= r.next
             /\ at = Len(T) + 1 => r.next = at
             /\ r.next <= Len(T) => T[r.next] = sep
<1> DEFINE S == {i \in at + 1 .. Len(T) : T[i] = sep} \cup {Len(T) + 1}
           next == RecordAt(T, sep, at).next
<1>1. Len(T) \in Nat /\ at \in Nat
  BY ListFacts
<1>2. S \subseteq Nat /\ S # {} /\ \A i \in S : i <= Len(T) + 1
  BY <1>1
<1>3. next = Min(S) /\ RecordAt(T, sep, at).at = at
  BY DEF RecordAt
<1>4. Min(S) \in S
  <2>1. \E m \in S : \A i \in S : m <= i
    BY <1>2, Least
  <2> HIDE DEF S
  <2> QED
    BY <2>1 DEF Min
<1> HIDE DEF next
<1>5. next \in S
  BY <1>3, <1>4
<1> QED
  BY <1>1, <1>3, <1>5 DEF next

LEMMA RecordIsFound ==
  ASSUME NEW T, IsList(T), NEW sep, NEW s, IsList(s), sep \notin ToSet(s), NEW at,
         Stands(s, T, at), at + Len(s) + 1 <= Len(T), T[at + Len(s) + 1] = sep
  PROVE  RecordAt(T, sep, at) = [at |-> at, text |-> s, next |-> at + Len(s) + 1]
<1> DEFINE S == {i \in at + 1 .. Len(T) : T[i] = sep} \cup {Len(T) + 1}
           end == at + Len(s) + 1
<1>1. Len(T) \in Nat /\ at \in Nat /\ Len(s) \in Nat
  BY ListFacts DEF Stands
<1>2. end \in S
  BY <1>1
<1>3. ASSUME NEW i \in S PROVE end <= i
  <2>1. CASE i = Len(T) + 1
    BY <1>1, <2>1
  <2>2. CASE i \in at + 1 .. Len(T) /\ T[i] = sep
    <3>1. ASSUME i < end PROVE FALSE
      <4>1. i - at \in 1 .. Len(s) /\ at + (i - at) = i
        BY <1>1, <2>2, <3>1
      <4>2. s[i - at] = sep
        BY <2>2, <4>1 DEF Stands
      <4>3. s[i - at] \in ToSet(s)
        BY <4>1, ListFacts DEF ToSet
      <4> QED
        BY <4>2, <4>3
    <3> QED
      BY <1>1, <2>2, <3>1
  <2> QED
    BY <2>1, <2>2
<1>4. Min(S) = end
  <2>1. S \subseteq Nat /\ end \in Nat
    BY <1>1
  <2>2. \A x \in S : (\A y \in S : x <= y) => x = end
    <3> HIDE DEF S, end
    <3> QED
      BY <1>2, <1>3, <2>1
  <2>3. \E x \in S : \A y \in S : x <= y
    BY <1>2, <1>3
  <2> HIDE DEF S, end
  <2> QED
    BY <2>2, <2>3 DEF Min
<1>5. SubSeq(T, at + 1, end - 1) = s
  <2> DEFINE t == SubSeq(T, at + 1, end - 1)
  <2>1. IsList(t) /\ Len(t) = (end - 1) - (at + 1) + 1
        /\ \A i \in 1 .. (end - 1) - (at + 1) + 1 : t[i] = T[at + 1 + i - 1]
    BY <1>1, Slice
  <2>2. (end - 1) - (at + 1) + 1 = Len(s) /\ \A i \in 1 .. Len(s) : at + 1 + i - 1 = at + i
    BY <1>1
  <2> HIDE DEF t
  <2>3. \A i \in 1 .. Len(s) : t[i] = s[i]
    BY <2>1, <2>2 DEF Stands
  <2>4. t = s
    BY <2>1, <2>2, <2>3, SameLists
  <2> QED
    BY <2>4 DEF t
<1>6. RecordAt(T, sep, at) = [at |-> at, text |-> SubSeq(T, at + 1, Min(S) - 1), next |-> Min(S)]
  BY DEF RecordAt
<1> QED
  BY <1>4, <1>5, <1>6

\* The record that starts after at units, read.
ReadAt(T, nul, at) ==
  LET record == RecordAt(T, Separator(nul), at)
  IN  ReadRecord(record, RecordAt(T, Separator(nul), record.next), nul)

EntriesAt(T, nul, f, at) ==
  IF at >= Len(T) THEN <<>> ELSE ReadAt(T, nul, at).entries \o f[ReadAt(T, nul, at).next]

LEMMA ReadNext ==
  \A record, follows, nul : ReadRecord(record, follows, nul).next \in {record.next, follows.next}
BY DEF ReadRecord, Renamed, Plainly, None, One

LEMMA ReadGoesOn ==
  ASSUME NEW T, IsList(T), NEW nul, NEW at \in Nat, at < Len(T)
  PROVE  ReadAt(T, nul, at).next \in at + 1 .. Len(T) + 1
<1> DEFINE record  == RecordAt(T, Separator(nul), at)
           follows == RecordAt(T, Separator(nul), record.next)
           next    == ReadAt(T, nul, at).next
<1>1. Len(T) \in Nat
  BY ListFacts
<1>2. record.next \in Nat /\ at + 1 <= record.next /\ record.next <= Len(T) + 1
  BY <1>1, RecordBounds
<1>3. record.next \in 0 .. Len(T) + 1
  BY <1>1, <1>2
<1>4. /\ follows.next \in Nat /\ follows.next <= Len(T) + 1
      /\ record.next <= Len(T) => record.next + 1 <= follows.next
      /\ record.next = Len(T) + 1 => follows.next = record.next
  BY <1>3, RecordBounds
<1>5. next \in {record.next, follows.next}
  BY ReadNext DEF ReadAt
<1> HIDE DEF record, follows, next
<1>6. next \in at + 1 .. Len(T) + 1
  BY <1>1, <1>2, <1>4, <1>5
<1> QED
  BY <1>6 DEF next

LEMMA EntriesAfter ==
  ASSUME NEW T, IsList(T), NEW nul, NEW at \in 0 .. Len(T) + 1, NEW f, NEW h,
         \A j \in at + 1 .. Len(T) + 1 : f[j] = h[j]
  PROVE  EntriesAt(T, nul, f, at) = EntriesAt(T, nul, h, at)
<1>1. Len(T) \in Nat
  BY ListFacts
<1>2. CASE at >= Len(T)
  BY <1>2 DEF EntriesAt
<1>3. CASE ~(at >= Len(T))
  <2>1. ReadAt(T, nul, at).next \in at + 1 .. Len(T) + 1
    BY <1>1, <1>3, ReadGoesOn
  <2> QED
    BY <1>3, <2>1 DEF EntriesAt
<1> QED
  BY <1>2, <1>3

ByEntries(T, nul, h) == \A at \in 0 .. Len(T) + 1 : h[at] = EntriesAt(T, nul, h, at)

\* The rows of a text are read record by record.
LEMMA EntriesByPlace ==
  ASSUME NEW T, IsList(T), NEW nul PROVE ByEntries(T, nul, EntriesFrom(T, nul))
<1> DEFINE n == Len(T)
           body(f) == [at \in 0 .. (Len(T) + 1) |-> EntriesAt(T, nul, f, at)]
           all == CHOOSE f : f = body(f)
           Good(m, f) == \A k \in 0 .. n + 1 : k >= n + 2 - m => f[k] = EntriesAt(T, nul, f, k)
           Done == {m \in Nat : \E f : Good(m, f)}
<1>n. n \in Nat
  BY ListFacts
<1> HIDE DEF Good
<1>1. Nat \subseteq Done
  <2>1. 0 \in Done
    <3>1. Good(0, T)
      BY <1>n DEF Good
    <3> QED
      BY <3>1
  <2>2. ASSUME NEW m \in Nat, m \in Done PROVE m + 1 \in Done
    <3>1. PICK f : Good(m, f)
      BY <2>2
    <3> DEFINE p == n + 1 - m
               h == [k \in 0 .. n + 1 |-> IF k = p THEN EntriesAt(T, nul, f, k) ELSE f[k]]
    <3>2. ASSUME NEW k \in 0 .. n + 1, k >= n + 2 - (m + 1)
          PROVE  h[k] = EntriesAt(T, nul, h, k)
      <4>1. \A j \in (k + 1) .. (Len(T) + 1) : f[j] = h[j]
        BY <1>n, <3>2
      <4>2. EntriesAt(T, nul, f, k) = EntriesAt(T, nul, h, k)
        <5> HIDE DEF h
        <5> QED
          BY <4>1, EntriesAfter
      <4>3. CASE k = p
        BY <4>2, <4>3
      <4>4. CASE k # p
        <5>1. k >= n + 2 - m
          BY <1>n, <3>2, <4>4
        <5>2. f[k] = EntriesAt(T, nul, f, k)
          BY <3>1, <5>1 DEF Good
        <5> QED
          BY <4>2, <4>4, <5>2
      <4> QED
        BY <4>3, <4>4
    <3> HIDE DEF h
    <3>3. Good(m + 1, h)
      BY <3>2 DEF Good
    <3> QED
      BY <3>3
  <2> HIDE DEF Done
  <2> QED
    BY <2>1, <2>2, Induct
<1>2. PICK f : Good(n + 2, f)
  BY <1>n, <1>1
<1> DEFINE h == [at \in 0 .. (Len(T) + 1) |-> f[at]]
<1>3. h = body(h)
  <2>1. ASSUME NEW i \in 0 .. (Len(T) + 1) PROVE h[i] = EntriesAt(T, nul, h, i)
    <3>1. \A j \in (i + 1) .. (Len(T) + 1) : f[j] = h[j]
      BY <1>n
    <3>2. f[i] = EntriesAt(T, nul, f, i)
      BY <1>n, <1>2 DEF Good
    <3>3. EntriesAt(T, nul, f, i) = EntriesAt(T, nul, h, i)
      <4> HIDE DEF h
      <4> QED
        BY <3>1, EntriesAfter
    <3> QED
      BY <3>2, <3>3
  <2> QED
    BY <2>1
<1> HIDE DEF h
<1>4. all = body(all)
  BY <1>3
<1>5. EntriesFrom(T, nul) = all
  BY DEF EntriesFrom, EntriesAt, ReadAt, Separator
<1> HIDE DEF all
<1> QED
  BY <1>4, <1>5 DEF ByEntries

\* u is s and, after it, t.
JoinedFacts(s, t, u) ==
  /\ IsList(u) /\ Len(u) = Len(s) + Len(t)
  /\ \A i \in 1 .. Len(s) : u[i] = s[i]
  /\ \A i \in 1 .. Len(t) : u[Len(s) + i] = t[i]

LEMMA JoinedIs == \A s, t : IsList(s) /\ IsList(t) => JoinedFacts(s, t, s \o t)
BY Joined DEF JoinedFacts

\* s is two letters, a space and the rest.
HeadOf(xy, r, s) ==
  /\ IsList(s) /\ Len(s) = 3 + Len(r) /\ s[1] = xy[1] /\ s[2] = xy[2] /\ s[3] = Blank
  /\ \A i \in 1 .. Len(r) : s[3 + i] = r[i]

LEMMA HeadFacts ==
  ASSUME NEW xy, Len(xy) = 2, NEW c, Len(c) = 1, c[1] = Blank, NEW r, NEW head, NEW s,
         JoinedFacts(xy, c, head), JoinedFacts(head, r, s)
  PROVE  HeadOf(xy, r, s)
<1>1. Len(head) = 3 /\ head[1] = xy[1] /\ head[2] = xy[2] /\ head[3] = c[1]
  BY DEF JoinedFacts
<1> QED
  BY <1>1 DEF JoinedFacts, HeadOf

LEMMA HeadIs ==
  ASSUME NEW xy, IsList(xy), Len(xy) = 2, NEW r, IsList(r)
  PROVE  HeadOf(xy, r, (xy \o <<Blank>>) \o r)
<1> DEFINE c    == <<Blank>>
           head == xy \o c
           s    == head \o r
<1>1. IsList(c) /\ Len(c) = 1 /\ c[1] = Blank
  BY Single
<1> HIDE DEF c
<1>2. JoinedFacts(xy, c, head)
  BY <1>1, JoinedIs, Zenon
<1>3. IsList(head)
  BY <1>2, Zenon DEF JoinedFacts
<1> HIDE DEF head
<1>4. JoinedFacts(head, r, s)
  BY <1>3, JoinedIs, Zenon
<1> HIDE DEF s
<1>5. HeadOf(xy, r, s)
  BY <1>1, <1>2, <1>4, HeadFacts
<1> QED
  BY <1>5 DEF s, head, c

LEMMA HeadSlices ==
  ASSUME NEW xy, IsList(xy), Len(xy) = 2, NEW r, IsList(r), NEW s, HeadOf(xy, r, s)
  PROVE  SubSeq(s, 4, Len(s)) = r /\ SubSeq(s, 1, 2) = xy
<1>1. /\ IsList(s) /\ Len(s) = 3 + Len(r) /\ s[1] = xy[1] /\ s[2] = xy[2] /\ Len(r) \in Nat
      /\ \A i \in 1 .. Len(r) : s[3 + i] = r[i]
  BY ListFacts DEF HeadOf
<1>2. SubSeq(s, 4, Len(s)) = r
  <2> DEFINE t == SubSeq(s, 4, Len(s))
  <2>1. IsList(t) /\ Len(t) = Len(s) - 4 + 1 /\ \A i \in 1 .. Len(s) - 4 + 1 : t[i] = s[4 + i - 1]
    <3> DEFINE n == Len(s)
    <3>1. 4 <= n + 1 /\ n <= Len(s) /\ 1 <= 4 /\ 4 \in Nat /\ n \in Nat /\ IsList(s)
      BY <1>1
    <3> HIDE DEF n, t
    <3>2. /\ IsList(SubSeq(s, 4, n)) /\ Len(SubSeq(s, 4, n)) = n - 4 + 1
          /\ \A i \in 1 .. n - 4 + 1 : SubSeq(s, 4, n)[i] = s[4 + i - 1]
      BY <3>1, Slice, Zenon
    <3> QED
      BY <3>2, Zenon DEF t, n
  <2>2. Len(s) - 4 + 1 = Len(r) /\ \A i \in 1 .. Len(r) : 4 + i - 1 = 3 + i
    BY <1>1
  <2> HIDE DEF t
  <2>3. \A i \in 1 .. Len(t) : t[i] = r[i]
    BY <1>1, <2>1, <2>2
  <2>4. t = r
    BY <2>1, <2>2, <2>3, SameLists
  <2> QED
    BY <2>4 DEF t
<1>3. SubSeq(s, 1, 2) = xy
  <2> DEFINE t == SubSeq(s, 1, 2)
  <2>1. IsList(t) /\ Len(t) = 2 - 1 + 1 /\ \A i \in 1 .. 2 - 1 + 1 : t[i] = s[1 + i - 1]
    <3>1. 1 <= 2 + 1 /\ 2 <= Len(s) /\ 1 <= 1 /\ 1 \in Nat /\ 2 \in Nat /\ IsList(s)
      BY <1>1
    <3> HIDE DEF t
    <3>2. /\ IsList(SubSeq(s, 1, 2)) /\ Len(SubSeq(s, 1, 2)) = 2 - 1 + 1
          /\ \A i \in 1 .. 2 - 1 + 1 : SubSeq(s, 1, 2)[i] = s[1 + i - 1]
      BY <3>1, Slice, Zenon
    <3> QED
      BY <3>2, Zenon DEF t
  <2> HIDE DEF t
  <2>2. \A i \in 1 .. Len(t) : t[i] = xy[i]
    BY <1>1, <2>1
  <2>3. t = xy
    BY <2>1, <2>2, SameLists
  <2> QED
    BY <2>3 DEF t
<1> QED
  BY <1>2, <1>3

LEMMA RecordOfRow ==
  ASSUME NEW xy, IsList(xy), Len(xy) = 2, ToSet(xy) \subseteq Marks, NEW nul \in BOOLEAN,
         NEW r, IsList(r), Len(r) > 0, Separator(nul) \notin ToSet(r), NEW T, IsList(T), NEW at,
         Stands(xy \o <<Blank>>, T, at), Stands(r \o <<Separator(nul)>>, T, at + 3)
  PROVE  LET record == RecordAt(T, Separator(nul), at)
         IN  /\ at < Len(T) /\ record.at = at /\ record.next = at + 3 + Len(r) + 1
             /\ IsRecord(record.text) /\ (IsRename(record.text) <=> IsRename(xy))
             /\ Rest(record) = r /\ Len(record.text) - 3 = Len(r) /\ SubSeq(record.text, 1, 2) = xy
<1> DEFINE sep == Separator(nul)
           head == xy \o <<Blank>>
           s == head \o r
           record == RecordAt(T, sep, at)
<1>0. HeadOf(xy, r, s)
  BY HeadIs, Zenon
<1>1. /\ IsList(s) /\ Len(s) = 3 + Len(r) /\ s[1] = xy[1] /\ s[2] = xy[2] /\ s[3] = Blank
      /\ \A i \in 1 .. Len(r) : s[3 + i] = r[i]
  <2> HIDE DEF s
  <2> QED
    BY <1>0 DEF HeadOf
<1>2. Len(r) \in Nat /\ Len(T) \in Nat /\ at \in Nat
  BY ListFacts DEF Stands
<1>3. IsList(<<sep>>) /\ Len(<<sep>>) = 1 /\ <<sep>>[1] = sep /\ IsList(<<Blank>>) /\ Len(<<Blank>>) = 1
  BY Single
<1>4. IsList(head) /\ Len(head) = 3
  <2>1. IsList(head) /\ Len(head) = Len(xy) + Len(<<Blank>>)
    BY <1>3, Joined
  <2> QED
    BY <1>3, <2>1
<1> HIDE DEF head, sep
<1>5. Stands(head, T, at) /\ Stands(r \o <<sep>>, T, at + 3)
  BY DEF head, sep
<1>6. Stands(r, T, at + 3) /\ Stands(<<sep>>, T, at + 3 + Len(r))
  BY <1>2, <1>3, <1>5, StandsJoined
<1>7. Stands(s, T, at)
  BY <1>2, <1>4, <1>5, <1>6, StandsJoined
<1> HIDE DEF s
<1>8. xy[1] \in Marks /\ xy[2] \in Marks
  BY ListFacts DEF ToSet
<1>9. sep \notin ToSet(s)
  <2>1. ASSUME NEW i \in 1 .. Len(s) PROVE s[i] # sep
    <3>1. sep \notin Marks /\ sep # Blank
      BY Zenon DEF sep, Separator, Marks, Blank
    <3>2. CASE i <= 3
      <4>1. i = 1 \/ i = 2 \/ i = 3
        BY <1>1, <1>2, <3>2
      <4> QED
        BY <1>1, <1>8, <3>1, <4>1
    <3>3. CASE i > 3
      <4>1. i - 3 \in 1 .. Len(r) /\ 3 + (i - 3) = i
        BY <1>1, <1>2, <3>3
      <4>2. r[i - 3] \in ToSet(r)
        BY <4>1, ListFacts DEF ToSet
      <4>3. s[i] = r[i - 3]
        BY <1>1, <4>1
      <4> QED
        BY <4>2, <4>3 DEF sep
    <3> QED
      BY <1>1, <1>2, <3>2, <3>3
  <2>2. DOMAIN s = 1 .. Len(s)
    BY <1>1, ListFacts
  <2> QED
    BY <2>1, <2>2 DEF ToSet
<1>10. at + Len(s) + 1 <= Len(T) /\ T[at + Len(s) + 1] = sep
  <2>1. at + 3 + Len(r) + 1 <= Len(T) /\ T[at + 3 + Len(r) + 1] = <<sep>>[1]
    BY <1>3, <1>6 DEF Stands
  <2>2. at + 3 + Len(r) + 1 = at + Len(s) + 1
    BY <1>1, <1>2
  <2> QED
    BY <1>3, <2>1, <2>2
<1>11. RecordAt(T, sep, at) = [at |-> at, text |-> s, next |-> at + Len(s) + 1]
  BY <1>1, <1>7, <1>9, <1>10, RecordIsFound
<1>12. record.at = at /\ record.text = s /\ record.next = at + Len(s) + 1
  BY <1>11
<1> HIDE DEF record
<1>13. at < Len(T) /\ record.next = at + 3 + Len(r) + 1 /\ Len(s) - 3 = Len(r)
  BY <1>1, <1>2, <1>10, <1>12
<1>14. IsRecord(s) /\ (IsRename(s) <=> IsRename(xy))
  <2>1. Len(s) > 3
    BY <1>1, <1>2
  <2> QED
    BY <1>1, <1>8, <2>1 DEF IsRecord, IsRename
<1>15. SubSeq(s, 4, Len(s)) = r /\ SubSeq(s, 1, 2) = xy
  BY <1>0, HeadSlices
<1> QED
  BY <1>12, <1>13, <1>14, <1>15 DEF Rest, record, sep

\* A row that has these fields and no other.
RowOf(e, named) == [f \in FieldsOf(named) |-> Str(e[f].text)]

LEMMA EntryOfRow ==
  ASSUME NEW record, NEW next, NEW orig, NEW from, NEW e, NEW named \in BOOLEAN,
         e = RowOf(e, named), named <=> orig # <<>>,
         SubSeq(record.text, 1, 2) = e["xy"].text, next.value = e["path"].text,
         named => orig.value = e["orig_path"].text
  PROVE  Entry(record, next, orig, from).row = e
<1> DEFINE row == Entry(record, next, orig, from).row
<1>1. row = [f \in FieldsOf(orig # <<>>) |->
               Str(CASE f = "xy"   -> SubSeq(record.text, 1, 2)
                     [] f = "path" -> next.value
                     [] OTHER      -> orig.value)]
  BY DEF Entry
<1>2. FieldsOf(orig # <<>>) = FieldsOf(named)
  BY DEF FieldsOf
<1>3. ASSUME NEW f \in FieldsOf(named)
      PROVE  (CASE f = "xy"   -> SubSeq(record.text, 1, 2)
                [] f = "path" -> next.value
                [] OTHER      -> orig.value) = e[f].text
  <2>1. f = "xy" \/ f = "path" \/ (f = "orig_path" /\ named)
    BY <1>3 DEF FieldsOf
  <2> QED
    BY <2>1
<1>4. row = [f \in FieldsOf(named) |-> Str(e[f].text)]
  BY <1>1, <1>2, <1>3
<1> QED
  BY <1>4 DEF RowOf

LEMMA EntryOfPlain ==
  ASSUME NEW record, NEW next, NEW from, NEW e, e = RowOf(e, FALSE),
         SubSeq(record.text, 1, 2) = e["xy"].text, next.value = e["path"].text
  PROVE  Entry(record, next, <<>>, from).row = e
<1> DEFINE named == FALSE
           orig  == <<>>
<1>1. named \in BOOLEAN /\ (named <=> orig # <<>>) /\ (named => orig.value = e["orig_path"].text)
  OBVIOUS
<1>2. e = RowOf(e, named)
  OBVIOUS
<1> HIDE DEF named, orig
<1>3. Entry(record, next, orig, from).row = e
  BY <1>1, <1>2, EntryOfRow
<1> QED
  BY <1>3 DEF orig

\* A row that names the original path too.
IsNamed(e) == e = RowOf(e, TRUE)

LEMMA EntryOfRenamed ==
  ASSUME NEW record, NEW next, NEW orig, NEW from, NEW e, orig # <<>>,
         IsNamed(e),
         SubSeq(record.text, 1, 2) = e["xy"].text, next.value = e["path"].text,
         orig.value = e["orig_path"].text
  PROVE  Entry(record, next, orig, from).row = e
<1> DEFINE named == TRUE
<1>1. named \in BOOLEAN /\ (named <=> orig # <<>>) /\ (named => orig.value = e["orig_path"].text)
  OBVIOUS
<1>2. e = RowOf(e, named)
  BY DEF IsNamed
<1> HIDE DEF named
<1>3. Entry(record, next, orig, from).row = e
  BY <1>1, <1>2, EntryOfRow
<1> QED
  BY <1>3

\* The parts of a row.
Named(e) == "orig_path" \in DOMAIN e

LEMMA RowParts ==
  ASSUME NEW e, NEW nul \in BOOLEAN, IsRow(e, nul)
  PROVE  /\ IsList(e["xy"].text) /\ Len(e["xy"].text) = 2 /\ ToSet(e["xy"].text) \subseteq Marks
         /\ Named(e) <=> IsRename(e["xy"].text)
         /\ Named(e) \in BOOLEAN /\ e = RowOf(e, Named(e))
         /\ IsPath(e["path"].text) /\ (nul => e["path"].text[1] # Quote)
         /\ Named(e) => IsPath(e["orig_path"].text)
<1>1. DOMAIN e = FieldsOf(Named(e))
  BY DEF IsRow, Named
<1>2. "xy" \in DOMAIN e /\ "path" \in DOMAIN e
  BY <1>1 DEF FieldsOf
<1> QED
  BY <1>2 DEF IsRow, Named, IsPath, RowOf

RowIsRead(e, nul, T, at) ==
  /\ at < Len(T) /\ ReadAt(T, nul, at).next = at + Len(PrintRow(e, nul))
  /\ \E entry : ReadAt(T, nul, at).entries = <<entry>> /\ entry.row = e

\* A record that has a value is not the absence of one.
LEMMA RecordIsThere == \A read : "value" \in DOMAIN read => read # <<>>
OBVIOUS

LEMMA PlainRow ==
  ASSUME NEW e, NEW nul \in BOOLEAN, IsRow(e, nul), ~Named(e), NEW T, IsList(T), NEW at,
         Stands(PrintRow(e, nul), T, at)
  PROVE  RowIsRead(e, nul, T, at)
<1> DEFINE xy    == e["xy"].text
           path  == e["path"].text
           new   == Shown(path, nul)
           end   == <<Separator(nul)>>
           head  == xy \o <<Blank>>
           record == RecordAt(T, Separator(nul), at)
<1>1. /\ IsList(xy) /\ Len(xy) = 2 /\ ToSet(xy) \subseteq Marks /\ ~IsRename(xy)
      /\ e = RowOf(e, FALSE) /\ IsPath(path) /\ (nul => path[1] # Quote)
  BY RowParts
<1>2. IsList(new) /\ Len(new) \in Nat /\ Len(new) > 0 /\ Separator(nul) \notin ToSet(new)
  BY <1>1, ShownIsList
<1>3. IsList(end) /\ Len(end) = 1 /\ IsList(<<Blank>>) /\ Len(<<Blank>>) = 1
  BY Single
<1>4. IsList(head) /\ Len(head) = 3
  <2>1. JoinedFacts(xy, <<Blank>>, head)
    BY <1>1, <1>3, JoinedIs, Zenon
  <2> HIDE DEF head, xy
  <2>2. IsList(head) /\ Len(head) = Len(xy) + Len(<<Blank>>)
    BY <2>1 DEF JoinedFacts
  <2> QED
    BY <1>1, <1>3, <2>2
<1>5. PrintRow(e, nul) = head \o (new \o end)
  BY DEF PrintRow, Named
<1>6. at \in Nat
  BY DEF Stands
<1> HIDE DEF head, new, xy, path, end
<1>7. IsList(new \o end) /\ Len(new \o end) = Len(new) + 1
  <2>1. JoinedFacts(new, end, new \o end)
    BY <1>2, <1>3, JoinedIs, Zenon
  <2> QED
    BY <1>3, <2>1 DEF JoinedFacts
<1>8. Stands(head, T, at) /\ Stands(new \o end, T, at + 3) /\ Len(PrintRow(e, nul)) = 3 + (Len(new) + 1)
  <2>1. Stands(head \o (new \o end), T, at)
    BY <1>5
  <2>2. JoinedFacts(head, new \o end, head \o (new \o end))
    BY <1>4, <1>7, JoinedIs, Zenon
  <2>3. Len(head \o (new \o end)) = 3 + (Len(new) + 1)
    BY <1>4, <1>7, <2>2 DEF JoinedFacts
  <2>4. Stands(head, T, at) /\ Stands(new \o end, T, at + Len(head))
    BY <1>4, <1>6, <1>7, <2>1, StandsJoined
  <2> QED
    BY <1>4, <1>5, <2>3, <2>4
<1>9. /\ at < Len(T) /\ record.at = at /\ record.next = at + 3 + Len(new) + 1
      /\ IsRecord(record.text) /\ (IsRename(record.text) <=> IsRename(xy))
      /\ Rest(record) = new /\ Len(record.text) - 3 = Len(new) /\ SubSeq(record.text, 1, 2) = xy
  <2>1. Stands(xy \o <<Blank>>, T, at) /\ Stands(new \o <<Separator(nul)>>, T, at + 3)
    BY <1>8 DEF head, end
  <2> QED
    BY <1>1, <1>2, <2>1, RecordOfRow
<1> HIDE DEF record
<1> DEFINE read == ReadPathIn(new, 0, Len(new))
<1>10. read.ok /\ read.value = path
  <2>1. Stands(new, new, 0) /\ IsList(new)
    BY <1>2, StandsItself
  <2>2. ReadPathIn(new, 0, 0 + Len(new)).ok /\ ReadPathIn(new, 0, 0 + Len(new)).value = path
    <3>1. Stands(Shown(path, nul), new, 0) /\ new = Shown(path, nul)
      BY <2>1 DEF new
    <3> QED
      BY <1>1, <2>1, <3>1, ShownIsRead
  <2> QED
    BY <1>2, <2>2
<1> HIDE DEF read
<1> DEFINE entry == Entry(record, read, <<>>, 0)
<1>11. entry.row = e
  <2>1. SubSeq(record.text, 1, 2) = e["xy"].text /\ read.value = e["path"].text
    BY <1>9, <1>10 DEF xy, path
  <2> QED
    BY <1>1, <2>1, EntryOfPlain
<1>12. ReadAt(T, nul, at) = One(entry, record.next)
  BY <1>1, <1>9, <1>10 DEF ReadAt, ReadRecord, Plainly, record, read
<1> HIDE DEF entry
<1>13. ReadAt(T, nul, at).entries = <<entry>> /\ ReadAt(T, nul, at).next = at + Len(PrintRow(e, nul))
  BY <1>2, <1>6, <1>8, <1>9, <1>12 DEF One
<1> QED
  BY <1>9, <1>11, <1>13 DEF RowIsRead

\* With -z, a renamed path is followed by a record that is the original path.
InTwo(e, nul) == nul /\ Named(e)

LEMMA RenamedNulRow ==
  ASSUME NEW e, NEW nul \in BOOLEAN, InTwo(e, nul), IsRow(e, nul), NEW T, IsList(T), NEW at,
         Stands(PrintRow(e, nul), T, at)
  PROVE  RowIsRead(e, nul, T, at)
<1> DEFINE xy    == e["xy"].text
           new   == e["path"].text
           old   == e["orig_path"].text
           sep   == Separator(nul)
           end   == <<sep>>
           head  == xy \o <<Blank>>
           first == new \o end
           record == RecordAt(T, sep, at)
           next   == at + 3 + Len(new) + 1
           last   == next + Len(old) + 1
<1>1. /\ IsList(xy) /\ Len(xy) = 2 /\ ToSet(xy) \subseteq Marks /\ IsRename(xy)
      /\ IsNamed(e) /\ IsPath(new) /\ new[1] # Quote /\ IsPath(old)
  BY RowParts DEF InTwo, IsNamed
<1>2. /\ IsList(new) /\ Len(new) \in Nat /\ Len(new) > 0 /\ sep \notin ToSet(new)
      /\ IsList(old) /\ Len(old) \in Nat /\ Len(old) > 0 /\ sep \notin ToSet(old) /\ old # <<>>
  BY <1>1, PathHasUnits DEF IsPath, Separator, InTwo
<1>3. IsList(end) /\ Len(end) = 1 /\ end[1] = sep /\ IsList(<<Blank>>) /\ Len(<<Blank>>) = 1
  BY Single
<1>4. PrintRow(e, nul) = head \o ((first \o old) \o end)
  BY DEF PrintRow, Shown, InTwo, Named
<1>5. at \in Nat /\ Len(T) \in Nat
  BY ListFacts DEF Stands
<1> HIDE DEF xy, new, old, end
<1>6. IsList(head) /\ Len(head) = 3
  <2>1. JoinedFacts(xy, <<Blank>>, head)
    BY <1>1, <1>3, JoinedIs, Zenon
  <2> HIDE DEF head
  <2>2. IsList(head) /\ Len(head) = Len(xy) + Len(<<Blank>>)
    BY <2>1 DEF JoinedFacts
  <2> QED
    BY <1>1, <1>3, <2>2
<1>7. IsList(first) /\ Len(first) = Len(new) + 1
  <2>1. JoinedFacts(new, end, first)
    BY <1>2, <1>3, JoinedIs, Zenon
  <2> HIDE DEF first
  <2> QED
    BY <1>3, <2>1 DEF JoinedFacts
<1> HIDE DEF head, first
<1>8. IsList(first \o old) /\ Len(first \o old) = Len(new) + 1 + Len(old)
  <2>1. JoinedFacts(first, old, first \o old)
    BY <1>2, <1>7, JoinedIs, Zenon
  <2> QED
    BY <1>7, <2>1 DEF JoinedFacts
<1> DEFINE both == first \o old
<1> HIDE DEF both
<1>9. IsList(both) /\ Len(both) = Len(new) + 1 + Len(old) /\ PrintRow(e, nul) = head \o (both \o end)
  BY <1>4, <1>8 DEF both
<1>10. IsList(both \o end) /\ Len(both \o end) = Len(new) + 1 + Len(old) + 1
  <2>1. JoinedFacts(both, end, both \o end)
    BY <1>3, <1>9, JoinedIs, Zenon
  <2> QED
    BY <1>3, <1>9, <2>1 DEF JoinedFacts
<1>11. Len(PrintRow(e, nul)) = 3 + (Len(new) + 1 + Len(old) + 1)
  <2>1. JoinedFacts(head, both \o end, head \o (both \o end))
    BY <1>6, <1>10, JoinedIs, Zenon
  <2> QED
    BY <1>6, <1>9, <1>10, <2>1 DEF JoinedFacts
<1>12. Stands(head, T, at) /\ Stands(both \o end, T, at + 3)
  <2>1. Stands(head \o (both \o end), T, at)
    BY <1>9
  <2>2. Stands(head, T, at) /\ Stands(both \o end, T, at + Len(head))
    BY <1>5, <1>6, <1>10, <2>1, StandsJoined
  <2> QED
    BY <1>6, <2>2
<1>13. Stands(both, T, at + 3) /\ Stands(end, T, next + Len(old))
  <2>1. at + 3 \in Nat /\ at + 3 + Len(both) = next + Len(old)
    BY <1>2, <1>5, <1>9
  <2>2. Stands(both, T, at + 3) /\ Stands(end, T, at + 3 + Len(both))
    BY <1>3, <1>9, <1>12, <2>1, StandsJoined
  <2> QED
    BY <2>1, <2>2
<1>14. Stands(first, T, at + 3) /\ Stands(old, T, next)
  <2>1. at + 3 \in Nat /\ at + 3 + Len(first) = next
    BY <1>2, <1>5, <1>7
  <2>2. Stands(first, T, at + 3) /\ Stands(old, T, at + 3 + Len(first))
    BY <1>2, <1>7, <1>13, <2>1, StandsJoined DEF both
  <2> QED
    BY <2>1, <2>2
<1> HIDE DEF sep
<1>15. /\ at < Len(T) /\ record.at = at /\ record.next = next
       /\ IsRecord(record.text) /\ (IsRename(record.text) <=> IsRename(xy))
       /\ Rest(record) = new /\ Len(record.text) - 3 = Len(new) /\ SubSeq(record.text, 1, 2) = xy
  <2>1. Stands(xy \o <<Blank>>, T, at) /\ Stands(new \o <<Separator(nul)>>, T, at + 3)
    BY <1>12, <1>14 DEF head, first, end, sep
  <2>2. Separator(nul) \notin ToSet(new)
    BY <1>2 DEF sep
  <2> DEFINE r == RecordAt(T, Separator(nul), at)
  <2>3. /\ at < Len(T) /\ r.at = at /\ r.next = at + 3 + Len(new) + 1
        /\ IsRecord(r.text) /\ (IsRename(r.text) <=> IsRename(xy))
        /\ Rest(r) = new /\ Len(r.text) - 3 = Len(new) /\ SubSeq(r.text, 1, 2) = xy
    BY <1>1, <1>2, <2>1, <2>2, RecordOfRow
  <2> QED
    BY <2>3 DEF sep
<1> HIDE DEF record
<1> DEFINE follows == RecordAt(T, sep, record.next)
<1>16. follows = [at |-> next, text |-> old, next |-> last]
  <2>1. next + Len(old) + 1 <= Len(T) /\ T[next + Len(old) + 1] = sep
    <3>1. next + Len(old) + Len(end) <= Len(T) /\ \A k \in 1 .. Len(end) : T[next + Len(old) + k] = end[k]
      BY <1>13 DEF Stands
    <3> HIDE DEF next
    <3> QED
      BY <1>3, <3>1
  <2>2. RecordAt(T, sep, next) = [at |-> next, text |-> old, next |-> next + Len(old) + 1]
    BY <1>2, <1>14, <2>1, RecordIsFound
  <2> QED
    BY <1>15, <2>2
<1> DEFINE read == ReadPathIn(new, 0, Len(new))
<1>17. read.ok /\ read.value = new
  <2>1. Stands(new, new, 0) /\ Shown(new, nul) = new
    BY <1>2, StandsItself DEF Shown, InTwo
  <2>2. ReadPathIn(new, 0, 0 + Len(new)).ok /\ ReadPathIn(new, 0, 0 + Len(new)).value = new
    <3>1. Stands(Shown(new, nul), new, 0)
      BY <2>1
    <3>2. ReadPathIn(new, 0, 0 + Len(Shown(new, nul))).ok /\ ReadPathIn(new, 0, 0 + Len(Shown(new, nul))).value = new
      BY <1>1, <1>2, <3>1, ShownIsRead
    <3> QED
      BY <2>1, <3>2
  <2> QED
    BY <1>2, <2>2
<1> HIDE DEF read, follows, next, last
<1> DEFINE orig == [value |-> old, quoted |-> FALSE, start |-> 0, end |-> Len(old)]
           entry == Entry(record, read, orig, follows.at)
<1>18. orig # <<>> /\ orig.value = old
  BY RecordIsThere
<1> HIDE DEF orig
<1>19. entry.row = e
  <2>1. SubSeq(record.text, 1, 2) = e["xy"].text /\ read.value = e["path"].text
        /\ orig.value = e["orig_path"].text
    BY <1>15, <1>17, <1>18 DEF xy, new, old
  <2> QED
    BY <1>1, <1>18, <2>1, EntryOfRenamed
<1>20. ReadAt(T, nul, at) = One(entry, follows.next)
  <2>1. ReadAt(T, nul, at) = ReadRecord(record, follows, nul)
    BY DEF ReadAt, record, follows, sep
  <2>2. IsRecord(record.text) /\ IsRename(record.text) /\ Rest(record) = new /\ Len(record.text) - 3 = Len(new)
    BY <1>1, <1>15
  <2>3. ReadRecord(record, follows, nul) = Plainly(record, read, follows)
    BY <2>2 DEF ReadRecord, InTwo, read
  <2>4. follows.text = old /\ follows.at = next
    BY <1>16
  <2>5. Plainly(record, read, follows) = One(entry, follows.next)
    BY <1>2, <1>17, <2>2, <2>4 DEF Plainly, orig
  <2> QED
    BY <2>1, <2>3, <2>5
<1> HIDE DEF entry
<1>21. ReadAt(T, nul, at).entries = <<entry>> /\ ReadAt(T, nul, at).next = at + Len(PrintRow(e, nul))
  <2>1. last = at + Len(PrintRow(e, nul))
    BY <1>2, <1>5, <1>11 DEF last, next
  <2> QED
    BY <1>16, <1>20, <2>1 DEF One
<1> QED
  BY <1>15, <1>19, <1>21 DEF RowIsRead

\* An arrow with none outside quotes after it is the last one.
LEMMA ArrowIsLast ==
  ASSUME NEW r, IsList(r), NEW a \in Nat, a + 1 <= Len(r), r[a + 1] = Arrow,
         Quoting(r)[a] = "out", Scanned(r, a + 1, Len(r))
  PROVE  LastArrow(r) = a + 1
<1> DEFINE S == {0} \cup {i \in 1 .. Len(r) : r[i] = Arrow /\ Quoting(r)[i - 1] = "out"}
<1>1. Len(r) \in Nat
  BY ListFacts
<1>2. a + 1 \in S
  <2>1. a + 1 \in 1 .. Len(r) /\ (a + 1) - 1 = a
    BY <1>1
  <2> QED
    BY <2>1
<1>3. ASSUME NEW i \in S PROVE i \in Nat /\ i <= a + 1
  <2>1. CASE i = 0
    BY <2>1
  <2>2. CASE i \in 1 .. Len(r) /\ r[i] = Arrow /\ Quoting(r)[i - 1] = "out"
    <3>1. ASSUME i > a + 1 PROVE FALSE
      <4>1. i \in (a + 1) + 1 .. Len(r)
        BY <1>1, <2>2, <3>1
      <4> QED
        BY <2>2, <4>1 DEF Scanned
    <3> QED
      BY <1>1, <2>2, <3>1
  <2> QED
    BY <2>1, <2>2
<1> HIDE DEF S
<1>4. \A x \in S : (\A y \in S : x >= y) => x = a + 1
  BY <1>2, <1>3
<1>5. \E x \in S : \A y \in S : x >= y
  BY <1>2, <1>3
<1>6. Max(S) = a + 1
  BY <1>4, <1>5 DEF Max
<1> QED
  BY <1>6 DEF LastArrow, S

\* Two shown paths with an arrow between them.
LEMMA ArrowBetween ==
  ASSUME NEW o, IsList(o), NEW n, IsList(n), NEW sep, sep # Arrow, sep \notin ToSet(o), sep \notin ToSet(n),
         NEW r, r = (o \o <<Arrow>>) \o n
  PROVE  /\ IsList(r) /\ Len(r) = Len(o) + 1 + Len(n) /\ sep \notin ToSet(r)
         /\ Stands(o, r, 0) /\ r[Len(o) + 1] = Arrow /\ Stands(n, r, Len(o) + 1)
<1> DEFINE c == <<Arrow>>
           front == o \o c
           all == front \o n
<1>1. IsList(c) /\ Len(c) = 1 /\ c[1] = Arrow /\ Len(o) \in Nat /\ Len(n) \in Nat
  BY Single, ListFacts
<1>2. r = all
  OBVIOUS
<1> HIDE DEF c
<1>3. JoinedFacts(o, c, front)
  BY <1>1, JoinedIs, Zenon
<1>4. IsList(front)
  BY <1>3, Zenon DEF JoinedFacts
<1>5. JoinedFacts(front, n, all)
  BY <1>4, JoinedIs, Zenon
<1> HIDE DEF all
<1>6. IsList(all)
  BY <1>5, Zenon DEF JoinedFacts
<1>7. Stands(all, all, 0)
  BY <1>6, StandsItself
<1>8. Stands(front, all, 0) /\ Stands(n, all, 0 + Len(front))
  <2>1. Stands(front \o n, all, 0)
    BY <1>7 DEF all
  <2> QED
    BY <1>4, <1>6, <2>1, StandsJoined
<1>9. Stands(o, all, 0) /\ Stands(c, all, 0 + Len(o))
  <2>1. Stands(o \o c, all, 0)
    BY <1>8 DEF front
  <2> QED
    BY <1>1, <1>6, <2>1, StandsJoined
<1> HIDE DEF front
<1>10. Len(front) = Len(o) + 1
  BY <1>1, <1>3 DEF JoinedFacts
<1>11. Len(all) = Len(o) + 1 + Len(n)
  BY <1>5, <1>10 DEF JoinedFacts
<1>12. all[Len(o) + 1] = Arrow
  <2>1. all[0 + Len(o) + 1] = c[1]
    BY <1>1, <1>9 DEF Stands
  <2> QED
    BY <1>1, <2>1
<1>13. Stands(n, all, Len(o) + 1)
  BY <1>1, <1>8, <1>10
<1>14. ASSUME NEW i \in 1 .. Len(all) PROVE all[i] # sep
  <2>1. CASE i <= Len(o)
    <3>1. i \in 1 .. Len(o) /\ 0 + i = i
      BY <1>1, <1>11, <2>1
    <3>2. all[i] = o[i] /\ o[i] \in ToSet(o)
      BY <1>9, <3>1, ListFacts DEF Stands, ToSet
    <3> QED
      BY <3>2
  <2>2. CASE i = Len(o) + 1
    BY <1>12, <2>2
  <2>3. CASE i > Len(o) + 1
    <3>1. i - (Len(o) + 1) \in 1 .. Len(n) /\ (Len(o) + 1) + (i - (Len(o) + 1)) = i
      BY <1>1, <1>11, <2>3
    <3>2. all[(Len(o) + 1) + (i - (Len(o) + 1))] = n[i - (Len(o) + 1)]
      BY <1>13, <3>1 DEF Stands
    <3>3. n[i - (Len(o) + 1)] \in ToSet(n)
      BY <3>1, ListFacts DEF ToSet
    <3> QED
      BY <3>1, <3>2, <3>3
  <2> QED
    BY <1>1, <1>11, <2>1, <2>2, <2>3
<1>15. sep \notin ToSet(all)
  <2>1. DOMAIN all = 1 .. Len(all)
    BY <1>6, ListFacts
  <2> QED
    BY <1>14, <2>1 DEF ToSet
<1> QED
  BY <1>2, <1>6, <1>9, <1>11, <1>12, <1>13, <1>15

\* Without it, both paths stand in the record, with an arrow between them.
InOne(e, nul) == ~nul /\ Named(e)

LEMMA ShownApart ==
  ASSUME NEW e, NEW nul \in BOOLEAN, InOne(e, nul), NEW path PROVE Shown(path, nul) = Shown(path, FALSE)
BY DEF Shown, InOne

ReadsTwo(r, old, new) ==
  LET arrow == LastArrow(r)
      left  == ReadPathIn(r, 0, arrow - 1)
      right == ReadPathIn(r, arrow, Len(r))
  IN  /\ arrow > 0 /\ left.ok /\ left.value = old /\ "value" \in DOMAIN left
      /\ right.ok /\ right.value = new

LEMMA PathsAreRead ==
  ASSUME NEW e, NEW nul \in BOOLEAN, InOne(e, nul), NEW old, IsPath(old), NEW new, IsPath(new),
         NEW r, r = (Shown(old, nul) \o <<Arrow>>) \o Shown(new, nul)
  PROVE  /\ IsList(r) /\ Len(r) \in Nat /\ Len(r) > 0 /\ Separator(nul) \notin ToSet(r)
         /\ ReadsTwo(r, old, new)
<1> DEFINE o == Shown(old, nul)
           n == Shown(new, nul)
           sep == Separator(nul)
<1>1. /\ IsList(o) /\ Len(o) \in Nat /\ Len(o) > 0 /\ sep \notin ToSet(o)
      /\ IsList(n) /\ Len(n) \in Nat /\ Len(n) > 0 /\ sep \notin ToSet(n)
  BY ShownIsList
<1>2. sep # Arrow
  BY Zenon DEF Separator, Arrow
<1>3. (nul => old[1] # Quote) /\ (nul => new[1] # Quote)
  BY DEF InOne
<1> HIDE DEF o, n, sep
<1>4. r = (o \o <<Arrow>>) \o n
  BY DEF o, n
<1>5. /\ IsList(r) /\ Len(r) = Len(o) + 1 + Len(n) /\ sep \notin ToSet(r)
      /\ Stands(o, r, 0) /\ r[Len(o) + 1] = Arrow /\ Stands(n, r, Len(o) + 1)
  BY <1>1, <1>2, <1>4, ArrowBetween
<1>6. Len(r) \in Nat /\ Len(r) > 0 /\ Len(o) + 1 <= Len(r) /\ Len(o) + 1 + Len(n) = Len(r)
  BY <1>1, <1>5
<1>7. o = Shown(old, FALSE) /\ n = Shown(new, FALSE)
  BY ShownApart DEF o, n
<1>8. Quoting(r)[Len(o)] = "out"
  <2>1. Quoting(r)[0] = "out"
    BY <1>6, QuotingByPlace
  <2>2. Stands(Shown(old, FALSE), r, 0)
    BY <1>5, <1>7
  <2>3. Scanned(r, 0, 0 + Len(Shown(old, FALSE)))
    BY <1>5, <2>1, <2>2, ShownIsScanned
  <2>4. Scanned(r, 0, Len(o))
    <3>1. Scanned(r, 0, 0 + Len(o))
      BY <1>7, <2>3, Zenon
    <3> QED
      BY <1>1, <3>1
  <2> QED
    BY <2>4 DEF Scanned
<1>9. Scanned(r, Len(o) + 1, Len(r))
  <2>1. Quoting(r)[Len(o) + 1] = "out"
    <3>1. Quoting(r)[Len(o) + 1] = Scan(Quoting(r)[Len(o)], r[Len(o) + 1])
      BY <1>1, <1>5, <1>6, QuotingAfter
    <3>2. Quoting(r)[Len(o) + 1] = Scan("out", Arrow)
      BY <1>5, <1>8, <3>1
    <3> QED
      BY <3>2, Zenon DEF Scan, Arrow, Quote
  <2>2. Stands(Shown(new, FALSE), r, Len(o) + 1)
    BY <1>5, <1>7
  <2>3. Scanned(r, Len(o) + 1, Len(o) + 1 + Len(Shown(new, FALSE)))
    BY <1>5, <2>1, <2>2, ShownIsScanned
  <2> QED
    BY <1>6, <1>7, <2>3
<1>10. LastArrow(r) = Len(o) + 1
  BY <1>1, <1>5, <1>6, <1>8, <1>9, ArrowIsLast
<1> DEFINE left  == ReadPathIn(r, 0, Len(o))
           right == ReadPathIn(r, Len(o) + 1, Len(r))
<1>11. left.ok /\ left.value = old /\ "value" \in DOMAIN left
  <2>1. Stands(Shown(old, nul), r, 0)
    BY <1>5 DEF o
  <2>2. LET read == ReadPathIn(r, 0, 0 + Len(Shown(old, nul)))
        IN  read.ok /\ read.value = old /\ "value" \in DOMAIN read
    BY <1>3, <1>5, <2>1, ShownIsRead
  <2>3. 0 + Len(Shown(old, nul)) = Len(o)
    BY <1>1 DEF o
  <2> QED
    BY <2>2, <2>3
<1>12. right.ok /\ right.value = new
  <2>1. Stands(Shown(new, nul), r, Len(o) + 1)
    BY <1>5 DEF n
  <2> DEFINE a == Len(o) + 1
  <2> HIDE DEF a
  <2>2. LET read == ReadPathIn(r, a, a + Len(Shown(new, nul)))
        IN  read.ok /\ read.value = new /\ "value" \in DOMAIN read
    <3>1. Stands(Shown(new, nul), r, a)
      BY <2>1 DEF a
    <3> QED
      BY <1>3, <1>5, <3>1, ShownIsRead
  <2>3. a + Len(Shown(new, nul)) = Len(r) /\ a = Len(o) + 1
    BY <1>6 DEF n, a
  <2> QED
    BY <2>2, <2>3
<1>13. (Len(o) + 1) - 1 = Len(o) /\ Len(o) + 1 > 0
  BY <1>1
<1> HIDE DEF left, right
<1> QED
  BY <1>5, <1>6, <1>10, <1>11, <1>12, <1>13 DEF left, right, sep, ReadsTwo

LEMMA RenamedRow ==
  ASSUME NEW e, NEW nul \in BOOLEAN, InOne(e, nul), IsRow(e, nul), NEW T, IsList(T), NEW at,
         Stands(PrintRow(e, nul), T, at)
  PROVE  RowIsRead(e, nul, T, at)
<1> DEFINE xy    == e["xy"].text
           new   == e["path"].text
           old   == e["orig_path"].text
           r     == (Shown(old, nul) \o <<Arrow>>) \o Shown(new, nul)
           end   == <<Separator(nul)>>
           head  == xy \o <<Blank>>
           record == RecordAt(T, Separator(nul), at)
           arrow  == LastArrow(r)
           left   == ReadPathIn(r, 0, arrow - 1)
           right  == ReadPathIn(r, arrow, Len(r))
<1>1. /\ IsList(xy) /\ Len(xy) = 2 /\ ToSet(xy) \subseteq Marks /\ IsRename(xy)
      /\ IsNamed(e) /\ IsPath(new) /\ IsPath(old)
  BY RowParts DEF InOne, IsNamed
<1>2. /\ IsList(r) /\ Len(r) \in Nat /\ Len(r) > 0 /\ Separator(nul) \notin ToSet(r)
      /\ arrow > 0 /\ left.ok /\ left.value = old /\ "value" \in DOMAIN left
      /\ right.ok /\ right.value = new
  <2> DEFINE r2 == r
  <2>1. r2 = (Shown(old, nul) \o <<Arrow>>) \o Shown(new, nul)
    OBVIOUS
  <2> HIDE DEF r2, old, new
  <2>2. /\ IsList(r2) /\ Len(r2) \in Nat /\ Len(r2) > 0 /\ Separator(nul) \notin ToSet(r2)
        /\ ReadsTwo(r2, old, new)
    BY <1>1, <2>1, PathsAreRead
  <2>3. IsList(r) /\ Len(r) \in Nat /\ Len(r) > 0 /\ Separator(nul) \notin ToSet(r) /\ ReadsTwo(r, old, new)
    BY <2>2 DEF r2
  <2> HIDE DEF r
  <2> QED
    BY <2>3 DEF ReadsTwo
<1>3. IsList(end) /\ Len(end) = 1 /\ IsList(<<Blank>>) /\ Len(<<Blank>>) = 1
  BY Single
<1>4. PrintRow(e, nul) = head \o (r \o end)
  BY DEF PrintRow, InOne, Named
<1>5. at \in Nat
  BY DEF Stands
<1> HIDE DEF r, xy, new, old, end
<1>6. IsList(head) /\ Len(head) = 3
  <2>1. JoinedFacts(xy, <<Blank>>, head)
    BY <1>1, <1>3, JoinedIs, Zenon
  <2> HIDE DEF head
  <2>2. IsList(head) /\ Len(head) = Len(xy) + Len(<<Blank>>)
    BY <2>1 DEF JoinedFacts
  <2> QED
    BY <1>1, <1>3, <2>2
<1> HIDE DEF head
<1>7. IsList(r \o end) /\ Len(r \o end) = Len(r) + 1
  <2>1. JoinedFacts(r, end, r \o end)
    BY <1>2, <1>3, JoinedIs, Zenon
  <2> QED
    BY <1>3, <2>1 DEF JoinedFacts
<1>8. Stands(head, T, at) /\ Stands(r \o end, T, at + 3) /\ Len(PrintRow(e, nul)) = 3 + (Len(r) + 1)
  <2>1. Stands(head \o (r \o end), T, at)
    BY <1>4
  <2>2. JoinedFacts(head, r \o end, head \o (r \o end))
    BY <1>6, <1>7, JoinedIs, Zenon
  <2>3. Len(head \o (r \o end)) = 3 + (Len(r) + 1)
    BY <1>6, <1>7, <2>2 DEF JoinedFacts
  <2>4. Stands(head, T, at) /\ Stands(r \o end, T, at + Len(head))
    BY <1>5, <1>6, <1>7, <2>1, StandsJoined
  <2> QED
    BY <1>4, <1>6, <2>3, <2>4
<1>9. /\ at < Len(T) /\ record.at = at /\ record.next = at + 3 + Len(r) + 1
      /\ IsRecord(record.text) /\ (IsRename(record.text) <=> IsRename(xy))
      /\ Rest(record) = r /\ Len(record.text) - 3 = Len(r) /\ SubSeq(record.text, 1, 2) = xy
  <2>1. Stands(xy \o <<Blank>>, T, at) /\ Stands(r \o <<Separator(nul)>>, T, at + 3)
    BY <1>8 DEF head, end
  <2> QED
    BY <1>1, <1>2, <2>1, RecordOfRow
<1> HIDE DEF record, left, right
<1> DEFINE entry == Entry(record, right, left, record.at + 3)
<1>10. left # <<>>
  BY <1>2, RecordIsThere
<1>11. entry.row = e
  <2>1. SubSeq(record.text, 1, 2) = e["xy"].text /\ right.value = e["path"].text
        /\ left.value = e["orig_path"].text
    BY <1>2, <1>9 DEF xy, new, old
  <2> QED
    BY <1>1, <1>10, <2>1, EntryOfRenamed
<1>12. ReadAt(T, nul, at) = One(entry, record.next)
  <2> DEFINE follows == RecordAt(T, Separator(nul), record.next)
  <2>1. ReadAt(T, nul, at) = ReadRecord(record, follows, nul)
    BY DEF ReadAt, record
  <2> HIDE DEF follows
  <2>2. ReadRecord(record, follows, nul) = Renamed(record, r, arrow)
    BY <1>1, <1>9 DEF ReadRecord, InOne
  <2>3. Renamed(record, r, arrow) = One(entry, record.next)
    BY <1>2 DEF Renamed, left, right
  <2> QED
    BY <2>1, <2>2, <2>3
<1> HIDE DEF entry
<1>13. ReadAt(T, nul, at).entries = <<entry>> /\ ReadAt(T, nul, at).next = at + Len(PrintRow(e, nul))
  BY <1>2, <1>5, <1>8, <1>9, <1>12 DEF One
<1> QED
  BY <1>9, <1>11, <1>13 DEF RowIsRead

\* Whatever row stands in the text is read there, and the reader goes on after it.
LEMMA EveryRowIsRead ==
  ASSUME NEW e, NEW nul \in BOOLEAN, IsRow(e, nul), NEW T, IsList(T), NEW at,
         Stands(PrintRow(e, nul), T, at)
  PROVE  RowIsRead(e, nul, T, at)
<1>1. ~Named(e) \/ InTwo(e, nul) \/ InOne(e, nul)
  BY DEF InTwo, InOne
<1> QED
  BY <1>1, PlainRow, RenamedNulRow, RenamedRow

LEMMA AfterIsList == ASSUME NEW s, NEW t, IsList(s), IsList(t) PROVE IsList(s \o t)
BY Joined

LEMMA RowIsList ==
  ASSUME NEW e, NEW nul \in BOOLEAN, IsRow(e, nul) PROVE IsList(PrintRow(e, nul))
<1> DEFINE xy   == e["xy"].text
           new  == Shown(e["path"].text, nul)
           old  == Shown(e["orig_path"].text, nul)
           end  == <<Separator(nul)>>
           head == xy \o <<Blank>>
           tail == IF "orig_path" \notin DOMAIN e THEN new \o end
                   ELSE IF nul THEN new \o end \o old \o end
                   ELSE old \o <<Arrow>> \o new \o end
<1>1. IsList(xy) /\ IsPath(e["path"].text) /\ (Named(e) => IsPath(e["orig_path"].text))
  BY RowParts
<1>2. IsList(new) /\ (Named(e) => IsList(old)) /\ IsList(end)
  BY <1>1, ShownIsList, Single
<1>3. PrintRow(e, nul) = head \o tail
  BY DEF PrintRow
<1>4. IsList(head)
  BY <1>1, Single, AfterIsList
<1> HIDE DEF new, old, end, head
<1>5. IsList(tail)
  <2>1. CASE ~Named(e)
    <3>1. IsList(new \o end)
      BY <1>2, AfterIsList
    <3> QED
      BY <2>1, <3>1 DEF Named
  <2>2. CASE Named(e) /\ nul
    <3>1. IsList(new \o end)
      BY <1>2, AfterIsList
    <3>2. IsList((new \o end) \o old)
      BY <1>2, <2>2, <3>1, AfterIsList
    <3>3. IsList(((new \o end) \o old) \o end)
      BY <1>2, <3>2, AfterIsList
    <3> QED
      BY <2>2, <3>3 DEF Named
  <2>3. CASE Named(e) /\ ~nul
    <3>1. IsList(<<Arrow>>)
      BY Single
    <3>2. IsList(old \o <<Arrow>>)
      BY <1>2, <2>3, <3>1, AfterIsList
    <3>3. IsList((old \o <<Arrow>>) \o new)
      BY <1>2, <3>2, AfterIsList
    <3>4. IsList(((old \o <<Arrow>>) \o new) \o end)
      BY <1>2, <3>3, AfterIsList
    <3> QED
      BY <2>3, <3>4 DEF Named
  <2> QED
    BY <2>1, <2>2, <2>3
<1> HIDE DEF tail
<1>6. IsList(head \o tail)
  BY <1>4, <1>5, AfterIsList
<1> QED
  BY <1>3, <1>6

\* What was found are these rows, in this order.
RowsFound(found) == [i \in DOMAIN found |-> found[i].row]

Finds(found, rows) ==
  /\ IsList(found) /\ IsList(rows) /\ Len(found) = Len(rows) /\ RowsFound(found) = rows

IsAfter(entry, rest, found) ==
  /\ IsList(found) /\ Len(found) = Len(rest) + 1 /\ found[1] = entry
  /\ \A j \in 1 .. Len(rest) : found[1 + j] = rest[j]

LEMMA FoundNext == \A entry, rest : IsList(rest) => IsAfter(entry, rest, <<entry>> \o rest)
<1> SUFFICES ASSUME NEW entry, NEW rest, IsList(rest) PROVE IsAfter(entry, rest, <<entry>> \o rest)
  OBVIOUS
<1> DEFINE c == <<entry>>
           all == c \o rest
<1>1. IsList(c) /\ Len(c) = 1 /\ c[1] = entry /\ Len(rest) \in Nat
  BY Single, ListFacts
<1> HIDE DEF c
<1>2. JoinedFacts(c, rest, all)
  BY <1>1, JoinedIs, Zenon
<1> HIDE DEF all
<1>3. IsAfter(entry, rest, all)
  BY <1>1, <1>2 DEF JoinedFacts, IsAfter
<1> QED
  BY <1>3, Zenon DEF all, c

LEMMA OneDown ==
  \A n \in Nat, k \in Nat :
    k + 1 <= n => n - k \in 1 .. n /\ (n - k) + 1 = n + 1 - k /\ n - k = n + 1 - (k + 1) /\ k <= n
OBVIOUS

LEMMA OneUp ==
  \A n \in Nat : \A i \in 1 .. n :
    n + 1 - (i + 1) = n - i /\ \A j \in 1 .. n - i : (i + 1) + j - 1 = i + j
OBVIOUS

LEMMA PrintedIsFound ==
  ASSUME NEW rows, IsList(rows), NEW nul \in BOOLEAN, \A i \in DOMAIN rows : IsRow(rows[i], nul)
  PROVE  Finds(ParseStatus(PrintRows(rows, nul), nul), rows)
<1> DEFINE n  == Len(rows)
           ss == [i \in DOMAIN rows |-> PrintRow(rows[i], nul)]
           T  == PrintRows(rows, nul)
<1>1. n \in Nat /\ DOMAIN rows = 1 .. n
  BY ListFacts
<1>2. /\ IsList(ss) /\ Len(ss) = n /\ \A i \in 1 .. n : ss[i] = PrintRow(rows[i], nul)
      /\ \A i \in 1 .. Len(ss) : IsList(ss[i])
  <2>1. ss \in Seq({PrintRow(rows[i], nul) : i \in DOMAIN rows}) /\ Len(ss) = n
    BY <1>1
  <2>2. IsList(ss)
    BY <2>1, ListOf
  <2>3. \A i \in 1 .. n : ss[i] = PrintRow(rows[i], nul) /\ IsList(PrintRow(rows[i], nul))
    BY <1>1, RowIsList
  <2> QED
    BY <2>1, <2>2, <2>3
<1>3. T = FlattenSeq(ss)
  BY DEF PrintRows
<1> HIDE DEF ss, T
<1>4. IsList(T) /\ \E at : Tiles(ss, T, at)
  BY <1>2, <1>3, FlattenTiles
<1>5. PICK at : Tiles(ss, T, at)
  BY <1>4
<1>6. /\ at \in [1 .. n + 1 -> Nat] /\ at[1] = 0 /\ at[n + 1] = Len(T)
      /\ \A i \in 1 .. n : at[i + 1] = at[i] + Len(ss[i]) /\ Stands(ss[i], T, at[i])
  BY <1>2, <1>5 DEF Tiles
<1> DEFINE F == EntriesFrom(T, nul)
           Fine(i) == /\ IsList(F[at[i]]) /\ Len(F[at[i]]) = n + 1 - i
                      /\ \A j \in 1 .. n + 1 - i : F[at[i]][j].row = rows[i + j - 1]
           Done == {k \in Nat : k <= n => Fine(n + 1 - k)}
<1>7. \A a \in 0 .. Len(T) + 1 : F[a] = EntriesAt(T, nul, F, a)
  BY <1>4, EntriesByPlace DEF ByEntries
<1> HIDE DEF F
<1>8. Len(T) \in Nat
  BY <1>4, ListFacts
<1>9. Fine(n + 1)
  <2>1. F[at[n + 1]] = <<>>
    BY <1>6, <1>7, <1>8 DEF EntriesAt
  <2>2. <<>> \in Seq({}) /\ Len(<<>>) = 0
    OBVIOUS
  <2>3. IsList(<<>>)
    BY <2>2, ListOf
  <2>4. n + 1 - (n + 1) = 0
    BY <1>1
  <2> QED
    BY <2>1, <2>2, <2>3, <2>4
<1>10. ASSUME NEW i \in 1 .. n, Fine(i + 1) PROVE Fine(i)
  <2> DEFINE rest == F[at[i + 1]]
  <2>1. IsRow(rows[i], nul) /\ Stands(PrintRow(rows[i], nul), T, at[i])
    BY <1>1, <1>2, <1>6
  <2>2. RowIsRead(rows[i], nul, T, at[i])
    BY <1>4, <2>1, EveryRowIsRead
  <2>3. PICK entry : ReadAt(T, nul, at[i]).entries = <<entry>> /\ entry.row = rows[i]
    BY <2>2 DEF RowIsRead
  <2>4. at[i] \in Nat /\ at[i] < Len(T) /\ ReadAt(T, nul, at[i]).next = at[i + 1]
    <3>1. at[i] < Len(T) /\ ReadAt(T, nul, at[i]).next = at[i] + Len(PrintRow(rows[i], nul))
      BY <2>2 DEF RowIsRead
    <3>2. at[i + 1] = at[i] + Len(PrintRow(rows[i], nul)) /\ at[i] \in Nat
      <4>1. ss[i] = PrintRow(rows[i], nul) /\ at[i + 1] = at[i] + Len(ss[i])
        BY <1>2, <1>6
      <4>2. i \in 1 .. n + 1
        BY <1>1
      <4> QED
        BY <1>6, <4>1, <4>2
    <3> QED
      BY <3>1, <3>2
  <2>5. F[at[i]] = EntriesAt(T, nul, F, at[i])
    BY <1>7, <1>8, <2>4
  <2>6. F[at[i]] = <<entry>> \o rest
    BY <1>8, <2>3, <2>4, <2>5 DEF EntriesAt
  <2>7. IsList(rest) /\ Len(rest) = n - i /\ \A j \in 1 .. n - i : rest[j].row = rows[i + j]
    <3>1. n + 1 - (i + 1) = n - i /\ \A j \in 1 .. n - i : (i + 1) + j - 1 = i + j
      BY <1>1, OneUp, Zenon
    <3> QED
      BY <1>10, <3>1
  <2> DEFINE found == F[at[i]]
  <2> HIDE DEF rest, found, Fine
  <2>8. /\ IsList(found) /\ Len(found) = Len(rest) + 1 /\ found[1] = entry
        /\ \A j \in 1 .. Len(rest) : found[1 + j] = rest[j]
    <3>1. found = <<entry>> \o rest
      BY <2>6 DEF found
    <3>2. IsAfter(entry, rest, <<entry>> \o rest)
      BY <2>7, FoundNext, Zenon
    <3>3. IsAfter(entry, rest, found)
      BY <3>1, <3>2, Zenon
    <3> QED
      BY <3>3, Zenon DEF IsAfter
  <2>9. ASSUME NEW j \in 1 .. n + 1 - i PROVE found[j].row = rows[i + j - 1]
    <3>1. CASE j = 1
      <4>1. i + j - 1 = i
        BY <1>1, <3>1
      <4> QED
        BY <2>3, <2>8, <3>1, <4>1
    <3>2. CASE j # 1
      <4>1. j - 1 \in 1 .. n - i /\ 1 + (j - 1) = j /\ i + (j - 1) = i + j - 1
        BY <1>1, <3>2
      <4>2. found[1 + (j - 1)] = rest[j - 1] /\ rest[j - 1].row = rows[i + (j - 1)]
        BY <2>7, <2>8, <4>1
      <4> QED
        BY <4>1, <4>2
    <3> QED
      BY <3>1, <3>2
  <2>10. Len(found) = n + 1 - i
    BY <1>1, <2>7, <2>8
  <2> QED
    BY <2>8, <2>9, <2>10 DEF found, Fine
<1> HIDE DEF Fine
<1>11. Nat \subseteq Done
  <2>1. 0 \in Done
    BY <1>1, <1>9
  <2>2. ASSUME NEW k \in Nat, k \in Done PROVE k + 1 \in Done
    <3>1. k + 1 <= n => n - k \in 1 .. n /\ (n - k) + 1 = n + 1 - k /\ n - k = n + 1 - (k + 1) /\ k <= n
      BY <1>1, OneDown, Zenon
    <3> QED
      BY <1>10, <2>2, <3>1
  <2> HIDE DEF Done
  <2> QED
    BY <2>1, <2>2, Induct
<1>12. Fine(1)
  <2>1. n \in Done /\ n + 1 - n = 1
    BY <1>1, <1>11
  <2> QED
    BY <1>1, <2>1
<1> DEFINE found == F[0]
<1>13. IsList(found) /\ Len(found) = n /\ \A j \in 1 .. n : found[j].row = rows[j]
  <2>1. n + 1 - 1 = n /\ \A j \in 1 .. n : 1 + j - 1 = j
    BY <1>1
  <2> QED
    BY <1>6, <1>12, <2>1 DEF Fine
<1>14. found = ParseStatus(T, nul)
  BY DEF ParseStatus, F
<1> HIDE DEF found
<1>15. RowsFound(found) = rows
  <2>1. DOMAIN found = 1 .. n
    BY <1>13, ListFacts
  <2>2. rows = [i \in 1 .. n |-> rows[i]]
    BY <1>1 DEF IsList
  <2>3. RowsFound(found) = [i \in 1 .. n |-> rows[i]]
    BY <1>13, <2>1 DEF RowsFound
  <2> QED
    BY <2>2, <2>3
<1> QED
  BY <1>13, <1>14, <1>15 DEF Finds, T

LEMMA LooseIsEmpty ==
  ASSUME NEW T, NEW nul \in BOOLEAN, HasNoRecord(T, nul) PROVE ParseStatus(T, nul) = <<>>
<1> DEFINE n == Len(T)
           F == EntriesFrom(T, nul)
           sep == Separator(nul)
           Starts(a) == a = 0 \/ a = n + 1 \/ (a \in 1 .. n /\ T[a] = sep)
           Done == {k \in Nat : \A a \in 0 .. n + 1 : a + k >= n + 1 /\ Starts(a) => F[a] = <<>>}
<1>1. IsList(T) /\ n \in Nat
  BY ListFacts DEF HasNoRecord
<1>2. \A a \in 0 .. n + 1 : F[a] = EntriesAt(T, nul, F, a)
  BY <1>1, EntriesByPlace DEF ByEntries
<1> HIDE DEF F
<1>3. ASSUME NEW k \in Nat, k \in Done, NEW a \in 0 .. n + 1, a + (k + 1) >= n + 1, Starts(a)
      PROVE  F[a] = <<>>
  <2>1. CASE a >= n
    BY <1>2, <2>1 DEF EntriesAt
  <2>2. CASE a < n
    <3> DEFINE record == RecordAt(T, sep, a)
               b == record.next
    <3>1. ~IsRecord(record.text)
      <4>1. a \in 0 .. Len(T) /\ (a = 0 \/ T[a] = Separator(nul))
        BY <1>1, <1>3, <2>2
      <4> QED
        BY <4>1 DEF HasNoRecord
    <3>2. ReadAt(T, nul, a) = None(record)
      BY <3>1 DEF ReadAt, ReadRecord
    <3>3. b \in Nat /\ b <= n + 1 /\ a + 1 <= b /\ (b <= n => T[b] = sep)
      BY <1>1, <2>2, RecordBounds
    <3> HIDE DEF record
    <3>4. ReadAt(T, nul, a).entries = <<>> /\ ReadAt(T, nul, a).next = b
      BY <3>2 DEF None
    <3> HIDE DEF b, sep
    <3>5. b \in 0 .. n + 1 /\ b + k >= n + 1 /\ Starts(b)
      BY <1>1, <1>3, <3>3
    <3>6. F[b] = <<>>
      BY <1>3, <3>5
    <3>7. F[a] = <<>> \o <<>>
      <4>1. F[a] = EntriesAt(T, nul, F, a) /\ ~(a >= Len(T))
        BY <1>1, <1>2, <2>2
      <4>2. F[a] = ReadAt(T, nul, a).entries \o F[ReadAt(T, nul, a).next]
        BY <4>1, Zenon DEF EntriesAt
      <4> QED
        BY <3>4, <3>6, <4>2, Zenon
    <3>8. <<>> \o <<>> = <<>>
      OBVIOUS
    <3> QED
      BY <3>7, <3>8
  <2> QED
    BY <1>1, <2>1, <2>2
<1> HIDE DEF Starts
<1>4. Nat \subseteq Done
  <2>1. 0 \in Done
    <3>1. ASSUME NEW a \in 0 .. n + 1, a + 0 >= n + 1 PROVE F[a] = <<>>
      BY <1>1, <1>2, <3>1 DEF EntriesAt
    <3> QED
      BY <3>1
  <2>2. ASSUME NEW k \in Nat, k \in Done PROVE k + 1 \in Done
    <3>1. \A a \in 0 .. n + 1 : a + (k + 1) >= n + 1 /\ Starts(a) => F[a] = <<>>
      BY <1>3, <2>2
    <3> QED
      BY <3>1
  <2> HIDE DEF Done
  <2> QED
    BY <2>1, <2>2, Induct
<1>5. n + 1 \in Done /\ Starts(0)
  BY <1>1, <1>4 DEF Starts
<1>6. F[0] = <<>>
  BY <1>1, <1>5
<1> QED
  BY <1>6 DEF ParseStatus, F

\* Whatever git prints, its rows are found, and only they.
LEMMA OutputIsRead ==
  ASSUME NEW out, IsOutput(out) PROVE Finds(ParseStatus(out.text, out.nul), out.rows)
<1>1. out.nul \in BOOLEAN
  BY DEF IsOutput
<1>2. CASE out.rows = <<>> /\ HasNoRecord(out.text, out.nul)
  <2>1. ParseStatus(out.text, out.nul) = <<>>
    BY <1>1, <1>2, LooseIsEmpty
  <2>2. <<>> \in Seq({}) /\ Len(<<>>) = 0
    OBVIOUS
  <2>3. IsList(<<>>)
    BY <2>2, ListOf
  <2>4. RowsFound(<<>>) = <<>>
    BY DEF RowsFound
  <2> QED
    BY <1>2, <2>1, <2>3, <2>4 DEF Finds
<1>3. CASE /\ IsList(out.rows) /\ \A i \in DOMAIN out.rows : IsRow(out.rows[i], out.nul)
           /\ out.text = PrintRows(out.rows, out.nul)
  BY <1>1, <1>3, PrintedIsFound
<1> QED
  BY <1>2, <1>3 DEF IsOutput
-----------------------------------------------------------------------------
(***************************************************************************)
(* The rows that reach the answer.                                         *)
(***************************************************************************)

\* What guard.max_items leaves of the rows.
Capped(rows) == IF MaxItems > 0 THEN Cut(rows, MaxItems) ELSE rows

\* The rows of a value that the cap leaves, for any reader of it.
IsCapped(value, rows) ==
  value.kind = "object" => /\ value.keys = <<"entries">>
                           /\ value.rows = [entries |-> Capped(rows)]

\* A cap as long as the list leaves it whole.
LEMMA ShortIsWhole ==
  ASSUME NEW rows, IsList(rows), NEW n \in Nat, Len(rows) <= n PROVE Cut(rows, n) = rows
<1>1. Len(rows) \in Nat
  BY DEF IsList
<1>2. Min({n, Len(rows)}) = Len(rows)
  <2>1. \E x \in {n, Len(rows)} : \A y \in {n, Len(rows)} : x <= y
    BY <1>1
  <2>2. Min({n, Len(rows)}) \in {n, Len(rows)} /\ \A y \in {n, Len(rows)} : Min({n, Len(rows)}) <= y
    BY <2>1 DEF Min
  <2> QED
    BY <1>1, <2>2
<1>3. SubSeq(rows, 1, Len(rows)) = rows
  BY DEF IsList
<1> QED
  BY <1>2, <1>3 DEF Cut

\* The built-in reader gives what the cap leaves of the rows it found.
LEMMA ReaderGivesCapped ==
  ASSUME NEW found, NEW rows, Finds(found, rows)
  PROVE  /\ ReadRows(found, MaxItems).kind = "object"
         /\ IsCapped(ReadRows(found, MaxItems), rows)
<1>1. RowsFound(found) = rows /\ Len(rows) \in Nat /\ IsList(rows)
  BY DEF Finds, IsList
<1>2. CASE MaxItems > 0 /\ Len(rows) > MaxItems
  BY <1>1, <1>2 DEF RowsFound, ReadRows, Object, IsCapped, Capped
<1>3. CASE ~(MaxItems > 0 /\ Len(rows) > MaxItems)
  <2>1. Capped(rows) = rows
    BY <1>1, <1>3, ShortIsWhole, ItemsAssumption DEF Capped
  <2> QED
    BY <1>1, <1>3, <2>1 DEF RowsFound, ReadRows, Object, IsCapped
<1> QED
  BY <1>2, <1>3

\* What was not taken for a JSON document is what the reader made of it.
LEMMA ParsedIsRead ==
  ASSUME NEW entry, NEW args, NEW output, NEW read, NEW strict,
         ~ParseWithFallback(entry, args, output, read, strict).native
  PROVE  ParseWithFallback(entry, args, output, read, strict).parsed \in {Null, read.parsed}
<1>1. \A contract : /\ ReadOutput(entry, contract, output, read, strict).parsed \in {Null, read.parsed}
                    /\ DOMAIN ReadOutput(entry, contract, output, read, strict)
                         = {"parsed", "error", "hint", "native"}
  BY DEF ReadOutput, Failed
<1>2. /\ ParseOnce(entry, args, output, read, strict).parsed \in {Null, read.parsed}
      /\ DOMAIN ParseOnce(entry, args, output, read, strict) = {"parsed", "error", "hint", "native"}
  <2>1. \A reason : /\ Failed(reason).parsed = Null
                    /\ DOMAIN Failed(reason) = {"parsed", "error", "hint", "native"}
    BY DEF Failed
  <2>2. \A hint : LET f == [Failed("unsupported_format") EXCEPT !.hint = hint]
                  IN  f.parsed = Null /\ DOMAIN f = {"parsed", "error", "hint", "native"}
    BY DEF Failed
  <2> QED
    BY <1>1, <2>1, <2>2 DEF ParseOnce
<1> QED
  BY <1>2 DEF ParseWithFallback, Fallback

\* Folding leaves an object only when it leaves it as it was.
LEMMA FoldedIsWhole ==
  ASSUME NEW parsed, "kind" \in DOMAIN parsed, NEW lossless \in BOOLEAN,
         ToCompact(parsed, lossless).value.kind = "object"
  PROVE  ToCompact(parsed, lossless).value = parsed
  BY DEF ToCompact

\* Without a projection an object is answered as it was read.
LEMMA AnsweredAsRead ==
  ASSUME NEW req, NEW parsed, "kind" \in DOMAIN parsed, NEW shape, NEW lossless \in BOOLEAN,
         Represented(req, Projected(parsed, NoProjection, shape), lossless).value.kind = "object"
  PROVE  Represented(req, Projected(parsed, NoProjection, shape), lossless).value = parsed
<1> DEFINE value == Projected(parsed, NoProjection, shape)
<1>1. value.parsed = parsed
  BY DEF Projected
<1>2. Represented(req, value, lossless).value \in {parsed, ToCompact(parsed, lossless).value}
  BY <1>1 DEF Represented
<1> QED
  BY <1>2, FoldedIsWhole

\* Rows git may print.
IsPrinted(rows) ==
  IsList(rows) /\ \A i \in DOMAIN rows : /\ "path" \in DOMAIN rows[i]
                                         /\ DOMAIN rows[i] \subseteq {"xy", "path", "orig_path"}

\* The output of a run in progress is one of those git may print.
IsExecuted(c) ==
  \E out \in Outputs :
    /\ out.nul = UsesNul(c.req.args) /\ c.printed = out.rows
    /\ ~c.truncated => c.output.text = out.text

\* What a run has read of an output that was not cut are the rows it printed.
IsTrue(r) ==
  /\ IsPrinted(r.printed)
  /\ ~r.native /\ ~r.truncated /\ r.req.projection = NoProjection =>
       r.found = Len(r.printed) /\ IsCapped(r.final, r.printed)

\* What was retained whole are the rows that were printed.
IsKeptTrue(k) ==
  Entire(k) /\ ~k.incomplete => IsPrinted(k.printed) /\ RowsOf(k.parsed) = k.printed

RowsInv ==
  /\ call.stage = "parse" => IsExecuted(call)
  /\ call.stage = "redact" => IsTrue(call)
  /\ answer.kind = "run" => IsTrue(answer.run)
  /\ IsList(kept) /\ \A i \in DOMAIN kept : IsKeptTrue(kept[i])
  /\ HonestComparison

LEMMA OutputIsPrinted == \A out \in Outputs : IsPrinted(out.rows)
<1> SUFFICES ASSUME NEW out \in Outputs PROVE IsPrinted(out.rows)
  OBVIOUS
<1>1. IsOutput(out)
  BY OutputsAssumption
<1>2. CASE out.rows = <<>>
  <2>1. <<>> \in Seq({}) /\ DOMAIN <<>> = {}
    OBVIOUS
  <2>2. IsList(<<>>)
    BY <2>1, ListOf
  <2> QED
    BY <1>2, <2>1, <2>2 DEF IsPrinted
<1>3. CASE IsList(out.rows) /\ \A i \in DOMAIN out.rows : IsRow(out.rows[i], out.nul)
  <2>1. ASSUME NEW e, NEW nul, IsRow(e, nul)
        PROVE  "path" \in DOMAIN e /\ DOMAIN e \subseteq {"xy", "path", "orig_path"}
    <3>1. DOMAIN e = FieldsOf("orig_path" \in DOMAIN e)
      BY <2>1, Zenon DEF IsRow
    <3> QED
      BY <3>1 DEF FieldsOf
  <2> QED
    BY <1>3, <2>1 DEF IsPrinted
<1> QED
  BY <1>1, <1>2, <1>3 DEF IsOutput

\* What a run answers of an output that was not cut.
LEMMA ReadingIsTrue ==
  ASSUME NEW out \in Outputs, NEW entry, NEW args, NEW output, NEW read, NEW strict,
         NEW req, NEW shape, NEW lossless \in BOOLEAN,
         read \in Readings(entry, ParseStatus(out.text, out.nul), MaxItems),
         ~ParseWithFallback(entry, args, output, read, strict).native
  PROVE  LET result == ParseWithFallback(entry, args, output, read, strict)
             value  == Projected(result.parsed, NoProjection, shape)
         IN  /\ Len(ParseStatus(out.text, out.nul)) = Len(out.rows)
             /\ IsCapped(Represented(req, value, lossless).value, out.rows)
<1> DEFINE found == ParseStatus(out.text, out.nul)
           result == ParseWithFallback(entry, args, output, read, strict)
           final == Represented(req, Projected(result.parsed, NoProjection, shape), lossless).value
<1>1. Finds(found, out.rows)
  BY OutputIsRead, OutputsAssumption
<1> HIDE DEF found
<1>2. read.parsed \in {Null, ReadRows(found, MaxItems)}
  <2> DEFINE good == [parsed |-> ReadRows(found, MaxItems), throws |-> "", violates |-> FALSE]
  <2>1. read \in {good, [good EXCEPT !.violates = TRUE], [good EXCEPT !.parsed = Null],
                  [good EXCEPT !.throws = "parser_exception"],
                  [good EXCEPT !.throws = "unrecognized_output"]}
    BY Zenon DEF Readings, found
  <2>2. "parsed" \in DOMAIN good /\ good.parsed = ReadRows(found, MaxItems)
    BY Zenon
  <2> HIDE DEF good
  <2> QED
    BY <2>1, <2>2
<1>3. result.parsed \in {Null, ReadRows(found, MaxItems)}
  BY <1>2, ParsedIsRead
<1>4. "kind" \in DOMAIN Null /\ Null.kind = "null" /\ "kind" \in DOMAIN ReadRows(found, MaxItems)
  BY DEF Null, ReadRows, Object
<1> HIDE DEF result
<1>5. final.kind = "object" => final = result.parsed
  BY <1>3, <1>4, AnsweredAsRead
<1> HIDE DEF final
<1>6. IsCapped(ReadRows(found, MaxItems), out.rows)
  BY <1>1, ReaderGivesCapped
<1>7. IsCapped(final, out.rows)
  BY <1>3, <1>4, <1>5, <1>6 DEF IsCapped
<1>8. Len(found) = Len(out.rows)
  BY <1>1 DEF Finds
<1> QED
  BY <1>7, <1>8 DEF final, result, found

-----------------------------------------------------------------------------
\* A row of git status is known by its path, and by nothing else.
LEMMA IdentityOfRow ==
  ASSUME NEW cmd, NEW row
  PROVE  /\ cmd = "git" => Identity(cmd, row, <<>>) = IF "path" \in DOMAIN row THEN <<row["path"]>> ELSE <<>>
         /\ cmd # "git" /\ "name" \notin DOMAIN row => Identity(cmd, row, <<>>) = <<>>
<1>1. CASE cmd = "git"
  <2>1. KeyFields(cmd, <<>>) = <<"path">>
    BY <1>1 DEF KeyFields
  <2>2. ToSet(<<"path">>) = {"path"} /\ DOMAIN <<"path">> = {1} /\ <<"path">>[1] = "path"
    BY DEF ToSet
  <2>3. [i \in {1} |-> row[<<"path">>[i]]] = <<row["path"]>>
    BY <2>2
  <2> QED
    BY <1>1, <2>1, <2>2, <2>3 DEF Identity
<1>2. CASE cmd # "git"
  <2>1. KeyFields(cmd, <<>>) = <<"name", "uid">>
    BY <1>2 DEF KeyFields
  <2>2. "name" \in ToSet(<<"name", "uid">>)
    BY DEF ToSet
  <2> QED
    BY <1>2, <2>1, <2>2 DEF Identity
<1> QED
  BY <1>1, <1>2

IdentityIn(cmd, row) == Identity(cmd, row, <<>>)

\* The identities of some rows.
IdentitiesIn(cmd, rows) == {IdentityIn(cmd, rows[i]) : i \in DOMAIN rows} \ {<<>>}

\* A row with an identity that no printed row has is printed nowhere.
LEMMA MissingIsNotPrinted ==
  ASSUME NEW cmd, NEW before, NEW rows, IsPrinted(rows),
         \A i \in DOMAIN rows : IdentityIn(cmd, rows[i]) # <<>>,
         NEW id \in IdentitiesIn(cmd, before) \ IdentitiesIn(cmd, rows), NEW j \in DOMAIN rows
  PROVE  id[1] # rows[j].path
<1>1. cmd = "git"
  <2> SUFFICES ASSUME cmd # "git" PROVE FALSE
    OBVIOUS
  <2>1. "name" \notin DOMAIN rows[j]
    BY DEF IsPrinted
  <2> QED
    BY <2>1, IdentityOfRow DEF IdentityIn
<1>2. PICK i \in DOMAIN before : id = IdentityIn(cmd, before[i]) /\ id # <<>>
  BY DEF IdentitiesIn
<1>3. id = <<before[i].path>> /\ id[1] = before[i].path
  BY <1>1, <1>2, IdentityOfRow DEF IdentityIn
<1>4. IdentityIn(cmd, rows[j]) = <<rows[j].path>>
  BY <1>1, IdentityOfRow DEF IsPrinted, IdentityIn
<1>5. id # <<rows[j].path>>
  BY <1>4 DEF IdentitiesIn
<1> QED
  BY <1>3, <1>5

\* What compare says of one side holds of the rows that side printed.
MissingFrom(ids, side) == \A id \in ids : id[1] \notin Printed(side)

LEMMA ComparisonIsHonest ==
  ASSUME NEW base, NEW current, IsKeptTrue(base), IsKeptTrue(current), NEW strict
  PROVE  LET said == CompareResults(base, current, <<>>, {}, strict)
         IN  /\ Entire(current) => MissingFrom(said.removed, current)
             /\ Entire(base) => MissingFrom(said.added, base)
<1> DEFINE said == CompareResults(base, current, <<>>, {}, strict)
           cmd == current.fp.cmd
           before == RowsOf(base.parsed)
           after == RowsOf(current.parsed)
           Unnamed(rows) == \E i \in DOMAIN rows : IdentityIn(cmd, rows[i]) = <<>>
<1>1. /\ said.removed # {} =>
           /\ ~current.incomplete /\ ~Unnamed(before) /\ ~Unnamed(after)
           /\ said.removed = IdentitiesIn(cmd, before) \ IdentitiesIn(cmd, after)
      /\ said.added # {} =>
           /\ ~base.incomplete /\ ~Unnamed(before) /\ ~Unnamed(after)
           /\ said.added = IdentitiesIn(cmd, after) \ IdentitiesIn(cmd, before)
  BY DEF CompareResults, Removed, NotCompared, IdentitiesIn, IdentityIn
<1> HIDE DEF said
<1>2. ASSUME Entire(current), said.removed # {} PROVE MissingFrom(said.removed, current)
  <2>1. IsPrinted(after) /\ after = current.printed
    BY <1>1, <1>2 DEF IsKeptTrue
  <2> QED
    BY <1>1, <1>2, <2>1, MissingIsNotPrinted DEF MissingFrom, Printed
<1>3. ASSUME Entire(base), said.added # {} PROVE MissingFrom(said.added, base)
  <2>1. IsPrinted(before) /\ before = base.printed
    BY <1>1, <1>3 DEF IsKeptTrue
  <2> QED
    BY <1>1, <1>3, <2>1, MissingIsNotPrinted DEF MissingFrom, Printed
<1> QED
  BY <1>2, <1>3 DEF said, MissingFrom

LEMMA RetainedIsTrue ==
  ASSUME NEW c, IsTrue(c), NEW masked PROVE IsKeptTrue(Retained(c, masked))
<1> DEFINE k == Retained(c, masked)
<1>1. /\ k.parsed = c.final /\ k.printed = c.printed /\ (c.truncated => k.incomplete)
      /\ k.whole <=> /\ ~c.native /\ c.req.projection = NoProjection
                     /\ MaxItems = 0 \/ c.found <= MaxItems
  BY DEF Retained, Incomplete
<1> HIDE DEF k
<1>2. ASSUME Entire(k), ~k.incomplete PROVE RowsOf(k.parsed) = k.printed
  <2>1. /\ c.final.kind = "object" /\ IsCapped(c.final, c.printed)
        /\ MaxItems = 0 \/ Len(c.printed) <= MaxItems
    BY <1>1, <1>2 DEF Entire, IsTrue
  <2>2. Capped(c.printed) = c.printed
    BY <2>1, ShortIsWhole, ItemsAssumption DEF Capped, IsTrue, IsPrinted
  <2>3. RowsOf(c.final) = c.printed
    <3>1. c.final.keys = <<"entries">> /\ c.final.rows = [entries |-> c.printed]
      BY <2>1, <2>2 DEF IsCapped
    <3>2. <<"entries">> # <<>> /\ <<"entries">>[1] = "entries"
      OBVIOUS
    <3>3. c.final.rows[c.final.keys[1]] = c.printed
      BY <3>1, <3>2
    <3> QED
      BY <2>1, <3>1, <3>2, <3>3 DEF RowsOf
  <2> QED
    BY <1>1, <2>3
<1>3. ASSUME Entire(k), ~k.incomplete PROVE IsPrinted(k.printed)
  BY <1>1 DEF IsTrue
<1> QED
  BY <1>2, <1>3 DEF IsKeptTrue, k

LEMMA AppendIsTrue ==
  ASSUME NEW s, NEW k, IsList(s), \A i \in DOMAIN s : IsKeptTrue(s[i]), IsKeptTrue(k)
  PROVE  IsList(Append(s, k)) /\ \A i \in DOMAIN Append(s, k) : IsKeptTrue(Append(s, k)[i])
<1> DEFINE all == ToSet(s) \cup {k}
<1>1. s \in Seq(all) /\ k \in all
  BY DEF IsList
<1>2. /\ Append(s, k) \in Seq(all) /\ Len(Append(s, k)) = Len(s) + 1
      /\ \A i \in 1 .. Len(s) : Append(s, k)[i] = s[i]
      /\ Append(s, k)[Len(s) + 1] = k
  BY <1>1
<1>3. IsList(Append(s, k))
  BY <1>2, ListOf
<1>4. \A i \in DOMAIN Append(s, k) : i \in DOMAIN s \/ i = Len(s) + 1
  BY <1>1, <1>2
<1> QED
  BY <1>1, <1>2, <1>3, <1>4

LEMMA RowsStep == RowsInv /\ [MCNext]_allVars => RowsInv'
<1> SUFFICES ASSUME RowsInv, [MCNext]_allVars PROVE RowsInv'
  OBVIOUS
<1>1. ASSUME UNCHANGED <<call, kept, answer>> PROVE RowsInv'
  BY <1>1 DEF RowsInv, HonestComparison
<1>2. ASSUME UNCHANGED <<call, kept>>, answer'.kind \notin {"run", "compare"} PROVE RowsInv'
  BY <1>2 DEF RowsInv, HonestComparison
<1>3. ASSUME NEW cmd \in Commands, NEW req \in Requests, Execute(cmd, req) PROVE RowsInv'
  <2>1. PICK out, failure, cut :
          /\ out \in Outputs /\ out.nul = UsesNul(req.args)
          /\ LET seen == IF cut THEN SubSeq(out.text, 1, CaptureCap) ELSE out.text
             IN  call' = [stage |-> "parse", cmd |-> cmd, req |-> req, printed |-> out.rows,
                          failure |-> failure, truncated |-> cut \/ failure = "timeout",
                          output |-> [text |-> seen, json |-> Own(Natives, seen, Null)]]
    BY <1>3 DEF Execute
  <2>2. call'.stage = "parse" /\ IsExecuted(call')
    BY <2>1 DEF IsExecuted
  <2>3. UNCHANGED <<kept, answer>>
    BY <1>3 DEF Execute
  <2> QED
    BY <2>1, <2>2, <2>3 DEF RowsInv, HonestComparison
<1>4. ASSUME Parse PROVE RowsInv'
  <2>1. PICK out \in Outputs : /\ out.nul = UsesNul(call.req.args) /\ call.printed = out.rows
                               /\ ~call.truncated => call.output.text = out.text
    BY <1>4 DEF RowsInv, IsExecuted, Parse
  <2> DEFINE entry == registry[call.cmd]
             Cap == IF call.req.projection = NoProjection THEN MaxItems ELSE 0
  <2> DEFINE Made(found, result, form) ==
               /\ call'.found = Len(found)
               /\ call'.native = result.native /\ call'.final = form.value
  <2>2. PICK found \in {ParseStatus(call.output.text, UsesNul(call.req.args))} :
        \E read \in Readings(entry, found, Cap), strict, lossless, stderrOnly \in BOOLEAN :
        \E result \in {ParseWithFallback(entry, call.req.args, call.output, read, strict)} :
        \E shape \in {IF result.native THEN NoContract ELSE ContractFor(entry, call.req.args)} :
        \E value \in {Projected(result.parsed, call.req.projection, shape)} :
        \E form \in {Represented(call.req, value, lossless)} : Made(found, result, form)
    BY <1>4, SMTT(150) DEF Parse
  <2> HIDE DEF Made
  <2>3. PICK read \in Readings(entry, found, Cap), strict \in BOOLEAN, lossless \in BOOLEAN :
        \E result \in {ParseWithFallback(entry, call.req.args, call.output, read, strict)} :
        \E shape \in {IF result.native THEN NoContract ELSE ContractFor(entry, call.req.args)} :
        \E value \in {Projected(result.parsed, call.req.projection, shape)} :
        \E form \in {Represented(call.req, value, lossless)} : Made(found, result, form)
    BY <2>2, ZenonT(60)
  <2>4. PICK result, shape, value, form :
          /\ result = ParseWithFallback(entry, call.req.args, call.output, read, strict)
          /\ value = Projected(result.parsed, call.req.projection, shape)
          /\ form = Represented(call.req, value, lossless)
          /\ Made(found, result, form)
    BY <2>3, Zenon
  <2>5. /\ call'.stage = "redact" /\ call'.req = call.req /\ call'.printed = call.printed
        /\ call'.truncated = call.truncated /\ call'.found = Len(found)
        /\ call'.native = result.native /\ call'.final = form.value
    <3>1. /\ call'.stage = "redact" /\ call'.req = call.req /\ call'.printed = call.printed
          /\ call'.truncated = call.truncated
      BY <1>4, SMTT(90) DEF Parse
    <3> QED
      BY <2>4, <3>1, Zenon DEF Made
  <2>6. UNCHANGED <<kept, answer>>
    BY <1>4 DEF Parse
  <2>7. IsPrinted(call'.printed)
    BY <2>1, <2>5, OutputIsPrinted
  <2>8. ASSUME ~call'.native, ~call'.truncated, call'.req.projection = NoProjection
        PROVE  call'.found = Len(call'.printed) /\ IsCapped(call'.final, call'.printed)
    <3>1. /\ call.req.projection = NoProjection /\ ~result.native
          /\ found = ParseStatus(out.text, out.nul)
          /\ read \in Readings(entry, ParseStatus(out.text, out.nul), MaxItems)
      BY <2>1, <2>2, <2>3, <2>5, <2>8
    <3>2. /\ ~ParseWithFallback(entry, call.req.args, call.output, read, strict).native
          /\ form = Represented(call.req, Projected(ParseWithFallback(entry, call.req.args,
                                  call.output, read, strict).parsed, NoProjection, shape), lossless)
      BY <2>4, <3>1
    <3>3. LET again == ParseWithFallback(entry, call.req.args, call.output, read, strict)
          IN  IsCapped(Represented(call.req, Projected(again.parsed, NoProjection, shape),
                                   lossless).value, out.rows)
      BY <2>1, <2>3, <3>1, <3>2, ReadingIsTrue, Zenon
    <3>4. Len(ParseStatus(out.text, out.nul)) = Len(out.rows)
      BY <2>1, OutputIsRead, OutputsAssumption, Zenon DEF Finds
    <3>5. Len(found) = Len(out.rows) /\ IsCapped(form.value, out.rows)
      BY <3>1, <3>2, <3>3, <3>4, Zenon
    <3> QED
      BY <2>1, <2>5, <3>5
  <2> QED
    BY <2>5, <2>6, <2>7, <2>8 DEF RowsInv, HonestComparison, IsTrue
<1>5. ASSUME Review PROVE RowsInv'
  <2>1. IsTrue(call) /\ call'.stage = "idle" /\ answer'.kind = "run" /\ answer'.run = call
    BY <1>5 DEF RowsInv, Review, Idle
  <2>2. PICK masked : kept' = IF call.req.retain THEN Append(kept, Retained(call, masked)) ELSE kept
    BY <1>5 DEF Review
  <2>3. IsList(kept)' /\ \A i \in DOMAIN kept' : IsKeptTrue(kept'[i])
    BY <2>1, <2>2, RetainedIsTrue, AppendIsTrue DEF RowsInv
  <2> QED
    BY <2>1, <2>3 DEF RowsInv, HonestComparison
<1>6. ASSUME NEW i \in DOMAIN kept, NEW j \in DOMAIN kept, NEW keys, NEW strict,
             CompareKept(i, j, keys, strict)
      PROVE  RowsInv'
  <2>1. /\ answer'.kind = "compare" /\ answer'.base = kept[i] /\ answer'.current = kept[j]
        /\ answer'.keys = keys /\ answer'.said = CompareResults(kept[i], kept[j], keys, {}, strict)
        /\ call = Idle /\ UNCHANGED <<call, kept>>
    BY <1>6 DEF CompareKept
  <2>2. IsKeptTrue(kept[i]) /\ IsKeptTrue(kept[j])
    BY DEF RowsInv
  <2>3. HonestComparison'
    BY <2>1, <2>2, ComparisonIsHonest DEF HonestComparison, MissingFrom
  <2> QED
    BY <2>1, <2>3 DEF RowsInv, Idle
<1> QED
  BY <1>1, <1>2, <1>3, <1>4, <1>5, <1>6
  DEF MCNext, Answering, Admitting, Next, LoadPack, Refuse, RefuseProjection, Explain, allVars, vars

LEMMA RowsInitially == MCInit => RowsInv
<1> SUFFICES ASSUME MCInit PROVE RowsInv
  OBVIOUS
<1>1. /\ call.stage = "idle" /\ answer.kind = "none" /\ kept = <<>>
  BY DEF MCInit, Init, Idle
<1>2. <<>> \in Seq({}) /\ DOMAIN <<>> = {}
  OBVIOUS
<1>3. IsList(<<>>)
  BY <1>2, ListOf
<1> QED
  BY <1>1, <1>2, <1>3 DEF RowsInv, HonestComparison

\* What the built-in parser answers is what git meant, whatever the paths hold
\* and in either form: the rows it printed, in order, up to the cap, unless
\* the answer says that its output was cut (parseGitStatusPorcelain,
\* parseWithFallback, Prism.run).
THEOREM AnswersAreTrue == MCSpec => []RowsAreTrue
<1>1. RowsInv => RowsAreTrue
  BY DEF RowsInv, RowsAreTrue, IsTrue, IsCapped, Capped
<1> QED
  BY <1>1, RowsInitially, RowsStep, PTL DEF MCSpec

\* Of two results that hold every row, none is said to be gone, or new, that
\* the other run printed, whatever was retained (compareResults).
THEOREM ComparedAsPrinted == MCSpec => []HonestComparison
<1>1. RowsInv => HonestComparison
  BY DEF RowsInv
<1> QED
  BY <1>1, RowsInitially, RowsStep, PTL DEF MCSpec

=============================================================================
