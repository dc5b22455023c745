-------------------------------- MODULE Config --------------------------------
(***************************************************************************)
(* The configuration and its layers (config/loader.ts, config/schema.ts):  *)
(* defaults, the user's file, the project's file, the environment. A       *)
(* configuration is a function of its fields, a layer a partial one, and   *)
(* a file holds for each field it names a value or something invalid.      *)
(* Relative project paths are taken as resolved and the texts of warnings  *)
(* are left out.                                                           *)
(***************************************************************************)
EXTENDS Guard, FiniteSetsExt

defaultAllowedPaths == {cwd}
Restrictions == [node |-> {"--eval"}]
Secrets == [env |-> {"TOKEN"}, redact |-> FALSE]
DEFAULT_CONFIG ==
    [commands |-> {"ls", "ps", "grep", "git", "kubectl", "curl", "id", "date"},
     paths |-> defaultAllowedPaths, timeout |-> 2, output |-> 2, items |-> 2,
     page |-> 2, maxPage |-> 3, concurrency |-> 2, patterns |-> {"op"},
     restrictions |-> Restrictions, policies |-> <<>>, profile |-> "readonly",
     secrets |-> Secrets, isolation |-> "worker", time |-> 2, memory |-> 2,
     caps |-> {}, thresholds |-> [json |-> 0, compact |-> 2],
     strict |-> FALSE, telemetry |-> FALSE]
Entries == {"restrictions", "policies"}             \* each entry checked alone
Parts == {"secrets", "thresholds"}                  \* each field checked alone

(* validateConfigLayer keeps what is valid, field by field; a part or an   *)
(* entry that is invalid goes without its siblings.                        *)
pickValid(raw) == LET good == {k \in DOMAIN raw : raw[k].ok}
                  IN  [k \in good |-> raw[k].v]
validateConfigLayer(raw) ==
    LET top == pickValid(raw)
    IN  [k \in DOMAIN top |-> IF k \in Entries \cup Parts THEN pickValid(top[k])
                              ELSE top[k]]

(* mergeGuardConfig: restrictions and secrets fall back on the defaults    *)
(* key by key, and a page is never longer than the longest one allowed.    *)
mergeGuardConfig(c) ==
    [c EXCEPT !.restrictions = Over(@, Restrictions), !.secrets = Over(@, Secrets),
              !.page = Min({@, c.maxPage})]

(* mergeConfig: a field of the layer replaces the one below; policies, the *)
(* parts of secrets and the thresholds are replaced key by key.            *)
mergeConfig(base, layer) ==
    LET deep == {"policies", "secrets", "thresholds"}
    IN  mergeGuardConfig(
          [k \in DOMAIN base |->
             CASE k \notin DOMAIN layer -> base[k]
               [] k \in DOMAIN layer \cap deep -> Over(layer[k], base[k])
               [] OTHER -> layer[k]])
-----------------------------------------------------------------------------
(* A project file nobody vouched for may only narrow. 0 means no limit.    *)
narrowLimit(base, project) ==
    IF project = 0 THEN base ELSE IF base = 0 THEN project ELSE Min({base, project})
narrowTimeout(base, project) == narrowLimit(base, project)

narrowAllowedAsWritten(base, project) ==        \* mutant: links are not resolved
    LET kept == {p \in project : \E r \in base : isWithin(p, r)}
    IN  CASE base = {} -> project
          [] base # {} /\ kept = {} -> base
          [] OTHER -> kept
narrowAllowedPaths(base, project) ==
    LET kept == {realPathOf(p) : p \in
                    {p \in project : \E r \in base : isWithin(realPathOf(p), realPathOf(r))}}
    IN  CASE base = {} -> project
          [] base # {} /\ kept = {} -> base
          [] OTHER -> kept

narrowArgRestrictions(base, project) ==
    [cmd \in DOMAIN base \cup DOMAIN project |->
        (IF cmd \in DOMAIN base THEN base[cmd] ELSE {})
        \cup (IF cmd \in DOMAIN project THEN project[cmd] ELSE {})]

(* narrowGuard and narrowParsers, field by field: what the file says in    *)
(* that field, and what comes of it. Every other guard field is ignored.   *)
narrowed(base, k, v) ==
    CASE k = "commands" -> base.commands \cap v
      [] k = "paths" -> narrowAllowedPaths(base.paths, v)
      [] k = "timeout" -> narrowTimeout(base.timeout, v)
      [] k = "output" -> narrowLimit(base.output, v)
      [] k = "patterns" -> base.patterns \cup v
      [] k = "restrictions" -> narrowArgRestrictions(base.restrictions, v)
      [] k = "isolation" -> IF v = "worker" THEN v ELSE base.isolation
      [] k \in {"time", "memory"} -> IF v <= base[k] THEN v ELSE base[k]
      [] k = "caps" -> base.caps \cap v
      [] k = "thresholds" -> Over(v, base.thresholds)
      [] k \in {"strict", "telemetry"} -> v
      [] OTHER -> base[k]
narrow(base, layer) ==
    [k \in DOMAIN base |-> IF k \in DOMAIN layer THEN narrowed(base, k, layer[k])
                           ELSE base[k]]

(* envToConfig reads a few fields; a list without an item and a number     *)
(* that is none are dropped with a warning, whatever is not true is false. *)
EnvFields == {"commands", "paths", "timeout", "output", "items", "page", "strict",
              "telemetry", "thresholds"}
envToConfig(raw) ==
    LET read == {k \in DOMAIN raw \cap EnvFields : raw[k].ok}
        flag == {k \in DOMAIN raw : k \in {"strict", "telemetry"} /\ ~raw[k].ok}
    IN  [k \in {j \in read : j \in {"commands", "paths"} => raw[j].v # {}} \cup flag |->
            IF k \in flag THEN FALSE ELSE raw[k].v]
-----------------------------------------------------------------------------
(* loadConfigMultiLayer, a file per step; without is the outcome had there *)
(* been no project file.                                                   *)
CONSTANTS GlobalFiles, ProjectFiles, Environments    \* the raw layers to try

VARIABLES config, trusted, without, phase

configVars == <<config, trusted, without, phase>>

Init == /\ config = DEFAULT_CONFIG /\ without = DEFAULT_CONFIG
        /\ trusted = FALSE /\ phase = "global"

(* readJsonLayer gives no layer for a file that is missing or unreadable.  *)
ReadGlobal(file, trust) ==
    /\ phase = "global" /\ phase' = "project"
    /\ config' = mergeConfig(config, validateConfigLayer(file))
    /\ without' = config'
    /\ trusted' = trust

ReadProject(file) ==
    /\ phase = "project" /\ phase' = "env"
    /\ LET layer == validateConfigLayer(file)
       IN  config' = IF trusted THEN mergeConfig(config, layer) ELSE narrow(config, layer)
    /\ UNCHANGED <<trusted, without>>

ReadEnv(env) ==
    /\ phase = "env" /\ phase' = "ready"
    /\ config' = mergeConfig(config, envToConfig(env))
    /\ without' = mergeConfig(without, envToConfig(env))
    /\ UNCHANGED trusted

Load == \/ \E file \in GlobalFiles, trust \in BOOLEAN : ReadGlobal(file, trust)
        \/ \E file \in ProjectFiles : ReadProject(file)
        \/ \E env \in Environments : ReadEnv(env)

(* Whether the limits a are as strict as b, 0 being none.                  *)
Stricter(a, b) == b = 0 \/ (a # 0 /\ a <= b)

(* UntrustedOnlyNarrows: without the user's word a project file gives no   *)
(* command, path, flag, time, output or capability that would be refused   *)
(* without it, and lifts no isolation, whatever the other layers say.      *)
UntrustedOnlyNarrows ==
    phase = "ready" /\ ~trusted =>
      /\ config.commands \subseteq without.commands
      /\ without.paths # {} => config.paths # {} /\ \A p \in config.paths :
                                  isAllowedPath(p, without.paths)
      /\ Stricter(config.timeout, without.timeout)
      /\ Stricter(config.output, without.output)
      /\ without.patterns \subseteq config.patterns
      /\ \A cmd \in DOMAIN without.restrictions :
            without.restrictions[cmd] \subseteq config.restrictions[cmd]
      /\ config.policies = without.policies /\ config.profile = without.profile
      /\ config.secrets = without.secrets
      /\ without.isolation = "worker" => config.isolation = "worker"
      /\ config.time <= without.time /\ config.memory <= without.memory
      /\ config.caps \subseteq without.caps
=============================================================================
