----------------------------- MODULE MCRequests -----------------------------
(***************************************************************************)
(* A request before and after its command runs, on small instances: the    *)
(* configuration, the guard and the arguments that are executed            *)
(* (Admission), and what becomes of the output (Pipeline). Each behaviour  *)
(* is one of the two, as `part` says; the variables of the other keep      *)
(* their first values.                                                     *)
(***************************************************************************)
EXTENDS MCPipeline

CONSTANTS GlobalFiles, ProjectFiles, Environments, Admissions

\* A limit that passes its schema is a whole number, 0 or more (LIMIT_SCHEMA,
\* POSITIVE_LIMIT_SCHEMA and parseEnvInt).
ASSUME LimitsAssumption ==
  \A file \in GlobalFiles \cup ProjectFiles \cup Environments :
    \A k \in DOMAIN file \cap {"timeout", "output", "time", "memory"} :
      file[k].ok => file[k].v \in Nat

VARIABLES part, config, trusted, without, phase, request, verdict, executed

admissionVars == <<config, trusted, without, phase, request, verdict, executed>>
allVars == <<part, vars, admissionVars>>

I == INSTANCE MCAdmission
MCGlobal     == I!MCGlobal
MCProject    == I!MCProject
MCEnv        == I!MCEnv
MCAdmissions == I!MCRequests

A == INSTANCE Admission WITH Requests <- Admissions

\* A policy that passes its schema has the fields of one (COMMAND_POLICY_SCHEMA).
ASSUME PoliciesAssumption ==
  \A file \in GlobalFiles \cup ProjectFiles :
    "policies" \in DOMAIN file /\ file["policies"].ok =>
      \A cmd \in DOMAIN file["policies"].v : file["policies"].v[cmd].ok =>
        A!IsPolicy(file["policies"].v[cmd].v)

\* The arguments of a request are a list of strings, each of one form.
ASSUME ArgumentsAssumption ==
  \A r \in Admissions : r[2] \in Seq(A!Arguments)

\* Every output is what git may print.
ASSUME OutputsAssumption == \A out \in Outputs : IsOutput(out)

MCInit ==
    /\ A!AInit
    /\ \/ part = "results" /\ Init
       \/ part = "admission" /\ registry = [cmd \in Commands |-> Registered(NoReader, NoContract)]
          /\ call = Idle /\ kept = <<>> /\ stats = EmptyBag /\ answer = [kind |-> "none"]

Answering == part = "results" /\ Next /\ UNCHANGED <<part, admissionVars>>
Admitting == part = "admission" /\ A!Next /\ UNCHANGED <<part, vars>>

MCNext == Answering \/ Admitting

MCSpec == MCInit /\ [][MCNext]_allVars

\* Nothing follows an admitted request.
MCGoOn == GoOn /\ request = <<>>

-----------------------------------------------------------------------------
\* A project file that the user did not vouch for makes nothing possible that
\* would not be possible without it.
UntrustedOnlyNarrows == A!UntrustedOnlyNarrows

\* No admitted argument leads outside the allowed paths, links resolved.
PathsStayInside == A!PathsStayInside

\* What is executed is what was checked.
ExecutesWhatWasChecked == A!ExecutesWhatWasChecked
=============================================================================
