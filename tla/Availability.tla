----------------------------- MODULE Availability -----------------------------
(***************************************************************************)
(* What a client is told when a command is not on the host.  A run that    *)
(* could not be spawned is answered with the state of its command, with    *)
(* how to install it and with what could be run instead                    *)
(* (attachAvailability, src/src/facade/engine.ts), and `describe` lists    *)
(* the state of every allowed command.  Both look along the PATH           *)
(* (src/src/engine/availability.ts) and believe what they saw for Ttl: the *)
(* host may have changed since.                                            *)
(***************************************************************************)
EXTENDS Integers, Sequences

CONSTANTS
    Commands,     \* the commands that are looked for, package managers among them
    Sites,        \* the candidate files of a command, in all directories of the PATH
    Allowed,      \* guard.allowed_commands
    Hints,        \* INSTALL_HINTS: the managers that can install a command, in the
                  \* order of the platform
    Substitutes,  \* COMMAND_ALTERNATIVES: what does the same as a command
    Permitted,    \* the substitutes that pass the guard with their arguments
    Ttl,
    MaxTime, MaxChanges   \* bounds: the clock stops, the host settles

\* What the constants may be.
AvailabilityAssumption ==
    /\ Allowed \subseteq Commands /\ {MaxTime, MaxChanges} \subseteq Nat /\ Ttl \in Nat \ {0}
    /\ Hints \in [Commands -> Seq(Commands)]

VARIABLES
    host,      \* what every candidate file is: none, denied or executable
    probed,    \* the cache: a status and when it was seen; Never when not cached
    now,
    changes,
    failing,   \* the commands whose spawn failed and is not answered yet
    seen,      \* history: <<command, status, time>> that was so
    advice     \* the last answer: the statuses it rests on, and when it was given

vars == <<host, probed, now, changes, failing, seen, advice>>

Never == [at |-> 0, status |-> "never"]
Silence == [kind |-> "none", said |-> {}, at |-> 0, manager |-> "none", instead |-> {}]

\* probeUncached: what is executable is run, wherever else it is denied.
Look(h, c) ==
    IF \E p \in Sites : h[c][p] = "executable" THEN "installed"
    ELSE IF \E p \in Sites : h[c][p] = "denied" THEN "not_executable" ELSE "missing"

\* Everything that is so at a moment.
SoAt(h, t) == { <<c, Look(h, c), t>> : c \in Commands }

Init ==
    /\ host \in [Commands -> [Sites -> {"none", "denied", "executable"}]]
    /\ probed = [c \in Commands |-> Never]
    /\ now = 0 /\ changes = 0 /\ failing = {} /\ advice = Silence
    /\ seen = SoAt(host, 0)

\* Mutant: a status is believed one moment too long.
HitLate(c) == probed[c] # Never /\ now - probed[c].at <= Ttl

Hit(c) == probed[c] # Never /\ now - probed[c].at < Ttl

\* probeCommand
Status(c) == IF Hit(c) THEN probed[c].status ELSE Look(host, c)

Remember(C) ==
    probed' = [c \in Commands |-> IF c \in C /\ ~Hit(c) THEN [at |-> now, status |-> Look(host, c)]
                                  ELSE probed[c]]

Claims(C) == { <<c, Status(c)>> : c \in C }

\* resolveInstallHint asks the managers in their order, up to the first that is there.
Present(c) == { k \in DOMAIN Hints[c] : Status(Hints[c][k]) = "installed" }
Asked(c)   == { Hints[c][k] : k \in { m \in DOMAIN Hints[c] : \A j \in Present(c) : m <= j } }
Manager(c) == IF Present(c) = {} THEN "none"
              ELSE Hints[c][CHOOSE k \in Present(c) : \A j \in Present(c) : k <= j]

\* A spawn fails with ENOENT: the command is nowhere, or the directory is gone.
Fail(c) ==
    /\ c \in Allowed \ failing
    /\ failing' = failing \cup {c}
    /\ UNCHANGED <<host, probed, now, changes, seen, advice>>

\* attachAvailability: the failed run is answered.  `fits` are the substitutes that
\* do the same for the arguments of the run.
Attach(c) ==
    LET missing == Status(c) = "missing"
        all     == IF missing THEN {c} \cup Asked(c) ELSE {c}
    IN
    /\ c \in failing /\ failing' = failing \ {c}
    /\ Remember(all)
    /\ \E fits \in SUBSET Substitutes[c] :
         advice' = [kind    |-> IF Status(c) = "installed" THEN "unexplained" ELSE "explained",
                    said    |-> Claims(all), at |-> now,
                    manager |-> IF missing THEN Manager(c) ELSE "none",
                    instead |-> IF missing THEN fits \cap Permitted ELSE {}]
    /\ UNCHANGED <<host, now, changes, seen>>

\* `describe` of all commands, or of one.
Describe(C) ==
    /\ Remember(C)
    /\ advice' = [Silence EXCEPT !.kind = "described", !.said = Claims(C), !.at = now]
    /\ UNCHANGED <<host, now, changes, failing, seen>>

\* Somebody installs, removes or changes a file.
Change(c, p, file) ==
    /\ changes < MaxChanges /\ changes' = changes + 1
    /\ host' = [host EXCEPT ![c] = [@ EXCEPT ![p] = file]]
    /\ seen' = seen \cup SoAt(host', now)
    /\ UNCHANGED <<probed, now, failing, advice>>

Tick ==
    /\ now < MaxTime /\ now' = now + 1
    /\ seen' = seen \cup SoAt(host, now')
    /\ UNCHANGED <<host, probed, changes, failing, advice>>

Next ==
    \/ Tick
    \/ Describe(Allowed)
    \/ \E c \in Commands :
         \/ Fail(c) \/ Attach(c)
         \/ c \in Allowed /\ Describe({c})
         \/ \E p \in Sites, file \in {"none", "denied", "executable"} : Change(c, p, file)

Spec == Init /\ [][Next]_vars
------------------------------------------------------------------------------
\* Whatever an answer says of a command, or rests on, was so less than Ttl before it
\* was given, however the host changes between two looks; and the manager it advises
\* was there.
AdviceIsRecent ==
    /\ \A claim \in advice.said :
         \E t \in 0 .. advice.at : <<claim[1], claim[2], t>> \in seen /\ advice.at - t < Ttl
    /\ advice.manager # "none" => <<advice.manager, "installed">> \in advice.said
==============================================================================
