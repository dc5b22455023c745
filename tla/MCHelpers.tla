------------------------------ MODULE MCHelpers ------------------------------
(***************************************************************************)
(* The helpers of the engine on small instances: the worker thread of an   *)
(* isolated pack (IsolatedPack), the native regular expression engine      *)
(* (NativeRegex) and the process that runs sandboxed packs (Sandbox). Each *)
(* behaviour is one of the three, as `part` says; the variables of the     *)
(* others keep their first values.                                         *)
(***************************************************************************)
EXTENDS IsolatedPack

CONSTANTS Calls,    \* calls of the regular expression engine
          MaxCalls  \* calls of a sandboxed pack

ASSUME MCHelpersAssumption == MaxCalls \in Nat

VARIABLES part,
          binary, child, stdin, server,   \* of the helper process of this part
          mode, engine, dead, ref, requests, stdout, buffer,
          files, pack, failed, helper, doing, outcome, calls, waiting, asked, dir,
          response, result

processVars == <<binary, child, stdin, server>>
regexVars == <<mode, engine, dead, ref, requests, stdout, buffer>>
sandboxVars == <<files, pack, failed, helper, doing, outcome, calls, waiting, asked, dir,
                 response, result>>
allVars == <<part, vars, processVars, regexVars, sandboxVars>>

N == INSTANCE NativeRegex WITH call <- requests
X == INSTANCE Sandbox

MCInit ==
    \/ part = "worker" /\ Init /\ N!Init /\ X!Init
       /\ mode = "auto" /\ binary /\ files = [component |-> TRUE, contract |-> "good"]
    \/ part = "regex" /\ Init /\ phase = "posted" /\ N!Init /\ X!Init
       /\ files = [component |-> TRUE, contract |-> "good"]
    \/ part = "sandbox" /\ Init /\ phase = "posted" /\ N!Init /\ mode = "auto" /\ X!Init

\* A step of one part.
InWorker(A)  == part = "worker" /\ A /\ UNCHANGED <<part, processVars, regexVars, sandboxVars>>
InRegex(A)   == part = "regex" /\ A /\ UNCHANGED <<part, vars, sandboxVars>>
InSandbox(A) == part = "sandbox" /\ A /\ UNCHANGED <<part, vars, regexVars>>

MCNext == InWorker(Next) \/ InRegex(N!Next) \/ InSandbox(X!Next)

\* The fairness of each part while it is the one that runs.
MCFairness ==
    /\ WF_allVars(InWorker(Host)) /\ WF_allVars(InWorker(Tick))
    /\ \A c \in Calls : WF_allVars(InRegex(N!Continue(c))) /\ WF_allVars(InRegex(N!Timeout(c)))
    /\ WF_allVars(InSandbox(X!Goes))

MCSpec == MCInit /\ [][MCNext]_allVars /\ MCFairness

-----------------------------------------------------------------------------
\* The handles of the regular expression engine hold the event loop exactly while
\* something is to come.
HoldsTheLoop == part = "regex" => N!HoldsTheLoop

\* No call that the engine could have answered moves to JavaScript unnoticed.
FallbackExplained == part = "regex" => N!FallbackExplained

\* A request to the regular expression engine always ends.
EverySettles == N!EverySettles

\* No answer of the sandbox is taken for that of another call.
AnswersItsOwnCall == part = "sandbox" => X!AnswersItsOwnCall

\* Nothing of a call of a sandboxed pack stays on the disk but a late response to
\* a call that was given up.
LeavesOnlyTheLate == part = "sandbox" => X!LeavesOnlyTheLate

\* A parse by a sandboxed pack returns, although its thread delivers no events.
ParseReturns == X!ParseReturns
=============================================================================
