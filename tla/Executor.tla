------------------------------ MODULE Executor ------------------------------
(***************************************************************************)
(* How the engine runs commands: `execSlots.run(() => execute(...))` of    *)
(* src/src/facade/engine.ts composes the slots (Semaphore) with the child  *)
(* processes (ChildProcess).  A request waits for a slot, its task spawns  *)
(* the child, and the slot is returned after the child's promise resolved. *)
(* The snapshots that `execute` may await before and after the child are   *)
(* the delays between Begin and the spawn, and between the settlement and  *)
(* Return; the first may throw before there is a child.                    *)
(***************************************************************************)
EXTENDS Naturals, Sequences, FiniteSets

CONSTANTS Runs, Limit, Pids, Reuse, Streams, MaxBuffer, PipeCapacity,
          TimeLimited, Platforms, Descendants, Plain, Immunities

VARIABLES active, waiters, state, job, liveGroups, down, platform, os

S == INSTANCE Semaphore WITH Tasks <- Runs
C == INSTANCE ChildProcess

ASSUME ExecutorAssumption ==
    /\ IsFiniteSet(Runs) /\ IsFiniteSet(Pids) /\ C!NoPid \notin Pids
    /\ Limit \in Nat \ {0}
    /\ MaxBuffer \in Nat \ {0} /\ PipeCapacity \in Nat \ {0}
    /\ TimeLimited \in BOOLEAN /\ Reuse \in BOOLEAN
    /\ Descendants \subseteq {"piped", "silent", "outsider"}
    /\ Immunities \subseteq BOOLEAN

slots == <<active, waiters, state>>
children == <<job, liveGroups, down, platform, os>>
execVars == <<slots, children>>

Init == S!Init /\ C!Init

\* run() or runPaged() reaches the slots.
Request(r) ==
    /\ ~down /\ job[r].phase = "idle"
    /\ S!Acquire(r)
    /\ UNCHANGED children

Begin(r) == ~down /\ S!Start(r) /\ UNCHANGED children

\* Mutants: the slot covers the start of the child, not its life; without the
\* `finally` only a success returns it.
ReturnAtOnce(r) == ~down /\ job[r].phase # "idle" /\ S!Release(r) /\ UNCHANGED children

ReturnOnSuccess(r) == ~down /\ job[r].verdict = "success" /\ S!Release(r) /\ UNCHANGED children

Return(r) == ~down /\ job[r].phase = "settled" /\ S!Release(r) /\ UNCHANGED children

\* Inside the slot `execute` spawns; everything after that are events.
Execute(r) ==
    /\ state[r] = "running" /\ (C!Spawn(r) \/ C!SpawnFails(r))
    /\ UNCHANGED slots

Event(r) ==
    /\ \/ C!TimeoutFires(r) \/ C!ExitEvent(r) \/ C!CloseEvent(r) \/ C!GraceFires(r)
       \/ \E s \in Streams : C!Data(r, s)
       \/ C!System(r)
    /\ UNCHANGED slots

\* The first snapshot throws: execute rejects, and the slot is returned without a child.
SnapshotFails(r) == ~down /\ job[r].phase = "idle" /\ S!Release(r) /\ UNCHANGED children

Shutdown == C!Shutdown /\ UNCHANGED slots

Next ==
    \/ Shutdown
    \/ \E r \in Runs : Request(r) \/ Begin(r) \/ SnapshotFails(r) \/ Return(r) \/ Execute(r) \/ Event(r)

\* As in the two components; a task that began does reach its spawn.
Fairness ==
    \A r \in Runs :
        /\ WF_execVars(Begin(r)) /\ WF_execVars(Return(r)) /\ WF_execVars(Execute(r))
        /\ WF_execVars(C!TimeoutFires(r) /\ UNCHANGED slots)
        /\ WF_execVars(C!GraceFires(r) /\ UNCHANGED slots)
        /\ WF_execVars(C!ExitEvent(r) /\ UNCHANGED slots)
        /\ WF_execVars(C!CloseEvent(r) /\ UNCHANGED slots)
        /\ \A s \in Streams : WF_execVars(C!Data(r, s) /\ UNCHANGED slots)
        /\ WF_execVars(os[r].doomed /\ C!LeaderExits(r) /\ UNCHANGED slots)
        /\ WF_execVars(C!KinDoomed(r) /\ C!KinExits(r) /\ UNCHANGED slots)

Spec == Init /\ [][Next]_execVars /\ Fairness
------------------------------------------------------------------------------
\* The number of children whose result is outstanding never exceeds the limit
\* (max_concurrency, loader.ts:26), which the semaphore alone cannot promise: it
\* counts tasks, and the task must last as long as its child.
BoundedChildren == Cardinality({ r \in Runs : job[r].phase = "live" }) <= Limit

\* The tracked ids are those of unsettled runs, and every such run with somebody in
\* its group is tracked, so that the end of the server can clean it up, whatever
\* neighbours are started and settled meanwhile (executor.ts:122), unless it got
\* the id of a call that had not settled.
RunningGroupsTracked == C!RunningGroupsTracked

\* The end of the server, at any moment, leaves no unsettled run alive
\* (executor.ts:69), with the same exception.
ShutdownSweeps == C!ShutdownSweeps

\* A child lives only under a slot of its own call.
LiveHoldsSlot == \A r \in Runs : job[r].phase = "live" => state[r] = "running"

\* Every request that waits for a slot comes to its end and has returned its slot then,
\* even when the runs before it hang, fail or leave descendants behind, unless the
\* server ends.
RequestsFinish == \A r \in Runs : state[r] = "waiting" ~> (state[r] = "idle" \/ down)
==============================================================================
