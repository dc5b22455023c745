------------------------------ MODULE Semaphore ------------------------------
(***************************************************************************)
(* The counting semaphore of src/src/engine/semaphore.ts that bounds how   *)
(* many child processes the engine runs at once.  `run` takes a slot,      *)
(* awaits the task and returns the slot in a `finally`.  Every `await` is  *)
(* a point where other callers run, so a call is three actions: Acquire    *)
(* (the synchronous part of `acquire`), Start (the continuation after the  *)
(* awaited promise) and Release (the `finally`).                           *)
(***************************************************************************)
EXTENDS Naturals, Sequences, FiniteSets

CONSTANTS Tasks,   \* the callers of `run`; each has one call in flight
          Limit    \* the slots

\* The constructor throws a RangeError on anything else.
ASSUME LimitAssumption == Limit \in Nat \ {0}
ASSUME TasksAssumption == IsFiniteSet(Tasks)

VARIABLES active,    \* the slots in use
          waiters,   \* the resolve functions of the waiting calls, oldest first
          state      \* where the call of each task stands

semVars == <<active, waiters, state>>

States == {"idle", "waiting", "granted", "running"}

Init ==
    /\ active = 0
    /\ waiters = <<>>
    /\ state = [t \in Tasks |-> "idle"]

\* A free slot is taken at once; otherwise the resolve function is queued.
Acquire(t) ==
    /\ state[t] = "idle"
    /\ \/ /\ active < Limit
          /\ active' = active + 1
          /\ state' = [state EXCEPT ![t] = "granted"]
          /\ UNCHANGED waiters
       \/ /\ active >= Limit
          /\ waiters' = Append(waiters, t)
          /\ state' = [state EXCEPT ![t] = "waiting"]
          /\ UNCHANGED active

\* The microtask after `await this.acquire()`: the task body begins.
Start(t) ==
    /\ state[t] = "granted"
    /\ state' = [state EXCEPT ![t] = "running"]
    /\ UNCHANGED <<active, waiters>>

\* Mutants: the waiter is forgotten; the youngest waiter is woken.
FreeWithoutWaking(t) ==
    /\ active' = active - 1
    /\ state' = [state EXCEPT ![t] = "idle"]
    /\ UNCHANGED waiters

HandToYoungest(t) ==
    LET last == Len(waiters) IN
    /\ waiters' = SubSeq(waiters, 1, last - 1)
    /\ state' = [state EXCEPT ![t] = "idle", ![waiters[last]] = "granted"]
    /\ UNCHANGED active

\* The slot passes to the oldest waiter without becoming free in between.
HandOver(t) ==
    /\ waiters' = Tail(waiters)
    /\ state' = [state EXCEPT ![t] = "idle", ![Head(waiters)] = "granted"]
    /\ UNCHANGED active

\* The `finally` of `run`, whether the task fulfilled or rejected.
Release(t) ==
    /\ state[t] = "running"
    /\ \/ /\ waiters # <<>>
          /\ HandOver(t)
       \/ /\ waiters = <<>>
          /\ active' = active - 1
          /\ state' = [state EXCEPT ![t] = "idle"]
          /\ UNCHANGED waiters

Next == \E t \in Tasks : Acquire(t) \/ Start(t) \/ Release(t)

\* The microtask queue always drains, and a task body settles (Executor shows
\* when that holds for a child process).  Nobody is obliged to call.
Fairness == \A t \in Tasks : WF_semVars(Start(t)) /\ WF_semVars(Release(t))

Spec == Init /\ [][Next]_semVars /\ Fairness
------------------------------------------------------------------------------
Holders == { t \in Tasks : state[t] \in {"granted", "running"} }

TypeOK ==
    /\ active \in 0 .. Limit
    /\ waiters \in Seq(Tasks)
    /\ state \in [Tasks -> States]

\* The counter is exactly the number of calls that hold a slot, so at most
\* Limit children run at once: `release` must not free a slot it hands over.
SlotAccounting == active = Cardinality(Holders)

\* No wake-up is lost: while a call waits, every slot is held by someone whose
\* `finally` will pass it on, so the queue of `acquire` cannot be forgotten.
NoIdleSlot == waiters # <<>> => active = Limit

\* The queue holds every waiting call, and each one once: a resolve function
\* queued twice would hand two slots to one call.
WaitersAreQueued ==
    /\ \A i, j \in 1 .. Len(waiters) : waiters[i] = waiters[j] => i = j
    /\ \A t \in Tasks :
         state[t] = "waiting" <=> \E i \in 1 .. Len(waiters) : waiters[i] = t

\* A call that waits for a slot gets one, as long as the tasks that hold the
\* slots settle ("the others wait in the order they came", semaphore.ts:3).
WaitingIsServed == \A t \in Tasks : state[t] = "waiting" ~> state[t] = "running"
==============================================================================
