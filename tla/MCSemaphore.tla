----------------------------- MODULE MCSemaphore -----------------------------
(***************************************************************************)
(* Semaphore on a small instance.  The history variable `calls` orders the *)
(* calls in flight by arrival, which the semaphore itself forgets for the  *)
(* calls that hold a slot; with it the semaphore implements FifoSlots.     *)
(***************************************************************************)
EXTENDS Semaphore, SequencesExt

VARIABLE calls   \* the calls that have not returned, oldest first

allVars == <<semVars, calls>>

MCInit == Init /\ calls = <<>>

Call(t) == Acquire(t) /\ calls' = Append(calls, t)

Begin(t) == Start(t) /\ UNCHANGED calls

Return(t) ==
    /\ Release(t)
    /\ \E i \in DOMAIN calls : calls[i] = t /\ calls' = RemoveAt(calls, i)

MCNext == \E t \in Tasks : Call(t) \/ Begin(t) \/ Return(t)

MCFairness == \A t \in Tasks : WF_allVars(Begin(t)) /\ WF_allVars(Return(t))

MCSpec == MCInit /\ [][MCNext]_allVars /\ MCFairness

\* The waiting calls are the latest arrivals, in the order of the queue.
QueueIsTail ==
    /\ calls \in Seq(Tasks)
    /\ Len(calls) = active + Len(waiters)
    /\ \A i, j \in DOMAIN calls : calls[i] = calls[j] => i = j
    /\ \A i \in DOMAIN waiters : calls[active + i] = waiters[i]
    /\ \A t \in Tasks : t \in Holders <=> \E i \in 1 .. active : calls[i] = t

Slots == INSTANCE FifoSlots WITH served <- Holders

\* The semaphore implements the abstract slots: the holders are always the
\* Limit oldest calls in flight, so a late call never overtakes a waiting one.
ImplementsFifoSlots == Slots!Spec
==============================================================================
