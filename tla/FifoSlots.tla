------------------------------ MODULE FifoSlots ------------------------------
(***************************************************************************)
(* What the execution slots promise, with no counter and no wake-up: calls *)
(* are ordered by arrival, and at every moment the Limit oldest calls that *)
(* have not returned are the ones that hold a slot.  Nobody overtakes, and *)
(* no slot is idle while somebody waits.                                   *)
(***************************************************************************)
EXTENDS Naturals, Sequences, SequencesExt

CONSTANTS Tasks,   \* the concurrent callers of the slots
          Limit    \* how many of them may hold a slot

VARIABLES calls,   \* the calls that have not returned, oldest first
          served   \* the callers that hold a slot

vars == <<calls, served>>

Oldest(s) == { s[i] : i \in 1 .. (IF Len(s) < Limit THEN Len(s) ELSE Limit) }

Init == calls = <<>> /\ served = {}

Arrive(t) ==
    /\ t \notin ToSet(calls)
    /\ calls' = Append(calls, t)
    /\ served' = Oldest(calls')

Leave(i) ==
    /\ calls[i] \in served
    /\ calls' = RemoveAt(calls, i)
    /\ served' = Oldest(calls')

Next ==
    \/ \E t \in Tasks : Arrive(t)
    \/ \E i \in DOMAIN calls : Leave(i)

Spec == Init /\ [][Next]_vars
==============================================================================
