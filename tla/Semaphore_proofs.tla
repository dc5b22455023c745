-------------------------- MODULE Semaphore_proofs --------------------------
(***************************************************************************)
(* Theorems about Semaphore and MCSemaphore, for any number of callers and *)
(* any limit.                                                              *)
(* The three invariants support each other: the counter is right because   *)
(* only a call that holds a slot is handed over, the hand-over is right    *)
(* because the queue holds exactly the waiting calls, and a slot is never  *)
(* idle because a call queues only when the counter says that all are      *)
(* taken.                                                                  *)
(***************************************************************************)
EXTENDS MCSemaphore, FiniteSetTheorems, TLAPS

\* The inductive invariant: the types and the three invariants together.
IInv == TypeOK /\ SlotAccounting /\ NoIdleSlot /\ WaitersAreQueued

------------------------------------------------------------------------------
\* Holders is a finite set, so that its cardinality is a number.
LEMMA HoldersFinite == IsFiniteSet(Holders)
BY TasksAssumption, FS_Subset DEF Holders

\* A task that becomes a holder adds one to their number.
LEMMA AddHolder ==
  ASSUME NEW t, t \notin Holders, Holders' = Holders \cup {t}
  PROVE  Cardinality(Holders') = Cardinality(Holders) + 1
BY HoldersFinite, FS_AddElement

\* A holder that leaves takes one from their number.
LEMMA RemoveHolder ==
  ASSUME NEW t, t \in Holders, Holders' = Holders \ {t}
  PROVE  Cardinality(Holders') = Cardinality(Holders) - 1
BY HoldersFinite, FS_RemoveElement

\* A slot that changes hands leaves the number of holders as it was.
LEMMA SwapHolder ==
  ASSUME NEW t, NEW u, t \in Holders, u \notin Holders,
         Holders' = (Holders \ {t}) \cup {u}
  PROVE  Cardinality(Holders') = Cardinality(Holders)
<1> DEFINE Rest == Holders \ {t}
<1>1. IsFiniteSet(Rest) /\ Cardinality(Rest) = Cardinality(Holders) - 1
  BY HoldersFinite, FS_RemoveElement
<1>2. Cardinality(Rest \cup {u}) = Cardinality(Rest) + 1
  BY <1>1, FS_AddElement
<1>3. Cardinality(Holders) \in Nat
  BY HoldersFinite, FS_CardinalityType
<1> QED
  BY <1>1, <1>2, <1>3

------------------------------------------------------------------------------
\* Nobody holds a slot at first.
LEMMA InitIInv == Init => IInv
<1> SUFFICES ASSUME Init PROVE IInv
  OBVIOUS
<1>1. TypeOK
  BY LimitAssumption DEF Init, TypeOK, States
<1>2. Holders = {}
  BY DEF Init, Holders
<1>3. SlotAccounting
  BY <1>2, FS_EmptySet DEF Init, SlotAccounting
<1>4. NoIdleSlot /\ WaitersAreQueued
  BY DEF Init, NoIdleSlot, WaitersAreQueued
<1> QED
  BY <1>1, <1>3, <1>4 DEF IInv

\* A call takes a free slot or queues behind a full counter.
LEMMA AcquireIInv ==
  ASSUME NEW t \in Tasks, IInv, Acquire(t)
  PROVE  IInv'
<1> USE DEF IInv
<1>0. state[t] = "idle" /\ state \in [Tasks -> States] /\ active \in 0 .. Limit /\ waiters \in Seq(Tasks)
  BY DEF Acquire, TypeOK
<1>1. CASE /\ active < Limit
           /\ active' = active + 1
           /\ state' = [state EXCEPT ![t] = "granted"]
           /\ UNCHANGED waiters
  <2>1. TypeOK'
    BY <1>0, <1>1, LimitAssumption DEF TypeOK, States
  <2>2. t \notin Holders /\ Holders' = Holders \cup {t}
    BY <1>0, <1>1 DEF Holders
  <2>3. SlotAccounting'
    BY <1>1, <2>2, AddHolder DEF SlotAccounting
  <2>4. waiters = <<>>
    BY <1>0, <1>1 DEF NoIdleSlot
  <2>5. NoIdleSlot'
    BY <1>1, <2>4 DEF NoIdleSlot
  <2>6. WaitersAreQueued'
    BY <1>0, <1>1 DEF WaitersAreQueued
  <2> QED
    BY <2>1, <2>3, <2>5, <2>6
<1>2. CASE /\ active >= Limit
           /\ waiters' = Append(waiters, t)
           /\ state' = [state EXCEPT ![t] = "waiting"]
           /\ UNCHANGED active
  <2>1. TypeOK'
    BY <1>0, <1>2 DEF TypeOK, States
  <2>2. Holders' = Holders
    BY <1>0, <1>2 DEF Holders
  <2>3. SlotAccounting'
    BY <1>2, <2>2 DEF SlotAccounting
  <2>4. NoIdleSlot'
    BY <1>0, <1>2, LimitAssumption DEF NoIdleSlot
  <2>5. /\ Len(waiters') = Len(waiters) + 1
        /\ \A i \in 1 .. Len(waiters) : waiters'[i] = waiters[i]
        /\ waiters'[Len(waiters) + 1] = t
    BY <1>0, <1>2
  <2>6. \A i \in 1 .. Len(waiters) : waiters[i] # t
    BY <1>0 DEF WaitersAreQueued
  <2>7. WaitersAreQueued'
    <3>1. \A i, j \in 1 .. Len(waiters') : waiters'[i] = waiters'[j] => i = j
      BY <1>0, <2>5, <2>6 DEF WaitersAreQueued
    <3>2. ASSUME NEW u \in Tasks
          PROVE  state'[u] = "waiting" <=> \E i \in 1 .. Len(waiters') : waiters'[i] = u
      <4>1. CASE u = t
        BY <1>0, <1>2, <2>5, <4>1
      <4>2. CASE u # t
        <5>1. state'[u] = state[u]
          BY <1>0, <1>2, <4>2
        <5>2. (\E i \in 1 .. Len(waiters') : waiters'[i] = u)
                <=> (\E i \in 1 .. Len(waiters) : waiters[i] = u)
          BY <1>0, <2>5, <4>2
        <5> QED
          BY <5>1, <5>2 DEF WaitersAreQueued
      <4> QED
        BY <4>1, <4>2
    <3> QED
      BY <3>1, <3>2 DEF WaitersAreQueued
  <2> QED
    BY <2>1, <2>3, <2>4, <2>7
<1> QED
  BY <1>1, <1>2 DEF Acquire

\* A holder that starts its task stays a holder.
LEMMA StartIInv ==
  ASSUME NEW t \in Tasks, IInv, Start(t)
  PROVE  IInv'
<1>1. TypeOK'
  BY DEF IInv, TypeOK, Start, States
<1>2. Holders' = Holders
  BY DEF IInv, TypeOK, Start, Holders
<1>3. SlotAccounting' /\ NoIdleSlot'
  BY <1>2 DEF IInv, Start, SlotAccounting, NoIdleSlot
<1>4. WaitersAreQueued'
  BY DEF IInv, TypeOK, Start, WaitersAreQueued
<1> QED
  BY <1>1, <1>3, <1>4 DEF IInv

\* A slot is handed to the oldest waiter, or becomes free when nobody waits.
LEMMA ReleaseIInv ==
  ASSUME NEW t \in Tasks, IInv, Release(t)
  PROVE  IInv'
<1> USE DEF IInv
<1>0. state[t] = "running" /\ state \in [Tasks -> States] /\ active \in 0 .. Limit /\ waiters \in Seq(Tasks)
  BY DEF Release, TypeOK
<1>1. CASE waiters # <<>> /\ HandOver(t)
  <2> DEFINE h == Head(waiters)
  <2>0. /\ waiters' = Tail(waiters)
        /\ state' = [state EXCEPT ![t] = "idle", ![h] = "granted"]
        /\ active' = active
    BY <1>1 DEF HandOver
  <2>1. h \in Tasks /\ h = waiters[1] /\ Len(waiters) >= 1
    BY <1>0, <1>1
  <2>2. state[h] = "waiting" /\ h # t
    BY <1>0, <2>1 DEF WaitersAreQueued
  <2>3. state' \in [Tasks -> States] /\ state'[t] = "idle" /\ state'[h] = "granted"
        /\ \A u \in Tasks \ {t, h} : state'[u] = state[u]
    BY <1>0, <2>0, <2>1, <2>2 DEF States
  <2>4. TypeOK'
    BY <1>0, <1>1, <2>0, <2>3 DEF TypeOK
  <2>5. t \in Holders /\ h \notin Holders
    BY <1>0, <2>1, <2>2 DEF Holders
  <2>6. Holders' = (Holders \ {t}) \cup {h}
    BY <2>1, <2>2, <2>3 DEF Holders
  <2>7. SlotAccounting'
    BY <2>0, <2>5, <2>6, SwapHolder DEF SlotAccounting
  <2>8. NoIdleSlot'
    BY <1>1, <2>0 DEF NoIdleSlot
  <2>9. /\ Len(waiters') = Len(waiters) - 1
        /\ \A i \in 1 .. Len(waiters') : waiters'[i] = waiters[i + 1]
    BY <1>0, <1>1, <2>0
  <2>10. WaitersAreQueued'
    <3>1. ASSUME NEW i \in 1 .. Len(waiters'), NEW j \in 1 .. Len(waiters'),
                 waiters'[i] = waiters'[j]
          PROVE  i = j
      <4>1. i + 1 \in 1 .. Len(waiters) /\ j + 1 \in 1 .. Len(waiters)
        BY <1>0, <2>1, <2>9
      <4>2. waiters[i + 1] = waiters[j + 1]
        BY <2>9, <3>1
      <4>3. i + 1 = j + 1
        BY <4>1, <4>2 DEF WaitersAreQueued
      <4> QED
        BY <4>3
    <3>2. ASSUME NEW u \in Tasks
          PROVE  state'[u] = "waiting" <=> \E i \in 1 .. Len(waiters') : waiters'[i] = u
      <4>1. CASE u = h
        <5>1. \A i \in 1 .. Len(waiters') : waiters'[i] # h
          BY <1>0, <2>1, <2>9 DEF WaitersAreQueued
        <5> QED
          BY <2>3, <4>1, <5>1
      <4>2. CASE u = t
        <5>1. \A i \in 1 .. Len(waiters) : waiters[i] # t
          BY <1>0 DEF WaitersAreQueued
        <5> QED
          BY <1>0, <2>1, <2>3, <2>9, <4>2, <5>1
      <4>3. CASE u \notin {t, h}
        <5>1. (\E i \in 1 .. Len(waiters') : waiters'[i] = u)
                <=> (\E i \in 1 .. Len(waiters) : waiters[i] = u)
          <6>1. ASSUME NEW i \in 1 .. Len(waiters), waiters[i] = u
                PROVE  \E k \in 1 .. Len(waiters') : waiters'[k] = u
            <7>1. i # 1
              BY <2>1, <4>3, <6>1
            <7>2. i - 1 \in 1 .. Len(waiters') /\ waiters'[i - 1] = waiters[i]
              BY <1>0, <2>1, <2>9, <7>1
            <7> QED
              BY <6>1, <7>2
          <6>2. ASSUME NEW i \in 1 .. Len(waiters'), waiters'[i] = u
                PROVE  \E k \in 1 .. Len(waiters) : waiters[k] = u
            BY <1>0, <2>1, <2>9, <6>2
          <6> QED
            BY <6>1, <6>2
        <5> QED
          BY <2>3, <4>3, <5>1 DEF WaitersAreQueued
      <4> QED
        BY <4>1, <4>2, <4>3
    <3> QED
      BY <3>1, <3>2 DEF WaitersAreQueued
  <2> QED
    BY <2>4, <2>7, <2>8, <2>10
<1>2. CASE /\ waiters = <<>>
           /\ active' = active - 1
           /\ state' = [state EXCEPT ![t] = "idle"]
           /\ UNCHANGED waiters
  <2>1. t \in Holders /\ Holders' = Holders \ {t}
    BY <1>0, <1>2 DEF Holders
  <2>2. SlotAccounting'
    BY <1>2, <2>1, RemoveHolder DEF SlotAccounting
  <2>3. active >= 1
    <3>1. Cardinality(Holders) # 0
      BY <2>1, HoldersFinite, FS_EmptySet
    <3> QED
      BY <1>0, <3>1 DEF SlotAccounting
  <2>4. TypeOK'
    BY <1>0, <1>2, <2>3, LimitAssumption DEF TypeOK, States
  <2>5. NoIdleSlot'
    BY <1>2 DEF NoIdleSlot
  <2>6. WaitersAreQueued'
    BY <1>0, <1>2 DEF WaitersAreQueued
  <2> QED
    BY <2>2, <2>4, <2>5, <2>6
<1> QED
  BY <1>1, <1>2 DEF Release

\* Every step of the semaphore preserves the inductive invariant.
LEMMA NextIInv == IInv /\ [Next]_semVars => IInv'
<1> SUFFICES ASSUME IInv, [Next]_semVars PROVE IInv'
  OBVIOUS
<1>1. CASE Next
  BY <1>1, AcquireIInv, StartIInv, ReleaseIInv DEF Next
<1>2. CASE UNCHANGED semVars
  BY <1>2 DEF semVars, IInv, TypeOK, SlotAccounting, NoIdleSlot, WaitersAreQueued, Holders
<1> QED
  BY <1>1, <1>2

\* The inductive invariant holds in every reachable state.
THEOREM SemaphoreInvariant == Spec => []IInv
BY InitIInv, NextIInv, PTL DEF Spec

\* The counter never leaves 0..Limit and the queue holds callers only.
THEOREM SemaphoreTypeOK == Spec => []TypeOK
<1>1. IInv => TypeOK
  BY DEF IInv
<1> QED
  BY <1>1, SemaphoreInvariant, PTL

\* The counter of the code is exactly the number of calls that hold a slot: no
\* interleaving of calls and returns leaks or duplicates one.
THEOREM SemaphoreSlotAccounting == Spec => []SlotAccounting
<1>1. IInv => SlotAccounting
  BY DEF IInv
<1> QED
  BY <1>1, SemaphoreInvariant, PTL

\* While a call waits no slot is free: no wake-up is lost.
THEOREM SemaphoreNoIdleSlot == Spec => []NoIdleSlot
<1>1. IInv => NoIdleSlot
  BY DEF IInv
<1> QED
  BY <1>1, SemaphoreInvariant, PTL

\* The queue holds every waiting call, and each one once.
THEOREM SemaphoreWaitersAreQueued == Spec => []WaitersAreQueued
<1>1. IInv => WaitersAreQueued
  BY DEF IInv
<1> QED
  BY <1>1, SemaphoreInvariant, PTL

------------------------------------------------------------------------------
(***************************************************************************)
(* Refinement.  QueueIsTail ties the arrival order to the counter and the  *)
(* queue: the first `active` calls in flight hold the slots, the others    *)
(* are the queue.  With NoIdleSlot it makes the holders the oldest calls.  *)
(***************************************************************************)
FifoInv == IInv /\ QueueIsTail

\* The places of two sequences, one behind the other.
LEMMA JoinPlaces ==
  ASSUME NEW S, NEW a \in Seq(S), NEW b \in Seq(S)
  PROVE  /\ a \o b \in Seq(S)
         /\ Len(a \o b) = Len(a) + Len(b)
         /\ \A k \in 1 .. Len(a) : (a \o b)[k] = a[k]
         /\ \A k \in 1 .. Len(b) : (a \o b)[Len(a) + k] = b[k]
OBVIOUS

\* A sequence without one of its places.
LEMMA RemovePlaces ==
  ASSUME NEW S, NEW s \in Seq(S), NEW i \in 1 .. Len(s)
  PROVE  /\ RemoveAt(s, i) \in Seq(S)
         /\ Len(RemoveAt(s, i)) = Len(s) - 1
         /\ \A k \in 1 .. Len(s) - 1 :
              RemoveAt(s, i)[k] = IF k < i THEN s[k] ELSE s[k + 1]
<1> DEFINE a == SubSeq(s, 1, i - 1)
           b == SubSeq(s, i + 1, Len(s))
<1>1. /\ a \in Seq(S) /\ Len(a) = i - 1
      /\ \A k \in 1 .. i - 1 : a[k] = s[k]
  OBVIOUS
<1>2. /\ b \in Seq(S) /\ Len(b) = Len(s) - i
      /\ \A k \in 1 .. Len(s) - i : b[k] = s[i + k]
  OBVIOUS
<1> HIDE DEF a, b
<1>0. PICK N \in Nat : N = Len(s) /\ i \in 1 .. N
  OBVIOUS
<1>3. a \o b \in Seq(S) /\ Len(a \o b) = Len(s) - 1
  <2>1. a \o b \in Seq(S) /\ Len(a \o b) = Len(a) + Len(b)
    BY <1>1, <1>2, JoinPlaces
  <2> QED
    BY <1>0, <1>1, <1>2, <2>1
<1>4. ASSUME NEW k \in 1 .. Len(s) - 1
      PROVE  (a \o b)[k] = IF k < i THEN s[k] ELSE s[k + 1]
  <2>1. CASE k < i
    BY <1>1, <1>2, <2>1
  <2>2. CASE ~(k < i)
    <3>1. /\ k - (i - 1) \in 1 .. Len(s) - i /\ i + (k - (i - 1)) = k + 1
          /\ (i - 1) + (k - (i - 1)) = k
      BY <1>0, <2>2
    <3>2. (a \o b)[k] = b[k - (i - 1)]
      BY <1>1, <1>2, <3>1, JoinPlaces
    <3> QED
      BY <1>2, <2>2, <3>1, <3>2
  <2> QED
    BY <2>1, <2>2
<1> QED
  BY <1>3, <1>4 DEF RemoveAt, a, b

\* The first calls are the oldest, when all slots are taken or nobody waits.
LEMMA FirstAreOldest ==
  ASSUME NEW c \in Seq(Tasks), NEW a \in Nat, NEW n \in Nat, NEW h \in SUBSET Tasks,
         a <= Limit, Len(c) = a + n, n = 0 \/ a = Limit,
         \A t \in Tasks : t \in h <=> \E i \in 1 .. a : c[i] = t
  PROVE  h = Slots!Oldest(c)
<1>1. (IF Len(c) < Limit THEN Len(c) ELSE Limit) = a
  BY LimitAssumption
<1>2. Slots!Oldest(c) = { c[i] : i \in 1 .. a }
  BY <1>1 DEF Slots!Oldest
<1>3. \A i \in 1 .. a : c[i] \in Tasks
  OBVIOUS
<1> QED
  BY <1>2, <1>3

\* After every step the holders are the oldest calls in flight.
LEMMA HoldersAreOldest == ASSUME FifoInv' PROVE Holders' = Slots!Oldest(calls')
<1>1. /\ active' \in Nat /\ active' <= Limit /\ Len(waiters') \in Nat
      /\ Len(waiters') = 0 \/ active' = Limit
  BY LimitAssumption DEF FifoInv, IInv, TypeOK, NoIdleSlot
<1>2. /\ calls' \in Seq(Tasks) /\ Len(calls') = active' + Len(waiters')
      /\ \A t \in Tasks : t \in Holders' <=> \E i \in 1 .. active' : calls'[i] = t
  BY DEF FifoInv, QueueIsTail
<1>3. Holders' \in SUBSET Tasks
  BY DEF Holders
<1> QED
  BY <1>1, <1>2, <1>3, FirstAreOldest

\* The arithmetic of one more place, and of one gap.
LEMMA OneMore == ASSUME NEW n \in Nat, NEW k \in 1 .. n + 1 PROVE k = n + 1 \/ k \in 1 .. n
OBVIOUS

\* Only a waiting call stands behind the holders, and an idle task nowhere.
LEMMA WhereCallsStand ==
  ASSUME FifoInv, NEW i \in DOMAIN calls
  PROVE  /\ i \in 1 .. active => calls[i] \in Holders
         /\ i \notin 1 .. active => state[calls[i]] = "waiting"
<1>1. /\ active \in Nat /\ waiters \in Seq(Tasks) /\ Len(waiters) \in Nat
      /\ DOMAIN waiters = 1 .. Len(waiters)
      /\ calls \in Seq(Tasks) /\ Len(calls) = active + Len(waiters)
      /\ DOMAIN calls = 1 .. Len(calls) /\ calls[i] \in Tasks
  BY LimitAssumption DEF FifoInv, IInv, TypeOK, QueueIsTail
<1>2. i \in 1 .. active => calls[i] \in Holders
  BY <1>1 DEF FifoInv, QueueIsTail
<1>3. ASSUME i \notin 1 .. active PROVE state[calls[i]] = "waiting"
  <2>1. i - active \in 1 .. Len(waiters) /\ active + (i - active) = i
    BY <1>1, <1>3
  <2>2. calls[i] = waiters[i - active]
    BY <1>1, <2>1 DEF FifoInv, QueueIsTail
  <2> QED
    BY <1>1, <2>1, <2>2 DEF FifoInv, IInv, WaitersAreQueued
<1> QED
  BY <1>2, <1>3

\* A new call is the youngest: it takes a free slot, or joins the queue's end.
LEMMA CallFifoInv ==
  ASSUME NEW t \in Tasks, FifoInv, Call(t)
  PROVE  /\ FifoInv'
         /\ \A i \in DOMAIN calls : calls[i] # t
<1>1. /\ active \in 0 .. Limit /\ waiters \in Seq(Tasks) /\ state \in [Tasks -> States]
      /\ NoIdleSlot /\ calls \in Seq(Tasks) /\ Len(calls) = active + Len(waiters)
      /\ state[t] = "idle" /\ calls' = Append(calls, t)
  BY DEF FifoInv, IInv, TypeOK, QueueIsTail, Call, Acquire
<1>2. \A i \in DOMAIN calls : calls[i] # t
  BY <1>1, WhereCallsStand DEF Holders
<1>3. IInv'
  BY AcquireIInv DEF FifoInv, Call
<1>4. /\ calls' \in Seq(Tasks) /\ Len(calls') = Len(calls) + 1
      /\ calls'[Len(calls) + 1] = t
      /\ \A i \in 1 .. Len(calls) : calls'[i] = calls[i]
      /\ DOMAIN calls = 1 .. Len(calls) /\ DOMAIN calls' = 1 .. Len(calls')
  BY <1>1
<1>5. \A i, j \in DOMAIN calls' : calls'[i] = calls'[j] => i = j
  BY <1>2, <1>4 DEF FifoInv, QueueIsTail
<1>6. \A u \in Tasks : u \in Holders <=> \E i \in 1 .. active : calls[i] = u
  BY DEF FifoInv, QueueIsTail
<1>7. CASE /\ active < Limit
           /\ active' = active + 1
           /\ state' = [state EXCEPT ![t] = "granted"]
           /\ UNCHANGED waiters
  <2>1. waiters = <<>> /\ Len(calls) = active
    BY <1>1, <1>7 DEF NoIdleSlot
  <2>2. Holders' = Holders \cup {t}
    BY <1>1, <1>7 DEF Holders
  <2>3. \A u \in Tasks : u \in Holders' <=> \E i \in 1 .. active' : calls'[i] = u
    BY <1>1, <1>4, <1>6, <1>7, <2>1, <2>2
  <2>4. Len(calls') = active' + Len(waiters')
    BY <1>1, <1>4, <1>7, <2>1
  <2>5. \A i \in DOMAIN waiters' : calls'[active' + i] = waiters'[i]
    BY <1>7, <2>1
  <2> QED
    BY <1>2, <1>3, <1>4, <1>5, <2>3, <2>4, <2>5 DEF FifoInv, QueueIsTail
<1>8. CASE /\ active >= Limit
           /\ waiters' = Append(waiters, t)
           /\ state' = [state EXCEPT ![t] = "waiting"]
           /\ UNCHANGED active
  <2>1. Holders' = Holders
    BY <1>1, <1>8 DEF Holders
  <2>2. \A u \in Tasks : u \in Holders' <=> \E i \in 1 .. active' : calls'[i] = u
    BY <1>1, <1>4, <1>6, <1>8, <2>1
  <2>3. /\ Len(waiters') = Len(waiters) + 1 /\ DOMAIN waiters' = 1 .. Len(waiters) + 1
        /\ waiters'[Len(waiters) + 1] = t
        /\ \A i \in 1 .. Len(waiters) : waiters'[i] = waiters[i]
        /\ DOMAIN waiters = 1 .. Len(waiters)
    BY <1>1, <1>8
  <2>4. Len(calls') = active' + Len(waiters')
    BY <1>1, <1>4, <1>8, <2>3
  <2>5. ASSUME NEW i \in DOMAIN waiters' PROVE calls'[active' + i] = waiters'[i]
    <3>1. CASE i = Len(waiters) + 1
      BY <1>1, <1>4, <1>8, <2>3, <3>1
    <3>2. CASE i \in 1 .. Len(waiters)
      <4>1. active + i \in 1 .. Len(calls)
        BY <1>1, <3>2
      <4>2. calls[active + i] = waiters[i]
        BY <2>3, <3>2 DEF FifoInv, QueueIsTail
      <4> QED
        BY <1>4, <1>8, <2>3, <3>2, <4>1, <4>2
    <3> QED
      BY <2>3, <3>1, <3>2, OneMore
  <2> QED
    BY <1>2, <1>3, <1>4, <1>5, <2>2, <2>4, <2>5 DEF FifoInv, QueueIsTail
<1> QED
  BY <1>7, <1>8 DEF Call, Acquire

\* A task that starts changes neither the order nor who holds a slot.
LEMMA BeginFifoInv ==
  ASSUME NEW t \in Tasks, FifoInv, Begin(t)
  PROVE  FifoInv' /\ UNCHANGED <<calls, Holders>>
<1>1. IInv'
  BY StartIInv DEF FifoInv, Begin
<1>2. UNCHANGED <<calls, active, waiters>>
  BY DEF Begin, Start
<1>3. Holders' = Holders
  BY DEF FifoInv, IInv, TypeOK, Begin, Start, Holders
<1> QED
  BY <1>1, <1>2, <1>3 DEF FifoInv, QueueIsTail

\* A call that returns leaves a gap among the holders; the oldest waiting call
\* moves up into it.
LEMMA ReturnFifoInv ==
  ASSUME NEW t \in Tasks, FifoInv, Return(t)
  PROVE  /\ FifoInv'
         /\ \E i \in DOMAIN calls : calls[i] \in Holders /\ calls' = RemoveAt(calls, i)
<1>1. /\ active \in 0 .. Limit /\ waiters \in Seq(Tasks) /\ state \in [Tasks -> States]
      /\ calls \in Seq(Tasks) /\ Len(calls) = active + Len(waiters)
      /\ state[t] = "running" /\ Len(waiters) \in Nat
      /\ DOMAIN calls = 1 .. Len(calls) /\ DOMAIN waiters = 1 .. Len(waiters)
  BY DEF FifoInv, IInv, TypeOK, QueueIsTail, Return, Release
<1>2. PICK i \in DOMAIN calls : calls[i] = t /\ calls' = RemoveAt(calls, i)
  BY DEF Return
<1>3. i \in 1 .. active /\ calls[i] \in Holders
  BY <1>1, <1>2, WhereCallsStand
<1>4. IInv'
  BY ReleaseIInv DEF FifoInv, Return
<1>5. /\ calls' \in Seq(Tasks) /\ Len(calls') = Len(calls) - 1
      /\ \A k \in 1 .. Len(calls) - 1 :
           calls'[k] = IF k < i THEN calls[k] ELSE calls[k + 1]
      /\ DOMAIN calls' = 1 .. Len(calls) - 1
  <2>1. i \in 1 .. Len(calls)
    BY <1>1
  <2>2. /\ calls' \in Seq(Tasks) /\ Len(calls') = Len(calls) - 1
        /\ \A k \in 1 .. Len(calls) - 1 :
             calls'[k] = IF k < i THEN calls[k] ELSE calls[k + 1]
    BY <1>1, <1>2, <2>1, RemovePlaces
  <2> QED
    BY <2>2
<1>6. \A j, k \in DOMAIN calls : calls[j] = calls[k] => j = k
  BY DEF FifoInv, QueueIsTail
<1>7. \A j, k \in DOMAIN calls' : calls'[j] = calls'[k] => j = k
  <2> SUFFICES ASSUME NEW j \in 1 .. Len(calls) - 1, NEW k \in 1 .. Len(calls) - 1,
                      calls'[j] = calls'[k]
               PROVE  j = k
    BY <1>5
  <2> DEFINE p(n) == IF n < i THEN n ELSE n + 1
  <2>1. p(j) \in 1 .. Len(calls) /\ p(k) \in 1 .. Len(calls)
    BY <1>1
  <2>2. calls'[j] = calls[p(j)] /\ calls'[k] = calls[p(k)]
    BY <1>5
  <2>3. p(j) = p(k)
    BY <1>1, <1>6, <2>1, <2>2
  <2> QED
    BY <1>1, <2>3
<1>8. \A u \in Tasks : u \in Holders <=> \E k \in 1 .. active : calls[k] = u
  BY DEF FifoInv, QueueIsTail
<1>9. \A k \in 1 .. Len(waiters) : calls[active + k] = waiters[k]
  BY <1>1 DEF FifoInv, QueueIsTail
<1>10. ASSUME NEW u \in Tasks, NEW n \in 0 .. Len(calls) - 1, i \in 1 .. n + 1
       PROVE  (\E k \in 1 .. n : calls'[k] = u)
                 <=> (\E k \in 1 .. n + 1 : k # i /\ calls[k] = u)
  <2>1. ASSUME NEW k \in 1 .. n, calls'[k] = u
        PROVE  \E m \in 1 .. n + 1 : m # i /\ calls[m] = u
    <3>1. k \in 1 .. Len(calls) - 1
      BY <1>1
    <3>2. CASE k < i
      BY <1>5, <2>1, <3>1, <3>2
    <3>3. CASE ~(k < i)
      <4>1. k + 1 \in 1 .. n + 1 /\ k + 1 # i
        BY <1>1, <3>3
      <4> QED
        BY <1>5, <2>1, <3>1, <3>3, <4>1
    <3> QED
      BY <3>2, <3>3
  <2>2. ASSUME NEW m \in 1 .. n + 1, m # i, calls[m] = u
        PROVE  \E k \in 1 .. n : calls'[k] = u
    <3>1. CASE m < i
      <4>1. m \in 1 .. n /\ m \in 1 .. Len(calls) - 1
        BY <1>1, <1>10, <3>1
      <4> QED
        BY <1>5, <2>2, <3>1, <4>1
    <3>2. CASE ~(m < i)
      <4>1. m - 1 \in 1 .. n /\ m - 1 \in 1 .. Len(calls) - 1 /\ ~(m - 1 < i) /\ (m - 1) + 1 = m
        BY <1>1, <1>10, <2>2, <3>2
      <4> QED
        BY <1>5, <2>2, <4>1
    <3> QED
      BY <3>1, <3>2
  <2> QED
    BY <2>1, <2>2
<1>11. ASSUME NEW u \in Tasks
       PROVE  (\E k \in 1 .. active : k # i /\ calls[k] = u) <=> u \in Holders \ {t}
  <2>1. ASSUME NEW k \in 1 .. active, k # i, calls[k] = u PROVE u \in Holders \ {t}
    <3>1. k \in DOMAIN calls
      BY <1>1
    <3>2. u # t
      BY <1>2, <1>6, <2>1, <3>1
    <3> QED
      BY <1>8, <2>1, <3>2
  <2>2. ASSUME u \in Holders, u # t PROVE \E k \in 1 .. active : k # i /\ calls[k] = u
    BY <1>2, <1>8, <2>2
  <2> QED
    BY <2>1, <2>2
<1>12. CASE waiters # <<>> /\ HandOver(t)
  <2> DEFINE h == Head(waiters)
  <2>1. /\ waiters' = Tail(waiters) /\ active' = active
        /\ state' = [state EXCEPT ![t] = "idle", ![h] = "granted"]
    BY <1>12 DEF HandOver
  <2>2. h \in Tasks /\ h = waiters[1] /\ Len(waiters) >= 1
    BY <1>1, <1>12
  <2>3. state[h] = "waiting" /\ h # t
    BY <1>1, <2>2 DEF FifoInv, IInv, WaitersAreQueued
  <2>4. Holders' = (Holders \ {t}) \cup {h}
    BY <1>1, <2>1, <2>2, <2>3 DEF Holders
  <2>5. /\ Len(waiters') = Len(waiters) - 1 /\ DOMAIN waiters' = 1 .. Len(waiters) - 1
        /\ \A k \in 1 .. Len(waiters) - 1 : waiters'[k] = waiters[k + 1]
    BY <1>1, <2>1, <2>2
  <2>6. Len(calls') = active' + Len(waiters')
    BY <1>1, <1>5, <2>1, <2>5
  <2>7. ASSUME NEW k \in DOMAIN waiters' PROVE calls'[active' + k] = waiters'[k]
    <3>1. /\ active + k \in 1 .. Len(calls) - 1 /\ ~(active + k < i)
          /\ k + 1 \in 1 .. Len(waiters) /\ (active + k) + 1 = active + (k + 1)
          /\ k \in 1 .. Len(waiters) - 1
      BY <1>1, <1>3, <2>5
    <3>2. calls'[active + k] = calls[active + (k + 1)]
      BY <1>5, <3>1
    <3> QED
      BY <1>9, <2>1, <2>5, <3>1, <3>2
  <2>8. calls[active + 1] = h
    BY <1>9, <2>2
  <2>9. ASSUME NEW u \in Tasks
        PROVE  u \in Holders' <=> \E k \in 1 .. active' : calls'[k] = u
    <3>1. active \in 0 .. Len(calls) - 1 /\ i \in 1 .. active + 1
      BY <1>1, <1>3, <2>2
    <3>2. (\E k \in 1 .. active : calls'[k] = u)
             <=> (\E k \in 1 .. active + 1 : k # i /\ calls[k] = u)
      BY <1>10, <3>1
    <3>3. (\E k \in 1 .. active : k # i /\ calls[k] = u) <=> u \in Holders \ {t}
      BY <1>11
    <3>4. (\E k \in 1 .. active + 1 : k # i /\ calls[k] = u)
             <=> (\E k \in 1 .. active : k # i /\ calls[k] = u) \/ u = h
      <4>1. \A k \in 1 .. active + 1 : k = active + 1 \/ k \in 1 .. active
        BY <1>1
      <4>2. active + 1 \in 1 .. active + 1 /\ active + 1 # i
            /\ \A k \in 1 .. active : k \in 1 .. active + 1
        BY <1>1, <1>3
      <4> QED
        BY <2>8, <4>1, <4>2
    <3> QED
      BY <2>1, <2>4, <3>2, <3>3, <3>4
  <2>10. QueueIsTail'
    BY <1>5, <1>7, <2>6, <2>7, <2>9 DEF QueueIsTail
  <2> QED
    BY <1>2, <1>3, <1>4, <2>10 DEF FifoInv
<1>13. CASE /\ waiters = <<>>
            /\ active' = active - 1
            /\ state' = [state EXCEPT ![t] = "idle"]
            /\ UNCHANGED waiters
  <2>1. Holders' = Holders \ {t}
    BY <1>1, <1>13 DEF Holders
  <2>2. Len(waiters) = 0 /\ Len(calls) = active
    BY <1>1, <1>13
  <2>3. Len(calls') = active' + Len(waiters')
    BY <1>1, <1>5, <1>13, <2>2
  <2>4. \A k \in DOMAIN waiters' : calls'[active' + k] = waiters'[k]
    BY <1>13
  <2>5. ASSUME NEW u \in Tasks
        PROVE  u \in Holders' <=> \E k \in 1 .. active' : calls'[k] = u
    <3>1. active - 1 \in 0 .. Len(calls) - 1 /\ (active - 1) + 1 = active
      BY <1>1, <1>3, <2>2
    <3>2. (\E k \in 1 .. active - 1 : calls'[k] = u)
             <=> (\E k \in 1 .. (active - 1) + 1 : k # i /\ calls[k] = u)
      BY <1>3, <1>10, <3>1
    <3>3. (\E k \in 1 .. active : k # i /\ calls[k] = u) <=> u \in Holders \ {t}
      BY <1>11
    <3> QED
      BY <1>13, <2>1, <3>1, <3>2, <3>3
  <2>6. QueueIsTail'
    BY <1>5, <1>7, <2>3, <2>4, <2>5 DEF QueueIsTail
  <2> QED
    BY <1>2, <1>3, <1>4, <2>6 DEF FifoInv
<1> QED
  BY <1>12, <1>13 DEF Return, Release

\* At first no call is in flight and nobody holds a slot.
LEMMA InitFifoInv == MCInit => FifoInv /\ Slots!Init
<1> SUFFICES ASSUME MCInit PROVE FifoInv /\ Slots!Init
  OBVIOUS
<1>1. active = 0 /\ waiters = <<>> /\ calls = <<>> /\ Holders = {}
  BY DEF MCInit, Init, Holders
<1>2. QueueIsTail
  BY <1>1 DEF QueueIsTail
<1>3. IInv
  BY InitIInv DEF MCInit
<1> QED
  BY <1>1, <1>2, <1>3 DEF FifoInv, Slots!Init

\* Every step of the semaphore is a step of the abstract slots, or none.
LEMMA StepFifo == FifoInv /\ [MCNext]_allVars => FifoInv' /\ [Slots!Next]_(Slots!vars)
<1> SUFFICES ASSUME FifoInv, [MCNext]_allVars
             PROVE  FifoInv' /\ [Slots!Next]_(Slots!vars)
  OBVIOUS
<1>1. FifoInv' => Holders' = Slots!Oldest(calls')
  BY HoldersAreOldest
<1>2. ASSUME NEW t \in Tasks, Call(t) PROVE FifoInv' /\ Slots!Next
  <2>1. FifoInv' /\ \A i \in DOMAIN calls : calls[i] # t
    BY <1>2, CallFifoInv
  <2>2. calls' = Append(calls, t)
    BY <1>2 DEF Call
  <2>3. Slots!Arrive(t)
    BY <1>1, <2>1, <2>2 DEF Slots!Arrive, Slots!ToSet
  <2> QED
    BY <2>1, <2>3 DEF Slots!Next
<1>3. ASSUME NEW t \in Tasks, Begin(t) PROVE FifoInv' /\ UNCHANGED Slots!vars
  BY <1>3, BeginFifoInv DEF Slots!vars
<1>4. ASSUME NEW t \in Tasks, Return(t) PROVE FifoInv' /\ Slots!Next
  <2>1. FifoInv'
    BY <1>4, ReturnFifoInv
  <2>2. PICK i \in DOMAIN calls : calls[i] \in Holders /\ calls' = RemoveAt(calls, i)
    BY <1>4, ReturnFifoInv
  <2>3. Slots!Leave(i)
    BY <1>1, <2>1, <2>2 DEF Slots!Leave, Slots!RemoveAt, RemoveAt
  <2> QED
    BY <2>1, <2>2, <2>3 DEF Slots!Next
<1>5. CASE UNCHANGED allVars
  <2>1. Holders' = Holders /\ IInv'
    BY <1>5 DEF allVars, semVars, Holders, FifoInv, IInv, TypeOK, SlotAccounting,
                NoIdleSlot, WaitersAreQueued
  <2>2. FifoInv'
    BY <1>5, <2>1 DEF allVars, semVars, FifoInv, QueueIsTail
  <2> QED
    BY <1>5, <2>1, <2>2 DEF allVars, Slots!vars
<1> QED
  BY <1>2, <1>3, <1>4, <1>5 DEF MCNext

\* The semaphore implements the abstract slots, for any number of callers and
\* any limit: whoever holds a slot is one of the Limit oldest calls in flight.
THEOREM SemaphoreImplementsFifoSlots == MCSpec => ImplementsFifoSlots
BY InitFifoInv, StepFifo, PTL DEF MCSpec, ImplementsFifoSlots, Slots!Spec
==============================================================================
