-------------------------- MODULE Executor_proofs --------------------------
(***************************************************************************)
(* Theorems about Executor, composed from those of its two parts: the      *)
(* invariants of the slots (Semaphore_proofs) and of the children          *)
(* (ChildProcess_proofs), and between them that a child lives only while   *)
(* its task holds a slot.                                                  *)
(*                                                                         *)
(* Executor knows the parts as S and C, their theorems speak of SP and CP: *)
(* both names stand for the same text, which the lemmas ...Same prove      *)
(* handler by handler.                                                     *)
(***************************************************************************)
EXTENDS Executor, FiniteSetTheorems, TLAPS

\* The history of the calls is not followed here: no lemma cited below is about it.
SP == INSTANCE Semaphore_proofs WITH Tasks <- Runs, calls <- <<>>
CP == INSTANCE ChildProcess_proofs

\* The inductive invariant: those of the parts, and the link between them.
ExecInv == SP!IInv /\ CP!IInv /\ LiveHoldsSlot

------------------------------------------------------------------------------
\* The constants suit both parts.
LEMMA SlotAssumptions == SP!LimitAssumption /\ SP!TasksAssumption
BY ExecutorAssumption DEF ExecutorAssumption, SP!LimitAssumption, SP!TasksAssumption,
   SP!IsFiniteSet, IsFiniteSet

\* ... those of the children.
LEMMA ChildAssumptions == CP!ChildProcessAssumption
BY ExecutorAssumption DEF ExecutorAssumption, CP!ChildProcessAssumption, CP!IsFiniteSet,
   IsFiniteSet, C!NoPid, CP!NoPid

------------------------------------------------------------------------------
(* The parts are the same under both names.                                *)

\* A step of the slots preserves their invariant.
LEMMA SlotStep == ASSUME SP!IInv, [S!Next]_slots PROVE SP!IInv'
<1>1. SP!Next <=> S!Next
  BY DEF SP!Next, SP!Acquire, SP!Start, SP!Release, SP!HandOver,
         S!Next, S!Acquire, S!Start, S!Release, S!HandOver
<1>2. [SP!Next]_SP!semVars
  BY <1>1 DEF slots, SP!semVars
<1>3. SP!IInv /\ [SP!Next]_SP!semVars => SP!IInv'
  BY SlotAssumptions, SP!NextIInv, Zenon
<1> QED
  BY <1>2, <1>3

\* Spawn and its failure.
LEMMA SpawnSame == ASSUME NEW r \in Runs PROVE C!Spawn(r) <=> CP!Spawn(r)
BY DEF C!Spawn, CP!Spawn, C!FreePids, CP!FreePids, C!NextPids, CP!NextPids, C!GroupOf, CP!GroupOf,
   C!InGroup, CP!InGroup, C!Claimed, CP!Claimed, C!Live, CP!Live, C!Starts, CP!Starts,
   C!Armed, CP!Armed, C!UseGroup, CP!UseGroup

\* ... the spawn that fails.
LEMMA SpawnFailsSame == ASSUME NEW r \in Runs PROVE C!SpawnFails(r) <=> CP!SpawnFails(r)
BY Zenon DEF C!SpawnFails, CP!SpawnFails, C!Finish, CP!Finish, C!Classify, CP!Classify,
   C!NoCode, CP!NoCode

\* Output, with the kill on an overflow.
LEMMA DataSame == ASSUME NEW r \in Runs, NEW s \in Streams PROVE C!Data(r, s) <=> CP!Data(r, s)
BY Zenon DEF C!Data, CP!Data, C!Fits, CP!Fits, C!Terminate, CP!Terminate, C!SettleAfterKill,
   CP!SettleAfterKill,
  C!Finish, CP!Finish, C!Classify, CP!Classify, C!Refused, CP!Refused, C!Struck, CP!Struck,
   C!GroupOf, CP!GroupOf,
  C!InGroup, CP!InGroup, C!UseGroup, CP!UseGroup, C!Untrack, CP!Untrack, C!Live, CP!Live,
   C!NoCode, CP!NoCode

\* The timeout.
LEMMA TimeoutSame == ASSUME NEW r \in Runs PROVE C!TimeoutFires(r) <=> CP!TimeoutFires(r)
BY Zenon DEF C!TimeoutFires, CP!TimeoutFires, C!Kill, CP!Kill, C!Doom, CP!Doom, C!Terminate,
   CP!Terminate, C!SettleAfterKill, CP!SettleAfterKill,
  C!Finish, CP!Finish, C!Classify, CP!Classify, C!Refused, CP!Refused, C!Struck, CP!Struck,
   C!GroupOf, CP!GroupOf,
  C!InGroup, CP!InGroup, C!UseGroup, CP!UseGroup, C!Untrack, CP!Untrack, C!Live, CP!Live,
   C!NoCode, CP!NoCode

\* The two events of the end of a child.
LEMMA ExitSame == ASSUME NEW r \in Runs PROVE C!ExitEvent(r) <=> CP!ExitEvent(r)
BY Zenon DEF C!ExitEvent, CP!ExitEvent, C!SettleAfterKill, CP!SettleAfterKill, C!NoCode,
   CP!NoCode

\* ... close.
LEMMA CloseSame == ASSUME NEW r \in Runs PROVE C!CloseEvent(r) <=> CP!CloseEvent(r)
BY Zenon DEF C!CloseEvent, CP!CloseEvent, C!AllClosed, CP!AllClosed, C!Writers, CP!Writers,
   C!Finish, CP!Finish,
  C!Classify, CP!Classify, C!Untrack, CP!Untrack, C!Live, CP!Live

\* The grace period.
LEMMA GraceSame == ASSUME NEW r \in Runs PROVE C!GraceFires(r) <=> CP!GraceFires(r)
BY Zenon DEF C!GraceFires, CP!GraceFires, C!Finish, CP!Finish,
  C!Classify, CP!Classify, C!Untrack, CP!Untrack, C!Live, CP!Live

\* The end of the server.
LEMMA ShutdownSame == C!Shutdown <=> CP!Shutdown
BY Zenon DEF C!Shutdown, CP!Shutdown, C!Doom, CP!Doom, C!GroupOf, CP!GroupOf, C!InGroup,
   CP!InGroup

\* What the processes do by themselves.
LEMMA SystemSame == ASSUME NEW r \in Runs PROVE C!System(r) <=> CP!System(r)
<1>1. C!LeaderExits(r) <=> CP!LeaderExits(r)
  BY Zenon DEF C!LeaderExits, CP!LeaderExits
<1>2. C!Forks(r) <=> CP!Forks(r)
  BY Zenon DEF C!Forks, CP!Forks
<1>3. C!KinExits(r) <=> CP!KinExits(r)
  BY Zenon DEF C!KinExits, CP!KinExits
<1>4. C!OutsiderExits(r) <=> CP!OutsiderExits(r)
  BY Zenon DEF C!OutsiderExits, CP!OutsiderExits
<1>5. C!Writes(r) <=> CP!Writes(r)
  BY Zenon DEF C!Writes, CP!Writes, C!KinDoomed, CP!KinDoomed, C!UseGroup, CP!UseGroup
<1> QED
  BY <1>1, <1>2, <1>3, <1>4, <1>5, Zenon DEF C!System, CP!System

\* Everything that happens to a child once its task began, the spawn excepted.
ChildEvent(r) ==
    \/ CP!System(r) \/ CP!SpawnFails(r) \/ CP!TimeoutFires(r)
    \/ CP!ExitEvent(r) \/ CP!CloseEvent(r) \/ CP!GraceFires(r)
    \/ \E s \in Streams : CP!Data(r, s)

\* Event and Execute of the engine, in these terms.
LEMMA EventSame == ASSUME NEW r \in Runs, Event(r) PROVE ChildEvent(r) /\ UNCHANGED slots
BY TimeoutSame, ExitSame, CloseSame, GraceSame, DataSame, SystemSame, Zenon DEF Event,
   ChildEvent

\* ... Execute: it needs the slot and keeps it.
LEMMA ExecuteSame ==
  ASSUME NEW r \in Runs, Execute(r)
  PROVE  state[r] = "running" /\ UNCHANGED slots /\ (CP!Spawn(r) \/ CP!SpawnFails(r))
BY SpawnSame, SpawnFailsSame, Zenon DEF Execute

------------------------------------------------------------------------------
(* The steps.                                                              *)

\* A step of the children preserves their invariant.
LEMMA ChildStep ==
  ASSUME CP!IInv, \/ CP!Shutdown \/ UNCHANGED children
                 \/ \E r \in Runs : ChildEvent(r) \/ CP!Spawn(r)
  PROVE  CP!IInv'
<1>1. [CP!Next]_CP!vars
  BY Zenon DEF CP!Next, CP!Handler, CP!vars, children, ChildEvent
<1>2. CP!IInv /\ [CP!Next]_CP!vars => CP!IInv'
  BY ChildAssumptions, CP!NextIInv, Zenon
<1> QED
  BY <1>1, <1>2

\* An event makes no call live ...
LEMMA EventsStartNobody ==
  ASSUME CP!IInv, NEW r \in Runs, ChildEvent(r), NEW q \in Runs, job'[q].phase = "live"
  PROVE  job[q].phase = "live"
BY ChildAssumptions, CP!NobodyStarts, Zenon DEF ChildEvent

\* ... and the spawn only its own.
LEMMA SpawnStartsOne ==
  ASSUME CP!IInv, NEW r \in Runs, CP!Spawn(r), NEW q \in Runs, q # r
  PROVE  job'[q] = job[q]
BY Zenon DEF CP!Spawn, CP!IInv, CP!TypeOK

\* Waiting for a slot, or starting the task, takes no slot from a live child ...
LEMMA RequestKeeps == ASSUME ExecInv, NEW r \in Runs, Request(r) PROVE LiveHoldsSlot'
BY DEF ExecInv, LiveHoldsSlot, Request, S!Acquire, children, SP!IInv, SP!TypeOK

\* ... nor does the start of a task.
LEMMA BeginKeeps == ASSUME ExecInv, NEW r \in Runs, Begin(r) PROVE LiveHoldsSlot'
BY DEF ExecInv, LiveHoldsSlot, Begin, S!Start, children, SP!IInv, SP!TypeOK

\* ... nor does returning one, also when it is handed over: the slot returned is
\* that of a call that settled or never had a child, and the one that receives it
\* was waiting.
LEMMA ReturnKeeps ==
  ASSUME ExecInv, NEW r \in Runs, Return(r) \/ SnapshotFails(r)
  PROVE  LiveHoldsSlot'
<1>0. S!Release(r) /\ UNCHANGED children /\ job[r].phase \in {"idle", "settled"}
  BY Zenon DEF Return, SnapshotFails
<1>1. state \in [Runs -> SP!States] /\ waiters \in Seq(Runs) /\ UNCHANGED job
  BY <1>0 DEF ExecInv, SP!IInv, SP!TypeOK, children
<1>2. job[r].phase # "live"
  BY <1>0
<1>3. ASSUME NEW q \in Runs, state[q] = "running", q # r PROVE state'[q] = "running"
  <2>1. CASE waiters = <<>>
    BY <1>0, <1>1, <1>3, <2>1 DEF S!Release, S!HandOver
  <2>2. CASE waiters # <<>>
    <3>1. Head(waiters) \in Runs /\ Head(waiters) = waiters[1] /\ 1 \in 1 .. Len(waiters)
      BY <1>1, <2>2
    <3>2. state[Head(waiters)] = "waiting"
      BY <3>1 DEF ExecInv, SP!IInv, SP!WaitersAreQueued
    <3>3. Head(waiters) # q
      BY <1>3, <3>2
    <3>4. state' = [state EXCEPT ![r] = "idle", ![Head(waiters)] = "granted"]
      BY <1>0, <2>2, Zenon DEF S!Release, S!HandOver
    <3> QED
      BY <1>1, <1>3, <3>3, <3>4
  <2> QED
    BY <2>1, <2>2
<1> QED
  BY <1>1, <1>2, <1>3 DEF ExecInv, LiveHoldsSlot

\* The invariant is inductive.
LEMMA ExecNext == ASSUME ExecInv, [Next]_execVars PROVE ExecInv'
<1>0. SP!IInv /\ CP!IInv /\ LiveHoldsSlot
  BY DEF ExecInv
<1>1. ASSUME NEW r \in Runs, Request(r) \/ Begin(r) \/ Return(r) \/ SnapshotFails(r) PROVE ExecInv'
  <2>1. [S!Next]_slots /\ UNCHANGED children
    BY <1>1, Zenon DEF Request, Begin, Return, SnapshotFails, S!Next
  <2>2. SP!IInv' /\ CP!IInv'
    BY <1>0, <2>1, SlotStep, ChildStep
  <2>3. LiveHoldsSlot'
    BY <1>1, RequestKeeps, BeginKeeps, ReturnKeeps
  <2> QED
    BY <2>2, <2>3 DEF ExecInv
<1>2. ASSUME UNCHANGED slots PROVE SP!IInv' /\ UNCHANGED state
  BY <1>0, <1>2, SlotStep DEF slots
<1>3. CASE Shutdown
  <2>1. UNCHANGED slots /\ CP!Shutdown /\ UNCHANGED job
    BY <1>3, ShutdownSame, Zenon DEF Shutdown, CP!Shutdown
  <2>2. SP!IInv' /\ CP!IInv' /\ UNCHANGED state
    BY <1>0, <1>2, <2>1, ChildStep
  <2>3. LiveHoldsSlot'
    BY <1>0, <2>1, <2>2 DEF LiveHoldsSlot
  <2> QED
    BY <2>2, <2>3 DEF ExecInv
<1>4. ASSUME NEW r \in Runs, ChildEvent(r), UNCHANGED slots PROVE ExecInv'
  <2>1. SP!IInv' /\ CP!IInv' /\ UNCHANGED state
    BY <1>0, <1>2, <1>4, ChildStep
  <2>2. LiveHoldsSlot'
    BY <1>0, <1>4, <2>1, EventsStartNobody DEF LiveHoldsSlot
  <2> QED
    BY <2>1, <2>2 DEF ExecInv
<1>5. ASSUME NEW r \in Runs, Execute(r) PROVE ExecInv'
  <2>1. state[r] = "running" /\ UNCHANGED slots /\ (CP!Spawn(r) \/ CP!SpawnFails(r))
    BY <1>5, ExecuteSame
  <2>2. CASE CP!SpawnFails(r)
    BY <1>4, <2>1, <2>2 DEF ChildEvent
  <2>3. CASE CP!Spawn(r)
    <3>1. SP!IInv' /\ CP!IInv' /\ UNCHANGED state
      BY <1>0, <1>2, <2>1, <2>3, ChildStep
    <3>2. LiveHoldsSlot'
      BY <1>0, <2>1, <2>3, <3>1, SpawnStartsOne DEF LiveHoldsSlot
    <3> QED
      BY <3>1, <3>2 DEF ExecInv
  <2> QED
    BY <2>1, <2>2, <2>3
<1>6. CASE UNCHANGED execVars
  <2>1. UNCHANGED slots /\ UNCHANGED children /\ UNCHANGED job
    BY <1>6 DEF execVars, children
  <2>2. SP!IInv' /\ CP!IInv' /\ UNCHANGED state
    BY <1>0, <1>2, <2>1, ChildStep
  <2>3. LiveHoldsSlot'
    BY <1>0, <2>1, <2>2 DEF LiveHoldsSlot
  <2> QED
    BY <2>2, <2>3 DEF ExecInv
<1> QED
  BY <1>1, <1>3, <1>4, <1>5, <1>6, EventSame DEF Next

\* It holds before the first request.
LEMMA ExecInit == Init => ExecInv
<1> SUFFICES ASSUME Init PROVE ExecInv
  OBVIOUS
<1>1. SP!IInv
  <2>1. SP!Init
    BY DEF Init, S!Init, SP!Init
  <2> QED
    BY <2>1, SlotAssumptions, SP!InitIInv, Zenon
<1>2. CP!IInv
  <2>1. CP!Init
    BY Zenon DEF Init, C!Init, CP!Init, C!NewJob, CP!NewJob, C!NewProcess, CP!NewProcess,
       C!NoCode, CP!NoCode, C!NoPid, CP!NoPid
  <2> QED
    BY <2>1, ChildAssumptions, CP!InitIInv, Zenon
<1>3. LiveHoldsSlot
  BY DEF Init, C!Init, C!NewJob, LiveHoldsSlot
<1> QED
  BY <1>1, <1>2, <1>3 DEF ExecInv

------------------------------------------------------------------------------
\* The invariant of slots, children and their link holds throughout.
THEOREM ExecutorInvariant == Spec => []ExecInv
BY ExecInit, ExecNext, PTL DEF Spec

\* For any limit and any number of requests, no more children are outstanding
\* than there are slots: they are a part of the holders, which the counter counts.
THEOREM ExecutorBounded == Spec => []BoundedChildren
<1>1. ExecInv => BoundedChildren
  <2> SUFFICES ASSUME ExecInv PROVE BoundedChildren
    OBVIOUS
  <2> DEFINE live == { r \in Runs : job[r].phase = "live" }
             held == { r \in Runs : state[r] \in {"granted", "running"} }
  <2>1. live \subseteq held
    BY DEF ExecInv, LiveHoldsSlot
  <2>2. active \in 0 .. Limit /\ active = Cardinality(held)
    BY DEF ExecInv, SP!IInv, SP!TypeOK, SP!SlotAccounting, SP!Holders, SP!Cardinality,
   Cardinality
  <2>3. IsFiniteSet(held)
    BY FS_Subset, ExecutorAssumption DEF ExecutorAssumption
  <2>4. Cardinality(live) <= Cardinality(held)
    BY <2>1, <2>3, FS_Subset
  <2>5. Cardinality(live) \in Nat /\ Limit \in Nat
    BY <2>1, <2>3, FS_Subset, FS_CardinalityType, ExecutorAssumption DEF ExecutorAssumption
  <2> HIDE DEF held
  <2>6. Cardinality(live) <= Limit
    BY <2>2, <2>4, <2>5
  <2> QED
    BY <2>6 DEF BoundedChildren
<1> QED
  BY <1>1, ExecutorInvariant, PTL

\* The tracked groups are those of the runs that have not settled, beside any
\* number of neighbours that start and settle, but for a run that got the id of one
\* that had not settled.
THEOREM ExecutorTracked == Spec => []RunningGroupsTracked
<1>1. ExecInv => RunningGroupsTracked
  <2> SUFFICES ASSUME ExecInv PROVE RunningGroupsTracked
    OBVIOUS
  <2>1. CP!RunningGroupsTracked
    BY ChildAssumptions, CP!Tracked, Zenon DEF ExecInv
  <2> QED
    BY <2>1, Zenon DEF RunningGroupsTracked, C!RunningGroupsTracked, CP!RunningGroupsTracked,
       C!UseGroup, CP!UseGroup, C!Live, CP!Live, C!InGroup, CP!InGroup
<1> QED
  BY <1>1, ExecutorInvariant, PTL

\* Whenever the server ends, no unsettled run is left alive, with that exception.
THEOREM ExecutorSwept == Spec => []ShutdownSweeps
<1>1. ExecInv => ShutdownSweeps
  <2> SUFFICES ASSUME ExecInv PROVE ShutdownSweeps
    OBVIOUS
  <2>1. CP!ShutdownSweeps
    BY ChildAssumptions, CP!Sweeps, Zenon DEF ExecInv
  <2> QED
    BY <2>1, Zenon DEF ShutdownSweeps, C!ShutdownSweeps, CP!ShutdownSweeps,
       C!UseGroup, CP!UseGroup, C!Live, CP!Live, C!InGroup, CP!InGroup
<1> QED
  BY <1>1, ExecutorInvariant, PTL
==============================================================================
