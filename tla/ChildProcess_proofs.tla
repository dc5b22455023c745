------------------------ MODULE ChildProcess_proofs ------------------------
(***************************************************************************)
(* Theorems about ChildProcess, for any number of runs and ids, any        *)
(* buffer, on every platform.                                              *)
(*                                                                         *)
(* First come the facts about each helper, process and handler that the    *)
(* rest needs: how far a closure is and whether it was killed (Kept,       *)
(* Stays, Settled, Terminated), and what a step does to the processes      *)
(* (Becomes, Evolves, Signals).  The invariant is a conjunction of what is *)
(* true of one closure (JobInv), of a closure and its processes (PairInv,  *)
(* DoomInv), of the ids (PidInv) and of the tracked groups (TrackInv).     *)
(***************************************************************************)
EXTENDS ChildProcess, TLAPS

\* classifyFailure answers with one of the verdicts ...
LEMMA ClassifyType ==
  ASSUME NEW t \in BOOLEAN, NEW o \in BOOLEAN, NEW e, NEW c
  PROVE  Classify(t, o, e, c) \in Verdicts
BY DEF Classify, Verdicts

\* ... blames the time or the output only when they ran out, and calls a success
\* only an exit 0 without either.
LEMMA ClassifyKilled ==
  ASSUME NEW t \in BOOLEAN, NEW o \in BOOLEAN, NEW e, NEW c
  PROVE  /\ Classify(t, o, e, c) \in {"timeout", "output_overflow"} => t \/ o
         /\ Classify(t, o, e, c) = "success" => ~t /\ ~o /\ c = "zero" /\ e \notin {"missing", "other"}
BY DEF Classify

\* What no helper but `terminate` itself touches.
Kept(j, k) ==
    /\ k.timedOut = j.timedOut /\ k.overflow = j.overflow
    /\ k.lost = j.lost /\ k.exitCode = j.exitCode /\ k.size = j.size

\* The closure k is j, settled.
Settled(j, k, c, e) ==
    /\ k.phase = "settled" /\ k.timer = "off"
    /\ k.verdict = Classify(j.timedOut, j.overflow, e, c)

\* The closure k is as far as j.
Stays(j, k) == k.phase = j.phase /\ k.timer = j.timer /\ k.verdict = j.verdict

Finished(j, k, c, e) ==
    /\ Kept(j, k) /\ k.killed = j.killed
    /\ IF j.phase = "live" THEN Settled(j, k, c, e) /\ k.grace = "off" ELSE k = j

\* `finish` settles a live call and leaves any other as it is.
LEMMA FinishFacts ==
  ASSUME NEW j \in Job, NEW c, NEW e
  PROVE  Finish(j, c, e) \in Job /\ Finished(j, Finish(j, c, e), c, e)
<1> DEFINE v == Classify(j.timedOut, j.overflow, e, c)
           k == [j EXCEPT !.phase = "settled", !.timer = "off", !.grace = "off", !.verdict = v]
<1>1. CASE j.phase # "live"
  <2>1. Finish(j, c, e) = j
    BY <1>1, Zenon DEF Finish
  <2> QED
    BY <1>1, <2>1, Zenon DEF Finished, Kept
<1>2. CASE j.phase = "live"
  <2>1. v \in Verdicts
    <3>1. j.timedOut \in BOOLEAN /\ j.overflow \in BOOLEAN
      BY Zenon DEF Job
    <3> QED
      BY <3>1, ClassifyType
  <2>2. Finish(j, c, e) = k
    BY <1>2, Zenon DEF Finish
  <2> HIDE DEF v
  <2>3. k \in Job
    BY <2>1, Zenon DEF Job
  <2>4. k.phase = "settled" /\ k.timer = "off" /\ k.grace = "off" /\ k.verdict = v
    BY Zenon DEF Job
  <2>5. k.killed = j.killed /\ Kept(j, k)
    BY Zenon DEF Job, Kept
  <2> HIDE DEF k
  <2>6. Settled(j, k, c, e)
    BY <2>4, Zenon DEF Settled, v
  <2> QED
    BY <1>2, <2>2, <2>3, <2>4, <2>5, <2>6, Zenon DEF Finished
<1> QED
  BY <1>1, <1>2

\* `settleAfterKill` arms the grace period of a call that was killed.
Graced(j, k) ==
    /\ Kept(j, k) /\ Stays(j, k) /\ k.killed = j.killed
    /\ k.grace # j.grace => j.killed

\* It does nothing else.
LEMMA SettleFacts ==
  ASSUME NEW j \in Job
  PROVE  SettleAfterKill(j) \in Job /\ Graced(j, SettleAfterKill(j))
<1> DEFINE k == [j EXCEPT !.grace = "armed"]
<1>1. CASE SettleAfterKill(j) = j
  BY <1>1, Zenon DEF Graced, Kept, Stays
<1>2. CASE SettleAfterKill(j) = k /\ j.killed
  <2>1. k \in Job /\ k.killed = j.killed
    BY Zenon DEF Job
  <2>2. Kept(j, k)
    BY Zenon DEF Job, Kept
  <2>3. Stays(j, k)
    BY Zenon DEF Job, Stays
  <2> HIDE DEF k
  <2> QED
    BY <1>2, <2>1, <2>2, <2>3, Zenon DEF Graced
<1> QED
  BY <1>1, <1>2, Zenon DEF SettleAfterKill

\* `terminate`: a call that was killed before stays as it is; otherwise it is
\* killed, and settled at once when the kill was refused.
Terminated(j, k) ==
    /\ Kept(j, k) /\ k.killed
    /\ Stays(j, k) \/ (j.phase = "live" /\ Settled(j, k, NoCode, "other"))

\* That is all that it does, whatever the signal met.
LEMMA TerminateFacts ==
  ASSUME NEW r, NEW j \in Job
  PROVE  Terminate(r, j) \in Job /\ Terminated(j, Terminate(r, j))
<1>1. CASE j.killed
  <2>1. Terminate(r, j) = j
    BY <1>1, Zenon DEF Terminate
  <2> QED
    BY <1>1, <2>1, Zenon DEF Terminated, Kept, Stays
<1>2. CASE ~j.killed
  <2> DEFINE k == [j EXCEPT !.killed = TRUE]
             f == Finish(k, NoCode, "other")
  <2>1. k \in Job /\ k.killed
    BY Zenon DEF Job
  <2>2. Kept(j, k) /\ Stays(j, k)
    BY Zenon DEF Job, Kept, Stays
  <2>3. Terminate(r, j) = SettleAfterKill(k) \/ Terminate(r, j) = SettleAfterKill(f)
    BY <1>2, Zenon DEF Terminate
  <2> HIDE DEF k
  <2>4. f \in Job /\ Finished(k, f, NoCode, "other")
    BY <2>1, FinishFacts
  <2> HIDE DEF f
  <2>5. f.killed /\ Kept(j, f)
    BY <2>1, <2>2, <2>4, Zenon DEF Finished, Kept
  <2>6. Stays(j, f) \/ (j.phase = "live" /\ Settled(j, f, NoCode, "other"))
    <3>1. CASE k.phase = "live"
      BY <2>2, <2>4, <3>1, Zenon DEF Finished, Settled, Stays, Kept
    <3>2. CASE k.phase # "live"
      BY <2>2, <2>4, <3>2, Zenon DEF Finished
    <3> QED
      BY <3>1, <3>2
  <2>7. ASSUME NEW i \in Job, i.killed, Kept(j, i),
               Stays(j, i) \/ (j.phase = "live" /\ Settled(j, i, NoCode, "other"))
        PROVE  SettleAfterKill(i) \in Job /\ Terminated(j, SettleAfterKill(i))
    <3> DEFINE g == SettleAfterKill(i)
    <3>1. g \in Job /\ Graced(i, g)
      BY SettleFacts
    <3> HIDE DEF g
    <3>2. Kept(j, g) /\ g.killed
      BY <2>7, <3>1, Zenon DEF Graced, Kept
    <3>3. Stays(j, g) \/ (j.phase = "live" /\ Settled(j, g, NoCode, "other"))
      <4>1. CASE Stays(j, i)
        BY <3>1, <4>1, Zenon DEF Graced, Stays
      <4>2. CASE j.phase = "live" /\ Settled(j, i, NoCode, "other")
        BY <3>1, <4>2, Zenon DEF Graced, Stays, Settled
      <4> QED
        BY <2>7, <4>1, <4>2
    <3>4. g \in Job /\ Terminated(j, g)
      BY <3>1, <3>2, <3>3, Zenon DEF Terminated
    <3> QED
      BY <3>4 DEF g
  <2> QED
    BY <2>1, <2>2, <2>3, <2>4, <2>5, <2>6, <2>7
<1> QED
  BY <1>1, <1>2

------------------------------------------------------------------------------
(* The processes.                                                          *)

Grouped(p) == p.leader \in {"alive", "zombie"} \/ p.kin # {}

\* Nobody holds the pipes and they were read to the end.
Closed(p) ==
    /\ p.leader # "alive" /\ "piped" \notin p.kin /\ ~p.outsider
    /\ \A s \in Streams : p.unread[s] = 0

Unborn(p) == p.leader = "none" /\ p.kin = {} /\ ~p.outsider

\* What no step but the spawn does to the processes of a run.
Becomes(p, n) ==
    /\ n.pid = p.pid /\ n.heir = p.heir /\ n.immune = p.immune
    /\ Grouped(n) => Grouped(p)
    /\ Closed(p) => Closed(n) /\ n.code = p.code
    /\ Unborn(p) => Unborn(n)

\* Without a signal.
Evolves(p, n) == Becomes(p, n) /\ n.doomed = p.doomed

\* A function that is changed at one point.
LEMMA Update ==
  ASSUME NEW S, NEW T, NEW f \in [S -> T], NEW r \in S, NEW v \in T, NEW g,
         g = [f EXCEPT ![r] = v]
  PROVE  g \in [S -> T] /\ g[r] = v /\ \A q \in S : q # r => g[q] = f[q]
OBVIOUS

\* Nothing happens.
LEMMA EvolvesSelf == ASSUME NEW p PROVE Evolves(p, p)
BY DEF Evolves, Becomes

\* What commands and descendants do by themselves touches no closure.
LEMMA SystemFacts ==
  ASSUME TypeOK, NEW r \in Runs, System(r)
  PROVE  /\ UNCHANGED <<job, liveGroups, down, platform>>
         /\ os' \in [Runs -> Process]
         /\ \A q \in Runs : Evolves(os[q], os'[q])
<1> DEFINE p == os[r]
<1>1. os \in [Runs -> Process] /\ p \in Process
  BY DEF TypeOK
<1>2. SUFFICES \E n \in Process : os' = [os EXCEPT ![r] = n] /\ Evolves(p, n)
  <2>1. ASSUME NEW n \in Process, os' = [os EXCEPT ![r] = n], Evolves(p, n)
        PROVE  os' \in [Runs -> Process] /\ \A q \in Runs : Evolves(os[q], os'[q])
    <3>1. os' \in [Runs -> Process] /\ os'[r] = n /\ \A q \in Runs : q # r => os'[q] = os[q]
      BY <1>1, <2>1, Update
    <3> QED
      BY <2>1, <3>1, EvolvesSelf
  <2>2. UNCHANGED <<job, liveGroups, down, platform>>
    BY DEF System, LeaderExits, Forks, KinExits, OutsiderExits, Writes
  <2> QED
    BY <1>2, <2>1, <2>2
<1>3. CASE LeaderExits(r)
  <2>1. PICK c \in {"signal", "zero", "nonzero"} :
           os' = [os EXCEPT ![r].leader = "zombie", ![r].code = c]
    BY <1>3, Zenon DEF LeaderExits
  <2> DEFINE n == [p EXCEPT !.leader = "zombie", !.code = c]
  <2>2. os' = [os EXCEPT ![r] = n]
    BY <1>1, <2>1, Zenon
  <2>3. n \in Process
    BY <1>1, Zenon DEF Process, Codes
  <2>4. p.leader = "alive"
    BY <1>3, Zenon DEF LeaderExits
  <2>5. /\ n.leader = "zombie" /\ n.pid = p.pid /\ n.heir = p.heir /\ n.immune = p.immune /\ n.doomed = p.doomed
    BY <1>1, Zenon DEF Process
  <2> HIDE DEF n, p
  <2>6. Evolves(p, n)
    BY <2>4, <2>5, Zenon DEF Evolves, Becomes, Grouped, Closed, Unborn
  <2> QED
    BY <2>2, <2>3, <2>6, Zenon DEF p
<1>4. CASE Forks(r)
  <2>0. p.leader = "alive"
    BY <1>4, Zenon DEF Forks
  <2>1. CASE \E k \in (Descendants \ {"outsider"}) \ p.kin : os' = [os EXCEPT ![r].kin = @ \cup {k}]
    <3>1. PICK k \in {"piped", "silent"} : os' = [os EXCEPT ![r].kin = @ \cup {k}]
      BY <2>1, ChildProcessAssumption, Zenon
    <3> DEFINE n == [p EXCEPT !.kin = @ \cup {k}]
    <3>2. os' = [os EXCEPT ![r] = n]
      BY <1>1, <3>1, Zenon
    <3>3. n \in Process
      <4>1. p.kin \cup {k} \in SUBSET {"piped", "silent"}
        BY <1>1, Zenon DEF Process
      <4> QED
        BY <1>1, <4>1, Zenon DEF Process
    <3>4. n.pid = p.pid /\ n.heir = p.heir /\ n.immune = p.immune /\ n.doomed = p.doomed
      BY <1>1, Zenon DEF Process
    <3> HIDE DEF n, p
    <3>5. Evolves(p, n)
      BY <2>0, <3>4, Zenon DEF Evolves, Becomes, Grouped, Closed, Unborn
    <3> QED
      BY <3>2, <3>3, <3>5, Zenon DEF p
  <2>2. CASE os' = [os EXCEPT ![r].outsider = TRUE]
    <3> DEFINE n == [p EXCEPT !.outsider = TRUE]
    <3>2. os' = [os EXCEPT ![r] = n]
      BY <1>1, <2>2, Zenon
    <3>3. n \in Process
      BY <1>1, Zenon DEF Process
    <3>4. n.pid = p.pid /\ n.heir = p.heir /\ n.immune = p.immune /\ n.doomed = p.doomed
      BY <1>1, Zenon DEF Process
    <3> HIDE DEF n, p
    <3>5. Evolves(p, n)
      BY <2>0, <3>4, Zenon DEF Evolves, Becomes, Grouped, Closed, Unborn
    <3> QED
      BY <3>2, <3>3, <3>5, Zenon DEF p
  <2> QED
    BY <1>4, <2>1, <2>2, Zenon DEF Forks
<1>5. CASE KinExits(r)
  <2>1. PICK k \in p.kin : os' = [os EXCEPT ![r].kin = @ \ {k}]
    BY <1>5, Zenon DEF KinExits
  <2> DEFINE n == [p EXCEPT !.kin = @ \ {k}]
  <2>2. os' = [os EXCEPT ![r] = n]
    BY <1>1, <2>1, Zenon
  <2>3. n \in Process
    <3>1. p.kin \ {k} \in SUBSET {"piped", "silent"}
      BY <1>1, Zenon DEF Process
    <3> QED
      BY <1>1, <3>1, Zenon DEF Process
  <2>4. n.pid = p.pid /\ n.heir = p.heir /\ n.immune = p.immune /\ n.doomed = p.doomed /\ n.code = p.code
    BY <1>1, Zenon DEF Process
  <2>5. n.leader = p.leader /\ n.outsider = p.outsider /\ n.unread = p.unread /\ n.kin = p.kin \ {k}
    BY <1>1, Zenon DEF Process
  <2> HIDE DEF n, p
  <2>6. Evolves(p, n)
    BY <2>1, <2>4, <2>5, Zenon DEF Evolves, Becomes, Grouped, Closed, Unborn
  <2> QED
    BY <2>2, <2>3, <2>6, Zenon DEF p
<1>6. CASE OutsiderExits(r)
  <2> DEFINE n == [p EXCEPT !.outsider = FALSE]
  <2>1. os' = [os EXCEPT ![r] = n]
    BY <1>1, <1>6, Zenon DEF OutsiderExits
  <2>2. n \in Process
    BY <1>1, Zenon DEF Process
  <2>3. n.pid = p.pid /\ n.heir = p.heir /\ n.immune = p.immune /\ n.doomed = p.doomed /\ n.code = p.code
    BY <1>1, Zenon DEF Process
  <2>4. n.leader = p.leader /\ ~n.outsider /\ n.unread = p.unread /\ n.kin = p.kin
    BY <1>1, Zenon DEF Process
  <2> HIDE DEF n, p
  <2>5. Evolves(p, n)
    BY <2>3, <2>4, Zenon DEF Evolves, Becomes, Grouped, Closed, Unborn
  <2> QED
    BY <2>1, <2>2, <2>5, Zenon DEF p
<1>7. CASE Writes(r)
  <2>1. PICK s \in Streams :
           p.unread[s] < PipeCapacity /\ os' = [os EXCEPT ![r].unread[s] = @ + 1]
    BY <1>7, Zenon DEF Writes
  <2> DEFINE u == [p.unread EXCEPT ![s] = @ + 1]
             n == [p EXCEPT !.unread = u]
  <2>2. os' = [os EXCEPT ![r] = n]
    BY <1>1, <2>1, Zenon
  <2>3. n \in Process
    <3>1. p.unread \in [Streams -> 0 .. PipeCapacity]
      BY <1>1, Zenon DEF Process
    <3>2. u \in [Streams -> 0 .. PipeCapacity]
      BY <2>1, <3>1, ChildProcessAssumption
    <3> HIDE DEF u
    <3> QED
      BY <1>1, <3>2, Zenon DEF Process
  <2>4. n.pid = p.pid /\ n.heir = p.heir /\ n.immune = p.immune /\ n.doomed = p.doomed /\ n.code = p.code
    BY <1>1, Zenon DEF Process
  <2>5. n.leader = p.leader /\ n.outsider = p.outsider /\ n.kin = p.kin
    BY <1>1, Zenon DEF Process
  <2>6. ~Closed(p)
    BY <1>7, Zenon DEF Writes, Closed
  <2> HIDE DEF n, p
  <2>7. Evolves(p, n)
    BY <2>4, <2>5, <2>6, Zenon DEF Evolves, Becomes, Grouped, Unborn
  <2> QED
    BY <2>2, <2>3, <2>7, Zenon DEF p
<1> QED
  BY <1>3, <1>4, <1>5, <1>6, <1>7 DEF System

------------------------------------------------------------------------------
(* The handlers.                                                           *)

\* One closure moves on.
OneJob(r) ==
    /\ job' \in [Runs -> Job]
    /\ \A q \in Runs : q # r => job'[q] = job[q]

Quiet == os' \in [Runs -> Process] /\ \A q \in Runs : Evolves(os[q], os'[q])

\* A signal reaches the runs in S.
Signals(S) ==
    /\ os' \in [Runs -> Process]
    /\ \A q \in Runs :
         /\ Becomes(os[q], os'[q])
         /\ os'[q].doomed <=> (os[q].doomed \/ q \in S)

\* The three shapes that the effect of a handler has.
LEMMA JobUpdate ==
  ASSUME TypeOK, NEW r \in Runs, NEW k \in Job, job' = [job EXCEPT ![r] = k]
  PROVE  OneJob(r) /\ job'[r] = k
BY Update DEF TypeOK, OneJob

\* A step that leaves the system alone is quiet.
LEMMA QuietSelf == ASSUME TypeOK, UNCHANGED os PROVE Quiet
BY EvolvesSelf DEF TypeOK, Quiet

\* So is one that lets a single process move on.
LEMMA QuietUpdate ==
  ASSUME TypeOK, NEW r \in Runs, NEW n \in Process, os' = [os EXCEPT ![r] = n],
         Evolves(os[r], n)
  PROVE  Quiet
BY Update, EvolvesSelf DEF TypeOK, Quiet

\* A signal changes nothing but `doomed`.
LEMMA DoomFacts ==
  ASSUME NEW p \in Process
  PROVE  LET n == [p EXCEPT !.doomed = TRUE]
         IN  n \in Process /\ Becomes(p, n) /\ n.doomed
<1> DEFINE n == [p EXCEPT !.doomed = TRUE]
<1>1. n \in Process /\ n.doomed
  BY Zenon DEF Process
<1>2. n.pid = p.pid /\ n.heir = p.heir /\ n.immune = p.immune /\ n.code = p.code
  BY Zenon DEF Process
<1>3. n.leader = p.leader /\ n.kin = p.kin /\ n.outsider = p.outsider /\ n.unread = p.unread
  BY Zenon DEF Process
<1> HIDE DEF n
<1>4. Becomes(p, n)
  BY <1>2, <1>3, Zenon DEF Becomes, Grouped, Closed, Unborn
<1> QED
  BY <1>1, <1>4 DEF n

\* So it is for each process that it reaches.
LEMMA SignalFacts ==
  ASSUME TypeOK, NEW S, Doom(S)
  PROVE  Signals(S)
<1>1. ASSUME NEW q \in Runs
      PROVE  /\ os'[q] \in Process /\ Becomes(os[q], os'[q])
             /\ os'[q].doomed <=> (os[q].doomed \/ q \in S)
  <2>1. os[q] \in Process /\ os[q].doomed \in BOOLEAN
    BY Zenon DEF TypeOK, Process
  <2>2. CASE q \in S
    <3>1. os'[q] = [os[q] EXCEPT !.doomed = TRUE]
      BY <1>1, <2>2, Zenon DEF Doom
    <3> QED
      BY <2>1, <2>2, <3>1, DoomFacts, Zenon
  <2>3. CASE q \notin S
    <3>1. os'[q] = os[q]
      BY <1>1, <2>3, Zenon DEF Doom
    <3> QED
      BY <2>1, <2>3, <3>1, EvolvesSelf, Zenon DEF Evolves
  <2> QED
    BY <2>2, <2>3
<1>2. os' \in [Runs -> Process]
  BY <1>1, Zenon DEF Doom
<1> QED
  BY <1>1, <1>2 DEF Signals

\* A new child in a group of its own, whose id was that of nobody's group.
LEMMA SpawnFacts ==
  ASSUME TypeOK, NEW r \in Runs, Spawn(r)
  PROVE  /\ OneJob(r)
         /\ job[r].phase = "idle" /\ job'[r].phase = "live"
         /\ Kept(job[r], job'[r]) /\ job'[r].killed = job[r].killed
         /\ job'[r].verdict = job[r].verdict /\ job'[r].grace = job[r].grace
         /\ os' \in [Runs -> Process]
         /\ \A q \in Runs : q # r => os'[q] = os[q]
         /\ os'[r].doomed = os[r].doomed
         /\ os'[r].pid \in Pids /\ GroupOf(os'[r].pid) = {}
         /\ os'[r].heir = Claimed(os'[r].pid)
         /\ liveGroups' = IF UseGroup THEN liveGroups \cup {os'[r].pid} ELSE liveGroups
         /\ ~down /\ UNCHANGED <<down, platform>>
<1> DEFINE j == job[r]
           k == [j EXCEPT !.phase = "live", !.timer = Armed]
           o == os[r]
<1>1. j \in Job /\ o \in Process /\ os \in [Runs -> Process]
  BY DEF TypeOK
<1>2. job' = [job EXCEPT ![r] = k]
  BY Zenon DEF Spawn
<1>3. Armed \in {"armed", "off"}
  BY DEF Armed
<1>4. k \in Job /\ k.phase = "live"
  BY <1>1, <1>3, Zenon DEF Job
<1>5. Kept(j, k) /\ k.killed = j.killed /\ k.verdict = j.verdict /\ k.grace = j.grace
  BY <1>1, Zenon DEF Job, Kept
<1> HIDE DEF k
<1>6. OneJob(r) /\ job'[r] = k
  BY <1>2, <1>4, JobUpdate
<1>7. PICK p \in NextPids :
        Starts(r, p) /\ liveGroups' = IF UseGroup THEN liveGroups \cup {p} ELSE liveGroups
  BY Zenon DEF Spawn
<1>8. p \in Pids /\ GroupOf(p) = {}
  BY Zenon DEF NextPids, FreePids
<1> DEFINE h == Claimed(p)
<1>9. h \in BOOLEAN
  BY Zenon DEF Claimed
<1>10. PICK i \in BOOLEAN :
         os' = [os EXCEPT ![r].pid = p, ![r].heir = h, ![r].leader = "alive", ![r].immune = i]
  BY <1>7, ChildProcessAssumption, Zenon DEF Starts
<1> HIDE DEF h
<1> DEFINE n == [o EXCEPT !.pid = p, !.heir = h, !.leader = "alive", !.immune = i]
<1>11. os' = [os EXCEPT ![r] = n]
  BY <1>1, <1>10, Zenon
<1>12. n \in Process /\ n.pid = p /\ n.heir = h /\ n.doomed = o.doomed
  BY <1>1, <1>8, <1>9, Zenon DEF Process
<1> HIDE DEF n, o
<1>13. os' \in [Runs -> Process] /\ os'[r] = n /\ \A q \in Runs : q # r => os'[q] = os[q]
  BY <1>1, <1>11, <1>12, Update
<1>14. job[r].phase = "idle" /\ ~down /\ UNCHANGED <<down, platform>>
  BY Zenon DEF Spawn
<1> QED
  BY <1>4, <1>5, <1>6, <1>7, <1>8, <1>12, <1>13, <1>14, Zenon DEF h, o

\* No child: the call settles at once.
LEMMA SpawnFailsFacts ==
  ASSUME TypeOK, NEW r \in Runs, SpawnFails(r)
  PROVE  /\ OneJob(r) /\ Quiet
         /\ job[r].phase = "idle" /\ Kept(job[r], job'[r]) /\ job'[r].killed = job[r].killed
         /\ job'[r].phase = "settled" /\ job'[r].timer = "off" /\ job'[r].grace = "off"
         /\ \E e \in {"missing", "other"} :
              job'[r].verdict = Classify(job[r].timedOut, job[r].overflow, e, NoCode)
         /\ ~down /\ UNCHANGED <<liveGroups, down, platform>>
<1> DEFINE j == job[r]
           l == [j EXCEPT !.phase = "live"]
<1>1. j \in Job
  BY DEF TypeOK
<1>2. PICK e \in {"missing", "other"} : job' = [job EXCEPT ![r] = Finish(l, NoCode, e)]
  BY Zenon DEF SpawnFails
<1> DEFINE k == Finish(l, NoCode, e)
<1>3. l \in Job /\ l.phase = "live"
  BY <1>1, Zenon DEF Job
<1>4. Kept(j, l) /\ l.killed = j.killed
  BY <1>1, Zenon DEF Job, Kept
<1> HIDE DEF l
<1>5. k \in Job /\ Finished(l, k, NoCode, e)
  BY <1>3, FinishFacts
<1> HIDE DEF k
<1>6. OneJob(r) /\ job'[r] = k
  BY <1>2, <1>5, JobUpdate DEF k
<1>7. /\ k.phase = "settled" /\ k.timer = "off" /\ k.grace = "off" /\ k.killed = j.killed
      /\ k.verdict = Classify(j.timedOut, j.overflow, e, NoCode)
  BY <1>3, <1>4, <1>5, Zenon DEF Finished, Settled, Kept
<1>8. Kept(j, k)
  BY <1>4, <1>5, Zenon DEF Finished, Kept
<1>9. Quiet
  BY QuietSelf DEF SpawnFails
<1>10. job[r].phase = "idle" /\ ~down /\ UNCHANGED <<liveGroups, down, platform>>
  BY Zenon DEF SpawnFails
<1> QED
  BY <1>6, <1>7, <1>8, <1>9, <1>10, Zenon

\* The timer of a call ends it.
LEMMA TimeoutFacts ==
  ASSUME TypeOK, NEW r \in Runs, TimeoutFires(r)
  PROVE  /\ OneJob(r) /\ job[r].timer = "armed"
         /\ \E j \in Job :
              /\ j.timedOut /\ j.timer = "off" /\ Terminated(j, job'[r])
              /\ j.overflow = job[r].overflow /\ j.lost = job[r].lost
              /\ j.phase = job[r].phase /\ j.verdict = job[r].verdict
         /\ IF job[r].killed THEN Quiet ELSE Signals(Struck(r))
         /\ Untrack(r)
         /\ ~down /\ UNCHANGED <<down, platform>>
<1> DEFINE j == [job[r] EXCEPT !.timedOut = TRUE, !.timer = "off"]
           k == Terminate(r, j)
<1>1. job[r] \in Job
  BY DEF TypeOK
<1>2. job' = [job EXCEPT ![r] = k]
  BY Zenon DEF TimeoutFires
<1>3. j \in Job /\ j.timedOut /\ j.timer = "off"
  BY <1>1, Zenon DEF Job
<1>4. /\ j.overflow = job[r].overflow /\ j.lost = job[r].lost
      /\ j.phase = job[r].phase /\ j.verdict = job[r].verdict
  BY <1>1, Zenon DEF Job
<1> HIDE DEF j
<1>5. k \in Job /\ Terminated(j, k)
  BY <1>3, TerminateFacts
<1> HIDE DEF k
<1>6. OneJob(r) /\ job'[r] = k
  BY <1>2, <1>5, JobUpdate
<1>7. IF job[r].killed THEN Quiet ELSE Signals(Struck(r))
  <2>1. Kill(r)
    BY Zenon DEF TimeoutFires
  <2> QED
    BY <2>1, QuietSelf, SignalFacts DEF Kill
<1>8. /\ job[r].timer = "armed" /\ Untrack(r) /\ ~down /\ UNCHANGED <<down, platform>>
  BY Zenon DEF TimeoutFires
<1> QED
  BY <1>3, <1>4, <1>5, <1>6, <1>7, <1>8, Zenon

\* Whether the drained process was signalled or not.
LEMMA DrainFacts ==
  ASSUME NEW p \in Process, NEW s \in Streams
  PROVE  LET n == [p EXCEPT !.unread[s] = 0]
         IN  n \in Process /\ Evolves(p, n)
<1> DEFINE u == [p.unread EXCEPT ![s] = 0]
           n == [p EXCEPT !.unread = u]
<1>1. u \in [Streams -> 0 .. PipeCapacity] /\ \A t \in Streams : p.unread[t] = 0 => u[t] = 0
  <2>1. p.unread \in [Streams -> 0 .. PipeCapacity]
    BY Zenon DEF Process
  <2> QED
    BY <2>1, ChildProcessAssumption
<1> HIDE DEF u
<1>2. n \in Process
  BY <1>1, Zenon DEF Process
<1>3. n.pid = p.pid /\ n.heir = p.heir /\ n.immune = p.immune /\ n.code = p.code /\ n.doomed = p.doomed
  BY Zenon DEF Process
<1>4. n.leader = p.leader /\ n.kin = p.kin /\ n.outsider = p.outsider /\ n.unread = u
  BY Zenon DEF Process
<1> HIDE DEF n
<1>5. Evolves(p, n)
  BY <1>1, <1>3, <1>4, Zenon DEF Evolves, Becomes, Grouped, Closed, Unborn
<1> QED
  BY <1>2, <1>5, Zenon DEF n, u

\* A chunk arrives: after the overflow it is dropped, or it fits ...
LEMMA ChunkFacts ==
  ASSUME TypeOK, NEW r \in Runs, NEW s \in Streams, Data(r, s),
         job[r].overflow \/ Fits(r, s)
  PROVE  /\ OneJob(r) /\ Quiet /\ ~Closed(os[r])
         /\ Stays(job[r], job'[r])
         /\ job'[r].timedOut = job[r].timedOut /\ job'[r].overflow = job[r].overflow
         /\ job'[r].killed = job[r].killed /\ job'[r].grace = job[r].grace
         /\ job'[r].lost = job[r].lost \/ job[r].overflow
         /\ ~down /\ UNCHANGED <<liveGroups, down, platform>>
<1> DEFINE j == job[r]
           n == [os[r] EXCEPT !.unread[s] = 0]
<1>1. j \in Job /\ os[r] \in Process /\ os \in [Runs -> Process]
  BY DEF TypeOK
<1>2. os[r].unread \in [Streams -> 0 .. PipeCapacity] /\ os[r].unread[s] > 0
  BY <1>1, Zenon DEF Process, Data
<1>3. ~Closed(os[r])
  <2>1. os[r].unread[s] # 0
    BY <1>2, ChildProcessAssumption
  <2> QED
    BY <2>1, Zenon DEF Closed
<1>4. os' = [os EXCEPT ![r].unread[s] = 0] /\ UNCHANGED <<liveGroups, down, platform>> /\ ~down
  BY Zenon DEF Data
<1>5. Quiet
  <2>1. os' = [os EXCEPT ![r] = n]
    BY <1>4, Zenon
  <2>2. n \in Process /\ Evolves(os[r], n)
    BY <1>1, DrainFacts, Zenon
  <2> HIDE DEF n
  <2> QED
    BY <2>1, <2>2, QuietUpdate
<1>6. CASE j.overflow
  <2> DEFINE k == [j EXCEPT !.lost = TRUE]
  <2>1. job' = [job EXCEPT ![r] = k]
    BY <1>6, Zenon DEF Data
  <2>2. k \in Job /\ k.timedOut = j.timedOut /\ k.overflow = j.overflow
    BY <1>1, Zenon DEF Job
  <2>3. Stays(j, k) /\ k.killed = j.killed /\ k.grace = j.grace
    BY <1>1, Zenon DEF Job, Stays
  <2> HIDE DEF k
  <2>4. OneJob(r) /\ job'[r] = k
    BY <2>1, <2>2, JobUpdate
  <2> QED
    BY <1>3, <1>4, <1>5, <1>6, <2>2, <2>3, <2>4, Zenon
<1>7. CASE ~j.overflow
  <2> DEFINE z == [j.size EXCEPT ![s] = @ + os[r].unread[s]]
             k == [j EXCEPT !.size = z]
  <2>1. job' = [job EXCEPT ![r] = k]
    <3>1. job' = [job EXCEPT ![r].size[s] = @ + os[r].unread[s]]
      BY <1>7, Zenon DEF Data
    <3> QED
      BY <3>1, Zenon
  <2>2. z \in [Streams -> 0 .. MaxBuffer]
    <3>1. j.size \in [Streams -> 0 .. MaxBuffer]
      BY <1>1, Zenon DEF Job
    <3>2. j.size[s] + os[r].unread[s] <= MaxBuffer
      BY <1>7 DEF Fits
    <3> QED
      BY <1>2, <3>1, <3>2, ChildProcessAssumption
  <2> HIDE DEF z
  <2>3. k \in Job /\ k.timedOut = j.timedOut /\ k.overflow = j.overflow /\ k.lost = j.lost
    BY <1>1, <2>2, Zenon DEF Job
  <2>4. Stays(j, k) /\ k.killed = j.killed /\ k.grace = j.grace
    BY <1>1, Zenon DEF Job, Stays
  <2> HIDE DEF k
  <2>5. OneJob(r) /\ job'[r] = k
    BY <2>1, <2>3, JobUpdate
  <2> QED
    BY <1>3, <1>4, <1>5, <2>3, <2>4, <2>5, Zenon
<1> QED
  BY <1>6, <1>7

\* ... or it does not, and ends the call.
LEMMA OverflowFacts ==
  ASSUME TypeOK, NEW r \in Runs, NEW s \in Streams, Data(r, s),
         ~job[r].overflow, ~Fits(r, s)
  PROVE  /\ OneJob(r) /\ ~Closed(os[r])
         /\ \E j \in Job :
              /\ j.overflow /\ Terminated(j, job'[r])
              /\ j.timedOut = job[r].timedOut /\ j.killed = job[r].killed
              /\ Stays(job[r], j)
         /\ IF job[r].killed THEN Quiet ELSE Signals(Struck(r))
         /\ Untrack(r)
         /\ ~down /\ UNCHANGED <<down, platform>>
<1> DEFINE z == [job[r].size EXCEPT ![s] = MaxBuffer]
           j == [job[r] EXCEPT !.size = z, !.overflow = TRUE, !.lost = TRUE]
           k == Terminate(r, j)
           S == IF job[r].killed THEN {} ELSE Struck(r)
<1>1. job[r] \in Job /\ os[r] \in Process
  BY DEF TypeOK
<1>2. os[r].unread \in [Streams -> 0 .. PipeCapacity] /\ os[r].unread[s] > 0
  BY <1>1, Zenon DEF Process, Data
<1>3. ~Closed(os[r])
  <2>1. os[r].unread[s] # 0
    BY <1>2, ChildProcessAssumption
  <2> QED
    BY <2>1, Zenon DEF Closed
<1>4. job' = [job EXCEPT ![r] = k]
  <2>1. job' = [job EXCEPT ![r] = Terminate(r, [@ EXCEPT !.size[s] = MaxBuffer,
                                                   !.overflow = TRUE, !.lost = TRUE])]
    BY Zenon DEF Data
  <2> QED
    BY <2>1, Zenon
<1>5. z \in [Streams -> 0 .. MaxBuffer]
  <2>1. job[r].size \in [Streams -> 0 .. MaxBuffer]
    BY <1>1, Zenon DEF Job
  <2> QED
    BY <2>1, ChildProcessAssumption
<1> HIDE DEF z
<1>6. j \in Job /\ j.overflow /\ j.timedOut = job[r].timedOut /\ j.killed = job[r].killed
  BY <1>1, <1>5, Zenon DEF Job
<1>7. Stays(job[r], j)
  BY <1>1, Zenon DEF Job, Stays
<1> HIDE DEF j
<1>8. k \in Job /\ Terminated(j, k)
  BY <1>6, TerminateFacts
<1> HIDE DEF k
<1>9. OneJob(r) /\ job'[r] = k
  BY <1>4, <1>8, JobUpdate
<1>10. Signals(S)
  <2> DEFINE o(q) == IF q = r THEN [os[r] EXCEPT !.unread[s] = 0] ELSE os[q]
  <2>1. os' = [q \in Runs |-> IF q \in S THEN [o(q) EXCEPT !.doomed = TRUE] ELSE o(q)]
    <3>1. os' = [q \in Runs |->
                   LET d == IF q = r THEN [os EXCEPT ![r].unread[s] = 0][q] ELSE os[q]
                   IN  IF ~job[r].killed /\ q \in Struck(r) THEN [d EXCEPT !.doomed = TRUE] ELSE d]
      BY Zenon DEF Data
    <3>2. \A q \in Runs : (~job[r].killed /\ q \in Struck(r)) <=> q \in S
      BY Zenon
    <3>3. [os EXCEPT ![r].unread[s] = 0][r] = [os[r] EXCEPT !.unread[s] = 0]
      BY Zenon DEF TypeOK
    <3> HIDE DEF S
    <3> QED
      BY <3>1, <3>2, <3>3, Zenon
  <2>2. ASSUME NEW q \in Runs PROVE o(q) \in Process /\ Evolves(os[q], o(q))
    <3>1. CASE q = r
      BY <1>1, <3>1, DrainFacts, Zenon
    <3>2. CASE q # r
      BY <3>2, EvolvesSelf, Zenon DEF TypeOK
    <3> QED
      BY <3>1, <3>2
  <2> HIDE DEF S, o
  <2>3. ASSUME NEW q \in Runs
        PROVE  /\ os'[q] \in Process /\ Becomes(os[q], os'[q])
               /\ os'[q].doomed <=> (os[q].doomed \/ q \in S)
    <3>1. CASE q \in S
      <4> DEFINE d == [o(q) EXCEPT !.doomed = TRUE]
      <4>1. os'[q] = d
        BY <2>1, <2>3, <3>1, Zenon
      <4>2. d \in Process /\ Becomes(o(q), d) /\ d.doomed
        BY <2>2, DoomFacts, Zenon
      <4> HIDE DEF d
      <4>3. Becomes(os[q], d)
        BY <2>2, <4>2, Zenon DEF Evolves, Becomes
      <4> QED
        BY <3>1, <4>1, <4>2, <4>3, Zenon
    <3>2. CASE q \notin S
      <4>1. os'[q] = o(q)
        BY <2>1, <2>3, <3>2, Zenon
      <4>2. os[q].doomed \in BOOLEAN
        BY Zenon DEF TypeOK, Process
      <4> QED
        BY <2>2, <3>2, <4>1, <4>2, Zenon DEF Evolves
    <3> QED
      BY <3>1, <3>2
  <2>4. os' \in [Runs -> Process]
    BY <2>1, <2>3, Zenon
  <2> QED
    BY <2>3, <2>4 DEF Signals
<1>11. IF job[r].killed THEN Quiet ELSE Signals(Struck(r))
  <2>1. CASE job[r].killed
    <3>1. ASSUME NEW q \in Runs PROVE Evolves(os[q], os'[q])
      <4>1. os[q].doomed \in BOOLEAN /\ os'[q].doomed \in BOOLEAN
        BY <1>10, Zenon DEF TypeOK, Process, Signals
      <4>2. os'[q].doomed = os[q].doomed
        BY <1>10, <2>1, <4>1, Zenon DEF Signals
      <4> QED
        BY <1>10, <4>2, Zenon DEF Signals, Evolves
    <3> QED
      BY <1>10, <2>1, <3>1, Zenon DEF Signals, Quiet
  <2>2. CASE ~job[r].killed
    BY <1>10, <2>2, Zenon
  <2> QED
    BY <2>1, <2>2
<1>12. Untrack(r) /\ ~down /\ UNCHANGED <<down, platform>>
  BY Zenon DEF Data
<1> QED
  BY <1>3, <1>6, <1>7, <1>8, <1>9, <1>11, <1>12, Zenon

\* The child is reaped.
LEMMA ExitFacts ==
  ASSUME TypeOK, NEW r \in Runs, ExitEvent(r)
  PROVE  /\ OneJob(r) /\ Quiet
         /\ Stays(job[r], job'[r]) /\ job'[r].killed = job[r].killed
         /\ job'[r].timedOut = job[r].timedOut /\ job'[r].overflow = job[r].overflow
         /\ job'[r].lost = job[r].lost
         /\ job'[r].grace # job[r].grace => job[r].killed
         /\ ~down /\ UNCHANGED <<liveGroups, down, platform>>
<1> DEFINE j == [job[r] EXCEPT !.exitCode = os[r].code]
           k == SettleAfterKill(j)
           n == [os[r] EXCEPT !.leader = "reaped"]
<1>1. job[r] \in Job /\ os[r] \in Process /\ os \in [Runs -> Process]
  BY DEF TypeOK
<1>2. job' = [job EXCEPT ![r] = k] /\ os' = [os EXCEPT ![r] = n]
  BY <1>1, Zenon DEF ExitEvent
<1>3. j \in Job
  <2>1. os[r].code \in Codes \cup {NoCode}
    BY <1>1, Zenon DEF Process
  <2> QED
    BY <1>1, <2>1, Zenon DEF Job
<1>4. /\ Stays(job[r], j) /\ j.killed = job[r].killed /\ j.grace = job[r].grace
  BY <1>1, Zenon DEF Job, Stays
<1>5. /\ j.timedOut = job[r].timedOut /\ j.overflow = job[r].overflow /\ j.lost = job[r].lost
  BY <1>1, Zenon DEF Job
<1> HIDE DEF j
<1>6. k \in Job /\ Graced(j, k)
  BY <1>3, SettleFacts
<1> HIDE DEF k
<1>7. OneJob(r) /\ job'[r] = k
  BY <1>2, <1>6, JobUpdate
<1>8. n \in Process /\ n.leader = "reaped"
  BY <1>1, Zenon DEF Process
<1>9. n.pid = os[r].pid /\ n.heir = os[r].heir /\ n.immune = os[r].immune
      /\ n.code = os[r].code /\ n.doomed = os[r].doomed
  BY <1>1, Zenon DEF Process
<1>10. n.kin = os[r].kin /\ n.outsider = os[r].outsider /\ n.unread = os[r].unread
  BY <1>1, Zenon DEF Process
<1>11. os[r].leader = "zombie"
  BY Zenon DEF ExitEvent
<1> HIDE DEF n
<1>12. Evolves(os[r], n)
  BY <1>8, <1>9, <1>10, <1>11, Zenon DEF Evolves, Becomes, Grouped, Closed, Unborn
<1>13. Quiet
  BY <1>2, <1>8, <1>12, QuietUpdate
<1>14. ~down /\ UNCHANGED <<liveGroups, down, platform>>
  BY Zenon DEF ExitEvent
<1>15. Stays(job[r], k)
  BY <1>4, <1>6, Zenon DEF Graced, Stays
<1>16. /\ k.killed = job[r].killed /\ k.timedOut = job[r].timedOut /\ k.overflow = job[r].overflow
       /\ k.lost = job[r].lost /\ (k.grace # job[r].grace => job[r].killed)
  BY <1>4, <1>5, <1>6, Zenon DEF Graced, Kept
<1> QED
  BY <1>7, <1>13, <1>14, <1>15, <1>16, Zenon

\* The pipes have ended: the call settles.
LEMMA CloseFacts ==
  ASSUME TypeOK, NEW r \in Runs, CloseEvent(r)
  PROVE  /\ OneJob(r) /\ Quiet
         /\ job[r].phase = "live" /\ job'[r].killed = job[r].killed /\ Kept(job[r], job'[r])
         /\ Settled(job[r], job'[r], os[r].code, "none") /\ job'[r].grace = "off"
         /\ Closed(os[r]) /\ Untrack(r)
         /\ ~down /\ UNCHANGED <<down, platform>>
<1> DEFINE k == Finish(job[r], os[r].code, "none")
<1>1. job[r] \in Job
  BY DEF TypeOK
<1>2. job' = [job EXCEPT ![r] = k]
  BY Zenon DEF CloseEvent
<1>3. k \in Job /\ Finished(job[r], k, os[r].code, "none")
  BY <1>1, FinishFacts
<1> HIDE DEF k
<1>4. OneJob(r) /\ job'[r] = k
  BY <1>2, <1>3, JobUpdate
<1>5. job[r].phase = "live" /\ AllClosed(r) /\ Untrack(r) /\ ~down /\ UNCHANGED <<down, platform, os>>
  BY Zenon DEF CloseEvent, Live
<1>6. Closed(os[r])
  BY <1>5, Zenon DEF AllClosed, Writers, Closed
<1>7. Quiet
  BY <1>5, QuietSelf
<1> QED
  BY <1>3, <1>4, <1>5, <1>6, <1>7, Zenon DEF Finished

\* The grace period is over.
LEMMA GraceFacts ==
  ASSUME TypeOK, NEW r \in Runs, GraceFires(r)
  PROVE  /\ OneJob(r) /\ Quiet
         /\ job[r].grace = "armed" /\ job'[r].killed = job[r].killed
         /\ job'[r].timedOut = job[r].timedOut /\ job'[r].overflow = job[r].overflow
         /\ IF job[r].phase = "live"
            THEN Settled(job[r], job'[r], job[r].exitCode, "none")
            ELSE Stays(job[r], job'[r])
         /\ Untrack(r)
         /\ ~down /\ UNCHANGED <<down, platform>>
<1> DEFINE j == job[r]
           f == Finish(j, j.exitCode, "none")
           k == [f EXCEPT !.grace = "fired", !.lost = TRUE]
<1>1. j \in Job
  BY DEF TypeOK
<1>2. job' = [job EXCEPT ![r] = k]
  BY Zenon DEF GraceFires
<1>3. f \in Job /\ Finished(j, f, j.exitCode, "none")
  BY <1>1, FinishFacts
<1> HIDE DEF f
<1>4. k \in Job /\ k.killed = f.killed /\ k.timedOut = f.timedOut /\ k.overflow = f.overflow
  BY <1>3, Zenon DEF Job
<1>5. Stays(f, k)
  BY <1>3, Zenon DEF Job, Stays
<1> HIDE DEF k
<1>6. OneJob(r) /\ job'[r] = k
  BY <1>2, <1>4, JobUpdate
<1>7. k.killed = j.killed /\ k.timedOut = j.timedOut /\ k.overflow = j.overflow
  BY <1>3, <1>4, Zenon DEF Finished, Kept
<1>8. CASE j.phase = "live"
  <2>1. Settled(j, k, j.exitCode, "none")
    BY <1>3, <1>5, <1>8, Zenon DEF Finished, Settled, Stays
  <2> QED
    BY <1>6, <1>7, <1>8, <2>1, QuietSelf, Zenon DEF GraceFires
<1>9. CASE j.phase # "live"
  <2>1. Stays(j, k)
    BY <1>3, <1>5, <1>9, Zenon DEF Finished, Stays
  <2> QED
    BY <1>6, <1>7, <1>9, <2>1, QuietSelf, Zenon DEF GraceFires
<1> QED
  BY <1>8, <1>9

\* The hooks: whom the signals of the end of the server reach.
Swept == { q \in UNION { GroupOf(p) : p \in liveGroups } : ~os[q].immune }

\* The sweep of the shutdown hooks is a signal to every tracked group.
LEMMA ShutdownFacts ==
  ASSUME TypeOK, Shutdown
  PROVE  Signals(Swept) /\ ~down /\ down' /\ UNCHANGED <<job, liveGroups, platform>>
<1>1. Doom(Swept)
  BY Zenon DEF Shutdown, Swept
<1>2. down' /\ ~down /\ UNCHANGED <<job, liveGroups, platform>>
  BY Zenon DEF Shutdown
<1> QED
  BY <1>1, <1>2, SignalFacts

------------------------------------------------------------------------------
(* The invariant.                                                          *)

\* A closure by itself: it was killed when its time or its buffer ran out, and
\* only then; output is dropped, and the grace period runs, only after that.
JobInv(j) ==
    /\ j.killed <=> j.timedOut \/ j.overflow
    /\ j.lost => j.overflow \/ j.phase = "settled"
    /\ j.grace # "off" => j.killed
    /\ j.timer = "armed" => j.phase = "live"
    /\ j.phase = "idle" => ~j.killed
    /\ j.phase # "settled" => j.verdict = "none"
    /\ j.verdict \in {"timeout", "output_overflow"} => j.killed
    /\ j.verdict = "success" => ~j.killed /\ ~j.lost

\* A closure and its processes.
PairInv(r) ==
    /\ job[r].phase = "idle" => os[r].pid = NoPid
    /\ job[r].phase = "live" => os[r].pid # NoPid
    /\ os[r].pid = NoPid => Unborn(os[r]) /\ Closed(os[r])
    /\ job[r].phase = "settled" /\ ~job[r].killed => Closed(os[r])
    /\ job[r].verdict = "success" => os[r].code = "zero"

\* Who was to be killed was signalled.
DoomInv(r) ==
    UseGroup /\ ~os[r].immune /\ Grouped(os[r]) =>
        /\ job[r].killed => os[r].doomed
        /\ down /\ job[r].phase = "live" /\ ~os[r].heir => os[r].doomed

\* Two runs may share an id, but not a group: who has somebody in it was given the
\* id when the other had nobody left, and knows whether the other had settled.
PidInv ==
    \A q, r \in Runs :
        q # r /\ os[q].pid = os[r].pid /\ os[r].pid # NoPid /\ Grouped(os[r]) =>
            ~Grouped(os[q]) /\ (Live(q) /\ Live(r) => os[r].heir)

\* The tracked groups are those of live runs, and of all live runs but those whose
\* id was given to them too early.
TrackInv ==
    /\ liveGroups \subseteq { os[r].pid : r \in { q \in Runs : Live(q) } }
    /\ UseGroup => \A r \in Runs :
         Live(r) /\ Grouped(os[r]) /\ ~os[r].heir => os[r].pid \in liveGroups

\* The inductive invariant.
IInv ==
    /\ TypeOK /\ PidInv /\ TrackInv
    /\ \A r \in Runs : JobInv(job[r]) /\ PairInv(r) /\ DoomInv(r)

------------------------------------------------------------------------------
(* What steps that start no child keep.                                    *)

\* Ids, and signals once sent, stay.
Gentle ==
    /\ os' \in [Runs -> Process]
    /\ \A q \in Runs : Becomes(os[q], os'[q]) /\ (os[q].doomed => os'[q].doomed)

\* Steps of the system and signals are gentle: no id changes, no signal is undone.
LEMMA QuietIsGentle == Quiet => Gentle
BY Zenon DEF Quiet, Gentle, Evolves

\* Signals are, too.
LEMMA SignalsAreGentle == ASSUME NEW S, Signals(S) PROVE Gentle
BY Zenon DEF Signals, Gentle

\* A group keeps its owner, when nobody starts.
LEMMA PidKept ==
  ASSUME PidInv, Gentle, \A q \in Runs : Live(q)' => Live(q)
  PROVE  PidInv'
<1> SUFFICES ASSUME NEW q \in Runs, NEW r \in Runs, q # r, os'[q].pid = os'[r].pid,
                    os'[r].pid # NoPid, Grouped(os'[r])
             PROVE  ~Grouped(os'[q]) /\ (Live(q)' /\ Live(r)' => os'[r].heir)
  BY Zenon DEF PidInv
<1>1. Becomes(os[q], os'[q]) /\ Becomes(os[r], os'[r])
  BY Zenon DEF Gentle
<1>2. os[q].pid = os[r].pid /\ os[r].pid # NoPid /\ Grouped(os[r])
  BY <1>1, Zenon DEF Becomes
<1>3. ~Grouped(os[q]) /\ (Live(q) /\ Live(r) => os[r].heir)
  BY <1>2, Zenon DEF PidInv
<1> QED
  BY <1>1, <1>3, Zenon DEF Becomes

\* A run whose closure did not move.
LEMMA OthersKept ==
  ASSUME Gentle, UNCHANGED platform, NEW q \in Runs, job'[q] = job[q],
         JobInv(job[q]), PairInv(q), DoomInv(q),
         down' => down \/ (job[q].phase = "live" /\ UseGroup /\ ~os[q].immune /\ ~os[q].heir
                            /\ Grouped(os[q]) => os'[q].doomed)
  PROVE  JobInv(job[q])' /\ PairInv(q)' /\ DoomInv(q)'
<1>1. Becomes(os[q], os'[q]) /\ (os[q].doomed => os'[q].doomed)
  BY Zenon DEF Gentle
<1>2. JobInv(job[q])'
  BY Zenon DEF JobInv
<1>3. PairInv(q)'
  <2>1. job[q].verdict = "success" => Closed(os[q])
    BY Zenon DEF JobInv, PairInv
  <2> QED
    BY <1>1, <2>1, Zenon DEF PairInv, Becomes
<1>4. DoomInv(q)'
  BY <1>1, Zenon DEF DoomInv, Becomes, UseGroup
<1> QED
  BY <1>2, <1>3, <1>4

\* A run whose closure moved on, short of a spawn.
LEMMA PairKept ==
  ASSUME Gentle, NEW r \in Runs, PairInv(r),
         job'[r].phase \in {"idle", "live"} => job'[r].phase = job[r].phase,
         job'[r].phase = "settled" /\ ~job'[r].killed => Closed(os'[r]),
         job'[r].verdict = "success" => os'[r].code = "zero"
  PROVE  PairInv(r)'
<1>1. Becomes(os[r], os'[r])
  BY Zenon DEF Gentle
<1> QED
  BY <1>1, Zenon DEF PairInv, Becomes

\* A run whose closure moved: it was signalled if the step killed it.
LEMMA DoomKept ==
  ASSUME Gentle, UNCHANGED platform, ~down, UNCHANGED down, NEW r \in Runs, DoomInv(r),
         UseGroup /\ ~os[r].immune /\ Grouped(os[r]) =>
             (job'[r].killed /\ ~job[r].killed => os'[r].doomed)
  PROVE  DoomInv(r)'
<1>1. Becomes(os[r], os'[r]) /\ (os[r].doomed => os'[r].doomed)
  BY Zenon DEF Gentle
<1> QED
  BY <1>1, Zenon DEF DoomInv, Becomes, UseGroup

\* The signal of a handler reaches its own run, if it can be reached.
LEMMA StruckSelf ==
  ASSUME NEW r \in Runs, Signals(Struck(r)), UseGroup, ~os[r].immune, Grouped(os[r])
  PROVE  os'[r].doomed
<1>1. r \in Struck(r)
  BY Zenon DEF Struck, GroupOf, InGroup, Grouped
<1> QED
  BY <1>1, Zenon DEF Signals

\* The tracked groups, in a step that settles nobody and in one that may.
LEMMA TrackKept ==
  ASSUME TrackInv, Gentle, UNCHANGED <<liveGroups, platform>>,
         \A q \in Runs : job'[q].phase = "live" <=> job[q].phase = "live"
  PROVE  TrackInv'
<1>1. \A q \in Runs : Live(q)' <=> Live(q)
  BY Zenon DEF Live
<1>2. \A q \in Runs : os'[q].pid = os[q].pid /\ os'[q].heir = os[q].heir
                      /\ (Grouped(os'[q]) => Grouped(os[q]))
  BY Zenon DEF Gentle, Becomes
<1>3. { os[r].pid : r \in { q \in Runs : Live(q) } }' = { os[r].pid : r \in { q \in Runs : Live(q) } }
  BY <1>1, <1>2, Zenon
<1> QED
  BY <1>1, <1>2, <1>3, Zenon DEF TrackInv, UseGroup

\* The handler that settles a run takes its group out of the set, and no other.
LEMMA TrackEnds ==
  ASSUME TrackInv, PidInv, Gentle, UNCHANGED platform, NEW r \in Runs, OneJob(r), Untrack(r),
         PairInv(r), job'[r].phase \in {job[r].phase, "settled"}
  PROVE  TrackInv'
<1>1. \A q \in Runs : os'[q].pid = os[q].pid /\ os'[q].heir = os[q].heir
                      /\ (Grouped(os'[q]) => Grouped(os[q]))
  BY Zenon DEF Gentle, Becomes
<1>2. CASE job'[r].phase = "settled" /\ Live(r)
  <2>1. liveGroups' = liveGroups \ {os[r].pid}
    BY <1>2, Zenon DEF Untrack
  <2>2. os[r].pid # NoPid
    BY <1>2, Zenon DEF PairInv, Live
  <2>3. \A q \in Runs : Live(q)' <=> Live(q) /\ q # r
    BY <1>2, Zenon DEF Live, OneJob
  <2>4. liveGroups' \subseteq { os[q].pid : q \in { i \in Runs : Live(i) } }'
    <3>1. ASSUME NEW p \in liveGroups' PROVE \E q \in Runs : Live(q)' /\ os'[q].pid = p
      <4>1. p \in liveGroups /\ p # os[r].pid
        BY <2>1, <3>1
      <4>2. PICK q \in Runs : Live(q) /\ os[q].pid = p
        BY <4>1 DEF TrackInv
      <4> QED
        BY <1>1, <2>3, <4>1, <4>2
    <3> QED
      BY <3>1
  <2>5. ASSUME UseGroup', NEW q \in Runs, Live(q)', Grouped(os'[q]), ~os'[q].heir
        PROVE  os'[q].pid \in liveGroups'
    <3>1. Live(q) /\ q # r /\ Grouped(os[q]) /\ ~os[q].heir /\ UseGroup
      BY <1>1, <2>3, <2>5, Zenon DEF UseGroup
    <3>2. os[q].pid \in liveGroups
      BY <3>1, Zenon DEF TrackInv
    <3>3. os[q].pid # os[r].pid
      BY <1>2, <2>2, <3>1, Zenon DEF PidInv
    <3> QED
      BY <1>1, <2>1, <3>2, <3>3
  <2> QED
    BY <2>4, <2>5, Zenon DEF TrackInv
<1>3. CASE ~(job'[r].phase = "settled" /\ Live(r))
  <2>1. UNCHANGED liveGroups
    BY <1>3, Zenon DEF Untrack
  <2>2. \A q \in Runs : job'[q].phase = "live" <=> job[q].phase = "live"
    BY <1>3, Zenon DEF OneJob, Live
  <2> QED
    BY <2>1, <2>2, TrackKept
<1> QED
  BY <1>2, <1>3

------------------------------------------------------------------------------
(* The steps.                                                              *)

\* What a step of the event loop that moves one closure has to show.
LEMMA OneJobKeeps ==
  ASSUME IInv, NEW r \in Runs, OneJob(r), Gentle, UNCHANGED <<down, platform>>, ~down,
         job'[r].phase = "live" => job[r].phase = "live",
         TypeOK', JobInv(job'[r]), PairInv(r)', DoomInv(r)', TrackInv'
  PROVE  IInv'
<1>1. ASSUME NEW q \in Runs PROVE JobInv(job[q])' /\ PairInv(q)' /\ DoomInv(q)'
  <2>1. CASE q = r
    BY <2>1, Zenon
  <2>2. CASE q # r
    <3>1. job'[q] = job[q]
      BY <2>2, Zenon DEF OneJob
    <3> QED
      BY <1>1, <3>1, OthersKept DEF IInv
  <2> QED
    BY <2>1, <2>2
<1>2. PidInv'
  <2>1. \A q \in Runs : Live(q)' => Live(q)
    BY Zenon DEF Live, OneJob
  <2> QED
    BY <2>1, PidKept DEF IInv
<1> QED
  BY <1>1, <1>2 DEF IInv

\* The types, in a step of the event loop.
LEMMA TypesKept ==
  ASSUME TypeOK, NEW r \in Runs, OneJob(r), os' \in [Runs -> Process], UNCHANGED <<down, platform>>,
         liveGroups' \subseteq Pids
  PROVE  TypeOK'
BY DEF TypeOK, OneJob

\* What a handler leaves in the set are ids.
LEMMA UntrackType ==
  ASSUME TypeOK, NEW r \in Runs, Untrack(r)
  PROVE  liveGroups' \subseteq Pids
BY DEF TypeOK, Untrack

\* One lemma for each action: it preserves the invariant.
LEMMA SystemStep == ASSUME IInv, NEW r \in Runs, System(r) PROVE IInv'
<1>1. /\ UNCHANGED <<job, liveGroups, down, platform>> /\ Quiet
  BY SystemFacts DEF IInv, Quiet
<1>2. Gentle
  BY <1>1, QuietIsGentle
<1>3. TypeOK'
  BY <1>1, <1>2 DEF IInv, TypeOK, Gentle
<1>4. PidInv'
  BY <1>1, <1>2, PidKept DEF IInv, Live
<1>5. TrackInv'
  BY <1>1, <1>2, TrackKept DEF IInv
<1>6. ASSUME NEW q \in Runs PROVE JobInv(job[q])' /\ PairInv(q)' /\ DoomInv(q)'
  BY <1>1, <1>2, <1>6, OthersKept DEF IInv
<1> QED
  BY <1>3, <1>4, <1>5, <1>6 DEF IInv

\* The end of the server.
LEMMA ShutdownStep == ASSUME IInv, Shutdown PROVE IInv'
<1>1. Signals(Swept) /\ ~down /\ down' /\ UNCHANGED <<job, liveGroups, platform>>
  BY ShutdownFacts DEF IInv
<1>2. Gentle
  BY <1>1, SignalsAreGentle
<1>3. TypeOK'
  BY <1>1, <1>2, Zenon DEF IInv, TypeOK, Gentle, Shutdown
<1>4. PidInv'
  BY <1>1, <1>2, PidKept DEF IInv, Live
<1>5. TrackInv'
  BY <1>1, <1>2, TrackKept DEF IInv
<1>6. ASSUME NEW q \in Runs PROVE JobInv(job[q])' /\ PairInv(q)' /\ DoomInv(q)'
  <2>1. ASSUME job[q].phase = "live", UseGroup, ~os[q].immune, ~os[q].heir, Grouped(os[q])
        PROVE  os'[q].doomed
    <3>1. os[q].pid \in liveGroups
      BY <1>6, <2>1 DEF IInv, TrackInv, Live
    <3>2. q \in GroupOf(os[q].pid)
      BY <1>6, <2>1, Zenon DEF GroupOf, InGroup, Grouped
    <3>3. q \in Swept
      BY <2>1, <3>1, <3>2, Zenon DEF Swept
    <3> QED
      BY <1>1, <1>6, <3>3, Zenon DEF Signals
  <2> QED
    BY <1>1, <1>2, <1>6, <2>1, OthersKept DEF IInv
<1> QED
  BY <1>3, <1>4, <1>5, <1>6 DEF IInv

\* A new child: nobody is in its group but itself, and the group is tracked.
LEMMA SpawnStep == ASSUME IInv, NEW r \in Runs, Spawn(r) PROVE IInv'
<1> DEFINE j == job[r]
           k == job'[r]
           p == os'[r].pid
<1>1. /\ OneJob(r)
      /\ j.phase = "idle" /\ k.phase = "live"
      /\ Kept(j, k) /\ k.killed = j.killed /\ k.verdict = j.verdict /\ k.grace = j.grace
      /\ os' \in [Runs -> Process]
      /\ \A q \in Runs : q # r => os'[q] = os[q]
      /\ p \in Pids /\ GroupOf(p) = {} /\ os'[r].heir = Claimed(p)
      /\ liveGroups' = IF UseGroup THEN liveGroups \cup {p} ELSE liveGroups
      /\ ~down /\ UNCHANGED <<down, platform>>
  BY SpawnFacts DEF IInv
<1>2. JobInv(j) /\ PairInv(r)
  BY DEF IInv
<1>3. \A q \in Runs : Live(q)' <=> Live(q) \/ q = r
  BY <1>1, Zenon DEF Live, OneJob
<1>4. p # NoPid
  BY <1>1, ChildProcessAssumption
<1>5. TypeOK'
  <2>1. liveGroups' \subseteq Pids
    BY <1>1 DEF IInv, TypeOK
  <2> QED
    BY <1>1, <2>1, TypesKept DEF IInv
<1>6. PidInv'
  <2>1. PidInv
    BY DEF IInv
  <2>2. ASSUME NEW q \in Runs, q # r, os'[q].pid = p
        PROVE  ~Grouped(os'[q]) /\ (Live(q)' => os'[r].heir)
    <3>1. os'[q] = os[q] /\ os[q].pid = p
      BY <1>1, <2>2, Zenon
    <3>2. q \notin GroupOf(p)
      BY <1>1
    <3>3. ~Grouped(os[q])
      BY <3>1, <3>2, Zenon DEF GroupOf, InGroup, Grouped
    <3>4. Live(q)' => Claimed(p)
      BY <1>3, <2>2, <3>1, Zenon DEF Claimed
    <3> QED
      BY <1>1, <3>1, <3>3, <3>4, Zenon
  <2>3. ASSUME NEW q \in Runs, NEW i \in Runs, q # i, os'[q].pid = os'[i].pid,
               os'[i].pid # NoPid, Grouped(os'[i])
        PROVE  ~Grouped(os'[q]) /\ (Live(q)' /\ Live(i)' => os'[i].heir)
    <3>1. CASE i = r
      BY <2>2, <2>3, <3>1, Zenon
    <3>2. CASE i # r /\ q = r
      BY <2>2, <2>3, <3>2, Zenon
    <3>3. CASE i # r /\ q # r
      <4>1. os'[q] = os[q] /\ os'[i] = os[i] /\ (Live(q)' <=> Live(q)) /\ (Live(i)' <=> Live(i))
        BY <1>1, <1>3, <2>3, <3>3, Zenon
      <4> QED
        BY <2>1, <2>3, <4>1, Zenon DEF PidInv
    <3> QED
      BY <3>1, <3>2, <3>3
  <2> QED
    BY <2>3, Zenon DEF PidInv
<1>7. TrackInv'
  <2>0. TrackInv /\ ~Live(r)
    BY <1>1, Zenon DEF IInv, Live
  <2>1. \A q \in Runs : Live(q) => q # r /\ os'[q] = os[q]
    BY <1>1, <2>0, Zenon
  <2>2. ASSUME NEW i \in liveGroups' PROVE \E q \in Runs : Live(q)' /\ os'[q].pid = i
    <3>1. CASE i = p
      BY <1>3, <3>1, Zenon
    <3>2. CASE i # p
      <4>1. i \in liveGroups
        BY <1>1, <2>2, <3>2
      <4>2. PICK q \in Runs : Live(q) /\ os[q].pid = i
        BY <2>0, <4>1 DEF TrackInv
      <4> QED
        BY <1>3, <2>1, <4>2, Zenon
    <3> QED
      BY <3>1, <3>2
  <2>3. ASSUME UseGroup', NEW q \in Runs, Live(q)', Grouped(os'[q]), ~os'[q].heir
        PROVE  os'[q].pid \in liveGroups'
    <3>1. liveGroups' = liveGroups \cup {p} /\ UseGroup
      BY <1>1, <2>3 DEF UseGroup
    <3>2. CASE q = r
      BY <3>1, <3>2
    <3>3. CASE q # r
      <4>1. Live(q) /\ os'[q] = os[q]
        BY <1>1, <1>3, <2>3, <3>3, Zenon
      <4>2. os[q].pid \in liveGroups
        BY <2>0, <2>3, <3>1, <4>1, Zenon DEF TrackInv
      <4> QED
        BY <3>1, <4>1, <4>2
    <3> QED
      BY <3>2, <3>3
  <2>4. liveGroups' \subseteq { os[q].pid : q \in { i \in Runs : Live(i) } }'
    BY <2>2
  <2> QED
    BY <2>3, <2>4, Zenon DEF TrackInv
<1>8. JobInv(k)
  BY <1>1, <1>2, Zenon DEF JobInv, Kept
<1>9. ASSUME NEW q \in Runs PROVE JobInv(job[q])' /\ PairInv(q)' /\ DoomInv(q)'
  <2>1. CASE q = r
    <3>1. PairInv(r)'
      BY <1>1, <1>4, <1>8, Zenon DEF PairInv, JobInv
    <3>2. DoomInv(r)'
      BY <1>1, <1>2, Zenon DEF DoomInv, JobInv
    <3> QED
      BY <1>8, <2>1, <3>1, <3>2, Zenon
  <2>2. CASE q # r
    <3>1. job'[q] = job[q] /\ os'[q] = os[q]
      BY <1>1, <1>9, <2>2, Zenon DEF OneJob
    <3>2. JobInv(job[q]) /\ PairInv(q) /\ DoomInv(q)
      BY <1>9 DEF IInv
    <3> QED
      BY <1>1, <3>1, <3>2, Zenon DEF PairInv, DoomInv, UseGroup
  <2> QED
    BY <2>1, <2>2
<1> QED
  BY <1>5, <1>6, <1>7, <1>9 DEF IInv

\* No child.
LEMMA SpawnFailsStep == ASSUME IInv, NEW r \in Runs, SpawnFails(r) PROVE IInv'
<1> DEFINE j == job[r]
           k == job'[r]
<1>1. /\ OneJob(r) /\ Quiet
      /\ j.phase = "idle" /\ Kept(j, k) /\ k.killed = j.killed
      /\ k.phase = "settled" /\ k.timer = "off" /\ k.grace = "off"
      /\ \E e \in {"missing", "other"} : k.verdict = Classify(j.timedOut, j.overflow, e, NoCode)
      /\ ~down /\ UNCHANGED <<liveGroups, down, platform>>
  BY SpawnFailsFacts DEF IInv
<1>2. JobInv(j) /\ PairInv(r) /\ DoomInv(r) /\ j \in Job
  BY DEF IInv, TypeOK
<1>3. Gentle
  BY <1>1, QuietIsGentle
<1>4. j.timedOut \in BOOLEAN /\ j.overflow \in BOOLEAN
  BY <1>2, Zenon DEF Job
<1>5. ~j.killed /\ ~j.timedOut /\ ~j.overflow
  BY <1>1, <1>2, Zenon DEF JobInv
<1>6. k.verdict \notin {"timeout", "output_overflow", "success"}
  BY <1>1, <1>4, <1>5, ClassifyKilled
<1>7. JobInv(k)
  BY <1>1, <1>2, <1>5, <1>6, Zenon DEF JobInv, Kept
<1>8. Closed(os'[r])
  BY <1>1, <1>2, <1>3, Zenon DEF PairInv, Gentle, Becomes
<1>9. PairInv(r)'
  BY <1>1, <1>2, <1>3, <1>6, <1>8, PairKept
<1>10. DoomInv(r)'
  BY <1>1, <1>2, <1>3, DoomKept
<1>11. TrackInv'
  <2>1. \A q \in Runs : job'[q].phase = "live" <=> job[q].phase = "live"
    BY <1>1, Zenon DEF OneJob
  <2> QED
    BY <1>1, <1>3, <2>1, TrackKept DEF IInv
<1>12. TypeOK'
  BY <1>1, TypesKept DEF IInv, TypeOK, Quiet
<1> QED
  BY <1>1, <1>3, <1>7, <1>9, <1>10, <1>11, <1>12, OneJobKeeps

\* What `terminate` leaves behind satisfies the invariant of a closure.
LEMMA KilledJob ==
  ASSUME NEW j \in Job, NEW k \in Job, Terminated(j, k), j.timedOut \/ j.overflow,
         j.lost => j.overflow \/ j.phase = "settled",
         j.timer = "armed" => j.phase = "live",
         j.phase # "idle", j.phase # "settled" => j.verdict = "none", j.verdict # "success"
  PROVE  JobInv(k) /\ k.killed /\ k.verdict # "success" /\ k.phase \in {j.phase, "settled"}
         /\ k.phase # "idle"
<1>1. Kept(j, k) /\ k.killed
  BY Zenon DEF Terminated
<1>2. CASE Stays(j, k)
  BY <1>1, <1>2, Zenon DEF JobInv, Kept, Stays
<1>3. CASE j.phase = "live" /\ Settled(j, k, NoCode, "other")
  <2>1. j.timedOut \in BOOLEAN /\ j.overflow \in BOOLEAN
    BY Zenon DEF Job
  <2>2. k.verdict # "success"
    <3>1. k.verdict = Classify(j.timedOut, j.overflow, "other", NoCode)
      BY <1>3, Zenon DEF Settled
    <3> QED
      BY <2>1, <3>1, ClassifyKilled
  <2> QED
    BY <1>1, <1>3, <2>2, Zenon DEF JobInv, Kept, Settled
<1> QED
  BY <1>2, <1>3, Zenon DEF Terminated

\* The timeout kills, unless an overflow did before.
LEMMA TimeoutStep == ASSUME IInv, NEW r \in Runs, TimeoutFires(r) PROVE IInv'
<1> DEFINE k == job'[r]
<1>1. /\ OneJob(r) /\ job[r].timer = "armed"
      /\ IF job[r].killed THEN Quiet ELSE Signals(Struck(r))
      /\ Untrack(r) /\ ~down /\ UNCHANGED <<down, platform>>
  BY TimeoutFacts DEF IInv
<1>2. PICK j \in Job :
        /\ j.timedOut /\ j.timer = "off" /\ Terminated(j, k)
        /\ j.overflow = job[r].overflow /\ j.lost = job[r].lost
        /\ j.phase = job[r].phase /\ j.verdict = job[r].verdict
  BY TimeoutFacts DEF IInv
<1>3. JobInv(job[r]) /\ PairInv(r) /\ DoomInv(r)
  BY DEF IInv
<1>4. Gentle
  BY <1>1, QuietIsGentle, SignalsAreGentle
<1>5. job[r].phase = "live" /\ job[r].verdict = "none"
  BY <1>1, <1>3, Zenon DEF JobInv
<1>6. JobInv(k) /\ k.killed /\ k.verdict # "success" /\ k.phase \in {"live", "settled"}
  <2>1. k \in Job
    BY <1>1 DEF OneJob
  <2>2. j.lost => j.overflow \/ j.phase = "settled"
    BY <1>2, <1>3, Zenon DEF JobInv
  <2> QED
    BY <1>2, <1>5, <2>1, <2>2, KilledJob
<1>7. PairInv(r)'
  BY <1>3, <1>4, <1>5, <1>6, PairKept
<1>8. DoomInv(r)'
  BY <1>1, <1>3, <1>4, StruckSelf, DoomKept
<1>9. TrackInv'
  BY <1>1, <1>3, <1>4, <1>5, <1>6, TrackEnds DEF IInv
<1>10. TypeOK'
  BY <1>1, <1>4, TypesKept, UntrackType DEF IInv, Gentle
<1> QED
  BY <1>1, <1>4, <1>5, <1>6, <1>7, <1>8, <1>9, <1>10, OneJobKeeps

\* An open pipe: the call is live, or was killed.
LEMMA OpenPipe ==
  ASSUME NEW r \in Runs, PairInv(r), job[r] \in Job, ~Closed(os[r])
  PROVE  job[r].phase = "live" \/ (job[r].phase = "settled" /\ job[r].killed)
<1>1. job[r].phase \in {"idle", "live", "settled"}
  BY Zenon DEF Job
<1> QED
  BY <1>1, Zenon DEF PairInv

\* A chunk that fits, one that is dropped, and the one that overflows.
LEMMA DataStep == ASSUME IInv, NEW r \in Runs, NEW s \in Streams, Data(r, s) PROVE IInv'
<1> DEFINE k == job'[r]
<1>1. JobInv(job[r]) /\ PairInv(r) /\ DoomInv(r) /\ job[r] \in Job
  BY DEF IInv, TypeOK
<1>2. CASE job[r].overflow \/ Fits(r, s)
  <2>1. /\ OneJob(r) /\ Quiet /\ ~Closed(os[r])
        /\ Stays(job[r], k)
        /\ k.timedOut = job[r].timedOut /\ k.overflow = job[r].overflow
        /\ k.killed = job[r].killed /\ k.grace = job[r].grace
        /\ k.lost = job[r].lost \/ job[r].overflow
        /\ ~down /\ UNCHANGED <<liveGroups, down, platform>>
    BY <1>2, ChunkFacts DEF IInv
  <2>2. Gentle
    BY <2>1, QuietIsGentle
  <2>3. JobInv(k)
    BY <1>1, <2>1, Zenon DEF JobInv, Stays
  <2>4. job[r].phase = "live" \/ (job[r].phase = "settled" /\ job[r].killed)
    BY <1>1, <2>1, OpenPipe
  <2>5. PairInv(r)'
    <3>1. k.phase = job[r].phase /\ k.verdict # "success"
      BY <1>1, <2>1, <2>4, Zenon DEF JobInv, Stays
    <3> QED
      BY <1>1, <2>1, <2>2, <2>4, <3>1, PairKept, Zenon
  <2>6. DoomInv(r)'
    BY <1>1, <2>1, <2>2, DoomKept
  <2>7. TrackInv'
    <3>1. \A q \in Runs : job'[q].phase = "live" <=> job[q].phase = "live"
      BY <2>1, Zenon DEF OneJob, Stays
    <3> QED
      BY <2>1, <2>2, <3>1, TrackKept DEF IInv
  <2>8. TypeOK'
    BY <2>1, TypesKept DEF IInv, TypeOK, Quiet
  <2> QED
    BY <2>1, <2>2, <2>3, <2>5, <2>6, <2>7, <2>8, OneJobKeeps DEF Stays
<1>3. CASE ~job[r].overflow /\ ~Fits(r, s)
  <2>1. /\ OneJob(r) /\ ~Closed(os[r])
        /\ IF job[r].killed THEN Quiet ELSE Signals(Struck(r))
        /\ Untrack(r) /\ ~down /\ UNCHANGED <<down, platform>>
    BY <1>3, OverflowFacts DEF IInv
  <2>2. PICK j \in Job :
          /\ j.overflow /\ Terminated(j, k)
          /\ j.timedOut = job[r].timedOut /\ j.killed = job[r].killed
          /\ Stays(job[r], j)
    BY <1>3, OverflowFacts DEF IInv
  <2>3. Gentle
    BY <2>1, QuietIsGentle, SignalsAreGentle
  <2>4. job[r].phase = "live" \/ (job[r].phase = "settled" /\ job[r].killed)
    BY <1>1, <2>1, OpenPipe
  <2>5. JobInv(k) /\ k.killed /\ k.verdict # "success" /\ k.phase \in {job[r].phase, "settled"}
    <3>1. k \in Job
      BY <2>1 DEF OneJob
    <3>2. /\ j.phase = job[r].phase /\ j.phase # "idle" /\ j.verdict # "success"
          /\ (j.timer = "armed" => j.phase = "live")
          /\ (j.phase # "settled" => j.verdict = "none")
      BY <1>1, <2>2, <2>4, Zenon DEF JobInv, Stays
    <3> QED
      BY <2>2, <3>1, <3>2, KilledJob
  <2>6. PairInv(r)'
    <3>1. k.phase \in {"idle", "live"} => k.phase = job[r].phase
      BY <2>5
    <3> QED
      BY <1>1, <2>3, <2>5, <3>1, PairKept
  <2>7. DoomInv(r)'
    BY <1>1, <2>1, <2>3, StruckSelf, DoomKept
  <2>8. TrackInv'
    BY <1>1, <2>1, <2>3, <2>5, TrackEnds DEF IInv
  <2>9. TypeOK'
    BY <2>1, <2>3, TypesKept, UntrackType DEF IInv, Gentle
  <2> QED
    BY <2>1, <2>3, <2>5, <2>6, <2>7, <2>8, <2>9, OneJobKeeps
<1> QED
  BY <1>2, <1>3

\* The exit is noted, and starts the grace period of a run that was killed.
LEMMA ExitStep == ASSUME IInv, NEW r \in Runs, ExitEvent(r) PROVE IInv'
<1> DEFINE k == job'[r]
<1>1. /\ OneJob(r) /\ Quiet
      /\ Stays(job[r], k) /\ k.killed = job[r].killed
      /\ k.timedOut = job[r].timedOut /\ k.overflow = job[r].overflow
      /\ k.lost = job[r].lost
      /\ k.grace # job[r].grace => job[r].killed
      /\ ~down /\ UNCHANGED <<liveGroups, down, platform>>
  BY ExitFacts DEF IInv
<1>2. JobInv(job[r]) /\ PairInv(r) /\ DoomInv(r)
  BY DEF IInv
<1>3. Gentle
  BY <1>1, QuietIsGentle
<1>4. JobInv(k)
  BY <1>1, <1>2, Zenon DEF JobInv, Stays
<1>5. PairInv(r)'
  <2>1. Closed(os[r]) => Closed(os'[r]) /\ os'[r].code = os[r].code
    BY <1>3, Zenon DEF Gentle, Becomes
  <2>2. k.verdict = "success" => Closed(os[r]) /\ os[r].code = "zero"
    BY <1>1, <1>2, Zenon DEF JobInv, PairInv, Stays
  <2> QED
    BY <1>1, <1>2, <1>3, <2>1, <2>2, PairKept, Zenon DEF PairInv, Stays
<1>6. DoomInv(r)'
  BY <1>1, <1>2, <1>3, DoomKept
<1>7. TrackInv'
  <2>1. \A q \in Runs : job'[q].phase = "live" <=> job[q].phase = "live"
    BY <1>1, Zenon DEF OneJob, Stays
  <2> QED
    BY <1>1, <1>3, <2>1, TrackKept DEF IInv
<1>8. TypeOK'
  BY <1>1, TypesKept DEF IInv, TypeOK, Quiet
<1> QED
  BY <1>1, <1>3, <1>4, <1>5, <1>6, <1>7, <1>8, OneJobKeeps DEF Stays

\* The run settles with everything that was written.
LEMMA CloseStep == ASSUME IInv, NEW r \in Runs, CloseEvent(r) PROVE IInv'
<1> DEFINE j == job[r]
           k == job'[r]
<1>1. /\ OneJob(r) /\ Quiet
      /\ j.phase = "live" /\ k.killed = j.killed /\ Kept(j, k)
      /\ Settled(j, k, os[r].code, "none") /\ k.grace = "off"
      /\ Closed(os[r]) /\ Untrack(r)
      /\ ~down /\ UNCHANGED <<down, platform>>
  BY CloseFacts DEF IInv
<1>2. JobInv(j) /\ PairInv(r) /\ DoomInv(r) /\ j \in Job
  BY DEF IInv, TypeOK
<1>3. Gentle
  BY <1>1, QuietIsGentle
<1>4. j.timedOut \in BOOLEAN /\ j.overflow \in BOOLEAN
  BY <1>2, Zenon DEF Job
<1>5. /\ k.verdict \in {"timeout", "output_overflow"} => j.timedOut \/ j.overflow
      /\ k.verdict = "success" => ~j.timedOut /\ ~j.overflow /\ os[r].code = "zero"
  <2>1. k.verdict = Classify(j.timedOut, j.overflow, "none", os[r].code)
    BY <1>1, Zenon DEF Settled
  <2> QED
    BY <1>4, <2>1, ClassifyKilled
<1>6. JobInv(k)
  BY <1>1, <1>2, <1>5, Zenon DEF JobInv, Kept, Settled
<1>7. Closed(os'[r]) /\ os'[r].code = os[r].code
  BY <1>1, <1>3, Zenon DEF Gentle, Becomes
<1>8. k.phase = "settled"
  BY <1>1 DEF Settled
<1>9. PairInv(r)'
  BY <1>2, <1>3, <1>5, <1>7, <1>8, PairKept
<1>10. DoomInv(r)'
  BY <1>1, <1>2, <1>3, DoomKept
<1>11. TrackInv'
  BY <1>1, <1>2, <1>3, <1>8, TrackEnds DEF IInv
<1>12. TypeOK'
  BY <1>1, <1>3, TypesKept, UntrackType DEF IInv, Gentle
<1> QED
  BY <1>1, <1>3, <1>6, <1>9, <1>10, <1>11, <1>12, OneJobKeeps

\* The run settles without what the pipes still hold.
LEMMA GraceStep == ASSUME IInv, NEW r \in Runs, GraceFires(r) PROVE IInv'
<1> DEFINE j == job[r]
           k == job'[r]
<1>1. /\ OneJob(r) /\ Quiet
      /\ j.grace = "armed" /\ k.killed = j.killed
      /\ k.timedOut = j.timedOut /\ k.overflow = j.overflow
      /\ IF j.phase = "live" THEN Settled(j, k, j.exitCode, "none") ELSE Stays(j, k)
      /\ Untrack(r)
      /\ ~down /\ UNCHANGED <<down, platform>>
  BY GraceFacts DEF IInv
<1>2. JobInv(j) /\ PairInv(r) /\ DoomInv(r) /\ j \in Job
  BY DEF IInv, TypeOK
<1>3. Gentle
  BY <1>1, QuietIsGentle
<1>4. j.timedOut \in BOOLEAN /\ j.overflow \in BOOLEAN /\ j.phase \in {"idle", "live", "settled"}
  BY <1>2, Zenon DEF Job
<1>5. j.killed /\ (j.timedOut \/ j.overflow) /\ j.phase # "idle" /\ j.verdict # "success"
  BY <1>1, <1>2, Zenon DEF JobInv
<1>6. k.phase = "settled" /\ k.verdict # "success" /\ k.timer # "armed"
  <2>1. CASE j.phase = "live"
    <3>1. k.verdict = Classify(j.timedOut, j.overflow, "none", j.exitCode)
      BY <1>1, <2>1, Zenon DEF Settled
    <3>2. k.verdict # "success"
      BY <1>4, <1>5, <3>1, ClassifyKilled
    <3> QED
      BY <1>1, <2>1, <3>2 DEF Settled
  <2>2. CASE j.phase = "settled"
    BY <1>1, <1>2, <1>5, <2>2, Zenon DEF Stays, JobInv
  <2> QED
    BY <1>4, <1>5, <2>1, <2>2
<1>7. JobInv(k)
  BY <1>1, <1>5, <1>6, Zenon DEF JobInv
<1>8. PairInv(r)'
  BY <1>1, <1>2, <1>3, <1>5, <1>6, PairKept
<1>9. DoomInv(r)'
  BY <1>1, <1>2, <1>3, DoomKept
<1>10. TrackInv'
  BY <1>1, <1>2, <1>3, <1>6, TrackEnds DEF IInv
<1>11. TypeOK'
  BY <1>1, <1>3, TypesKept, UntrackType DEF IInv, Gentle
<1> QED
  BY <1>1, <1>3, <1>6, <1>7, <1>8, <1>9, <1>10, <1>11, OneJobKeeps

\* The invariant is inductive.
LEMMA NextIInv == ASSUME IInv, [Next]_vars PROVE IInv'
<1>1. CASE Shutdown
  BY <1>1, ShutdownStep
<1>2. ASSUME NEW r \in Runs, Handler(r) PROVE IInv'
  BY <1>2, SpawnStep, SpawnFailsStep, TimeoutStep, DataStep, ExitStep, CloseStep, GraceStep
     DEF Handler
<1>3. ASSUME NEW r \in Runs, System(r) PROVE IInv'
  BY <1>3, SystemStep
<1>4. CASE UNCHANGED vars
  BY <1>4 DEF vars, IInv, TypeOK, PidInv, TrackInv, JobInv, PairInv, DoomInv, Live, UseGroup
<1> QED
  BY <1>1, <1>2, <1>3, <1>4 DEF Next

\* Only the spawn makes a call live.
LEMMA NobodyStarts ==
  ASSUME IInv, NEW r \in Runs,
         \/ System(r) \/ SpawnFails(r) \/ TimeoutFires(r) \/ ExitEvent(r) \/ CloseEvent(r) \/ GraceFires(r)
         \/ \E s \in Streams : Data(r, s),
         NEW q \in Runs, job'[q].phase = "live"
  PROVE  job[q].phase = "live"
<1>0. TypeOK
  BY DEF IInv
<1>1. CASE System(r)
  BY <1>0, <1>1, SystemFacts
<1>2. CASE SpawnFails(r)
  BY <1>0, <1>2, SpawnFailsFacts DEF OneJob
<1>3. CASE TimeoutFires(r)
  BY <1>0, <1>3, TimeoutFacts DEF OneJob, Terminated, Stays, Settled
<1>4. CASE ExitEvent(r)
  BY <1>0, <1>4, ExitFacts DEF OneJob, Stays
<1>5. CASE CloseEvent(r)
  BY <1>0, <1>5, CloseFacts DEF OneJob, Settled
<1>6. CASE GraceFires(r)
  BY <1>0, <1>6, GraceFacts DEF OneJob, Settled, Stays
<1>7. ASSUME NEW s \in Streams, Data(r, s) PROVE job[q].phase = "live"
  <2>1. CASE job[r].overflow \/ Fits(r, s)
    BY <1>0, <1>7, <2>1, ChunkFacts DEF OneJob, Stays
  <2>2. CASE ~job[r].overflow /\ ~Fits(r, s)
    BY <1>0, <1>7, <2>2, OverflowFacts DEF OneJob, Terminated, Stays, Settled
  <2> QED
    BY <2>1, <2>2
<1> QED
  BY <1>1, <1>2, <1>3, <1>4, <1>5, <1>6, <1>7

\* It holds before the first run.
LEMMA InitIInv == Init => IInv
<1> SUFFICES ASSUME Init PROVE IInv
  OBVIOUS
<1>1. /\ job = [r \in Runs |-> NewJob] /\ os = [r \in Runs |-> NewProcess]
      /\ liveGroups = {} /\ ~down /\ down \in BOOLEAN /\ platform \in Platforms
  BY Zenon DEF Init
<1>2. NewJob \in Job /\ NewProcess \in Process
  <2>1. [s \in Streams |-> 0] \in [Streams -> 0 .. MaxBuffer]
        /\ [s \in Streams |-> 0] \in [Streams -> 0 .. PipeCapacity]
    BY ChildProcessAssumption
  <2> QED
    BY <2>1, Zenon DEF NewJob, NewProcess, Job, Process
<1>3. TypeOK
  BY <1>1, <1>2 DEF TypeOK
<1>4. JobInv(NewJob)
  BY Zenon DEF JobInv, NewJob
<1>5. NewJob.phase = "idle" /\ NewJob.verdict = "none" /\ ~NewJob.killed
  BY DEF NewJob
<1>6. NewProcess.pid = NoPid /\ Unborn(NewProcess) /\ Closed(NewProcess) /\ ~Grouped(NewProcess)
  BY DEF NewProcess, Unborn, Closed, Grouped
<1>7. ASSUME NEW r \in Runs PROVE JobInv(job[r]) /\ PairInv(r) /\ DoomInv(r)
  <2>1. job[r] = NewJob /\ os[r] = NewProcess
    BY <1>1
  <2> QED
    BY <1>4, <1>5, <1>6, <2>1, Zenon DEF PairInv, DoomInv
<1>8. PidInv
  BY <1>1, <1>6 DEF PidInv
<1>9. TrackInv
  BY <1>1, <1>5 DEF TrackInv, Live
<1> QED
  BY <1>3, <1>7, <1>8, <1>9 DEF IInv

------------------------------------------------------------------------------
(* The theorems.                                                           *)

\* The invariant of closures, processes and tracked groups holds throughout.
THEOREM ChildProcessInvariant == Spec => []IInv
BY InitIInv, NextIInv, PTL DEF Spec

\* Types of closures and processes, for any number of runs; the buffer is kept.
THEOREM ChildProcessTypeOK == Spec => []TypeOK
<1>1. IInv => TypeOK
  BY DEF IInv
<1> QED
  BY <1>1, ChildProcessInvariant, PTL

\* A success is complete: exit 0, never killed, nothing dropped, nothing unread.
THEOREM ChildProcessSuccess == Spec => []SuccessIsComplete
<1>1. IInv => SuccessIsComplete
  <2> SUFFICES ASSUME IInv, NEW r \in Runs, job[r].verdict = "success"
               PROVE  /\ os[r].code = "zero" /\ ~job[r].killed /\ ~job[r].lost
                      /\ ~Writers(r) /\ \A s \in Streams : os[r].unread[s] = 0
    BY Zenon DEF SuccessIsComplete
  <2>1. JobInv(job[r]) /\ PairInv(r)
    BY DEF IInv
  <2>2. os[r].code = "zero" /\ ~job[r].killed /\ ~job[r].lost /\ Closed(os[r])
    BY <2>1, Zenon DEF JobInv, PairInv
  <2> QED
    BY <2>2, Zenon DEF Closed, Writers
<1> QED
  BY <1>1, ChildProcessInvariant, PTL

\* A run that was ended leaves nobody of its group that was not signalled.
THEOREM ChildProcessKilled == Spec => []KilledRunLeavesNoGroup
<1>1. IInv => KilledRunLeavesNoGroup
  <2> SUFFICES ASSUME IInv, NEW r \in Runs, job[r].verdict \in {"timeout", "output_overflow"},
                      UseGroup, ~os[r].immune, InGroup(r)
               PROVE  os[r].doomed
    BY Zenon DEF KilledRunLeavesNoGroup
  <2>1. JobInv(job[r]) /\ DoomInv(r)
    BY DEF IInv
  <2> QED
    BY <2>1, Zenon DEF JobInv, DoomInv, InGroup, Grouped
<1> QED
  BY <1>1, ChildProcessInvariant, PTL

\* The tracked groups are those of the runs that have not settled, but for a run
\* that got the id of one of them.
LEMMA Tracked == IInv => RunningGroupsTracked
BY Zenon DEF IInv, TrackInv, RunningGroupsTracked, InGroup, Grouped

\* The end of the server leaves no unsettled run alive, with that exception.
LEMMA Sweeps == IInv => ShutdownSweeps
<1> SUFFICES ASSUME IInv, NEW r \in Runs, down, Live(r), UseGroup, ~os[r].immune,
                    ~os[r].heir, InGroup(r)
             PROVE  os[r].doomed
  BY Zenon DEF ShutdownSweeps
<1>1. DoomInv(r)
  BY DEF IInv
<1> QED
  BY <1>1, Zenon DEF DoomInv, InGroup, Grouped, Live

\* Both hold throughout.
THEOREM ChildProcessTracked == Spec => [](RunningGroupsTracked /\ ShutdownSweeps)
<1>1. IInv => RunningGroupsTracked /\ ShutdownSweeps
  BY Tracked, Sweeps
<1> QED
  BY <1>1, ChildProcessInvariant, PTL

\* Who is in the group of the id of r, and is not r, has inherited it.
LEMMA OneOwner ==
  ASSUME PidInv, NEW r \in Runs, os[r].pid # NoPid, NEW q \in Runs, q \in GroupOf(os[r].pid)
  PROVE  q = r \/ Inherited(q, r)
<1>1. os[q].pid = os[r].pid /\ Grouped(os[q])
  BY Zenon DEF GroupOf, InGroup, Grouped
<1> QED
  BY <1>1, Zenon DEF PidInv, Inherited, InGroup, Grouped

\* The signal of a handler reaches its own run, or who has its id since the group
\* of the run is gone.
LEMMA StruckOnly ==
  ASSUME PidInv, NEW r \in Runs, os[r].pid # NoPid, NEW q \in Runs, q \in Struck(r)
  PROVE  q = r \/ Inherited(q, r)
<1>1. CASE UseGroup
  BY <1>1, OneOwner, Zenon DEF Struck
<1>2. CASE ~UseGroup
  BY <1>2, Zenon DEF Struck
<1> QED
  BY <1>1, <1>2

\* A signal that is sent in a step.
Signalled(q) == os'[q].doomed /\ ~os[q].doomed

\* No signal, nobody signalled.
LEMMA QuietSignalsNobody == ASSUME TypeOK, Quiet, NEW q \in Runs PROVE ~Signalled(q)
BY Zenon DEF Quiet, Evolves, Signalled

Justified(q) ==
    \E r \in Runs :
        /\ Live(r) /\ (down' \/ (job'[r].killed /\ ~job[r].killed))
        /\ q = r \/ Inherited(q, r)

\* A handler that kills ends its own run, which is live, for the first time.
LEMMA KillerJustified ==
  ASSUME IInv, NEW r \in Runs, job[r].phase = "live" \/ job[r].killed,
         IF job[r].killed THEN Quiet ELSE Signals(Struck(r)),
         job'[r].killed, NEW q \in Runs, Signalled(q)
  PROVE  Justified(q)
<1>1. ~job[r].killed
  BY QuietSignalsNobody DEF IInv
<1>2. job[r].phase = "live" /\ Signals(Struck(r))
  BY <1>1
<1>3. os[r].pid # NoPid
  BY <1>2, Zenon DEF IInv, PairInv
<1>4. q \in Struck(r)
  BY <1>2, Zenon DEF Signals, Signalled
<1>5. q = r \/ Inherited(q, r)
  BY <1>3, <1>4, StruckOnly DEF IInv
<1> QED
  BY <1>1, <1>2, <1>5, Zenon DEF Justified, Live

\* A new child is signalled by nobody in the step that starts it.
LEMMA SpawnSignalsNobody ==
  ASSUME IInv, NEW r \in Runs, Spawn(r), NEW q \in Runs
  PROVE  ~Signalled(q)
<1>1. CASE q = r
  BY <1>1, SpawnFacts DEF IInv, Signalled
<1>2. CASE q # r
  <2>1. os'[q] = os[q]
    BY <1>2, SpawnFacts DEF IInv
  <2> QED
    BY <2>1, Zenon DEF Signalled
<1> QED
  BY <1>1, <1>2

\* Whoever is signalled has the id of a live run that is being ended or swept.
LEMMA SignalsAreJustified ==
  ASSUME IInv, [Next]_vars, NEW q \in Runs, Signalled(q)
  PROVE  Justified(q)
<1>1. TypeOK
  BY DEF IInv
<1>2. ASSUME NEW r \in Runs, TimeoutFires(r) PROVE Justified(q)
  <2>1. JobInv(job[r]) /\ job[r].timer = "armed" /\ job'[r].killed
        /\ IF job[r].killed THEN Quiet ELSE Signals(Struck(r))
    BY <1>1, <1>2, TimeoutFacts DEF IInv, Terminated
  <2> QED
    BY <2>1, KillerJustified, Zenon DEF JobInv
<1>3. ASSUME NEW r \in Runs, NEW s \in Streams, Data(r, s) PROVE Justified(q)
  <2>1. CASE job[r].overflow \/ Fits(r, s)
    BY <1>1, <1>3, <2>1, ChunkFacts, QuietSignalsNobody
  <2>2. CASE ~job[r].overflow /\ ~Fits(r, s)
    <3>1. ~Closed(os[r]) /\ job'[r].killed
          /\ IF job[r].killed THEN Quiet ELSE Signals(Struck(r))
      BY <1>1, <1>3, <2>2, OverflowFacts DEF Terminated
    <3>2. PairInv(r) /\ job[r] \in Job
      BY DEF IInv, TypeOK
    <3>3. job[r].phase = "live" \/ job[r].killed
      BY <3>1, <3>2, OpenPipe
    <3> QED
      BY <3>1, <3>3, KillerJustified
  <2> QED
    BY <2>1, <2>2
<1>4. CASE Shutdown
  <2>1. Signals(Swept) /\ down'
    BY <1>1, <1>4, ShutdownFacts
  <2>2. q \in Swept
    BY <2>1, Zenon DEF Signals, Signalled
  <2>3. PICK p \in liveGroups : q \in GroupOf(p)
    BY <2>2, Zenon DEF Swept
  <2>4. PICK r \in Runs : Live(r) /\ os[r].pid = p
    BY <2>3 DEF IInv, TrackInv
  <2>5. os[r].pid # NoPid /\ q \in GroupOf(os[r].pid)
    BY <2>3, <2>4, Zenon DEF IInv, PairInv, Live
  <2>6. q = r \/ Inherited(q, r)
    BY <2>5, OneOwner DEF IInv
  <2> QED
    BY <2>1, <2>4, <2>6, Zenon DEF Justified
<1>5. ASSUME NEW r \in Runs, SpawnFails(r) \/ ExitEvent(r) \/ CloseEvent(r) \/ GraceFires(r)
      PROVE  Quiet
  BY <1>1, <1>5, SpawnFailsFacts, ExitFacts, CloseFacts, GraceFacts
<1>6. ASSUME NEW r \in Runs, System(r) PROVE Quiet
  BY <1>1, <1>6, SystemFacts DEF Quiet
<1>7. CASE UNCHANGED vars
  BY <1>1, <1>7, QuietSelf, QuietSignalsNobody DEF vars
<1> QED
  BY <1>1, <1>2, <1>3, <1>4, <1>5, <1>6, <1>7, QuietSignalsNobody, SpawnSignalsNobody
     DEF Next, Handler

\* A signal is sent only by a run that is ended in this step, or for one that is
\* unsettled when the server ends, and reaches that run or whoever has its id since
\* its group is gone.
THEOREM ChildProcessOnlyTheUnsettledKill == Spec => OnlyTheUnsettledKill
<1>1. ASSUME IInv, [Next]_vars
      PROVE  [\A q \in Runs : os'[q].doomed /\ ~os[q].doomed =>
                 \E r \in Runs :
                     /\ Live(r) /\ (down' \/ (job'[r].killed /\ ~job[r].killed))
                     /\ q = r \/ Inherited(q, r)]_vars
  BY <1>1, SignalsAreJustified, Zenon DEF Signalled, Justified
<1> QED
  BY <1>1, ChildProcessInvariant, PTL DEF Spec, OnlyTheUnsettledKill
==============================================================================
