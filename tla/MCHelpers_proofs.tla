-------------------------- MODULE MCHelpers_proofs --------------------------
(***************************************************************************)
(* The three ways the host asks somebody else, for any calls, limits and   *)
(* pauses.  The isolated pack: no wake-up is lost and no reply is taken    *)
(* for another.  The regular expression engine: the handles hold the event *)
(* loop exactly while an answer is to come, no call moves to JavaScript    *)
(* unnoticed.  The sandboxed packs: no answer is taken for that of another *)
(* call, and nothing of a call stays on the disk but a response that came  *)
(* while its directory was being removed.                                  *)
(***************************************************************************)
EXTENDS MCHelpers, Sequences, FiniteSetTheorems, TLAPS

Awaiting == {"receive", "check", "wait", "asleep"}

\* A call that exchanges something has a worker; it waits for the load as long as
\* the worker is not ready, and for a request only then.
CallInv ==
    /\ pc \notin {"idle", "ready"} => Current
    /\ Current /\ ~ready => awaited = 0 /\ inbox = {}
    /\ pc = "send" => ready
    /\ pc \in Awaiting /\ ready => awaited # 0
    /\ phase = "loading" => ~ready /\ port = {} /\ signal = "idle"

\* The request has left the inbox when its reply is in the port.
FlightInv ==
    /\ OneRequestInFlight
    /\ port # {} => inbox = {}

\* The word: it says for good that the worker has ended, it is idle while the
\* main thread sleeps, and it is not idle when a reply that was announced lies in
\* the port.
WordInv ==
    /\ announced => phase = "gone" /\ signal = "exited"
    /\ pc = "asleep" => signal = "idle"
    /\ port # {} /\ phase \in {"waiting", "ending"} => signal # "idle"

FlagTypes ==
    /\ pc \in {"idle", "ready", "send", "receive", "check", "wait", "asleep"}
    /\ phase \in Phases /\ signal \in {"idle", "replied", "exited"}
    /\ ready \in BOOLEAN /\ announced \in BOOLEAN
    /\ answered \in BOOLEAN /\ faulted \in BOOLEAN

NumberTypes ==
    /\ startLeft \in 0 .. StartupLimit /\ left \in 0 .. TimeLimit
    /\ pause \in 0 .. CooldownMax
    /\ awaited \in Requests /\ seq \in Requests /\ inbox \subseteq Requests
    /\ failures \in 0 .. MaxFailures /\ ghosts \in 0 .. MaxGhosts

PortTypes == port \subseteq [id : Requests, ok : BOOLEAN]

IInv ==
    /\ FlagTypes /\ NumberTypes /\ PortTypes
    /\ CallInv /\ FlightInv /\ WordInv /\ PausedHasNoWorker
------------------------------------------------------------------------------
\* The doubled pause is a number (the solvers know no powers).
LEMMA PowerType == ASSUME NEW n \in Nat PROVE 2 ^ n \in Nat
<1>1. IsFiniteSet(1 .. n) /\ Cardinality(1 .. n) = n
  BY FS_Interval
<1>2. IsFiniteSet(SUBSET (1 .. n)) /\ Cardinality(SUBSET (1 .. n)) = 2 ^ n
  BY <1>1, FS_SUBSET
<1> QED
  BY <1>2, FS_CardinalityType

\* A pause is never longer than the longest.
LEMMA PauseType == ASSUME NEW n \in Nat PROVE Pause(n) \in 0 .. CooldownMax
<1>1. Lesser(n, 30) \in Nat
  BY DEF Lesser
<1>2. 2 ^ Lesser(n, 30) \in Nat
  BY <1>1, PowerType
<1>3. Cooldown * 2 ^ Lesser(n, 30) \in Nat
  BY <1>2, IsolatedPackAssumption
<1> QED
  BY <1>3, IsolatedPackAssumption DEF Pause, Lesser

\* The limits are numbers.
LEMMA LimitTypes ==
    /\ TimeLimit \in Nat /\ StartupLimit \in Nat /\ CooldownMax \in Nat
    /\ Ids \in Nat /\ Ids > 0 /\ MaxFailures \in Nat /\ MaxGhosts \in Nat
BY IsolatedPackAssumption

\* It holds before the first call.
LEMMA InitIInv == Init => IInv
<1> SUFFICES ASSUME Init PROVE IInv
  OBVIOUS
<1> USE DEF Init
<1>1. FlagTypes
  BY DEF FlagTypes, Phases
<1>2. NumberTypes
  BY LimitTypes DEF NumberTypes, Requests
<1>3. PortTypes
  BY DEF PortTypes
<1>4. CallInv /\ FlightInv /\ WordInv /\ PausedHasNoWorker
  BY DEF CallInv, Awaiting, FlightInv, OneRequestInFlight, WordInv, PausedHasNoWorker, Current
<1> QED
  BY <1>1, <1>2, <1>3, <1>4 DEF IInv

\* Every step keeps the control states and the flags.
LEMMA FlagStep == ASSUME FlagTypes, [Next]_vars PROVE FlagTypes'
<1> USE DEF FlagTypes, Phases, session, call, faults
<1>1. ASSUME Fail PROVE FlagTypes'
  BY <1>1 DEF Fail, GiveUp, NoSession, Session, RecordFailure
<1>2. CASE Worker
  BY <1>2 DEF Worker, Load, Serve, Signal, Exit, Die, Wake
<1>3. CASE Exchange
  BY <1>3 DEF Exchange, Attend, Spawn, Session
<1>4. CASE Send
  BY <1>1, <1>4 DEF Send, Post, Throw
<1>5. CASE Receive \/ Replied \/ Sleep \/ TimesOut
  BY <1>5 DEF Receive, Replied, Sleep, TimesOut
<1>6. CASE Loaded
  BY <1>1, <1>6 DEF Loaded
<1>7. CASE Check
  BY <1>1, <1>7 DEF Check, Throw
<1>8. CASE BeginCall \/ EndCall \/ GhostEnded \/ Tick
  BY <1>8 DEF BeginCall, EndCall, GhostEnded, Tick
<1>9. CASE WorkerEnded \/ Close
  BY <1>9 DEF WorkerEnded, Close, GiveUp, NoSession, Session, RecordFailure
<1>10. CASE UNCHANGED vars
  BY <1>10 DEF vars
<1> QED
  BY <1>2, <1>3, <1>4, <1>5, <1>6, <1>7, <1>8, <1>9, <1>10 DEF Next, Host

\* Every step keeps the counters, the times and the request ids in their range.
LEMMA NumberStep == ASSUME NumberTypes, [Next]_vars PROVE NumberTypes'
<1> USE LimitTypes DEF NumberTypes, Requests, session, call, faults
<1>1. ASSUME GiveUp, UNCHANGED <<awaited, seq, call>>,
             failures' \in 0 .. MaxFailures, pause' \in 0 .. CooldownMax
      PROVE  NumberTypes'
  BY <1>1 DEF GiveUp, NoSession, Session, Lesser
<1>2. ASSUME RecordFailure
      PROVE  failures' \in 0 .. MaxFailures /\ pause' \in 0 .. CooldownMax
  BY <1>2, PauseType DEF RecordFailure, Lesser
<1>3. ASSUME Fail PROVE NumberTypes'
  BY <1>1, <1>2, <1>3 DEF Fail
<1>4. CASE Worker
  <2>1. inbox' \subseteq inbox
        /\ UNCHANGED <<startLeft, left, pause, awaited, seq, failures, ghosts>>
    BY <1>4 DEF Worker, Load, Serve, Signal, Exit, Die, Wake
  <2> QED
    BY <2>1
<1>5. CASE Exchange
  <2>1. startLeft' \in 0 .. StartupLimit /\ inbox' \subseteq inbox
    BY <1>5 DEF Exchange, Attend, Spawn, Session
  <2>2. awaited' \in {awaited, 0}
    BY <1>5 DEF Exchange, Attend
  <2>3. UNCHANGED <<left, pause, seq, failures, ghosts>>
    BY <1>5 DEF Exchange, Attend
  <2> QED
    BY <2>1, <2>2, <2>3
<1>6. CASE Send
  <2>1. NextId \in Requests
    BY DEF NextId
  <2> QED
    BY <1>3, <1>6, <2>1 DEF Send, Post, Throw
<1>7. CASE Receive \/ Replied \/ Sleep \/ TimesOut
  BY <1>7 DEF Receive, Replied, Sleep, TimesOut
<1>8. CASE Loaded
  BY <1>3, <1>8 DEF Loaded
<1>9. CASE Check
  BY <1>3, <1>9 DEF Check, Throw
<1>10. CASE BeginCall \/ GhostEnded
  <2>1. left' \in 0 .. TimeLimit /\ ghosts' \in 0 .. MaxGhosts
    BY <1>10 DEF BeginCall, GhostEnded
  <2>2. UNCHANGED <<startLeft, inbox, pause, awaited, seq, failures>>
    BY <1>10 DEF BeginCall, GhostEnded
  <2> QED
    BY <2>1, <2>2
<1>11. CASE EndCall
  BY <1>11 DEF EndCall
<1>12. CASE Tick
  BY <1>12 DEF Tick, Less
<1>13. CASE WorkerEnded
  BY <1>2, <1>13 DEF WorkerEnded, NoSession, Session
<1>14. CASE Close
  BY <1>1, <1>14 DEF Close
<1>15. CASE UNCHANGED vars
  BY <1>15 DEF vars
<1> QED
  BY <1>4, <1>5, <1>6, <1>7, <1>8, <1>9, <1>10, <1>11, <1>12, <1>13, <1>14, <1>15
     DEF Next, Host

\* Only the worker adds replies.
LEMMA PortStep == ASSUME NumberTypes, PortTypes, [Next]_vars PROVE PortTypes'
<1> USE DEF PortTypes, session, call, faults
<1>1. ASSUME port' \subseteq port PROVE PortTypes'
  BY <1>1
<1>2. CASE Load
  <2>1. PICK ok \in BOOLEAN : port' = port \cup {[id |-> 0, ok |-> ok]}
    BY <1>2 DEF Load
  <2>2. 0 \in Requests
    BY LimitTypes DEF Requests
  <2>3. [id |-> 0, ok |-> ok] \in [id : Requests, ok : BOOLEAN]
    BY <2>2
  <2> QED
    BY <2>1, <2>3
<1>3. CASE Serve
  <2>1. PICK id \in inbox : port' = port \cup {[id |-> id, ok |-> TRUE]}
    BY <1>3 DEF Serve
  <2>2. id \in Requests
    BY <2>1 DEF NumberTypes
  <2>3. [id |-> id, ok |-> TRUE] \in [id : Requests, ok : BOOLEAN]
    BY <2>2
  <2> QED
    BY <2>1, <2>3
<1>4. CASE Signal \/ Exit \/ Die
  BY <1>4 DEF Signal, Exit, Die
<1>5. ASSUME Fail PROVE port' = {}
  BY <1>5 DEF Fail, GiveUp, NoSession, Session
<1>6. CASE Host
  BY <1>1, <1>5, <1>6
     DEF Host, Exchange, Attend, Spawn, Session, Send, Post, Throw, Receive, Loaded,
         Replied, Check, Sleep, TimesOut
<1>7. CASE BeginCall \/ EndCall \/ GhostEnded \/ Tick
  BY <1>7 DEF BeginCall, EndCall, GhostEnded, Tick
<1>8. CASE WorkerEnded \/ Close
  BY <1>1, <1>8 DEF WorkerEnded, Close, GiveUp, NoSession, Session
<1>9. CASE UNCHANGED vars
  BY <1>9 DEF vars
<1> QED
  BY <1>2, <1>3, <1>4, <1>6, <1>7, <1>8, <1>9 DEF Next, Worker

Protocol == CallInv /\ FlightInv /\ WordInv /\ PausedHasNoWorker

\* A failure leaves no worker behind.
LEMMA FailProtocol == ASSUME Fail PROVE Protocol'
BY DEF Protocol, Fail, GiveUp, NoSession, Session, CallInv, Awaiting, FlightInv,
       OneRequestInFlight, WordInv, PausedHasNoWorker, Current

\* A call that gives up without blaming the worker leaves nothing in flight.
LEMMA ThrowProtocol == ASSUME Protocol, Throw, pc = "send" \/ ~ready PROVE Protocol'
BY DEF Protocol, Throw, session, call, faults, CallInv, Awaiting, FlightInv,
       OneRequestInFlight, WordInv, PausedHasNoWorker, Current

\* Every step keeps the three parts about calls, flights and the word.
LEMMA ProtocolStep ==
    ASSUME FlagTypes, NumberTypes, PortTypes, Protocol, [Next]_vars PROVE Protocol'
<1> USE DEF session, call, faults, Protocol, CallInv, Awaiting, FlightInv,
            OneRequestInFlight, WordInv, PausedHasNoWorker, Current
<1>1. CASE Load
  BY <1>1 DEF Load
<1>2. CASE Serve
  <2>1. PICK id \in inbox :
          /\ inbox' = inbox \ {id}
          /\ port' = port \cup {[id |-> id, ok |-> TRUE]}
    BY <1>2 DEF Serve
  <2>2. id = awaited /\ inbox' = {}
    BY <2>1
  <2>3. \A m \in port' : m.id = awaited
    <3>1. \A m \in port : m.id = awaited
      OBVIOUS
    <3>2. [id |-> id, ok |-> TRUE].id = awaited
      BY <2>2
    <3> QED
      BY <2>1, <3>1, <3>2
  <2> QED
    BY <1>2, <2>1, <2>2, <2>3 DEF Serve
<1>3. CASE Signal
  BY <1>3 DEF Signal, Wake
<1>4. CASE Exit
  BY <1>4 DEF Exit, Wake
<1>5. CASE Die
  BY <1>5 DEF Die
<1>6. CASE BeginCall
  BY <1>6 DEF BeginCall
<1>7. CASE EndCall
  BY <1>7 DEF EndCall
<1>8. CASE Exchange
  <2>1. CASE Current
    BY <1>8, <2>1 DEF Exchange, Attend
  <2>2. CASE ~Current
    <3>1. Spawn /\ pc' = "receive" /\ awaited' = 0
      BY <1>8, <2>2 DEF Exchange, Attend, Spawn, Session
    <3> QED
      BY <1>8, <2>2, <3>1 DEF Exchange, Attend, Spawn, Session
  <2> QED
    BY <2>1, <2>2
<1>9. CASE Send
  <2>1. CASE Throw
    BY <1>9, <2>1, ThrowProtocol DEF Send
  <2>2. CASE Fail
    BY <2>2, FailProtocol
  <2>3. CASE left > 0 /\ signal # "exited" /\ signal' = "idle" /\ Post
    <3>1. NextId # 0
      BY LimitTypes DEF NextId, NumberTypes, Requests
    <3>2. inbox = {} /\ port = {} /\ ready /\ pc = "send"
      BY <1>9 DEF Send
    <3>3. inbox' = {NextId} /\ port' = {} /\ awaited' = NextId /\ seq' = NextId /\ pc' = "receive"
      BY <2>3, <3>2 DEF Post
    <3> QED
      BY <2>3, <3>1, <3>2, <3>3 DEF Post
  <2> QED
    BY <1>9, <2>1, <2>2, <2>3 DEF Send
<1>10. CASE Receive
  BY <1>10 DEF Receive, Received
<1>11. CASE Loaded
  <2>1. CASE Fail
    BY <2>1, FailProtocol
  <2>2. CASE ~Fail
    <3>1. /\ pc = "receive" /\ awaited = 0 /\ port # {}
          /\ port' = {} /\ ready' = TRUE /\ pc' = "send"
          /\ UNCHANGED <<awaited, seq, call, faults, phase, signal, inbox, startLeft, announced>>
      BY <1>11, <2>2 DEF Loaded, Received
    <3> QED
      BY <3>1
  <2> QED
    BY <2>1, <2>2
<1>12. CASE Replied
  BY <1>12 DEF Replied, Received
<1>13. CASE Check
  <2>1. CASE Fail
    BY <2>1, FailProtocol
  <2>2. CASE Throw /\ StillStarting
    <3>1. ~ready
      BY <1>13, <2>2 DEF Check, StillStarting
    <3> QED
      BY <2>2, <3>1, ThrowProtocol
  <2>3. CASE pc' = "wait" /\ UNCHANGED <<session, awaited, seq, call, faults>>
    BY <1>13, <2>3 DEF Check
  <2> QED
    BY <1>13, <2>1, <2>2, <2>3 DEF Check
<1>14. CASE Sleep
  BY <1>14 DEF Sleep
<1>15. CASE TimesOut
  BY <1>15 DEF TimesOut, WaitLeft
<1>16. CASE WorkerEnded
  BY <1>16 DEF WorkerEnded, NoSession, Session
<1>17. CASE GhostEnded
  BY <1>17 DEF GhostEnded
<1>18. CASE Close
  BY <1>18 DEF Close, GiveUp, NoSession, Session
<1>19. CASE Tick
  BY <1>19, LimitTypes DEF Tick, Less, NumberTypes
<1>20. CASE UNCHANGED vars
  BY <1>20 DEF vars
<1> QED
  BY <1>1, <1>2, <1>3, <1>4, <1>5, <1>6, <1>7, <1>8, <1>9, <1>10, <1>11, <1>12, <1>13, <1>14, <1>15, <1>16, <1>17, <1>18, <1>19, <1>20 DEF Next, Worker, Host

\* The invariant is inductive.
LEMMA NextIInv == IInv /\ [Next]_vars => IInv'
BY FlagStep, NumberStep, PortStep, ProtocolStep DEF IInv, Protocol

\* The invariant of the protocol between the host and its worker.
THEOREM IsolatedPackInvariant == Spec => []IInv
BY InitIInv, NextIInv, PTL DEF Spec

\* Types of host and worker, for all limits, pauses and bounds.
THEOREM IsolatedPackTypeOK == Spec => []TypeOK
<1>1. IInv => TypeOK
  BY DEF IInv, FlagTypes, NumberTypes, PortTypes, TypeOK
<1> QED
  BY <1>1, IsolatedPackInvariant, PTL

\* While a pause lasts there is no worker, for any limits and pauses.
THEOREM IsolatedPackPaused == Spec => []PausedHasNoWorker
<1>1. IInv => PausedHasNoWorker
  BY DEF IInv
<1> QED
  BY <1>1, IsolatedPackInvariant, PTL

\* No reply is ever taken for the answer to another request.
THEOREM IsolatedPackOneRequest == Spec => []OneRequestInFlight
<1>1. IInv => OneRequestInFlight
  BY DEF IInv, FlightInv
<1> QED
  BY <1>1, IsolatedPackInvariant, PTL

\* No wake-up is lost between the worker and the sleeping main thread.
THEOREM IsolatedPackNoLostWakeUp == Spec => []NoLostWakeUp
<1>1. IInv => NoLostWakeUp
  BY DEF IInv, FlagTypes, Phases, CallInv, WordInv, NoLostWakeUp, Received, Current
<1> QED
  BY <1>1, IsolatedPackInvariant, PTL

\* A pause starts only when the current worker is lost.
THEOREM IsolatedPackBlame == Spec => BlamesTheCurrent
<1>1. IInv /\ [Next]_vars => [pause' > pause => Current /\ phase' = "none"]_vars
  <2> SUFFICES ASSUME IInv, Next, pause' > pause PROVE Current /\ phase' = "none"
    OBVIOUS
  <2> USE DEF IInv, CallInv, Current, session, call, faults
  <2>1. pause' # pause
    BY DEF NumberTypes
  <2>2. CASE Fail /\ pc \in {"send", "receive", "check"}
    BY <2>2 DEF Fail, GiveUp, NoSession, Session
  <2>3. CASE WorkerEnded
    BY <2>3 DEF WorkerEnded, NoSession, Session
  <2>4. CASE Worker
    BY <2>1, <2>4 DEF Worker, Load, Serve, Signal, Exit, Die
  <2>5. CASE Host
    BY <2>1, <2>2, <2>5 DEF Host, Exchange, Attend, Send, Post, Throw, Receive, Loaded,
                            Replied, Check, Sleep, TimesOut
  <2>6. CASE BeginCall \/ EndCall \/ GhostEnded \/ Close
    BY <2>1, <2>6 DEF BeginCall, EndCall, GhostEnded, Close
  <2>7. CASE Tick
    BY <2>7 DEF Tick, Less, NumberTypes
  <2> QED
    BY <2>3, <2>4, <2>5, <2>6, <2>7 DEF Next
<1> QED
  BY <1>1, IsolatedPackInvariant, PTL DEF Spec, BlamesTheCurrent

\* A worker that is still loading is not given up before its startup limit.
THEOREM IsolatedPackStartup == Spec => StartupIsGranted
<1>1. IInv /\ [Next]_vars =>
        [pc # "idle" /\ phase = "loading" /\ phase' = "none" => startLeft = 0]_vars
  <2> SUFFICES ASSUME IInv, Next, pc # "idle", phase = "loading", phase' = "none"
               PROVE  startLeft = 0
    OBVIOUS
  <2> USE DEF IInv, CallInv, session, call, faults
  <2>1. ~ready /\ port = {} /\ awaited = 0 /\ signal # "exited" /\ pc # "send"
    BY DEF WordInv, Current
  <2>2. CASE Worker
    BY <2>2 DEF Worker, Load, Serve, Signal, Exit, Die
  <2>3. CASE Check
    <3>1. WaitLeft = 0 /\ ~StillStarting
      BY <2>1, <2>3 DEF Check, Throw
    <3> QED
      BY <2>1, <3>1 DEF StillStarting, NumberTypes
  <2>4. CASE Host /\ ~Check
    BY <2>1, <2>4 DEF Host, Exchange, Attend, Current, Send, Receive, Loaded, Received,
                      Replied, Sleep, TimesOut
  <2> QED
    BY <2>2, <2>3, <2>4 DEF Next, BeginCall, EndCall, WorkerEnded, GhostEnded, Close, Tick
<1> QED
  BY <1>1, IsolatedPackInvariant, PTL DEF Spec, StartupIsGranted

------------------------------------------------------------------------------
-----------------------------------------------------------------------------
\* The regular expression engine.

Answers == {"none", "unavailable", "error", "exact", "inexact"}
CallRecords ==
    [stage : {"idle", "waiting", "settled", "done"},
     request : N!Requests \cup {N!NoRequest},
     outcome : {"none", "rust", "typescript", "throws"},
     reports : {0, 1},
     answer : Answers]

RegexTypes ==
    /\ requests \in [Calls -> CallRecords]
    /\ mode \in {"auto", "rust", "typescript"}
    /\ binary \in BOOLEAN /\ child \in BOOLEAN /\ ref \in BOOLEAN

\* What is known of a call at each of its stages: one that reached the client has
\* no detour, and has not been reported before it ends.
CallExplained(rec) ==
    /\ rec.stage = "idle" => rec = N!NoCall
    /\ rec.stage \in {"waiting", "settled"} =>
          rec.reports = 0 /\ N!Detour(rec.request) = "none"
    /\ rec.stage = "done" =>
          /\ rec.outcome = "typescript" =>
                rec.reports = IF mode = "typescript" THEN 0 ELSE 1
          /\ rec.outcome = "rust" => rec.reports = 0

RegexInv ==
    /\ RegexTypes
    /\ N!HoldsTheLoop
    /\ \A c \in Calls : CallExplained(requests[c])

\* The steps of one call: it is made, its answer arrives or is given up, its
\* continuation runs.
Asked(c) ==
    LET over == requests'[c] IN
    /\ requests[c].stage = "idle"
    /\ over \in CallRecords /\ over.request \in N!Requests
    /\ \/ /\ N!Detour(over.request) # "none"
          /\ over.stage = "done"
          /\ over.outcome = N!typescript(over.request)
          /\ over.reports = IF N!Detour(over.request) = "reported" THEN 1 ELSE 0
       \/ /\ N!Detour(over.request) = "none"
          /\ over.stage \in {"waiting", "settled"}
          /\ over.reports = 0
Answered(c) ==
    LET over == requests'[c] IN
    /\ requests[c].stage = "waiting"
    /\ over \in CallRecords /\ over.stage = "settled"
    /\ over.request = requests[c].request /\ over.reports = requests[c].reports
Ended(c) ==
    LET over == requests'[c] IN
    /\ requests[c].stage = "settled"
    /\ over \in CallRecords /\ over.stage = "done"
    /\ over.request = requests[c].request
    /\ \/ over.outcome = "rust" /\ over.reports = requests[c].reports
       \/ over.outcome = N!typescript(over.request) /\ over.reports = 1
Stays(c) == requests'[c] = requests[c]

\* A data event settles some of the calls that wait, all of them when a frame
\* cannot be one, and gives the handles up only then.
DataEffect ==
    \E settled \in SUBSET N!pending, cut \in BOOLEAN :
      \E said \in [settled -> Answers] :
        LET told == [c \in Calls |->
                IF c \in settled
                THEN [requests[c] EXCEPT !.stage = "settled", !.answer = said[c]]
                ELSE requests[c]]
        IN  IF cut
            THEN /\ child' = FALSE /\ ref' = FALSE
                 /\ requests' = [c \in Calls |-> IF c \in N!pending \ settled
                                                 THEN N!Rejected[c] ELSE told[c]]
            ELSE requests' = told /\ UNCHANGED <<child, ref>>

LEMMA DataEventEffect == N!DataEvent => DataEffect
<1> SUFFICES ASSUME N!DataEvent PROVE DataEffect
  OBVIOUS
<1>1. PICK n \in 1 .. Len(stdout) :
        LET bytes == buffer \o SubSeq(stdout, 1, n)
            settled == {bytes[k].id : k \in N!Whole(bytes)} \cap N!pending
        IN  \E said \in [settled -> {"error", "exact", "inexact"}] :
              LET told == [c \in Calls |-> IF c \in settled
                       THEN [requests[c] EXCEPT !.stage = "settled", !.answer = said[c]]
                       ELSE requests[c]]
              IN  IF N!Contains(bytes, N!Short)
                  THEN /\ child' = FALSE
                       /\ ref' = FALSE
                       /\ requests' = [c \in Calls |->
                                IF c \in N!pending \ settled THEN N!Rejected[c]
                                ELSE told[c]]
                  ELSE requests' = told /\ UNCHANGED <<child, ref>>
  BY DEF N!DataEvent
<1> DEFINE bytes == buffer \o SubSeq(stdout, 1, n)
           settled == {bytes[k].id : k \in N!Whole(bytes)} \cap N!pending
           cut == N!Contains(bytes, N!Short)
<1> HIDE DEF bytes
<1>2. settled \in SUBSET N!pending
  OBVIOUS
<1>3. PICK said \in [settled -> {"error", "exact", "inexact"}] :
        LET told == [c \in Calls |-> IF c \in settled
                 THEN [requests[c] EXCEPT !.stage = "settled", !.answer = said[c]]
                 ELSE requests[c]]
        IN  IF cut
            THEN /\ child' = FALSE /\ ref' = FALSE
                 /\ requests' = [c \in Calls |->
                          IF c \in N!pending \ settled THEN N!Rejected[c]
                          ELSE told[c]]
            ELSE requests' = told /\ UNCHANGED <<child, ref>>
  BY <1>1 DEF bytes
<1>4. said \in [settled -> Answers]
  BY <1>3 DEF Answers
<1> HIDE DEF settled, cut
<1>5. CASE cut
  BY <1>2, <1>3, <1>4, <1>5 DEF DataEffect
<1>6. CASE ~cut
  BY <1>2, <1>3, <1>4, <1>6 DEF DataEffect
<1> QED
  BY <1>5, <1>6

\* What the end of a call on the JavaScript engine makes of its record.
LEMMA FallBackFields ==
    ASSUME NEW rec \in CallRecords, rec.reports = 0, NEW told \in BOOLEAN
    PROVE  LET over == N!FallBack(rec, told)
           IN  /\ over \in CallRecords
               /\ over.stage = "done"
               /\ over.request = rec.request
               /\ over.outcome = N!typescript(rec.request)
               /\ over.reports = IF told THEN 1 ELSE 0
<1>1. N!typescript(rec.request) \in {"typescript", "throws"}
  BY DEF N!typescript
<1>2. N!FallBack(rec, told) = [rec EXCEPT !.stage = "done",
                                         !.outcome = N!typescript(rec.request),
                                         !.reports = IF told THEN 1 ELSE 0]
  BY DEF N!FallBack, CallRecords
<1> QED
  BY <1>1, <1>2 DEF CallRecords

\* A call that is made finds the record of the start.
LEMMA AskedEffect ==
    ASSUME RegexInv, NEW c \in Calls, N!Find(c)
    PROVE  /\ Asked(c)
           /\ \/ UNCHANGED <<child, ref, server>> /\ requests'[c].stage # "waiting"
              \/ ref' = TRUE /\ requests'[c].stage # "done"
<1>1. /\ requests \in [Calls -> CallRecords]
      /\ requests[c].stage = "idle"
      /\ requests[c] = N!NoCall
  BY DEF RegexInv, RegexTypes, N!Find, CallExplained
<1>2. PICK r \in N!Requests :
        LET rec == [requests[c] EXCEPT !.request = r] IN
        \/ /\ N!Detour(r) # "none"
           /\ requests' = [requests EXCEPT ![c] = N!FallBack(rec, N!Detour(r) = "reported")]
           /\ UNCHANGED <<child, ref, server>>
        \/ /\ N!Detour(r) = "none"
           /\ \E s \in {"waiting", "settled"}, a \in Answers :
                /\ requests' = [requests EXCEPT ![c] = [rec EXCEPT !.stage = s, !.answer = a]]
                /\ ref' = TRUE \/ (s = "settled" /\ UNCHANGED <<child, ref, server>>)
  <2> DEFINE lost == engine' \in {"gone", "unborn"}
             stage == IF lost THEN "settled" ELSE "waiting"
             answer == IF lost THEN "unavailable" ELSE "none"
  <2>1. PICK r \in N!Requests :
        LET rec == [requests[c] EXCEPT !.request = r] IN
        \/ /\ N!Detour(r) # "none"
           /\ requests' = [requests EXCEPT ![c] = N!FallBack(rec, N!Detour(r) = "reported")]
           /\ UNCHANGED <<child, ref, server>>
        \/ /\ N!Detour(r) = "none"
           /\ requests' = [requests EXCEPT ![c] =
                [rec EXCEPT !.stage = "settled", !.answer = "unavailable"]]
           /\ UNCHANGED <<child, ref, server>>
        \/ /\ N!Detour(r) = "none"
           /\ requests' = [requests EXCEPT ![c] =
                [rec EXCEPT !.stage = stage, !.answer = answer]]
           /\ ref' = TRUE
    BY DEF N!Find
  <2>2. stage \in {"waiting", "settled"} /\ answer \in Answers /\ "unavailable" \in Answers
    BY DEF Answers
  <2> HIDE DEF stage, answer
  <2> QED
    BY <2>1, <2>2
<1> DEFINE rec == [requests[c] EXCEPT !.request = r]
<1>3. rec \in CallRecords /\ rec.reports = 0 /\ rec.request = r
  BY <1>1 DEF N!NoCall, CallRecords
<1> HIDE DEF rec
<1>4. CASE N!Detour(r) # "none"
  <2>1. PICK told \in BOOLEAN : told <=> N!Detour(r) = "reported"
    OBVIOUS
  <2>2. requests'[c] = N!FallBack(rec, N!Detour(r) = "reported")
    BY <1>1, <1>2, <1>4 DEF rec
  <2>3. N!FallBack(rec, N!Detour(r) = "reported") = N!FallBack(rec, told)
    BY <2>1 DEF N!FallBack
  <2>4. UNCHANGED <<child, ref, server>>
    BY <1>2, <1>4
  <2>5. Asked(c) /\ requests'[c].stage = "done"
    BY <1>1, <1>3, <1>4, <2>1, <2>2, <2>3, FallBackFields DEF Asked
  <2> QED
    BY <2>4, <2>5
<1>5. CASE N!Detour(r) = "none"
  <2>1. PICK s \in {"waiting", "settled"}, a \in Answers :
          /\ requests'[c] = [rec EXCEPT !.stage = s, !.answer = a]
          /\ ref' = TRUE \/ (s = "settled" /\ UNCHANGED <<child, ref, server>>)
    BY <1>1, <1>2, <1>5 DEF rec
  <2> QED
    BY <1>1, <1>3, <1>5, <2>1 DEF Asked, CallRecords
<1> QED
  BY <1>4, <1>5

\* The continuation of a call that reached the client.
LEMMA EndedEffect ==
    ASSUME RegexInv, NEW c \in Calls, N!Continue(c) PROVE Ended(c)
<1>1. /\ requests \in [Calls -> CallRecords]
      /\ requests[c].stage = "settled" /\ requests[c].reports = 0
      /\ requests[c] \in CallRecords
  BY DEF RegexInv, RegexTypes, N!Continue, CallExplained
<1>2. CASE requests[c].answer = "exact"
  <2>1. requests'[c] = [requests[c] EXCEPT !.stage = "done", !.outcome = "rust"]
    BY <1>1, <1>2 DEF N!Continue
  <2> QED
    BY <1>1, <2>1 DEF Ended, CallRecords
<1>3. CASE requests[c].answer # "exact"
  <2>1. requests'[c] = N!FallBack(requests[c], TRUE)
    BY <1>1, <1>3 DEF N!Continue
  <2>2. PICK told \in BOOLEAN : told
    OBVIOUS
  <2>3. N!FallBack(requests[c], TRUE) = N!FallBack(requests[c], told)
    BY <2>2 DEF N!FallBack
  <2> DEFINE over == N!FallBack(requests[c], told)
  <2>4. over \in CallRecords /\ over.stage = "done" /\ over.reports = 1
          /\ over.request = requests[c].request
          /\ over.outcome = N!typescript(requests[c].request)
    BY <1>1, <2>2, FallBackFields
  <2> QED
    BY <1>1, <2>1, <2>3, <2>4 DEF Ended
<1> QED
  BY <1>2, <1>3

\* A rejected request keeps what it asked.
LEMMA AnsweredEffect ==
    ASSUME RegexTypes, NEW c \in Calls, requests[c].stage = "waiting", NEW a \in Answers,
           requests'[c] = [requests[c] EXCEPT !.stage = "settled", !.answer = a]
    PROVE  Answered(c)
BY DEF RegexTypes, CallRecords, Answered

\* Settling a call, in whatever way, ends its wait.
LEMMA SettledStage ==
    ASSUME NEW rec \in CallRecords, NEW a
    PROVE  [rec EXCEPT !.stage = "settled", !.answer = a].stage = "settled"
BY DEF CallRecords
LEMMA RejectedStage ==
    ASSUME RegexTypes, NEW c \in Calls PROVE N!Rejected[c].stage # "waiting"
BY SettledStage DEF RegexTypes, N!Rejected, N!pending

\* Whatever happens, a call takes one of its own steps or stays as it was.
LEMMA CallStep ==
    ASSUME RegexInv, [N!Next]_(N!vars), NEW c \in Calls
    PROVE  Stays(c) \/ Asked(c) \/ Answered(c) \/ Ended(c)
<1> USE DEF RegexInv, RegexTypes
<1>1. ASSUME NEW d \in Calls, N!Find(d) PROVE Stays(c) \/ Asked(c)
  <2>1. CASE d # c
    BY <1>1, <2>1 DEF N!Find, Stays
  <2> QED
    BY <1>1, <2>1, AskedEffect
<1>2. ASSUME NEW d \in Calls, N!Continue(d) PROVE Stays(c) \/ Ended(c)
  <2>1. CASE d # c
    BY <1>2, <2>1 DEF N!Continue, Stays
  <2> QED
    BY <1>2, <2>1, EndedEffect
<1>3. ASSUME N!kill PROVE Stays(c) \/ Answered(c)
  BY <1>3, AnsweredEffect DEF N!kill, N!Rejected, N!pending, Stays, Answers
<1>4. ASSUME N!DataEvent PROVE Stays(c) \/ Answered(c)
  BY <1>4, DataEventEffect, AnsweredEffect DEF DataEffect, N!Rejected, N!pending, Stays, Answers
<1>5. CASE \E d \in Calls : N!Find(d) \/ N!Continue(d) \/ N!Timeout(d)
  BY <1>1, <1>2, <1>3, <1>5 DEF N!Timeout
<1>6. CASE N!DataEvent \/ N!ExitEvent
  BY <1>3, <1>4, <1>6 DEF N!ExitEvent
<1>7. CASE N!Serves \/ N!Misbehaves \/ N!Done \/ UNCHANGED N!vars
  BY <1>7 DEF N!Serves, N!Misbehaves, N!Done, N!vars, Stays
<1> QED
  BY <1>5, <1>6, <1>7 DEF N!Next

\* The mode and the binary are what the process started with.
LEMMA Settings == ASSUME [N!Next]_(N!vars) PROVE UNCHANGED <<mode, binary>>
BY DEF N!Next, N!vars, N!Find, N!Continue, N!Timeout, N!DataEvent, N!ExitEvent, N!Serves,
       N!Misbehaves, N!Done

LEMMA RegexTypesStep ==
    ASSUME RegexInv, [N!Next]_(N!vars) PROVE RegexTypes'
<1> USE DEF RegexInv, RegexTypes
<1>1. requests' = [c \in Calls |-> requests'[c]]
  <2> DEFINE IsFunction == requests' = [c \in Calls |-> requests'[c]]
  <2>1. ASSUME N!kill PROVE IsFunction
    BY <2>1 DEF N!kill, N!Rejected
  <2>2. CASE \E c \in Calls : N!Find(c) \/ N!Continue(c) \/ N!Timeout(c)
    BY <2>1, <2>2 DEF N!Find, N!Continue, N!Timeout
  <2>3. CASE N!DataEvent \/ N!ExitEvent
    BY <2>1, <2>3, DataEventEffect DEF DataEffect, N!ExitEvent
  <2>4. CASE N!Serves \/ N!Misbehaves \/ N!Done \/ UNCHANGED N!vars
    BY <2>4 DEF N!Serves, N!Misbehaves, N!Done, N!vars
  <2> QED
    BY <2>2, <2>3, <2>4 DEF N!Next
<1>2. ASSUME NEW c \in Calls PROVE requests'[c] \in CallRecords
  BY CallStep DEF Stays, Asked, Answered, Ended
<1>3. requests' \in [Calls -> CallRecords]
  BY <1>1, <1>2
<1>4. child' \in BOOLEAN /\ ref' \in BOOLEAN
  <2>1. ASSUME N!kill PROVE child' \in BOOLEAN /\ ref' \in BOOLEAN
    BY <2>1 DEF N!kill, N!setRef
  <2>2. CASE \E c \in Calls : N!Find(c) \/ N!Continue(c) \/ N!Timeout(c)
    BY <2>1, <2>2 DEF N!Find, N!Continue, N!Timeout, N!settle, N!setRef
  <2>3. CASE N!DataEvent \/ N!ExitEvent
    BY <2>1, <2>3, DataEventEffect DEF DataEffect, N!ExitEvent
  <2>4. CASE N!Serves \/ N!Misbehaves \/ N!Done \/ UNCHANGED N!vars
    BY <2>4 DEF N!Serves, N!Misbehaves, N!Done, N!vars
  <2> QED
    BY <2>2, <2>3, <2>4 DEF N!Next
<1> QED
  BY <1>3, <1>4, Settings

\* Every step of a call keeps what is known of it.
LEMMA ExplainedStep ==
    ASSUME RegexInv, [N!Next]_(N!vars), NEW c \in Calls
    PROVE  CallExplained(requests[c])'
<1>1. requests[c] \in CallRecords /\ CallExplained(requests[c])
  BY DEF RegexInv, RegexTypes
<1> USE Settings DEF CallExplained
<1>2. CASE Stays(c)
  BY <1>1, <1>2 DEF Stays, N!Detour, N!Untranslatable, N!NoEngine
<1>3. CASE Asked(c)
  <2>1. N!Detour(requests[c].request)' = N!Detour(requests'[c].request)
    BY DEF N!Detour, N!Untranslatable, N!NoEngine
  <2>2. ASSUME NEW r PROVE N!typescript(r) # "rust"
    BY DEF N!typescript
  <2>3. ASSUME NEW r, N!typescript(r) = "typescript", N!Detour(r) # "none"
        PROVE  N!Detour(r) = IF mode = "typescript" THEN "silent" ELSE "reported"
    BY <2>3 DEF N!typescript, N!Detour
  <2> QED
    BY <1>3, <2>1, <2>2, <2>3 DEF Asked
<1>4. CASE Answered(c)
  BY <1>1, <1>4 DEF Answered, N!Detour, N!Untranslatable, N!NoEngine
<1>5. CASE Ended(c)
  <2>1. requests[c].reports = 0 /\ N!Detour(requests[c].request) = "none"
    BY <1>1, <1>5 DEF Ended
  <2>2. mode # "typescript" /\ N!typescript(requests[c].request) = "typescript"
    BY <2>1 DEF N!Detour, N!typescript
  <2> QED
    BY <1>5, <2>1, <2>2 DEF Ended
<1> QED
  BY <1>2, <1>3, <1>4, <1>5, CallStep DEF RegexInv

\* The handles: a request holds them, its end releases them when it is the last, and
\* giving the helper up releases them whatever waits.
LEMMA HandlesStep ==
    ASSUME RegexInv, [N!Next]_(N!vars) PROVE N!HoldsTheLoop'
<1>1. N!HoldsTheLoop /\ child \in BOOLEAN /\ ref \in BOOLEAN
        /\ \A c \in Calls : requests[c] \in CallRecords
  BY DEF RegexInv, RegexTypes
<1>2. ASSUME NEW c \in Calls
      PROVE  \/ Stays(c) \/ Asked(c) \/ Answered(c) \/ Ended(c)
  BY CallStep
<1> USE DEF N!HoldsTheLoop, N!pending, N!Quiet
<1>3. ASSUME N!kill, UNCHANGED server PROVE N!HoldsTheLoop'
  <2>1. CASE dead
    BY <1>1, <1>3, <2>1 DEF N!kill
  <2>2. CASE ~dead
    <3>1. child' = FALSE
      BY <1>3, <2>2 DEF N!kill
    <3>2. ASSUME NEW c \in Calls PROVE requests'[c].stage # "waiting"
      BY <1>3, <2>2, RejectedStage DEF N!kill, RegexInv
    <3> QED
      BY <3>1, <3>2
  <2> QED
    BY <2>1, <2>2
<1>4. ASSUME NEW c \in Calls, N!Find(c) PROVE N!HoldsTheLoop'
  <2>1. /\ Asked(c)
        /\ \/ UNCHANGED <<child, ref, server>> /\ requests'[c].stage # "waiting"
           \/ ref' = TRUE /\ requests'[c].stage # "done"
    BY <1>4, AskedEffect
  <2>2. ASSUME NEW d \in Calls, d # c PROVE requests'[d] = requests[d]
    BY <1>4, <2>2 DEF N!Find, RegexInv, RegexTypes
  <2>3. N!Quiet
    BY <1>4 DEF N!Find
  <2> QED
    BY <1>1, <2>1, <2>2, <2>3 DEF Asked
<1>5. ASSUME NEW c \in Calls, N!Continue(c) PROVE N!HoldsTheLoop'
  <2>1. ASSUME NEW d \in Calls PROVE requests'[d].stage = "waiting" <=> requests[d].stage = "waiting"
    BY <1>5, EndedEffect DEF N!Continue, RegexInv, RegexTypes, Ended
  <2> QED
    BY <1>1, <1>5, <2>1 DEF N!Continue, N!settle, N!setRef
<1>6. ASSUME N!DataEvent PROVE N!HoldsTheLoop'
  <2>1. UNCHANGED server /\ N!Quiet
    BY <1>6 DEF N!DataEvent
  <2>2. PICK settled \in SUBSET N!pending, cut \in BOOLEAN :
          \E said \in [settled -> Answers] :
          LET told == [c \in Calls |->
                IF c \in settled
                THEN [requests[c] EXCEPT !.stage = "settled", !.answer = said[c]]
                ELSE requests[c]]
          IN  IF cut
              THEN /\ child' = FALSE /\ ref' = FALSE
                   /\ requests' = [c \in Calls |-> IF c \in N!pending \ settled
                                                   THEN N!Rejected[c] ELSE told[c]]
              ELSE requests' = told /\ UNCHANGED <<child, ref>>
    BY <1>6, DataEventEffect DEF DataEffect
  <2>3. CASE cut
    <3>1. child' = FALSE
      BY <2>2, <2>3
    <3>2. ASSUME NEW c \in Calls PROVE requests'[c].stage # "waiting"
      <4>1. PICK a : requests'[c] = IF c \in N!pending \ settled THEN N!Rejected[c]
                 ELSE IF c \in settled
                 THEN [requests[c] EXCEPT !.stage = "settled", !.answer = a]
                 ELSE requests[c]
        BY <2>2, <2>3
      <4> QED
        BY <1>1, <4>1, SettledStage, RejectedStage DEF RegexInv
    <3> QED
      BY <3>1, <3>2
  <2>4. CASE ~cut
    <3>1. UNCHANGED <<child, ref>>
      BY <2>2, <2>4
    <3>2. ASSUME NEW c \in settled PROVE requests'[c].stage = "settled"
      <4>1. PICK a : requests'[c] = [requests[c] EXCEPT !.stage = "settled", !.answer = a]
        BY <2>2, <2>4
      <4> QED
        BY <1>1, <4>1, SettledStage
    <3>3. ASSUME NEW c \in Calls, c \notin settled PROVE requests'[c] = requests[c]
      BY <2>2, <2>4, <3>3
    <3> QED
      BY <1>1, <2>1, <3>1, <3>2, <3>3
  <2> QED
    BY <2>3, <2>4
<1>7. CASE \E c \in Calls : N!Find(c) \/ N!Continue(c) \/ N!Timeout(c)
  BY <1>3, <1>4, <1>5, <1>7 DEF N!Timeout
<1>8. CASE N!DataEvent \/ N!ExitEvent
  BY <1>3, <1>6, <1>8 DEF N!ExitEvent
<1>9. CASE N!Serves \/ N!Misbehaves \/ N!Done \/ UNCHANGED N!vars
  BY <1>1, <1>9 DEF N!Serves, N!Misbehaves, N!Done, N!vars
<1> QED
  BY <1>7, <1>8, <1>9 DEF N!Next

LEMMA RegexInit == N!Init => RegexInv
<1> SUFFICES ASSUME N!Init PROVE RegexInv
  OBVIOUS
<1>1. N!NoCall \in CallRecords /\ N!NoCall.stage = "idle"
  BY DEF N!NoCall, CallRecords, Answers
<1>2. RegexTypes
  BY <1>1 DEF N!Init, RegexTypes
<1>3. \A c \in Calls : requests[c] = N!NoCall
  BY DEF N!Init
<1>4. N!HoldsTheLoop
  BY <1>1, <1>3 DEF N!Init, N!HoldsTheLoop, N!pending
<1>5. \A c \in Calls : CallExplained(requests[c])
  BY <1>1, <1>3 DEF CallExplained
<1> QED
  BY <1>2, <1>4, <1>5 DEF RegexInv

LEMMA RegexStep == RegexInv /\ [N!Next]_(N!vars) => RegexInv'
BY RegexTypesStep, HandlesStep, ExplainedStep DEF RegexInv

-----------------------------------------------------------------------------
\* The sandboxed packs.

\* What the helper may say of a call: what its guest returned, or why there is
\* nothing to return.
Faults == {"unavailable", "out_of_fuel", "timeout", "out_of_memory", "trapped"}
Said(n) == Faults \cup X!Returns(asked[n])

SandboxTypes ==
    /\ calls \in Nat /\ waiting \in BOOLEAN
    /\ waiting => calls \in X!N
    /\ asked \in [X!N -> X!Requests \cup {X!NoRequest}]
    /\ dir \in [X!N -> {"none", "there", "emptied", "removed", "left"}]
    /\ response = [n \in X!N |-> response[n]]
    /\ result = [n \in X!N |-> result[n]]
    /\ doing \in 0 .. calls /\ (doing = 0 \/ doing \in X!N)
    /\ stdin \in Seq(X!N)
    /\ \A k \in 1 .. Len(stdin) : stdin[k] <= calls

\* The helper takes the calls in the order in which they were made.
InOrder ==
    /\ \A k \in 1 .. Len(stdin) : doing < stdin[k]
    /\ \A j, k \in 1 .. Len(stdin) : j < k => stdin[j] < stdin[k]

\* The helper has still to do with the call.
Ahead(n) == n = doing \/ \E k \in 1 .. Len(stdin) : stdin[k] = n

\* Only the call the server is in has a directory that is not done with, and only
\* where there is one a response can lie. A whole response, or an answer, is the
\* last the helper had to do with the call, so a response that comes when its
\* directory is being removed is that of a call that was given up.
Remains ==
    \A n \in X!N :
        /\ dir[n] \in {"there", "emptied"} => waiting /\ n = calls
        /\ dir[n] = "emptied" => result[n] # "none" /\ (response[n] # "none" => result[n] = "error")
        /\ dir[n] = "left" => result[n] = "error"
        /\ response[n] # "none" => dir[n] \in {"there", "emptied", "left"}
        /\ Ahead(n) => response[n] \in {"none", "started"} /\ result[n] \in {"none", "error"}

\* What the helper works at, what it wrote and what the server made of it belong
\* to the call they are filed under; nothing is filed under a call not made yet.
Belongs ==
    /\ outcome = "none" \/ (doing # 0 /\ outcome \in Said(doing))
    /\ \A n \in X!N :
         /\ response[n] \in {"none", "started"} \cup Said(n)
         /\ result[n] \in {"none", "error"} \cup {X!Verdict(o) : o \in X!Returns(asked[n])}
         /\ n > calls => result[n] = "none" /\ response[n] = "none"

SandboxInv == SandboxTypes /\ InOrder /\ Remains /\ Belongs

\* The host takes a fault for an error, whatever the guest was asked.
LEMMA FaultsAreErrors ==
    ASSUME NEW n, NEW said \in Said(n)
    PROVE  X!Verdict(said) \in {"none", "error"} \cup {X!Verdict(o) : o \in X!Returns(asked[n])}
<1>1. CASE said \in Faults
  BY <1>1 DEF Faults, X!Verdict, X!Values
<1>2. CASE said \in X!Returns(asked[n])
  BY <1>2
<1> QED
  BY <1>1, <1>2 DEF Said

\* What the helper makes of a request is what its guest returned, or a fault.
LEMMA OutcomesAreSaid == ASSUME NEW n PROVE X!Outcomes(n) \subseteq Said(n)
<1>1. ASSUME NEW t PROVE X!classify(t) \in Faults
  BY DEF X!classify, Faults
<1> QED
  BY <1>1 DEF X!Outcomes, Said, Faults

LEMMA SandboxInit == X!Init => SandboxInv
<1> SUFFICES ASSUME X!Init PROVE SandboxInv
  OBVIOUS
<1> USE DEF X!Init
<1>1. SandboxTypes
  <2>1. stdin \in Seq(X!N) /\ \A k \in 1 .. Len(stdin) : stdin[k] <= calls
    OBVIOUS
  <2>2. /\ asked \in [X!N -> X!Requests \cup {X!NoRequest}]
        /\ dir \in [X!N -> {"none", "there", "emptied", "removed", "left"}]
        /\ response = [n \in X!N |-> response[n]]
        /\ result = [n \in X!N |-> result[n]]
    OBVIOUS
  <2>3. calls \in Nat /\ doing \in 0 .. calls /\ doing = 0 /\ waiting = FALSE
    OBVIOUS
  <2> QED
    BY <2>1, <2>2, <2>3 DEF SandboxTypes
<1>2. InOrder /\ Remains
  BY DEF InOrder, Remains, Ahead, X!N
<1>3. Belongs
  BY DEF Belongs
<1> QED
  BY <1>1, <1>2, <1>3 DEF SandboxInv

\* A call is filed under the next number.
LEMMA CallKeeps == SandboxInv /\ X!Call => SandboxInv'
<1> SUFFICES ASSUME SandboxInv, X!Call PROVE SandboxInv'
  OBVIOUS
<1> USE MCHelpersAssumption DEF SandboxInv, X!DirOf, X!N
<1>1. /\ calls' = calls + 1 /\ calls + 1 \in X!N /\ calls \in Nat
      /\ ~waiting
      /\ UNCHANGED <<doing, outcome, response>>
      /\ asked' \in [X!N -> X!Requests \cup {X!NoRequest}]
      /\ \A n \in X!N : n # calls + 1 => asked'[n] = asked[n]
  BY DEF X!Call, SandboxTypes
<1>2. \/ /\ UNCHANGED <<stdin, waiting, dir>>
         /\ result' = [result EXCEPT ![calls + 1] = "error"]
      \/ /\ stdin' = Append(stdin, calls + 1) /\ waiting' = TRUE
         /\ dir' = [dir EXCEPT ![calls + 1] = "there"] /\ UNCHANGED result
  BY DEF X!Call
<1>3. SandboxTypes'
  <2>1. stdin' \in Seq(X!N) /\ \A k \in 1 .. Len(stdin') : stdin'[k] <= calls'
    <3>1. CASE UNCHANGED stdin
      BY <1>1, <3>1 DEF SandboxTypes
    <3>2. CASE stdin' = Append(stdin, calls + 1)
      BY <1>1, <3>2 DEF SandboxTypes
    <3> QED
      BY <1>2, <3>1, <3>2
  <2>2. /\ dir' \in [X!N -> {"none", "there", "emptied", "removed", "left"}]
        /\ result' = [n \in X!N |-> result'[n]]
        /\ waiting' \in BOOLEAN
    BY <1>1, <1>2 DEF SandboxTypes
  <2>3. response' = [n \in X!N |-> response'[n]]
    BY <1>1 DEF SandboxTypes
  <2>4. /\ calls' \in Nat /\ calls' \in X!N
        /\ doing' \in 0 .. calls' /\ (doing' = 0 \/ doing' \in X!N)
    BY <1>1 DEF SandboxTypes
  <2> QED
    BY <1>1, <2>1, <2>2, <2>3, <2>4 DEF SandboxTypes
<1>4. InOrder' /\ Remains'
  <2>1. /\ \A k \in 1 .. Len(stdin) : stdin[k] \in X!N /\ stdin[k] <= calls
        /\ stdin \in Seq(X!N) /\ doing <= calls /\ doing \in Nat
    BY <1>1 DEF SandboxTypes
  <2>2. ASSUME stdin' = Append(stdin, calls + 1)
        PROVE  InOrder' /\ \A n \in X!N : Ahead(n)' => Ahead(n) \/ n = calls + 1
    <3>1. /\ Len(stdin') = Len(stdin) + 1 /\ stdin'[Len(stdin) + 1] = calls + 1
          /\ \A k \in 1 .. Len(stdin) : stdin'[k] = stdin[k]
      BY <2>1, <2>2
    <3>2. InOrder'
      <4>1. ASSUME NEW k \in 1 .. Len(stdin') PROVE k \in 1 .. Len(stdin) \/ k = Len(stdin) + 1
        BY <2>1, <3>1
      <4>2. ASSUME NEW k \in 1 .. Len(stdin') PROVE doing' < stdin'[k]
        BY <1>1, <2>1, <3>1, <4>1 DEF InOrder
      <4>3. ASSUME NEW j \in 1 .. Len(stdin'), NEW k \in 1 .. Len(stdin'), j < k
            PROVE  stdin'[j] < stdin'[k]
        <5>1. j \in 1 .. Len(stdin)
          BY <2>1, <3>1, <4>3
        <5>2. CASE k \in 1 .. Len(stdin)
          BY <3>1, <4>3, <5>1, <5>2 DEF InOrder
        <5>3. CASE k = Len(stdin) + 1
          BY <1>1, <2>1, <3>1, <5>1, <5>3
        <5> QED
          BY <4>1, <5>2, <5>3
      <4> QED
        BY <4>2, <4>3 DEF InOrder
    <3>3. \A n \in X!N : Ahead(n)' => Ahead(n) \/ n = calls + 1
      BY <1>1, <3>1 DEF Ahead
    <3> QED
      BY <3>2, <3>3
  <2>3. ASSUME UNCHANGED stdin
        PROVE  InOrder' /\ \A n \in X!N : Ahead(n)' => Ahead(n) \/ n = calls + 1
    BY <1>1, <2>3 DEF InOrder, Ahead
  <2>4. InOrder' /\ \A n \in X!N : Ahead(n)' => Ahead(n) \/ n = calls + 1
    BY <1>2, <2>2, <2>3
  <2>5. ASSUME NEW n \in X!N, n # calls + 1
        PROVE  /\ dir'[n] = dir[n] /\ response'[n] = response[n] /\ result'[n] = result[n]
               /\ dir[n] \notin {"there", "emptied"} /\ (Ahead(n)' => Ahead(n))
    BY <1>1, <1>2, <2>4, <2>5 DEF SandboxTypes, Remains
  <2>6. ASSUME NEW n \in X!N, n = calls + 1
        PROVE  /\ response'[n] = "none" /\ result'[n] \in {"none", "error"}
               /\ \/ dir'[n] = "there" /\ waiting' /\ n = calls'
                  \/ dir'[n] \notin {"there", "emptied"} /\ result'[n] = "error"
    <3>1. response[n] = "none" /\ result[n] = "none" /\ dir[n] \notin {"there", "emptied"}
      BY <1>1, <2>6 DEF Belongs, Remains
    <3> QED
      BY <1>1, <1>2, <2>6, <3>1 DEF SandboxTypes
  <2>7. Remains'
    BY <2>5, <2>6 DEF Remains
  <2> QED
    BY <2>4, <2>7
<1>5. Belongs'
  <2>1. ASSUME NEW n \in X!N, n # calls + 1 PROVE Said(n)' = Said(n)
    BY <1>1, <2>1 DEF Said, X!Returns
  <2>2. outcome' = "none" \/ (doing' # 0 /\ outcome' \in Said(doing)')
    <3>1. CASE outcome # "none"
      <4>1. doing \in X!N /\ doing # calls + 1 /\ doing' = doing
        BY <1>1, <3>1 DEF Belongs, SandboxTypes
      <4>2. asked'[doing'] = asked[doing]
        BY <1>1, <4>1
      <4>3. outcome' \in Said(doing)
        BY <1>1, <3>1 DEF Belongs
      <4> QED
        BY <4>1, <4>2, <4>3 DEF Said
    <3> QED
      BY <1>1, <3>1
  <2>3. ASSUME NEW n \in X!N
        PROVE  /\ response'[n] \in {"none", "started"} \cup Said(n)'
               /\ result'[n] \in {"none", "error"} \cup {X!Verdict(o) : o \in X!Returns(asked'[n])}
               /\ n > calls' => result'[n] = "none" /\ response'[n] = "none"
    <3>1. CASE n = calls + 1
      BY <1>1, <1>2, <3>1 DEF Belongs, SandboxTypes
    <3>2. CASE n # calls + 1
      BY <1>1, <1>2, <2>1, <3>2 DEF Belongs, SandboxTypes
    <3> QED
      BY <3>1, <3>2
  <2> QED
    BY <2>2, <2>3 DEF Belongs
<1> QED
  BY <1>3, <1>4, <1>5

\* The end of a call files a verdict on what was said of it.
LEMMA EndKeeps == SandboxInv /\ (X!Poll \/ X!GiveUp) => SandboxInv'
<1> SUFFICES ASSUME SandboxInv, X!Poll \/ X!GiveUp PROVE SandboxInv'
  OBVIOUS
<1> USE DEF SandboxInv, X!DirOf
<1>1. /\ waiting /\ waiting' = TRUE /\ calls \in X!N /\ result[calls] = "none"
      /\ UNCHANGED <<calls, asked, doing, outcome, stdin, dir>>
      /\ response' = [response EXCEPT ![calls] = "none"]
  <2>1. response[calls] = "none" => response = [response EXCEPT ![calls] = "none"]
    BY DEF SandboxTypes
  <2> QED
    BY <2>1 DEF X!Poll, X!GiveUp, X!Polls, X!End, SandboxTypes
<1>2. PICK verdict \in {"none", "error"} \cup {X!Verdict(o) : o \in X!Returns(asked[calls])} :
        /\ result' = [result EXCEPT ![calls] = verdict]
        /\ Ahead(calls) => verdict = "error"
  <2>1. CASE X!GiveUp
    BY <2>1 DEF X!GiveUp, X!End
  <2>2. CASE X!Poll
    <3>1. response[calls] = "started" \/ response[calls] \in Said(calls)
      BY <1>1, <2>2 DEF X!Poll, Belongs
    <3>2. Ahead(calls) => response[calls] = "started"
      BY <1>1, <2>2 DEF X!Poll, Remains
    <3> QED
      BY <2>2, <3>1, <3>2, FaultsAreErrors DEF X!Poll, X!End
  <2> QED
    BY <2>1, <2>2
<1>3. SandboxTypes'
  BY <1>1, <1>2 DEF SandboxTypes
<1>4. InOrder' /\ Remains'
  <2>1. InOrder' /\ \A n \in X!N : Ahead(n)' <=> Ahead(n)
    BY <1>1 DEF InOrder, Ahead
  <2>2. ASSUME NEW n \in X!N, n # calls
        PROVE  response'[n] = response[n] /\ result'[n] = result[n]
    BY <1>1, <1>2, <2>2 DEF SandboxTypes
  <2>3. response'[calls] = "none" /\ (Ahead(calls) => result'[calls] = "error")
    BY <1>1, <1>2 DEF SandboxTypes
  <2>4. dir[calls] \notin {"emptied", "left"}
    BY <1>1 DEF Remains
  <2>5. Remains'
    BY <1>1, <2>1, <2>2, <2>3, <2>4 DEF Remains
  <2> QED
    BY <2>1, <2>5
<1>5. Belongs'
  <2>1. ASSUME NEW n \in X!N
        PROVE  /\ response'[n] \in {"none", "started"} \cup Said(n)
               /\ result'[n] \in {"none", "error"} \cup {X!Verdict(o) : o \in X!Returns(asked[n])}
               /\ n > calls => result'[n] = "none" /\ response'[n] = "none"
    <3>1. CASE n = calls
      BY <1>1, <1>2, <3>1 DEF SandboxTypes
    <3>2. CASE n # calls
      BY <1>1, <1>2, <3>2 DEF Belongs, SandboxTypes
    <3> QED
      BY <3>1, <3>2
  <2>2. outcome' = "none" \/ (doing' # 0 /\ outcome' \in Said(doing'))
    BY <1>1 DEF Belongs
  <2> QED
    BY <1>1, <2>1, <2>2 DEF Belongs, Said
<1> QED
  BY <1>3, <1>4, <1>5

\* The directory goes in two steps, and stays where a response came between them.
LEMMA RemovalKeeps == SandboxInv /\ (X!Empties \/ X!Removes) => SandboxInv'
<1> SUFFICES ASSUME SandboxInv, X!Empties \/ X!Removes PROVE SandboxInv'
  OBVIOUS
<1> USE DEF SandboxInv, X!DirOf
<1>1. /\ waiting /\ calls \in X!N /\ UNCHANGED <<calls, asked, doing, outcome, stdin, result>>
      /\ \A n \in X!N : Said(n)' = Said(n)
      /\ \A n \in X!N : Ahead(n)' <=> Ahead(n)
  BY DEF X!Empties, X!Removes, SandboxTypes, Said, Ahead
<1>2. CASE X!Empties
  <2>1. /\ UNCHANGED waiting /\ result[calls] # "none"
        /\ dir' = [dir EXCEPT ![calls] = "emptied"]
        /\ response' = [response EXCEPT ![calls] = "none"]
    BY <1>2 DEF X!Empties, X!Polls
  <2> QED
    BY <1>1, <2>1 DEF SandboxTypes, InOrder, Remains, Belongs
<1>3. CASE X!Removes
  <2>1. /\ waiting' = FALSE /\ UNCHANGED response /\ dir[calls] = "emptied"
        /\ dir' = [dir EXCEPT ![calls] = IF response[calls] = "none" THEN "removed" ELSE "left"]
    BY <1>3 DEF X!Removes
  <2> QED
    BY <1>1, <2>1 DEF SandboxTypes, InOrder, Remains, Belongs
<1> QED
  BY <1>2, <1>3

\* The helper files what it writes under the call it took.
LEMMA HelperKeeps ==
    SandboxInv /\ (X!Takes \/ X!Runs \/ X!Responds \/ X!Dies) => SandboxInv'
<1> SUFFICES ASSUME SandboxInv, X!Takes \/ X!Runs \/ X!Responds \/ X!Dies PROVE SandboxInv'
  OBVIOUS
<1> USE DEF SandboxInv, X!DirOf
<1>1. UNCHANGED <<calls, waiting, asked, dir, result>>
  BY DEF X!Takes, X!Runs, X!Responds, X!Dies
<1>2. \A n : Said(n)' = Said(n)
  BY <1>1 DEF Said
<1>3. CASE X!Takes
  <2>1. doing' = Head(stdin) /\ stdin' = Tail(stdin) /\ stdin # <<>> /\ doing = 0
          /\ UNCHANGED <<outcome, response>>
    BY <1>3 DEF X!Takes
  <2>2. stdin \in Seq(X!N) /\ Len(stdin) > 0
    BY <2>1 DEF SandboxTypes
  <2>3. doing' \in X!N /\ doing' <= calls /\ stdin' \in Seq(X!N)
    BY <2>1, <2>2 DEF SandboxTypes
  <2>4. \A k \in 1 .. Len(stdin') : stdin'[k] <= calls
    <3>1. /\ \A k \in 1 .. Len(stdin) : stdin[k] <= calls
          /\ calls' = calls
      BY <1>1 DEF SandboxTypes
    <3>2. ASSUME NEW k \in 1 .. Len(stdin') PROVE k + 1 \in 1 .. Len(stdin) /\ stdin'[k] = stdin[k + 1]
      BY <2>1, <2>2
    <3> QED
      BY <3>1, <3>2
  <2>5. SandboxTypes'
    BY <1>1, <2>1, <2>3, <2>4 DEF SandboxTypes, X!N
  <2>6. InOrder' /\ Remains'
    <3>1. /\ Len(stdin') = Len(stdin) - 1 /\ doing' = stdin[1] /\ 1 \in 1 .. Len(stdin)
          /\ \A k \in 1 .. Len(stdin') : k + 1 \in 1 .. Len(stdin) /\ stdin'[k] = stdin[k + 1]
      BY <2>1, <2>2
    <3>2. \A n : Ahead(n)' => Ahead(n)
      BY <3>1 DEF Ahead
    <3>3. ASSUME NEW j \in 1 .. Len(stdin'), NEW k \in 1 .. Len(stdin'), j < k
          PROVE  stdin'[j] < stdin'[k]
      <4>1. j + 1 \in 1 .. Len(stdin) /\ k + 1 \in 1 .. Len(stdin) /\ j + 1 < k + 1
        BY <3>1, <3>3
      <4> QED
        BY <3>1, <4>1 DEF InOrder
    <3>4. ASSUME NEW k \in 1 .. Len(stdin') PROVE doing' < stdin'[k]
      <4>1. k + 1 \in 1 .. Len(stdin) /\ 1 < k + 1
        BY <3>1, <3>4
      <4> QED
        BY <3>1, <4>1 DEF InOrder
    <3>5. InOrder'
      BY <3>3, <3>4 DEF InOrder
    <3> QED
      BY <1>1, <2>1, <3>2, <3>5 DEF Remains
  <2>7. outcome' = "none"
    BY <2>1 DEF Belongs
  <2>8. Belongs'
    BY <1>1, <2>1, <2>7 DEF Belongs, Said
  <2> QED
    BY <2>5, <2>6, <2>8
<1>4. CASE X!Runs
  <2>1. doing \in X!N /\ outcome' \in Said(doing) /\ UNCHANGED <<doing, stdin>>
    BY <1>4, OutcomesAreSaid DEF X!Runs, SandboxTypes
  <2>2. response' = [response EXCEPT ![doing] =
                        IF dir[doing] \in {"none", "removed"} THEN @ ELSE "started"]
    BY <1>4 DEF X!Runs
  <2>3. SandboxTypes' /\ InOrder' /\ Remains'
    <3>1. SandboxTypes' /\ InOrder' /\ \A n : Ahead(n)' <=> Ahead(n)
      BY <1>1, <2>1, <2>2 DEF SandboxTypes, InOrder, Ahead
    <3>2. Ahead(doing)
      BY DEF Ahead
    <3>3. ASSUME NEW n \in X!N, n # doing PROVE response'[n] = response[n]
      BY <2>1, <2>2, <3>3 DEF SandboxTypes
    <3>4. CASE dir[doing] \in {"none", "removed"}
      <4>1. \A n \in X!N : response'[n] = response[n]
        BY <2>1, <2>2, <3>3, <3>4 DEF SandboxTypes
      <4> QED
        BY <1>1, <3>1, <4>1 DEF Remains
    <3>5. CASE dir[doing] \notin {"none", "removed"}
      <4>1. response'[doing] = "started"
        BY <2>1, <2>2, <3>5 DEF SandboxTypes
      <4>2. dir[doing] \in {"there", "emptied", "left"}
        BY <2>1, <3>5 DEF SandboxTypes
      <4>3. result[doing] \in {"none", "error"}
        BY <2>1, <3>2 DEF Remains
      <4>4. Remains'
        BY <1>1, <2>1, <3>1, <3>3, <4>1, <4>2, <4>3 DEF Remains
      <4> QED
        BY <3>1, <4>4
    <3> QED
      BY <3>4, <3>5
  <2>4. ASSUME NEW n \in X!N
        PROVE  /\ response'[n] \in {"none", "started"} \cup Said(n)
               /\ n > calls => response'[n] = "none"
    BY <2>1, <2>2 DEF SandboxTypes, Belongs
  <2>5. doing # 0
    BY <2>1 DEF X!N
  <2>6. Belongs'
    BY <1>1, <2>1, <2>4, <2>5 DEF Belongs, Said
  <2> QED
    BY <2>3, <2>6
<1>5. CASE X!Responds
  <2>1. doing \in X!N /\ outcome \in Said(doing) /\ doing' = 0 /\ outcome' = "none"
          /\ UNCHANGED stdin
    BY <1>5 DEF X!Responds, SandboxTypes, Belongs
  <2>2. response' = [response EXCEPT ![doing] = IF @ = "none" THEN @ ELSE outcome]
    BY <1>5 DEF X!Responds
  <2>3. SandboxTypes' /\ InOrder' /\ Remains'
    <3>1. \A k \in 1 .. Len(stdin) : doing < stdin[k] /\ stdin[k] > 0
      <4>1. stdin \in Seq(X!N)
        BY DEF SandboxTypes
      <4>2. \A k \in 1 .. Len(stdin) : stdin[k] \in X!N
        BY <4>1
      <4> QED
        BY <4>2 DEF InOrder, X!N
    <3>2. SandboxTypes' /\ InOrder'
      <4>1. response' = [n \in X!N |-> response'[n]]
        BY <2>2 DEF SandboxTypes
      <4>2. doing' \in 0 .. calls
        BY <2>1 DEF SandboxTypes
      <4>3. SandboxTypes'
        BY <1>1, <2>1, <4>1, <4>2 DEF SandboxTypes
      <4> QED
        BY <2>1, <3>1, <4>3 DEF InOrder
    <3>3. ASSUME NEW n \in X!N PROVE (Ahead(n)' => Ahead(n)) /\ (Ahead(n)' => n # doing)
      BY <2>1, <3>1 DEF Ahead, X!N
    <3>4. Remains'
      BY <1>1, <2>1, <2>2, <3>3 DEF SandboxTypes, Remains
    <3> QED
      BY <3>2, <3>4
  <2>4. Belongs'
    BY <1>1, <1>2, <2>1, <2>2 DEF SandboxTypes, Belongs
  <2> QED
    BY <2>3, <2>4
<1>6. CASE X!Dies
  <2>1. doing' = 0 /\ outcome' = "none" /\ UNCHANGED <<stdin, response>>
    BY <1>6 DEF X!Dies
  <2>2. InOrder'
    <3>1. stdin \in Seq(X!N)
      BY DEF SandboxTypes
    <3>2. \A k \in 1 .. Len(stdin) : stdin[k] \in X!N
      BY <3>1
    <3>3. \A k \in 1 .. Len(stdin) : stdin[k] > 0
      BY <3>2 DEF X!N
    <3> QED
      BY <2>1, <3>3 DEF InOrder
  <2>3. \A n \in X!N : Ahead(n)' => Ahead(n)
    BY <2>1 DEF Ahead, X!N
  <2> QED
    BY <1>1, <1>2, <2>1, <2>2, <2>3 DEF SandboxTypes, Remains, Belongs
<1> QED
  BY <1>3, <1>4, <1>5, <1>6

LEMMA SandboxStep == SandboxInv /\ [X!Next]_(X!vars) => SandboxInv'
<1> SUFFICES ASSUME SandboxInv, [X!Next]_(X!vars) PROVE SandboxInv'
  OBVIOUS
<1>1. CASE X!Load \/ X!ExitEvent \/ UNCHANGED X!vars
  <2>1. UNCHANGED <<calls, waiting, asked, dir, response, result, doing, outcome>>
    BY <1>1 DEF X!Load, X!ExitEvent, X!vars
  <2>2. stdin' = <<>> \/ UNCHANGED stdin
    BY <1>1 DEF X!Load, X!ExitEvent, X!vars
  <2>3. stdin' \in Seq(X!N) /\ \A k \in 1 .. Len(stdin') : stdin'[k] <= calls
    <3>1. CASE stdin' = <<>>
      BY <3>1
    <3>2. CASE UNCHANGED stdin
      BY <3>2 DEF SandboxInv, SandboxTypes
    <3> QED
      BY <2>2, <3>1, <3>2
  <2>6. SandboxTypes'
    BY <2>1, <2>3 DEF SandboxInv, SandboxTypes
  <2>4. InOrder' /\ Remains'
    BY <2>1, <2>2 DEF SandboxInv, InOrder, Remains, Ahead
  <2>5. Belongs'
    BY <2>1 DEF SandboxInv, Belongs, Said
  <2> QED
    BY <2>4, <2>5, <2>6 DEF SandboxInv
<1> QED
  BY <1>1, CallKeeps, EndKeeps, RemovalKeeps, HelperKeeps DEF X!Next, X!Goes

-----------------------------------------------------------------------------
\* The composed behaviours: the steps of one part are no steps of the others.
HelpersInv ==
    /\ part = "regex" => RegexInv
    /\ part = "sandbox" => SandboxInv

LEMMA HelpersInit == MCInit => HelpersInv
BY RegexInit, SandboxInit DEF MCInit, HelpersInv

LEMMA HelpersStep == HelpersInv /\ [MCNext]_allVars => HelpersInv'
<1> SUFFICES ASSUME HelpersInv, [MCNext]_allVars PROVE HelpersInv'
  OBVIOUS
<1> USE DEF HelpersInv
<1>1. CASE InWorker(Next)
  BY <1>1 DEF InWorker
<1>2. CASE InRegex(N!Next)
  BY <1>2, RegexStep DEF InRegex
<1>3. CASE InSandbox(X!Next)
  BY <1>3, SandboxStep DEF InSandbox
<1>4. CASE UNCHANGED allVars
  <2>1. UNCHANGED part /\ UNCHANGED N!vars /\ UNCHANGED X!vars
    BY <1>4 DEF allVars, processVars, regexVars, sandboxVars, N!vars, X!vars
  <2> QED
    BY <2>1, RegexStep, SandboxStep
<1> QED
  BY <1>1, <1>2, <1>3, <1>4 DEF MCNext

LEMMA HelpersInvariant == MCSpec => []HelpersInv
BY HelpersInit, HelpersStep, PTL DEF MCSpec

\* The stdio handles of the native engine hold the event loop exactly while an
\* answer or a continuation is to come (createNativeClient, setRef and settle).
THEOREM HandlesHoldTheLoop == MCSpec => []HoldsTheLoop
<1>1. HelpersInv => HoldsTheLoop
  BY DEF HelpersInv, HoldsTheLoop, RegexInv
<1> QED
  BY <1>1, HelpersInvariant, PTL

\* No call that the engine could have answered moves to JavaScript unnoticed, and
\* none is reported twice (findAllRanges, replaceAllText and reportFallback).
THEOREM FallbacksAreExplained == MCSpec => []FallbackExplained
<1>1. RegexInv => N!FallbackExplained
  BY DEF RegexInv, RegexTypes, CallRecords, CallExplained, N!FallbackExplained
<1>2. HelpersInv => FallbackExplained
  BY <1>1 DEF HelpersInv, FallbackExplained
<1> QED
  BY <1>2, HelpersInvariant, PTL

\* A result other than an error is what the guest of that very call came to
\* (runSandboxed).
THEOREM SandboxAnswersItsOwnCall == MCSpec => []AnswersItsOwnCall
<1>1. SandboxInv => X!AnswersItsOwnCall
  BY DEF SandboxInv, Belongs, X!AnswersItsOwnCall
<1>2. HelpersInv => AnswersItsOwnCall
  BY <1>1 DEF HelpersInv, AnswersItsOwnCall
<1> QED
  BY <1>2, HelpersInvariant, PTL

\* Once a call has returned, its request is gone whatever the helper does; only the
\* response of a call that was given up may stay, when it comes while the directory
\* is being removed (runSandboxed, rmSync and the write of the helper).
THEOREM SandboxLeavesOnlyTheLate == MCSpec => []LeavesOnlyTheLate
<1>1. SandboxInv => X!LeavesOnlyTheLate
  BY DEF SandboxInv, Remains, X!LeavesOnlyTheLate
<1>2. HelpersInv => LeavesOnlyTheLate
  BY <1>1 DEF HelpersInv, LeavesOnlyTheLate
<1> QED
  BY <1>2, HelpersInvariant, PTL
=============================================================================
