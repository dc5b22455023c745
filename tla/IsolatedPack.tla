---------------------------- MODULE IsolatedPack ----------------------------
(***************************************************************************)
(* An external parser pack in a worker thread, as seen by its host:        *)
(* IsolatedPackHost of src/src/parsers/external/host.ts against worker.js. *)
(* The two share a port in each direction and one word of memory.  The     *)
(* main thread is blocked during a call: it looks at the port, then at the *)
(* word, then sleeps on the word, while the worker posts its reply and     *)
(* then sets the word.  Times are kept as what is left of them.            *)
(*                                                                         *)
(* What a request asks for and what a reply holds make no difference here. *)
(* Each step of `awaitReply` that reads shared state is an action.         *)
(***************************************************************************)
EXTENDS Naturals

CONSTANTS
    TimeLimit,     \* timeLimitMs: for a whole call
    StartupLimit,  \* startupTimeoutMs
    Cooldown,      \* cooldownMs
    CooldownMax,   \* cooldownMaxMs
    Ids,           \* bound: request ids are taken modulo Ids
    MaxFailures,   \* bound: failures are counted up to here
    MaxGhosts      \* bound: workers that were stopped are counted up to here

ASSUME IsolatedPackAssumption ==
    /\ {TimeLimit, StartupLimit, Cooldown, CooldownMax, Ids} \subseteq Nat \ {0}
    /\ MaxFailures \in Nat /\ MaxGhosts \in Nat
    /\ Cooldown <= CooldownMax

VARIABLES
    pc,        \* where the main thread is: "idle" outside calls, "ready" in a
               \* call between exchanges, the others in `exchange`
    left,      \* what is left of the deadline of the call
    awaited,   \* the id `awaitReply` waits for
    seq,
    answered, faulted,
    failures,
    pause,     \* what is left until pausedUntil
    ghosts,    \* workers that were given up and whose "exit" is still to come
    \* The current session:
    phase,     \* what its worker does; "posted" lies between postMessage and wake
    signal,    \* the shared word
    inbox,     \* requests to the worker
    port,      \* replies from it
    ready,
    startLeft, \* what is left of its startup limit
    announced  \* history: its exit handler ran

session == <<phase, signal, inbox, port, ready, startLeft, announced>>
call    == <<left, answered>>
faults  == <<faulted, failures, pause, ghosts>>
vars    == <<pc, awaited, seq, call, faults, session>>

Current == phase # "none"

\* The constructor has received the reply to the load; the word may be set later.
Init ==
    /\ pc = "idle" /\ left = 0 /\ awaited = 0 /\ seq = 0
    /\ answered = FALSE /\ faulted = FALSE
    /\ failures = 0 /\ pause = 0 /\ ghosts = 0
    /\ \/ phase = "posted" /\ signal = "idle"
       \/ phase = "waiting" /\ signal = "replied"
    /\ inbox = {} /\ port = {} /\ ready = TRUE
    /\ startLeft = StartupLimit /\ announced = FALSE

Lesser(a, b) == IF a <= b THEN a ELSE b

------------------------------------------------------------------------------
(* The worker.                                                             *)

\* A store to the word and the notification of the thread that sleeps on it.
Wake(value) ==
    /\ signal' = value
    /\ pc' = IF pc = "asleep" THEN "receive" ELSE pc

\* The pack is loaded, or its module throws.
Load ==
    /\ phase = "loading"
    /\ \E ok \in BOOLEAN :
         /\ port' = port \cup {[id |-> 0, ok |-> ok]}
         /\ phase' = IF ok THEN "posted" ELSE "closing"
    /\ UNCHANGED <<pc, awaited, seq, call, faults, signal, inbox, ready, startLeft, announced>>

\* A request is served; an error is a reply like any other.
Serve ==
    /\ phase = "waiting"
    /\ \E id \in inbox :
         /\ inbox' = inbox \ {id}
         /\ port' = port \cup {[id |-> id, ok |-> TRUE]}
    /\ phase' = "posted"
    /\ UNCHANGED <<pc, awaited, seq, call, faults, signal, ready, startLeft, announced>>

\* wake(REPLIED); after a load that failed the worker has closed its port.
Signal ==
    /\ phase \in {"posted", "closing"}
    /\ Wake("replied")
    /\ phase' = IF phase = "posted" THEN "waiting" ELSE "ending"
    /\ UNCHANGED <<awaited, seq, call, faults, inbox, port, ready, startLeft, announced>>

\* The worker ends: its exit handler runs ...
Exit ==
    /\ phase \notin {"none", "gone"}
    /\ Wake("exited")
    /\ phase' = "gone" /\ announced' = TRUE
    /\ UNCHANGED <<awaited, seq, call, faults, inbox, port, ready, startLeft>>

\* ... or not (out of memory).
Die ==
    /\ phase \notin {"none", "gone"}
    /\ phase' = "gone"
    /\ UNCHANGED <<pc, awaited, seq, call, faults, signal, inbox, port, ready, startLeft, announced>>

Worker == Load \/ Serve \/ Signal \/ Exit \/ Die
------------------------------------------------------------------------------
(* The host.                                                               *)

Pause(n) == Lesser(Cooldown * 2 ^ Lesser(n, 30), CooldownMax)

\* recordFailure
RecordFailure ==
    /\ pause' = Pause(failures)
    /\ failures' = Lesser(failures + 1, MaxFailures)
    /\ faulted' = TRUE

\* Mutant: only the call fails, the worker is kept.
FailKeepingWorker ==
    /\ RecordFailure
    /\ pc' = "ready"
    /\ UNCHANGED <<session, ghosts, awaited, seq, call>>

\* A session that starts out as `next`, or none.
Session(next, limit) ==
    /\ phase' = next /\ startLeft' = limit
    /\ signal' = "idle" /\ inbox' = {} /\ port' = {}
    /\ ready' = FALSE /\ announced' = FALSE

NoSession == Session("none", 0)

\* stopSession: its "exit" is still to come.
GiveUp == NoSession /\ ghosts' = Lesser(ghosts + 1, MaxGhosts)

\* `fail`: the worker is stopped, and with it its port and its word.
Fail ==
    /\ GiveUp
    /\ RecordFailure
    /\ pc' = "ready"
    /\ UNCHANGED <<awaited, seq, call>>

\* An exchange that throws and leaves the worker alone.
Throw == pc' = "ready" /\ UNCHANGED <<session, awaited, seq, call, faults>>

\* withDeadline around one or more exchanges.
BeginCall ==
    /\ pc = "idle"
    /\ pc' = "ready" /\ left' = TimeLimit /\ answered' = FALSE /\ faulted' = FALSE
    /\ UNCHANGED <<session, awaited, seq, failures, pause, ghosts>>

EndCall ==
    /\ pc = "ready"
    /\ pc' = "idle" /\ left' = 0
    /\ failures' = IF answered /\ ~faulted THEN 0 ELSE failures
    /\ UNCHANGED <<session, awaited, seq, answered, faulted, pause, ghosts>>

\* spawnSession
Spawn == Session("loading", StartupLimit)

\* The worker to talk to; one that is loading is waited for.
Attend ==
    /\ IF Current THEN UNCHANGED session ELSE Spawn
    /\ IF ready' THEN pc' = "send" /\ UNCHANGED awaited
       ELSE pc' = "receive" /\ awaited' = 0
    /\ UNCHANGED <<seq, call, faults>>

\* exchange, up to the request: during the pause it throws at once (and changes
\* nothing); without a worker it starts one.
Exchange == pc = "ready" /\ pause = 0 /\ Attend

NextId == 1 + (seq % Ids)

Post ==
    /\ inbox' = inbox \cup {NextId}
    /\ awaited' = NextId /\ seq' = NextId
    /\ pc' = "receive"
    /\ UNCHANGED <<call, faults, phase, port, ready, startLeft, announced>>

\* Mutant: the word is reset whatever it says.
SendResetting ==
    /\ pc = "send"
    /\ \/ left = 0 /\ Throw
       \/ left > 0 /\ signal' = "idle" /\ Post

\* exchange, the request: the compare-exchange finds a worker that has ended.
Send ==
    /\ pc = "send"
    /\ \/ left = 0 /\ Throw
       \/ left > 0 /\ signal = "exited" /\ Fail
       \/ left > 0 /\ signal # "exited" /\ signal' = "idle" /\ Post

Received == { m \in port : m.id = awaited }

\* receiveMessageOnPort: replies to other ids are skipped.
Receive ==
    /\ pc = "receive" /\ Received = {}
    /\ port' = {}
    /\ pc' = "check"
    /\ UNCHANGED <<awaited, seq, call, faults, phase, signal, inbox, ready, startLeft, announced>>

\* The reply: of the load, or of the request.
Loaded ==
    /\ pc = "receive" /\ awaited = 0
    /\ \E m \in Received :
         \/ /\ m.ok
            /\ port' = {} /\ ready' = TRUE
            /\ pc' = "send"
            /\ UNCHANGED <<awaited, seq, call, faults, phase, signal, inbox, startLeft, announced>>
         \/ ~m.ok /\ Fail

Replied ==
    /\ pc = "receive" /\ awaited # 0 /\ Received # {}
    /\ port' = {}
    /\ pc' = "ready" /\ answered' = TRUE
    /\ UNCHANGED <<left, awaited, seq, faults, phase, signal, inbox, ready, startLeft, announced>>

\* What is left of the wait: a load counts against the call and the startup.
WaitLeft == IF awaited = 0 THEN Lesser(left, startLeft) ELSE left

StillStarting == awaited = 0 /\ startLeft > 0

\* The load and the comparison with the time that come before the sleep.
Check ==
    /\ pc = "check"
    /\ \/ /\ signal # "exited" /\ WaitLeft > 0
          /\ pc' = "wait"
          /\ UNCHANGED <<session, awaited, seq, call, faults>>
       \/ signal # "exited" /\ WaitLeft = 0 /\ StillStarting /\ Throw
       \/ (signal = "exited" \/ (WaitLeft = 0 /\ ~StillStarting)) /\ Fail

\* Atomics.wait returns at once if the word is no longer idle.
Sleep ==
    /\ pc = "wait"
    /\ pc' = IF signal = "idle" THEN "asleep" ELSE "receive"
    /\ UNCHANGED <<session, awaited, seq, call, faults>>

\* Mutant: the sleep ends only with a notification.
TimesOutNever == FALSE /\ UNCHANGED vars

TimesOut ==
    /\ pc = "asleep" /\ WaitLeft = 0
    /\ pc' = "receive"
    /\ UNCHANGED <<session, awaited, seq, call, faults>>

\* `exit` of the worker, delivered between calls.
WorkerEnded ==
    /\ pc = "idle" /\ phase = "gone"
    /\ NoSession
    /\ RecordFailure
    /\ UNCHANGED <<pc, awaited, seq, call, ghosts>>

\* Mutant: the end of any worker is the end of the current one.
GhostBlamed ==
    /\ pc = "idle" /\ ghosts > 0
    /\ ghosts' = ghosts - 1
    /\ NoSession
    /\ RecordFailure
    /\ UNCHANGED <<pc, awaited, seq, call>>

\* `exit` of a worker that was stopped before: no longer the current session.
GhostEnded ==
    /\ pc = "idle" /\ ghosts > 0
    /\ ghosts' = ghosts - 1
    /\ UNCHANGED <<pc, session, awaited, seq, call, faulted, failures, pause>>

\* The registry replaces the pack.
Close ==
    /\ pc = "idle" /\ Current
    /\ GiveUp
    /\ UNCHANGED <<pc, awaited, seq, call, faulted, failures, pause>>

Less(n) == IF n = 0 THEN 0 ELSE n - 1

Tick ==
    /\ left' = Less(left) /\ pause' = Less(pause)
    /\ startLeft' = Less(startLeft)
    /\ UNCHANGED <<pc, awaited, seq, answered, faulted, failures, ghosts,
                   phase, signal, inbox, port, ready, announced>>

Host == Exchange \/ Send \/ Receive \/ Loaded \/ Replied \/ Check \/ Sleep \/ TimesOut

Next ==
    \/ Worker \/ Host \/ BeginCall \/ EndCall
    \/ WorkerEnded \/ GhostEnded \/ Close \/ Tick

\* The main thread runs and time passes; the worker may do nothing for ever.
Fairness == WF_vars(Host) /\ WF_vars(Tick)

Spec == Init /\ [][Next]_vars /\ Fairness
------------------------------------------------------------------------------
Phases == {"none", "loading", "waiting", "posted", "closing", "ending", "gone"}
Requests == 0 .. Ids

TypeOK ==
    /\ pc \in {"idle", "ready", "send", "receive", "check", "wait", "asleep"}
    /\ phase \in Phases /\ signal \in {"idle", "replied", "exited"}
    /\ inbox \subseteq Requests /\ port \subseteq [id : Requests, ok : BOOLEAN]
    /\ ready \in BOOLEAN /\ startLeft \in 0 .. StartupLimit /\ announced \in BOOLEAN
    /\ left \in 0 .. TimeLimit /\ pause \in 0 .. CooldownMax
    /\ awaited \in Requests /\ seq \in Requests
    /\ answered \in BOOLEAN /\ faulted \in BOOLEAN
    /\ failures \in 0 .. MaxFailures /\ ghosts \in 0 .. MaxGhosts

\* During the pause after a failure there is no worker (host.ts:7), whether it
\* was given up in a call or ended by itself between calls.
PausedHasNoWorker == pause > 0 => ~Current

\* A worker never has a request or a reply outstanding other than the one that
\* is waited for, and none between exchanges: what a call left behind when it
\* ran out of time cannot be taken for the answer to a later one.
OneRequestInFlight ==
    /\ inbox \cup { m.id : m \in port } \subseteq {awaited}
    /\ ready /\ pc \in {"idle", "ready", "send"} =>
         inbox = {} /\ port = {}

\* The main thread does not sleep on: if its reply is in the port the wake-up is
\* still to come, and a worker that said it has ended does not make it wait to
\* its limit (worker.js:6).  Only a worker that dies in between can.
NoLostWakeUp ==
    pc = "asleep" =>
        /\ ~announced
        /\ Received # {} => phase \in {"posted", "closing", "gone"}

\* A worker that is still loading is not given up before its startup limit, even
\* if the call that waits for it has less time (host.ts:280): otherwise a pack
\* that loads slower than a call may last would be restarted for ever.
StartupIsGranted ==
    [][pc # "idle" /\ phase = "loading" /\ phase' = "none" =>
        startLeft = 0]_vars

\* A pause starts only when the current worker is lost: the late report of one
\* that was stopped before does not count against its successor.
BlamesTheCurrent == [][pause' > pause => Current /\ phase' = "none"]_vars

\* Every exchange ends, even with a worker that never answers or dies silently.
ExchangesEnd == pc \notin {"idle", "ready"} ~> pc = "ready"
==============================================================================
