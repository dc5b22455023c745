---------------------------- MODULE ChildProcess ----------------------------
(***************************************************************************)
(* The life of the child processes that src/src/engine/executor.ts starts: *)
(* `runProcess` from the spawn to the one resolution of its promise, the   *)
(* set `liveGroups` that the shutdown hooks sweep, and the part of the     *)
(* operating system the code depends on: process groups and their ids,     *)
(* descendants that outlive the child, output pipes and SIGKILL.           *)
(*                                                                         *)
(* job[r] holds the closure variables of one call of runProcess.  The      *)
(* handlers run one at a time on the event loop; the processes run beside  *)
(* it, so a handler finds the system as it is when the event is delivered. *)
(***************************************************************************)
EXTENDS Naturals, FiniteSets

CONSTANTS
    Runs,          \* the calls of runProcess
    Pids,          \* the process ids the system hands out
    Reuse,         \* the system hands out ids again
    Streams,       \* the output pipes of a child: {"out", "err"} or one of them
    MaxBuffer,     \* MAX_BUFFER_BYTES, in chunks of the smallest size
    PipeCapacity,  \* bound: unread chunks a pipe holds
    TimeLimited,   \* timeoutMs > 0
    Platforms,     \* the values of process.platform that are tried
    Descendants,   \* bound: the kinds of descendants that commands start
    Plain,         \* bound: calls whose commands write nothing, start nothing and
                   \* take every signal
    Immunities     \* which programs are tried: {FALSE}, or BOOLEAN to include
                   \* set-user-id programs, to which signals are refused

NoPid == "no pid"

ASSUME ChildProcessAssumption ==
    /\ IsFiniteSet(Runs) /\ IsFiniteSet(Pids) /\ NoPid \notin Pids
    /\ MaxBuffer \in Nat \ {0} /\ PipeCapacity \in Nat \ {0}
    /\ TimeLimited \in BOOLEAN /\ Reuse \in BOOLEAN
    /\ Descendants \subseteq {"piped", "silent", "outsider"}
    /\ Immunities \subseteq BOOLEAN

Codes   == {"zero", "nonzero", "signal"}   \* `code` of exit and close; null for a signal
NoCode  == "none"
Verdicts == {"success", "timeout", "output_overflow", "spawn_failed", "non_zero_exit"}

VARIABLES
    job,         \* the closure of each call of runProcess
    liveGroups,  \* the module's set of tracked process groups
    down,        \* the server process is gone
    platform,    \* process.platform
    os           \* what the system knows about the child of each call

vars == <<job, liveGroups, down, platform, os>>

NewJob ==
    [phase |-> "idle", killed |-> FALSE, timedOut |-> FALSE, overflow |-> FALSE,
     exitCode |-> NoCode, timer |-> "off", grace |-> "off",
     size |-> [s \in Streams |-> 0], lost |-> FALSE, verdict |-> "none"]

\* heir: when the system gave it its id, that id was still the one of a call that
\* had not settled; leader: the child itself; kin: descendants in its group, "piped" when they
\* hold the output pipes; outsider: a descendant that left the group and holds
\* the pipes; doomed: SIGKILL was sent to the group (or, without groups, to the
\* child); immune: the system refuses signals to it (a set-user-id program).
NewProcess ==
    [pid |-> NoPid, heir |-> FALSE, leader |-> "none", kin |-> {}, outsider |-> FALSE, code |-> NoCode,
     doomed |-> FALSE, immune |-> FALSE, unread |-> [s \in Streams |-> 0]]

Init ==
    /\ job = [r \in Runs |-> NewJob]
    /\ liveGroups = {}
    /\ down = FALSE
    /\ platform \in Platforms
    /\ os = [r \in Runs |-> NewProcess]

UseGroup == platform # "win32"

Live(r) == job[r].phase = "live"

------------------------------------------------------------------------------
(* The operating system.                                                   *)

\* A zombie keeps its id and its group until `exit` is delivered.
InGroup(r) == os[r].leader \in {"alive", "zombie"} \/ os[r].kin # {}

KinDoomed(r) == UseGroup /\ os[r].doomed

Writers(r) == os[r].leader = "alive" \/ "piped" \in os[r].kin \/ os[r].outsider

\* The runs whose processes are in the group `p`.
GroupOf(p) == { r \in Runs : os[r].pid = p /\ InGroup(r) }

\* An id is free when nobody is in its group, whatever the call it came from has
\* made of that: a call is unsettled as long as an outsider holds its pipes.
FreePids == { p \in Pids : GroupOf(p) = {} }

\* The ids that nobody has had are interchangeable: any of them will do.  The other
\* calls stand for everybody who can be given an id again.
NextPids ==
    LET used  == { os[r].pid : r \in Runs }
        fresh == FreePids \ used
    IN  { p \in FreePids : IF p \in used THEN Reuse ELSE p = (CHOOSE q \in fresh : TRUE) }

\* A call that has not settled would still signal `p`.
Claimed(p) == \E q \in Runs : Live(q) /\ os[q].pid = p

LeaderExits(r) ==
    /\ os[r].leader = "alive"
    /\ \E c \in IF os[r].doomed THEN {"signal"} ELSE {"zero", "nonzero"} :
         os' = [os EXCEPT ![r].leader = "zombie", ![r].code = c]
    /\ UNCHANGED <<job, liveGroups, down, platform>>

\* The command starts a descendant: one that keeps the pipes, one that closed
\* them, or one in a session of its own.
Forks(r) ==
    /\ os[r].leader = "alive" /\ ~os[r].doomed /\ r \notin Plain
    /\ \/ \E k \in (Descendants \ {"outsider"}) \ os[r].kin : os' = [os EXCEPT ![r].kin = @ \cup {k}]
       \/ "outsider" \in Descendants /\ ~os[r].outsider /\ os' = [os EXCEPT ![r].outsider = TRUE]
    /\ UNCHANGED <<job, liveGroups, down, platform>>

KinExits(r) ==
    /\ \E k \in os[r].kin : os' = [os EXCEPT ![r].kin = @ \ {k}]
    /\ UNCHANGED <<job, liveGroups, down, platform>>

OutsiderExits(r) ==
    /\ os[r].outsider
    /\ os' = [os EXCEPT ![r].outsider = FALSE]
    /\ UNCHANGED <<job, liveGroups, down, platform>>

\* Somebody who holds the pipe writes to it.
Writes(r) ==
    /\ r \notin Plain
    /\ \/ os[r].leader = "alive" /\ ~os[r].doomed
       \/ "piped" \in os[r].kin /\ ~KinDoomed(r)
       \/ os[r].outsider
    /\ \E s \in Streams :
         /\ os[r].unread[s] < PipeCapacity
         /\ os' = [os EXCEPT ![r].unread[s] = @ + 1]
    /\ UNCHANGED <<job, liveGroups, down, platform>>

System(r) == LeaderExits(r) \/ Forks(r) \/ KinExits(r) \/ OutsiderExits(r) \/ Writes(r)
------------------------------------------------------------------------------
(* classifyFailure, finish, settleAfterKill and terminate.                 *)

\* spawnError: "none", or whether the errno is one of ENOENT and EACCES.
Classify(timedOut, overflow, spawnError, code) ==
    CASE timedOut                  -> "timeout"
      [] ~timedOut /\ overflow     -> "output_overflow"
      [] ~timedOut /\ ~overflow /\ spawnError = "missing" -> "spawn_failed"
      [] ~timedOut /\ ~overflow /\ spawnError = "other"   -> "non_zero_exit"
      [] OTHER -> IF code = "zero" THEN "success" ELSE "non_zero_exit"

\* Mutant: the timeout outlives the result.
FinishKeepingTimer(j, code, spawnError) ==
    IF j.phase # "live" THEN j
    ELSE [j EXCEPT !.phase = "settled", !.grace = "off",
                   !.verdict = Classify(j.timedOut, j.overflow, spawnError, code)]

\* The promise resolves once; the timers are cleared.
Finish(j, code, spawnError) ==
    IF j.phase # "live" THEN j
    ELSE [j EXCEPT !.phase = "settled", !.timer = "off", !.grace = "off",
                   !.verdict = Classify(j.timedOut, j.overflow, spawnError, code)]

SettleAfterKill(j) ==
    IF j.killed /\ j.exitCode # NoCode /\ j.grace = "off" /\ j.phase = "live"
    THEN [j EXCEPT !.grace = "armed"]
    ELSE j

\* Mutant: only the child is signalled.
StruckChild(r) == { q \in {r} : os[r].leader = "alive" /\ ~os[r].immune /\ os[r].kin = {} }

\* Whom the signal of killProcessTree reaches: the group of that id, whoever
\* owns it now, or the child alone.  Members that refuse signals stay.
Struck(r) ==
    IF UseGroup THEN { q \in GroupOf(os[r].pid) : ~os[q].immune }
    ELSE { q \in {r} : os[r].leader = "alive" /\ ~os[r].immune }

\* The group refused the signal, and so does the child as long as its handle is
\* open: child.kill then emits `error`, which settles the call.
Refused(r) ==
    /\ UseGroup => Struck(r) = {} /\ GroupOf(os[r].pid) # {}
    /\ os[r].leader \in {"alive", "zombie"} /\ os[r].immune

\* Mutant: the grace period is left to the `exit` event.
TerminateWithoutGrace(r, j) ==
    IF j.killed THEN j
    ELSE LET k == [j EXCEPT !.killed = TRUE]
         IN  IF Refused(r) THEN Finish(k, NoCode, "other") ELSE k

Terminate(r, j) ==
    IF j.killed THEN j
    ELSE LET k == [j EXCEPT !.killed = TRUE]
         IN  SettleAfterKill(IF Refused(r) THEN Finish(k, NoCode, "other") ELSE k)

\* A settled call leaves liveGroups, in the same handler.
Untrack(r) ==
    liveGroups' = IF job'[r].phase = "settled" /\ Live(r)
                  THEN liveGroups \ {os[r].pid} ELSE liveGroups

Doom(S) == os' = [q \in Runs |-> IF q \in S THEN [os[q] EXCEPT !.doomed = TRUE] ELSE os[q]]

\* The kill of a handler, unless this call has killed before.
Kill(r) == IF job[r].killed THEN UNCHANGED os ELSE Doom(Struck(r))
------------------------------------------------------------------------------
(* The handlers of runProcess.                                             *)

Armed == IF TimeLimited THEN "armed" ELSE "off"

\* The child, in a group that has its id.
Starts(r, p) ==
    \E immune \in IF r \in Plain THEN {FALSE} ELSE Immunities :
        os' = [os EXCEPT ![r].pid = p, ![r].heir = Claimed(p),
                         ![r].leader = "alive", ![r].immune = immune]

\* Mutant: the group is not tracked.
SpawnUntracked(r) ==
    /\ job[r].phase = "idle" /\ ~down
    /\ \E p \in NextPids : Starts(r, p)
    /\ UNCHANGED liveGroups
    /\ job' = [job EXCEPT ![r].phase = "live", ![r].timer = Armed]
    /\ UNCHANGED <<down, platform>>

Spawn(r) ==
    /\ job[r].phase = "idle" /\ ~down
    /\ \E p \in NextPids :
         /\ Starts(r, p)
         /\ liveGroups' = IF UseGroup THEN liveGroups \cup {p} ELSE liveGroups
    /\ job' = [job EXCEPT ![r].phase = "live", ![r].timer = Armed]
    /\ UNCHANGED <<down, platform>>

\* spawn throws, or its `error` is emitted before any other event (nextTick):
\* no process, nothing tracked, the call settles.
SpawnFails(r) ==
    /\ job[r].phase = "idle" /\ ~down
    /\ \E e \in {"missing", "other"} :
         job' = [job EXCEPT ![r] = Finish([@ EXCEPT !.phase = "live"], NoCode, e)]
    /\ UNCHANGED <<liveGroups, down, platform, os>>

TimeoutFires(r) ==
    /\ ~down /\ job[r].timer = "armed"
    /\ job' = [job EXCEPT ![r] = Terminate(r, [@ EXCEPT !.timedOut = TRUE, !.timer = "off"])]
    /\ Kill(r)
    /\ Untrack(r)
    /\ UNCHANGED <<down, platform>>

\* `chunk.length > room` is false.
Fits(r, s) == job[r].size[s] + os[r].unread[s] <= MaxBuffer

\* `collect`: the unread bytes of one pipe arrive as a chunk.
Data(r, s) ==
    /\ ~down /\ os[r].unread[s] > 0 /\ job[r].grace # "fired"
    /\ LET drained == [os EXCEPT ![r].unread[s] = 0] IN
       \/ /\ job[r].overflow
          /\ job' = [job EXCEPT ![r].lost = TRUE]
          /\ os' = drained /\ UNCHANGED liveGroups
       \/ /\ ~job[r].overflow /\ Fits(r, s)
          /\ job' = [job EXCEPT ![r].size[s] = @ + os[r].unread[s]]
          /\ os' = drained /\ UNCHANGED liveGroups
       \/ /\ ~job[r].overflow /\ ~Fits(r, s)
          /\ job' = [job EXCEPT ![r] = Terminate(r, [@ EXCEPT !.size[s] = MaxBuffer,
                                                   !.overflow = TRUE, !.lost = TRUE])]
          /\ os' = [q \in Runs |->
                      LET o == IF q = r THEN drained[q] ELSE os[q]
                      IN  IF ~job[r].killed /\ q \in Struck(r) THEN [o EXCEPT !.doomed = TRUE] ELSE o]
          /\ Untrack(r)
    /\ UNCHANGED <<down, platform>>

\* libuv reaps the child and emits `exit`.
ExitEvent(r) ==
    /\ ~down /\ os[r].leader = "zombie"
    /\ os' = [os EXCEPT ![r].leader = "reaped"]
    /\ job' = [job EXCEPT ![r] = SettleAfterKill([@ EXCEPT !.exitCode = os[r].code])]
    /\ UNCHANGED <<liveGroups, down, platform>>

\* Mutant: the result is taken when the child exits, as with the `exit` event.
ExitedOnly(r) == os[r].leader = "reaped"

\* `close` follows `exit` once both pipes have ended and were read to the end.
AllClosed(r) ==
    /\ os[r].leader = "reaped" /\ ~Writers(r)
    /\ \A s \in Streams : os[r].unread[s] = 0

CloseEvent(r) ==
    /\ ~down /\ Live(r) /\ AllClosed(r)
    /\ job' = [job EXCEPT ![r] = Finish(@, os[r].code, "none")]
    /\ Untrack(r)
    /\ UNCHANGED <<down, platform, os>>

\* KILL_GRACE_MS after the kill and the exit: the streams are destroyed.
GraceFires(r) ==
    /\ ~down /\ job[r].grace = "armed"
    /\ job' = [job EXCEPT ![r] = [Finish(@, @.exitCode, "none") EXCEPT !.grace = "fired", !.lost = TRUE]]
    /\ Untrack(r)
    /\ UNCHANGED <<down, platform, os>>

\* SIGINT, SIGTERM or the end of the server: the hooks kill every tracked group.
Shutdown ==
    /\ ~down
    /\ down' = TRUE
    /\ Doom({ q \in UNION { GroupOf(p) : p \in liveGroups } : ~os[q].immune })
    /\ UNCHANGED <<job, liveGroups, platform>>

Handler(r) ==
    \/ Spawn(r) \/ SpawnFails(r) \/ TimeoutFires(r) \/ \E s \in Streams : Data(r, s)
    \/ ExitEvent(r) \/ CloseEvent(r) \/ GraceFires(r)

Next == Shutdown \/ \E r \in Runs : Handler(r) \/ System(r)

\* Timers and events of a live event loop are delivered, and SIGKILL takes
\* effect.  Nothing obliges a command, its descendants or the user to act.
Fairness ==
    \A r \in Runs :
        /\ WF_vars(TimeoutFires(r)) /\ WF_vars(GraceFires(r))
        /\ WF_vars(ExitEvent(r)) /\ WF_vars(CloseEvent(r))
        /\ \A s \in Streams : WF_vars(Data(r, s))
        /\ WF_vars(os[r].doomed /\ LeaderExits(r))
        /\ WF_vars(KinDoomed(r) /\ KinExits(r))

Spec == Init /\ [][Next]_vars /\ Fairness
------------------------------------------------------------------------------
Job == [phase : {"idle", "live", "settled"}, killed : BOOLEAN, timedOut : BOOLEAN,
        overflow : BOOLEAN, exitCode : Codes \cup {NoCode}, timer : {"off", "armed"},
        grace : {"off", "armed", "fired"}, size : [Streams -> 0 .. MaxBuffer],
        lost : BOOLEAN, verdict : Verdicts \cup {"none"}]

Process == [pid : Pids \cup {NoPid}, heir : BOOLEAN, leader : {"none", "alive", "zombie", "reaped"},
            kin : SUBSET {"piped", "silent"}, outsider : BOOLEAN, code : Codes \cup {NoCode},
            doomed : BOOLEAN, immune : BOOLEAN, unread : [Streams -> 0 .. PipeCapacity]]

TypeOK ==
    /\ job \in [Runs -> Job]
    /\ liveGroups \subseteq Pids
    /\ down \in BOOLEAN /\ platform \in Platforms
    /\ os \in [Runs -> Process]

\* A run reported as a success exited with 0, was never killed, and every byte
\* that was written to its pipes is in the result: taking the result at `exit`,
\* or letting the exit code win over a timeout, would report a partial output as
\* complete.
SuccessIsComplete ==
    \A r \in Runs : job[r].verdict = "success" =>
        /\ os[r].code = "zero" /\ ~job[r].killed /\ ~job[r].lost
        /\ ~Writers(r) /\ \A s \in Streams : os[r].unread[s] = 0

\* A run that was ended for its time or its output leaves nobody of its group
\* running, whatever the child had forked (executor.ts:256).
KilledRunLeavesNoGroup ==
    \A r \in Runs :
        /\ job[r].verdict \in {"timeout", "output_overflow"}
        /\ UseGroup /\ ~os[r].immune /\ InGroup(r)
        => os[r].doomed

\* The tracked ids are those of runs that have not settled, and every such run that
\* has somebody in its group is tracked (executor.ts:122), unless it got the id of a
\* call that had not settled: the settlement of that call takes the id out of the
\* set, whoever has it now.
RunningGroupsTracked ==
    UseGroup =>
        /\ liveGroups \subseteq { os[r].pid : r \in { q \in Runs : Live(q) } }
        /\ \A r \in Runs : Live(r) /\ InGroup(r) /\ ~os[r].heir => os[r].pid \in liveGroups

\* The end of the server leaves no unsettled run alive (executor.ts:69), with the
\* same exception.
ShutdownSweeps ==
    \A r \in Runs : down /\ Live(r) /\ UseGroup /\ ~os[r].immune /\ ~os[r].heir /\ InGroup(r)
                    => os[r].doomed

\* q has the id of r, whose own group is gone.
Inherited(q, r) == os[q].pid = os[r].pid /\ ~InGroup(r)

\* Only a run that has not settled kills: whoever is signalled belongs to one that is
\* ended in this very step or swept when the server ends, or has been given the id of
\* such a run after everybody in its group had gone.  Nothing that a settled run
\* left behind, and nobody who has the id of a settled run, is ever signalled.
OnlyTheUnsettledKill ==
    [][\A q \in Runs : os'[q].doomed /\ ~os[q].doomed =>
           \E r \in Runs :
               /\ Live(r) /\ (down' \/ (job'[r].killed /\ ~job[r].killed))
               /\ q = r \/ Inherited(q, r)]_vars

\* With a time limit every run settles, even when a descendant outside the
\* group keeps the pipes open for ever; its slot is not lost.
EventuallySettles == \A r \in Runs : Live(r) ~> (~Live(r) \/ down)
==============================================================================
