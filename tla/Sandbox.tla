------------------------------- MODULE Sandbox -------------------------------
(***************************************************************************)
(* External packs that run as WebAssembly components in a helper process.  *)
(* The server's thread writes a request file, sends its path, and polls    *)
(* for the response file with the event loop stopped; the helper handles   *)
(* the paths in order, one guest at a time under limits of time, fuel and  *)
(* memory (parsers/external/sandbox.ts, sandboxed.ts and the crates        *)
(* parism-sandbox and parism-sandbox-guest).                               *)
(***************************************************************************)
EXTENDS Integers, Sequences, FiniteSets

CONSTANT MaxCalls      \* bound: parses asked for in one behaviour

VARIABLES
    files,     \* what the pack's directory holds
    pack,      \* "unread", "loaded" or "refused"
    binary,    \* the helper's binary was found
    child,     \* the server holds a child process
    failed,    \* the helper could not be started: never tried again
    helper,    \* the helper process: "none", "up" or "gone"
    doing,     \* the call the helper works at, 0 for none
    outcome,   \* what its guest came to, "none" while it runs
    stdin,     \* calls whose path the helper has not read
    calls,     \* calls made so far; the last one is the current one
    waiting,   \* the server's thread is in the current call, with the loop stopped
    asked,     \* what each call asks
    dir,       \* each call's directory: "none", "there", "emptied", "removed" or "left"
    response,  \* each call's response file: "none", "started" or an outcome
    result,    \* what each call came to
    server     \* "up", or "crashed" by an error event nobody listens to
vars == <<files, pack, binary, child, failed, helper, doing, outcome, stdin,
          calls, waiting, asked, dir, response, result, server>>

N == 1..MaxCalls
Guests == {"parse", "not_json", "unknown", "read_file", "secret", "alloc", "spin"}
Requests == [guest : Guests, component : {"good", "broken"}, granted : BOOLEAN]
NoRequest == [guest |-> "parse", component |-> "good", granted |-> FALSE]

Init ==
    /\ files \in [component : BOOLEAN, contract : {"good", "absent", "invalid"}]
    /\ pack = "unread"
    /\ binary \in BOOLEAN
    /\ child = FALSE /\ failed = FALSE
    /\ helper = "none" /\ doing = 0 /\ outcome = "none" /\ stdin = <<>>
    /\ calls = 0 /\ waiting = FALSE
    /\ asked = [n \in N |-> NoRequest]
    /\ dir = [n \in N |-> "none"]
    /\ response = [n \in N |-> "none"]
    /\ result = [n \in N |-> "none"]
    /\ server = "up"

(* isSandboxPack, readContract: a pack without a readable contract is     *)
(* refused when it is loaded.                                              *)
Load ==
    /\ pack = "unread"
    /\ pack' = IF files.component /\ files.contract = "good"
               THEN "loaded" ELSE "refused"
    /\ UNCHANGED <<files, binary, child, failed, helper, doing, outcome, stdin,
                   calls, waiting, asked, dir, response, result, server>>
-----------------------------------------------------------------------------
(* The guest: what an instance may come to. A file is read only below a   *)
(* directory opened for it, of a secret only the existence is told.        *)
Trap(g) == CASE g = "alloc" -> {"memory", "other"}
             [] g = "spin" -> {"fuel", "epoch"}
             [] OTHER -> {}
classify(trap) == CASE trap = "fuel" -> "out_of_fuel"
                    [] trap = "epoch" -> "timeout"
                    [] trap = "memory" -> "out_of_memory"
                    [] OTHER -> "trapped"
Returns(r) == CASE r.guest = "parse" -> {"json"}
                [] r.guest = "not_json" -> {"text"}
                [] r.guest = "unknown" -> {"guest_error"}
                [] r.guest = "read_file" -> {IF r.granted THEN "opened" ELSE "refused"}
                [] r.guest = "secret" -> {IF r.granted THEN "exists" ELSE "no_such"}
                [] OTHER -> {}

(* handle_request, load and run: a request that cannot be read, or whose  *)
(* component cannot be loaded, is unavailable. One that is gone when the    *)
(* guest has ended may have been read before.                              *)
Outcomes(n) ==
    IF asked[n].component = "broken" THEN {"unavailable"}
    ELSE Returns(asked[n]) \cup {classify(t) : t \in Trap(asked[n].guest)}
         \cup IF dir[n] # "there" THEN {"unavailable"} ELSE {}

(* What the host makes of a response: the value of a guest that answered   *)
(* must be JSON, a guest that does not know the format is told apart.      *)
Values == {"json", "opened", "refused", "exists", "no_such"}
Verdict(said) == CASE said \in Values -> said
                   [] said = "guest_error" -> "unrecognized"
                   [] OTHER -> "error"

(* The directory of a call, made for it alone. *)
DirOneForAll(n) == 1                     \* mutant: one directory for all calls
DirOf(n) == n

(* The verdict on a call; its directory goes next, whatever happened. *)
EndLeaving(n, verdict) ==                \* mutant: it goes only after an answer
    /\ waiting' = (verdict # "error")
    /\ result' = [result EXCEPT ![n] = verdict]
End(n, verdict) ==
    /\ waiting' = TRUE
    /\ result' = [result EXCEPT ![n] = verdict]

(* parse, runSandboxed, ensure: the request file is written and its path  *)
(* sent to the helper, started if there is none. A helper that ended       *)
(* unnoticed breaks the pipe, and the stream's error has no listener once  *)
(* the loop runs again.                                                    *)
Call ==
    /\ pack = "loaded" /\ server = "up" /\ ~waiting /\ calls < MaxCalls
    /\ calls' = calls + 1
    /\ \E r \in Requests : asked' = [asked EXCEPT ![calls + 1] = r]
    /\ \/ /\ ~binary \/ failed
          /\ result' = [result EXCEPT ![calls + 1] = "error"]
          /\ UNCHANGED <<child, failed, helper, stdin, waiting, dir>>
       \/ /\ binary /\ ~failed /\ ~child
          /\ failed' = TRUE
          /\ result' = [result EXCEPT ![calls + 1] = "error"]
          /\ UNCHANGED <<child, helper, stdin, waiting, dir>>
       \/ /\ binary /\ ~failed
          /\ child' = TRUE
          /\ helper' = IF child THEN helper ELSE "up"
          /\ stdin' = Append(stdin, calls + 1)
          /\ waiting' = TRUE
          /\ dir' = [dir EXCEPT ![DirOf(calls + 1)] = "there"]
          /\ UNCHANGED <<failed, result>>
    /\ UNCHANGED <<files, pack, binary, doing, outcome, response, server>>

Polls == waiting /\ result[calls] = "none"

(* The poll: a response file that exists is read as far as it is written, *)
(* and half of it is not JSON. Then it is removed.                         *)
Poll ==
    /\ Polls
    /\ LET said == response[DirOf(calls)] IN
         /\ said # "none"
         /\ End(calls, IF said = "started" THEN "error" ELSE Verdict(said))
         /\ response' = [response EXCEPT ![DirOf(calls)] = "none"]
    /\ UNCHANGED <<files, pack, binary, child, failed, helper, doing, outcome,
                   stdin, calls, asked, dir, server>>

(* The deadline, checked after a look that found nothing. *)
DeadlineOfTheLiving == helper = "up"     \* mutant: only a live helper is timed
Deadline == TRUE
GiveUp ==
    /\ Polls
    /\ Deadline
    /\ response[DirOf(calls)] = "none"
    /\ End(calls, "error")
    /\ UNCHANGED <<files, pack, binary, child, failed, helper, doing, outcome,
                   stdin, calls, asked, dir, response, server>>

(* rmSync: what the directory holds is removed ...                         *)
Empties ==
    /\ waiting /\ ~Polls
    /\ dir[DirOf(calls)] = "there"
    /\ dir' = [dir EXCEPT ![DirOf(calls)] = "emptied"]
    /\ response' = [response EXCEPT ![DirOf(calls)] = "none"]
    /\ UNCHANGED <<files, pack, binary, child, failed, helper, doing, outcome,
                   stdin, calls, waiting, asked, result, server>>

(* ... and then itself, unless the helper has put its response there since: *)
(* the error is ignored, and what remains stays.                            *)
Removes ==
    /\ waiting /\ dir[DirOf(calls)] = "emptied"
    /\ waiting' = FALSE
    /\ dir' = [dir EXCEPT ![DirOf(calls)] =
                    IF response[DirOf(calls)] = "none" THEN "removed" ELSE "left"]
    /\ UNCHANGED <<files, pack, binary, child, failed, helper, doing, outcome,
                   stdin, calls, asked, response, result, server>>

(* The exit event, delivered only while the loop is not stopped; the        *)
(* write to a helper already gone surfaces at the same time.               *)
ExitEvent ==
    /\ server = "up" /\ ~waiting /\ child /\ helper = "gone"
    /\ child' = FALSE
    /\ helper' = "none"
    /\ stdin' = <<>>
    /\ \/ server' = server
       \/ server' = "crashed" /\ stdin # <<>>
    /\ UNCHANGED <<files, pack, binary, failed, doing, outcome, calls, waiting,
                   asked, dir, response, result>>
-----------------------------------------------------------------------------
(* main: the helper takes the next path, runs its guest, and writes the   *)
(* response in two steps: the file exists before it is whole. A directory  *)
(* that is gone takes no response.                                         *)
Takes ==
    /\ helper = "up" /\ doing = 0 /\ stdin # <<>>
    /\ doing' = Head(stdin)
    /\ stdin' = Tail(stdin)
    /\ UNCHANGED <<files, pack, binary, child, failed, helper, outcome, calls,
                   waiting, asked, dir, response, result, server>>

Runs ==
    /\ helper = "up" /\ doing # 0 /\ outcome = "none"
    /\ outcome' \in Outcomes(doing)
    /\ response' = [response EXCEPT ![DirOf(doing)] =
                        IF dir[DirOf(doing)] \in {"none", "removed"} THEN @ ELSE "started"]
    /\ UNCHANGED <<files, pack, binary, child, failed, helper, doing, stdin,
                   calls, waiting, asked, dir, result, server>>

Responds ==
    /\ helper = "up" /\ outcome # "none"
    /\ response' = [response EXCEPT ![DirOf(doing)] = IF @ = "none" THEN @ ELSE outcome]
    /\ doing' = 0
    /\ outcome' = "none"
    /\ UNCHANGED <<files, pack, binary, child, failed, helper, stdin, calls,
                   waiting, asked, dir, result, server>>

(* The helper dies at any point. *)
Dies ==
    /\ helper = "up"
    /\ helper' = "gone"
    /\ doing' = 0
    /\ outcome' = "none"
    /\ UNCHANGED <<files, pack, binary, child, failed, stdin, calls, waiting,
                   asked, dir, response, result, server>>

\* What the thread does once it has sent the path.
Goes == Poll \/ GiveUp \/ Empties \/ Removes

Next == Load \/ Call \/ Goes \/ ExitEvent
        \/ Takes \/ Runs \/ Responds \/ Dies

(* The waiting thread runs on; nothing is assumed of the helper. *)
Spec == Init /\ [][Next]_vars /\ WF_vars(Goes)
-----------------------------------------------------------------------------
(* A result other than an error is what the guest of that very call came   *)
(* to: a late response to an abandoned call, or half a response, is never  *)
(* taken for the answer of another one.                                    *)
AnswersItsOwnCall ==
    \A n \in N : result[n] \notin {"none", "error"} =>
        result[n] \in {Verdict(o) : o \in Returns(asked[n])}

(* Whatever ends a call, its request, which holds the output that was to   *)
(* be parsed, is gone when it returns. At most the response of a call that *)
(* was given up stays, written while its directory was being removed; a    *)
(* call that was answered leaves nothing, neither then nor later.          *)
LeavesOnlyTheLate ==
    ~waiting => \A n \in N :
        /\ dir[n] \notin {"there", "emptied"}
        /\ response[n] # "none" => dir[n] = "left"
        /\ dir[n] = "left" => result[n] = "error"

(* A parse returns, with the helper dead, silent or busy with an earlier   *)
(* call, although the thread that waits delivers no events.                *)
ParseReturns == waiting ~> ~waiting
=============================================================================
