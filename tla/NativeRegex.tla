----------------------------- MODULE NativeRegex -----------------------------
(***************************************************************************)
(* The native regular expression engine: findAllRanges and replaceAllText  *)
(* choose between a helper process and the JavaScript engine, and the      *)
(* helper's client pairs requests with length-framed answers, bounds every *)
(* request with a timer and gives the helper up for good at the first      *)
(* fault (engine/regex-engine.ts, engine/regex-native.ts and the crate     *)
(* parism-regex).                                                          *)
(*                                                                         *)
(* A frame travels in two pieces, so that it can be cut anywhere a read    *)
(* ends; "short" is a frame whose header does not fit its length.          *)
(***************************************************************************)
EXTENDS Integers, Sequences, SequencesExt, FiniteSets

CONSTANTS Calls        \* calls of findAllRanges and replaceAllText

VARIABLES
    mode,      \* what PARISM_REGEX_ENGINE says
    binary,    \* the engine binary was found
    engine,    \* the helper process: "none", "up", "hung", "gone" or "unborn"
    child,     \* the client holds a child
    dead,      \* the client gave the helper up
    ref,       \* the stdio handles hold the event loop
    call,      \* state of each call
    stdin,     \* ids of the requests the helper has not read
    stdout,    \* pieces of frames the client has not read
    buffer,    \* pieces read that do not make a frame yet
    server     \* "up", or "crashed" by an error event nobody listens to
vars == <<mode, binary, engine, child, dead, ref, call, stdin, stdout, buffer,
          server>>

Requests ==
    [op : {"find", "replace"},
     pattern : {"plain", "untranslatable", "not_javascript", "refused"},
     dollar : BOOLEAN]
NoRequest == [op |-> "none", pattern |-> "plain", dollar |-> FALSE]
NoCall == [stage |-> "idle", request |-> NoRequest, outcome |-> "none",
           reports |-> 0, answer |-> "none"]

Piece(c, half) == [id |-> c, half |-> half]
Short == [id |-> "none", half |-> "short"]

Init ==
    /\ mode \in {"auto", "rust", "typescript"}
    /\ binary \in BOOLEAN
    /\ engine = "none"
    /\ child = FALSE
    /\ dead = FALSE
    /\ ref = FALSE
    /\ call = [c \in Calls |-> NoCall]
    /\ stdin = <<>>
    /\ stdout = <<>>
    /\ buffer = <<>>
    /\ server = "up"

(* The requests the client waits for. *)
pending == {c \in Calls : call[c].stage = "waiting"}

(* A resolved or rejected promise runs its continuation before the event  *)
(* loop takes anything else.                                               *)
Quiet == server = "up" /\ \A c \in Calls : call[c].stage # "settled"

(* setRef: without a child there is no handle to hold. *)
setRef(wanted, held) == IF child THEN wanted ELSE held

(* translatePattern: some flags, the negated classes within a class, a lone *)
(* backslash and an open class have no counterpart in the helper's syntax.   *)
Untranslatable(r) == r.pattern = "untranslatable"

(* resolveNativeBinary: the file PARISM_REGEX_BIN names and no other, else  *)
(* the package of the platform, else a build of the repository. It is asked *)
(* once.                                                                   *)
NoEngine == ~binary

(* Why a request never reaches the engine: the path through findAllRanges *)
(* and replaceAllText up to the native call.                               *)
Detour(r) ==
    IF mode = "typescript" THEN "silent"
    ELSE IF Untranslatable(r) \/ NoEngine THEN "reported"
    ELSE IF r.pattern = "not_javascript" THEN "silent"
    ELSE IF r.op = "replace" /\ r.dollar THEN "reported"
    ELSE "none"

(* The JavaScript engine throws on what is not a JavaScript pattern. *)
typescript(r) == IF r.pattern = "not_javascript" THEN "throws" ELSE "typescript"

(* Mutant: nobody is told of the detour. *)
FallBackUnseen(rec, reported) ==
    [rec EXCEPT !.stage = "done", !.outcome = typescript(rec.request)]

(* A call that ends on the JavaScript engine, reported or not. *)
FallBack(rec, reported) ==
    [rec EXCEPT !.stage = "done", !.outcome = typescript(rec.request),
                !.reports = @ + IF reported THEN 1 ELSE 0]

(* kill: every waiting request is rejected, the handles are released, the *)
(* listeners removed. The helper itself gets no signal.                    *)
Rejected == [c \in Calls |-> IF c \in pending
                             THEN [call[c] EXCEPT !.stage = "settled",
                                                  !.answer = "unavailable"]
                             ELSE call[c]]
killKeepingRequests ==      \* mutant: the waiting requests are forgotten
    dead' = TRUE /\ child' = FALSE /\ ref' = FALSE /\ UNCHANGED <<call, buffer>>
kill ==
    IF dead THEN UNCHANGED <<dead, child, ref, call, buffer>>
    ELSE /\ dead' = TRUE
         /\ child' = FALSE
         /\ ref' = setRef(FALSE, ref)
         /\ call' = Rejected
         /\ UNCHANGED buffer

(* The synchronous part of a call: a detour ends it on the spot; a client *)
(* that gave up rejects; otherwise ensure() starts the helper when there   *)
(* is none and send() writes the request. A spawn may fail; a helper that  *)
(* died unnoticed breaks the pipe: the write's callback rejects the        *)
(* request, and the stream's error event has no listener.                  *)
Find(c) ==
    /\ Quiet
    /\ call[c].stage = "idle"
    /\ \E r \in Requests :
         LET rec == [call[c] EXCEPT !.request = r] IN
         \/ /\ Detour(r) # "none"
            /\ call' = [call EXCEPT ![c] = FallBack(rec, Detour(r) = "reported")]
            /\ UNCHANGED <<engine, child, ref, stdin, server>>
         \/ /\ Detour(r) = "none" /\ dead
            /\ call' = [call EXCEPT ![c] =
                 [rec EXCEPT !.stage = "settled", !.answer = "unavailable"]]
            /\ UNCHANGED <<engine, child, ref, stdin, server>>
         \/ /\ Detour(r) = "none" /\ ~dead
            /\ engine' \in IF child THEN {engine} ELSE {"up", "unborn"}
            /\ child' = TRUE
            /\ ref' = TRUE
            /\ call' = [call EXCEPT ![c] =
                 [rec EXCEPT !.stage = IF engine' \in {"gone", "unborn"}
                                       THEN "settled" ELSE "waiting",
                             !.answer = IF engine' \in {"gone", "unborn"}
                                        THEN "unavailable" ELSE "none"]]
            /\ stdin' = Append(stdin, c)
            /\ server' = IF engine' = "gone" THEN "crashed" ELSE server
    /\ UNCHANGED <<mode, binary, dead, stdout, buffer>>

(* takeFrame and drain over the bytes read: every whole frame settles its *)
(* request, up to a frame that cannot be one.                              *)
Whole(bytes) == {k \in DOMAIN bytes : bytes[k].half = "tail"
                    /\ \A j \in 1..k : bytes[j] # Short}
Rest(bytes) == SelectSeq(bytes, LAMBDA p : p.half = "head"
                    /\ \A k \in Whole(bytes) : bytes[k].id # p.id)
Answer(r) == IF r.pattern = "refused" THEN {"error"}
             ELSE IF r.op = "replace" THEN {"exact", "inexact"}
             ELSE {"exact"}

(* A data event: any number of the bytes in the pipe. *)
DataEvent ==
    /\ Quiet
    /\ child
    /\ \E n \in 1..Len(stdout) :
         LET bytes == buffer \o SubSeq(stdout, 1, n)
             settled == {bytes[k].id : k \in Whole(bytes)} \cap pending
         IN  /\ stdout' = SubSeq(stdout, n + 1, Len(stdout))
             /\ \E said \in [settled -> {"error", "exact", "inexact"}] :
                  /\ \A c \in settled : said[c] \in Answer(call[c].request)
                  /\ LET answered == [c \in Calls |-> IF c \in settled
                           THEN [call[c] EXCEPT !.stage = "settled",
                                                !.answer = said[c]]
                           ELSE call[c]]
                     IN  IF Contains(bytes, Short)
                         THEN /\ dead' = TRUE
                              /\ child' = FALSE
                              /\ ref' = FALSE
                              /\ call' = [c \in Calls |->
                                    IF c \in pending \ settled THEN Rejected[c]
                                    ELSE answered[c]]
                              /\ UNCHANGED buffer
                         ELSE /\ call' = answered
                              /\ buffer' = Rest(bytes)
                              /\ UNCHANGED <<dead, child, ref>>
    /\ UNCHANGED <<mode, binary, engine, stdin, server>>

(* settle releases the handles when nothing is waited for. *)
settleAlways == ref' = setRef(FALSE, ref)      \* mutant: others may wait
settle == ref' = IF pending = {} THEN setRef(FALSE, ref) ELSE ref

(* The continuation of a settled request: its finally, then the caller's. *)
Continue(c) ==
    /\ server = "up"
    /\ call[c].stage = "settled"
    /\ settle
    /\ call' = [call EXCEPT ![c] =
         IF @.answer = "exact" THEN [@ EXCEPT !.stage = "done", !.outcome = "rust"]
         ELSE FallBack(@, TRUE)]
    /\ UNCHANGED <<mode, binary, engine, child, dead, stdin, stdout, buffer, server>>

(* The request's own timer: it is rejected and the helper given up. *)
Timeout(c) ==
    /\ Quiet
    /\ c \in pending
    /\ kill
    /\ UNCHANGED <<mode, binary, engine, stdin, stdout, server>>

(* The exit event of a helper that died, the error event of one that       *)
(* never started.                                                          *)
ExitEvent ==
    /\ Quiet
    /\ child
    /\ engine \in {"gone", "unborn"}
    /\ kill
    /\ UNCHANGED <<mode, binary, engine, stdin, stdout, server>>

(* handle and main: the helper reads one request and writes its answer. *)
Serves ==
    /\ engine = "up"
    /\ stdin # <<>>
    /\ stdin' = Tail(stdin)
    /\ stdout' = stdout \o <<Piece(Head(stdin), "head"), Piece(Head(stdin), "tail")>>
    /\ UNCHANGED <<mode, binary, engine, child, dead, ref, call, buffer, server>>

(* Faults of the helper: it writes a frame too short to be one and falls  *)
(* silent, falls silent, or dies, perhaps in the middle of an answer.      *)
Misbehaves ==
    /\ engine = "up"
    /\ stdin # <<>>
    /\ \/ engine' = "hung" /\ stdout' \in {stdout, Append(stdout, Short)}
       \/ /\ engine' = "gone"
          /\ stdout' \in {stdout, Append(stdout, Piece(Head(stdin), "head"))}
    /\ UNCHANGED <<mode, binary, child, dead, ref, call, stdin, buffer, server>>

Done ==
    /\ \/ server = "crashed"
       \/ /\ \A c \in Calls : call[c].stage = "done"
          /\ child => engine \notin {"gone", "unborn"}
    /\ UNCHANGED vars

Next ==
    \/ \E c \in Calls : Find(c) \/ Continue(c) \/ Timeout(c)
    \/ DataEvent \/ ExitEvent \/ Serves \/ Misbehaves
    \/ Done

(* The event loop runs continuations, and a timer fires when nothing else *)
(* has ended the request. Nothing is assumed of the helper.                *)
Fairness == \A c \in Calls : WF_vars(Continue(c)) /\ WF_vars(Timeout(c))

Spec == Init /\ [][Next]_vars /\ Fairness
-----------------------------------------------------------------------------
(* The handles hold the event loop exactly as long as something is to come: *)
(* a command line run cannot end between a request and its answer, and is   *)
(* not kept alive by an idle helper once every continuation has run.        *)
HoldsTheLoop ==
    /\ pending # {} => ref
    /\ Quiet /\ pending = {} /\ child => ~ref

(* Unless the mode asks for it, a call that the engine could have answered *)
(* never moves to JavaScript unnoticed, whatever happened to the helper,   *)
(* and no call is reported twice.                                          *)
FallbackExplained ==
    \A c \in Calls : call[c].stage = "done" =>
        /\ call[c].reports \in {0, 1}
        /\ call[c].outcome = "typescript" =>
              call[c].reports = IF mode = "typescript" THEN 0 ELSE 1
        /\ call[c].outcome = "rust" => call[c].reports = 0

(* A request in flight always ends, whatever the helper does, unless the  *)
(* process itself is gone.                                                 *)
EverySettles ==
    \A c \in Calls : (call[c].stage = "waiting")
                        ~> (call[c].stage = "done" \/ server = "crashed")
=============================================================================
