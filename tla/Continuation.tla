---------------------------- MODULE Continuation ----------------------------
(***************************************************************************)
(* Reading a result on: `run` with a budget answers with the first rows    *)
(* and a cursor, `fetch_result` answers with the next rows.  The engine    *)
(* keeps the rows in `pages` (applyRunBudget, facade/run-budget.ts) beside *)
(* the result store (attachReview, facade/review.ts), each with its own    *)
(* rules for what is dropped; fetchResult (facade/engine.ts) consults the  *)
(* store only for the reason why a page is gone.  The client follows the   *)
(* cursors it is given and keeps what it has read.                         *)
(***************************************************************************)
EXTENDS Integers, Sequences, FiniteSets

CONSTANTS
    Ids, Sizes, MaxBytesPerResult, MaxBytesTotal, MaxEntries, Ttl, MaxTime,
    Rows,        \* the rows of every result
    MaxFetches   \* bound: the calls of fetch_result

\* What the constants may be.
ContinuationAssumption ==
    /\ Rows \in Nat \ {0} /\ MaxFetches \in Nat
    /\ MaxEntries \in Nat \ {0}

VARIABLES entries, totalBytes, misses, now, minted, lookup   \* the result store

VARIABLES
    pages,         \* the ids whose rows are kept, in insertion order
    dropped,       \* history: the ids whose rows were evicted
    phase,         \* how far the client is: unused, reading or done
    cursor,        \* the offset of the last cursor the client was given
    received,      \* the rows the client has read, by number
    answer,        \* the outcome of the last fetch_result
    fetches

R == INSTANCE ResultStore

storeVars == <<entries, totalBytes, misses, now, minted, lookup>>
clientVars == <<phase, cursor, received>>
vars == <<storeVars, pages, dropped, clientVars, answer, fetches>>

NoAnswer == [id |-> "none", outcome |-> "none"]

Init ==
    /\ R!Init
    /\ pages = <<>> /\ dropped = {} /\ answer = NoAnswer /\ fetches = 0
    /\ phase = [i \in Ids |-> "unused"]
    /\ cursor = [i \in Ids |-> 0]
    /\ received = [i \in Ids |-> <<>>]

Numbers(from, to) == [k \in 1 .. (to - from) |-> from + k]

\* The `while` before `pages.set`: the oldest pages go.
Survivors(s) == SubSeq(s, IF Len(s) >= MaxEntries THEN Len(s) - MaxEntries + 2 ELSE 1, Len(s))

\* The rows are kept when the first application of the budget cut them.
KeepPage(id, first) ==
    IF first < Rows
    THEN /\ pages' = Append(Survivors(pages), id)
         /\ dropped' = dropped \cup { pages[k] : k \in 1 .. Len(pages) - Len(Survivors(pages)) }
    ELSE UNCHANGED <<pages, dropped>>

\* attachReview: no review at all, a review that retains, or `retain: false`.
Review(id) ==
    \/ UNCHANGED storeVars
    \/ R!MarkNotRetained(id)
    \/ \E b \in Sizes : R!Put(id, b)

\* What the client reads from an answer that holds the rows after `from` up to
\* `to`; without a continuation it is done.
Read(id, from, to, next) ==
    /\ received' = [received EXCEPT ![id] = @ \o Numbers(from, to)]
    /\ phase' = [phase EXCEPT ![id] = IF to < Rows THEN "reading" ELSE "done"]
    /\ cursor' = [cursor EXCEPT ![id] = next]

\* One `run` with a budget.  `first` rows fit the budget; when the whole answer
\* is still too large a smaller budget is applied once, and taken if it helps:
\* then `final` rows are answered.  A full result with overflow: error is the
\* case of all rows.
Run(id) ==
    /\ phase[id] = "unused"
    /\ Review(id)
    /\ \E first, final \in 0 .. Rows :
         /\ KeepPage(id, first)
         /\ Read(id, 0, final, final)
    /\ UNCHANGED <<answer, fetches>>

\* Mutant: the offset counts from the slice.
NextFromSlice(start, taken) == taken

NextOffset(start, taken) == start + taken

\* `fetch_result` with the last cursor; a budget for this page may cut it short,
\* down to no row at all.  (The value of such a page nests a second continuation
\* that counts inside the slice; the client follows the outer one.)
FetchPage(id) ==
    /\ id \in { pages[k] : k \in DOMAIN pages }
    /\ \E taken \in 0 .. Rows - cursor[id] :
         Read(id, cursor[id], cursor[id] + taken, NextOffset(cursor[id], taken))
    /\ answer' = [id |-> id, outcome |-> "page"]
    /\ UNCHANGED storeVars

\* Without a page the store gives the reason, and if it still has the result
\* the answer is that there is nothing to continue.
FetchRefused(id) ==
    /\ id \notin { pages[k] : k \in DOMAIN pages }
    /\ R!Get(id)
    /\ answer' = [id |-> id, outcome |-> IF lookup'.outcome = "found" THEN "no_continuation"
                                         ELSE lookup'.outcome]
    /\ UNCHANGED clientVars

Fetch(id) ==
    /\ phase[id] = "reading"
    /\ fetches < MaxFetches /\ fetches' = fetches + 1
    /\ FetchPage(id) \/ FetchRefused(id)
    /\ UNCHANGED <<pages, dropped>>

\* explain_result and compare_results read the store.
Look(id) == R!Get(id) /\ UNCHANGED <<pages, dropped, clientVars, answer, fetches>>

Tick == R!Tick /\ UNCHANGED <<pages, dropped, clientVars, answer, fetches>>

Next == Tick \/ \E id \in Ids : Run(id) \/ Fetch(id) \/ Look(id)

Spec == Init /\ [][Next]_vars
------------------------------------------------------------------------------
\* A client that follows the cursors reads every row once and in order, whatever
\* the budgets of the single pages are, and is told that it is done only when it
\* has them all: the offsets of cut, uncut and empty pages must fit together.
ReadsInOrder ==
    \A i \in Ids :
        /\ received[i] = Numbers(0, cursor[i])
        /\ phase[i] = "done" => cursor[i] = Rows

\* As many results can be read on as the store holds results, never more, and
\* each of them was cut: the rows have no other limit.
PagesBounded ==
    /\ Len(pages) <= MaxEntries
    /\ { pages[k] : k \in DOMAIN pages } \cap dropped = {}
    /\ Cardinality({ pages[k] : k \in DOMAIN pages }) = Len(pages)

\* "The read-on must continue from the same result without a re-run"
\* (run-budget.ts:109): a cursor is refused only when its rows were evicted.
CursorHonoured ==
    answer.outcome \notin {"none", "page"} => answer.id \in dropped
==============================================================================
