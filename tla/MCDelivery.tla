----------------------------- MODULE MCDelivery -----------------------------
(***************************************************************************)
(* How a result reaches its client in pieces, on small instances: the rows *)
(* that fit a budget (RunBudget), the session's store (ResultStore with a  *)
(* history), the cursors that continue a result (Continuation) and the     *)
(* pages of run_paged (PagedRuns); and what it is told when there is no    *)
(* result because there is no such command (Availability). Each behaviour  *)
(* is one of the five, as `part` says; the variables of the others keep    *)
(* their first values.                                                     *)
(***************************************************************************)
EXTENDS RunBudget, Sequences, FiniteSets, TLC

CONSTANTS Names,    \* results, or keys of paged runs
          Fourth,   \* one more result for the store
          Clients,
          Stored, ReadOn, Paged,  \* the limits of the store, of the store that is
                                  \* read on, and of the cache of run_paged
          Looked                  \* the commands that are looked for

VARIABLES part,
          entries, totalBytes, misses, now, minted, lookup, recent,
          pages, dropped, reading, cursor, received, fetched, fetches,
          cache, runs, succeeded, call, read,
          host, probed, changes, failing, seen, advice

storeVars == <<entries, totalBytes, misses, minted, lookup>>
clientVars == <<pages, dropped, reading, cursor, received, fetched, fetches>>
pagedVars == <<cache, runs, succeeded, call, read>>
hostVars == <<host, probed, changes, failing, seen, advice>>
allVars == <<part, runVars, storeVars, now, recent, clientVars, pagedVars, hostVars>>

\* Four ids on three places: sizes 1 and 3 against a total of 4, one size above
\* the limit of a result; the clock passes the time to live twice.
StoreLimits == [sizes |-> {1, 3, 4}, perResult |-> 3, total |-> 4, entries |-> 3,
                ttl |-> 1, time |-> 3]

\* Three results of two rows, two places in each store: pages and results are
\* evicted independently.
ReadingLimits == [sizes |-> {1}, perResult |-> 2, total |-> 3, entries |-> 2,
                  ttl |-> 0, time |-> 1, rows |-> 2, fetches |-> 3]

\* Two clients whose runs overlap, three keys on two entries.
PagedLimits == [sizes |-> {1, 2, 4}, total |-> 3, entries |-> 2, ttl |-> 1,
                fails |-> TRUE, time |-> 2, runs |-> 4]

\* A command with a manager and a substitute; two changes of the host between looks
\* that are believed for two moments.
HostLimits == [commands |-> {"tree", "apt"}, sites |-> {1}, allowed |-> {"tree"},
               hints |-> [tree |-> <<"apt">>, apt |-> <<>>],
               substitutes |-> [tree |-> {"find"}, apt |-> {}],
               permitted |-> {"find"}, ttl |-> 2, time |-> 3, changes |-> 2]

S == INSTANCE MCResultStore WITH
       Ids <- Names \cup {Fourth}, Sizes <- Stored.sizes, MaxBytesPerResult <- Stored.perResult,
       MaxBytesTotal <- Stored.total, MaxEntries <- Stored.entries, Ttl <- Stored.ttl,
       MaxTime <- Stored.time

C == INSTANCE Continuation WITH
       Ids <- Names, Sizes <- ReadOn.sizes, MaxBytesPerResult <- ReadOn.perResult,
       MaxBytesTotal <- ReadOn.total, MaxEntries <- ReadOn.entries, Ttl <- ReadOn.ttl,
       MaxTime <- ReadOn.time, Rows <- ReadOn.rows, MaxFetches <- ReadOn.fetches,
       phase <- reading, answer <- fetched

P == INSTANCE PagedRuns WITH
       Keys <- Names, Sizes <- Paged.sizes, MaxBytes <- Paged.total,
       MaxEntries <- Paged.entries, Ttl <- Paged.ttl, MayFail <- Paged.fails,
       MaxTime <- Paged.time, MaxRuns <- Paged.runs

H == INSTANCE Availability WITH
       Commands <- Looked.commands, Sites <- Looked.sites, Allowed <- Looked.allowed,
       Hints <- Looked.hints, Substitutes <- Looked.substitutes,
       Permitted <- Looked.permitted, Ttl <- Looked.ttl, MaxTime <- Looked.time,
       MaxChanges <- Looked.changes

ASSUME DeliveryAssumption ==
    /\ S!ResultStoreAssumption /\ S!LimitsAgree
    /\ C!ContinuationAssumption /\ C!R!ResultStoreAssumption /\ C!R!LimitsAgree
    /\ P!PagedRunsAssumption
    /\ H!AvailabilityAssumption

\* A budget that was met with every row.
NoBudget ==
    LET rows == [k \in 0 .. Total |-> 0] IN
    /\ cap = MaxTokens /\ body = rows /\ extra = rows /\ base = rows /\ delivered = rows
    /\ mode = "page" /\ stage = "first" /\ original = None /\ final = None /\ answer = None
    /\ lo = Total /\ hi = Total /\ kept = Total /\ phase = "done"

\* The host when nobody looks at it.
NoHost ==
    /\ host = <<>> /\ probed = <<>> /\ changes = 0 /\ failing = {} /\ seen = {}
    /\ advice = H!Silence

MCInit ==
    /\ P!Init
    /\ \/ part = "budget" /\ RunInit /\ C!Init /\ recent = <<>> /\ NoHost
       \/ part = "store" /\ NoBudget /\ S!MCInit /\ NoHost
          /\ pages = <<>> /\ dropped = {} /\ fetches = 0 /\ fetched = C!NoAnswer
          /\ reading = <<>> /\ cursor = <<>> /\ received = <<>>
       \/ part \in {"cursors", "pages"} /\ NoBudget /\ C!Init /\ recent = <<>> /\ NoHost
       \/ part = "advice" /\ NoBudget /\ C!Init /\ recent = <<>> /\ H!Init

Budgeting == part = "budget" /\ RunNext
             /\ UNCHANGED <<part, storeVars, now, recent, clientVars, pagedVars, hostVars>>
Storing   == part = "store" /\ S!MCNext /\ UNCHANGED <<part, runVars, clientVars, pagedVars, hostVars>>
Following == part = "cursors" /\ C!Next /\ UNCHANGED <<part, runVars, recent, pagedVars, hostVars>>
Paging    == part = "pages" /\ P!Next
             /\ UNCHANGED <<part, runVars, storeVars, recent, clientVars, hostVars>>
Advising  == part = "advice" /\ H!Next
             /\ UNCHANGED <<part, runVars, storeVars, recent, clientVars, pagedVars>>

MCNext == Budgeting \/ Storing \/ Following \/ Paging \/ Advising

MCSpec == MCInit /\ [][MCNext]_allVars

Interchangeable == Permutations(Names)

-----------------------------------------------------------------------------
\* Whatever is evicted, expires or is refused, in whatever order overlapping runs
\* end: no store holds more than its limits allow, in entries or in bytes, the
\* running total of the result store is the sum over it, and no page is kept of a
\* result that was evicted.
StoresKeepTheirLimits ==
    /\ part = "store" => S!Accounting
    /\ part = "cursors" => C!R!Accounting /\ C!PagesBounded
    /\ part = "pages" => P!Bounded

\* The id of every reviewed run is either held or has its reason, also while
\* results are read on.  (The id in a cursor of a run without a review is in no
\* store but that of the pages: when its rows are gone it is unknown.)
HeldOrExplained ==
    /\ part = "store" => S!HeldOrExplained
    /\ part = "cursors" => C!R!HeldOrExplained

\* What is answered from what was kept is so: what the result store says of an id,
\* also while results are read on, and a page of run_paged that was answered without
\* running, which comes from a fresh successful run of its key.
AnswersTruthfully ==
    [][/\ part = "store" => S!AnswersTruthfully
       /\ part = "cursors" => C!R!AnswersTruthfully
       /\ part = "pages" => P!ReusesFreshSuccess]_allVars

\* A result leaves the store for the reason that is recorded, and what makes room
\* is what nobody looked at for the longest time.
LeavesInOrder ==
    [][/\ part = "store" => S!LeavesForAReason /\ S!EvictsLeastRecentlyUsed
       /\ part = "cursors" => C!R!LeavesForAReason]_allVars

\* A client that follows the cursors reads every row once and in order.
ReadsInOrder == part = "cursors" => C!ReadsInOrder

\* What a client is told of a command that could not be run was so a moment ago.
AdviceIsRecent == part = "advice" => H!AdviceIsRecent
=============================================================================
