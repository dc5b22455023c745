----------------------------- MODULE ResultStore -----------------------------
(***************************************************************************)
(* The session's result store, src/src/engine/result-store.ts: an LRU map  *)
(* with a time to live, a limit on the entries, on the bytes of one entry  *)
(* and on all bytes, and a map `misses` that remembers why an id is not    *)
(* held.  attachReview (src/src/facade/review.ts) is the only writer: it   *)
(* mints an id for every reviewed run and either puts the result or marks  *)
(* it as not retained.  explain_result, compare_results and fetch_result   *)
(* read through `get`, which reorders the map.  The id in the cursor of a  *)
(* run without a review never comes here (facade/engine.ts:410).           *)
(***************************************************************************)
EXTENDS OrderedMap, FiniteSets

CONSTANTS
    Ids,                \* result ids; a run mints a new one
    Sizes,              \* the byte sizes results have
    MaxBytesPerResult, MaxBytesTotal, MaxEntries, Ttl,
    MaxTime             \* bound: the clock stops here

\* What the constants may be.
ResultStoreAssumption ==
    /\ IsFiniteSet(Ids) /\ Sizes \subseteq Nat
    /\ {MaxBytesPerResult, MaxBytesTotal, Ttl, MaxTime} \subseteq Nat
    /\ MaxEntries \in Nat \ {0}

\* The limits of the engine (DEFAULT_RESULT_STORE_LIMITS) let every result that is
\* not over its own limit into an empty store.
LimitsAgree == MaxBytesPerResult <= MaxBytesTotal

VARIABLES
    entries,     \* the map in insertion order: least recently used first
    totalBytes,
    misses,      \* why an id is not held; "none" when the map has no such key
    now,         \* Date.now()
    minted,      \* what the review of a run decided about its id: retain or skip;
                 \* no: of no reviewed run
    lookup       \* the last answer of `get`

storeVars == <<entries, totalBytes, misses, now, minted, lookup>>

NoAnswer == [id |-> "none", outcome |-> "none", age |-> 0]

Init ==
    /\ entries = <<>> /\ totalBytes = 0 /\ now = 0
    /\ misses = [i \in Ids |-> "none"]
    /\ minted = [i \in Ids |-> "no"]
    /\ lookup = NoAnswer

IdsOf(s) == { s[k].id : k \in DOMAIN s }
Held == IdsOf(entries)
Without(s, id) == Kept(s, { k \in DOMAIN s : s[k].id # id })

Expired(e) == now - e.at > Ttl
Unexpired(s) == Kept(s, { k \in DOMAIN s : ~Expired(s[k]) })
Fresh == Unexpired(entries)
Stale == Kept(entries, { k \in DOMAIN entries : Expired(entries[k]) })

Missing(m, S, reason) == [i \in Ids |-> IF i \in S THEN reason ELSE m[i]]

\* Mutant: only the number of entries makes room.
RoomByCount(s, bytes) == Len(s) < MaxEntries

Room(s, bytes) == Len(s) < MaxEntries /\ BytesOf(s) + bytes <= MaxBytesTotal

\* The `while` of put: the oldest go until the new result fits or none is left.
Victims(s, bytes) ==
    LET enough == { n \in 0 .. Len(s) : Room(Rest(s, n), bytes) }
    IN  IF enough = {} THEN Len(s)
        ELSE CHOOSE n \in enough : \A m \in enough : n <= m

\* Mutant: the expired and the evicted leave no reason behind.
PutForgetting(id, bytes) ==
    LET n == Victims(Fresh, bytes) IN
    /\ minted[id] = "no" /\ bytes <= MaxBytesPerResult
    /\ minted' = [minted EXCEPT ![id] = "retain"]
    /\ entries' = Append(Rest(Fresh, n), [id |-> id, bytes |-> bytes, at |-> now])
    /\ totalBytes' = BytesOf(Rest(Fresh, n)) + bytes
    /\ UNCHANGED <<misses, now, lookup>>

\* `put` of a freshly minted id: the expired go, a result over the per-result
\* limit is refused, otherwise the oldest make room for it.  The last refusal
\* ("result store is full") needs a per-result limit above the total.
Put(id, bytes) ==
    LET n      == Victims(Fresh, bytes)
        rest   == Rest(Fresh, n)
        out    == SubSeq(Fresh, 1, n)
        left   == totalBytes - BytesOf(Stale)
        purged == Missing(misses, IdsOf(Stale), "expired")
        evict  == Missing(purged, IdsOf(out), "evicted")
    IN
    /\ minted[id] = "no"
    /\ minted' = [minted EXCEPT ![id] = "retain"]
    /\ \/ /\ bytes > MaxBytesPerResult
          /\ entries' = Fresh /\ totalBytes' = left
          /\ misses' = [purged EXCEPT ![id] = "evicted"]
       \/ LET fits == Room(rest, bytes)
              kept == [id |-> id, bytes |-> bytes, at |-> now]
          IN  /\ bytes <= MaxBytesPerResult
              /\ entries' = IF fits THEN Append(rest, kept) ELSE rest
              /\ totalBytes' = left - BytesOf(out) + (IF fits THEN bytes ELSE 0)
              /\ misses' = [evict EXCEPT ![id] = IF fits THEN "none" ELSE "evicted"]
    /\ UNCHANGED <<now, lookup>>

\* `markNotRetained`, for a run that asked for `retain: false`.
MarkNotRetained(id) ==
    /\ minted[id] = "no"
    /\ minted' = [minted EXCEPT ![id] = "skip"]
    /\ misses' = IF id \in Held THEN misses ELSE [misses EXCEPT ![id] = "not_retained"]
    /\ UNCHANGED <<entries, totalBytes, now, lookup>>

\* Mutants: the entry keeps its place; its age is not looked at.
GetInPlace(id) ==
    /\ lookup' = [id |-> id, age |-> 0, outcome |-> IF id \in Held THEN "found" ELSE "unknown_id"]
    /\ UNCHANGED <<entries, totalBytes, misses, now, minted>>

GetAnyAge(id) ==
    /\ \E e \in { entries[k] : k \in DOMAIN entries } :
         /\ e.id = id
         /\ entries' = Append(Without(entries, id), e)
         /\ lookup' = [id |-> id, outcome |-> "found", age |-> now - e.at]
    /\ UNCHANGED <<totalBytes, misses, now, minted>>

\* `get` moves what it finds to the end, unless it has expired by now.
Get(id) ==
    \/ \E e \in { entries[k] : k \in DOMAIN entries } :
         /\ e.id = id /\ ~Expired(e)
         /\ entries' = Append(Without(entries, id), e)
         /\ lookup' = [id |-> id, outcome |-> "found", age |-> now - e.at]
         /\ UNCHANGED <<totalBytes, misses, now, minted>>
    \/ \E e \in { entries[k] : k \in DOMAIN entries } :
         /\ e.id = id /\ Expired(e)
         /\ entries' = Without(entries, id) /\ totalBytes' = totalBytes - e.bytes
         /\ misses' = [misses EXCEPT ![id] = "expired"]
         /\ lookup' = [id |-> id, outcome |-> "expired", age |-> now - e.at]
         /\ UNCHANGED <<now, minted>>
    \/ /\ id \notin Held
       /\ lookup' = [id |-> id, age |-> 0,
                     outcome |-> IF misses[id] # "none" THEN misses[id] ELSE "unknown_id"]
       /\ UNCHANGED <<entries, totalBytes, misses, now, minted>>

Tick ==
    /\ now < MaxTime
    /\ now' = now + 1
    /\ UNCHANGED <<entries, totalBytes, misses, minted, lookup>>

Next ==
    \/ Tick
    \/ \E id \in Ids : MarkNotRetained(id) \/ Get(id) \/ \E b \in Sizes : Put(id, b)

Spec == Init /\ [][Next]_storeVars
------------------------------------------------------------------------------
\* The running total is the sum over the map through evictions, expiries and
\* refusals, and neither limit is ever exceeded: the total decides whom the next
\* put evicts, so a drift would evict too much or hold too much for ever.
Accounting ==
    /\ totalBytes = BytesOf(entries) /\ totalBytes <= MaxBytesTotal
    /\ Len(entries) <= MaxEntries
    /\ Cardinality(Held) = Len(entries)

\* The id of every reviewed run is either held or has its reason: no such id is
\* ever answered with "not known to this session" (result-store.ts:133-147).
HeldOrExplained ==
    \A i \in Ids : minted[i] # "no" => ((i \in Held) <=> (misses[i] = "none"))

\* What `get` says is so: a result it finds has not outlived its time to live,
\* "not_retained" is said only of results whose run asked for it, "unknown_id"
\* only of ids that no reviewed run was given, and a lookup evicts no other result.
AnswersTruthfully ==
    lookup' # lookup =>
        /\ lookup'.outcome = "found" => lookup'.age <= Ttl
        /\ lookup'.outcome = "not_retained" <=> minted[lookup'.id] = "skip"
        /\ lookup'.outcome = "unknown_id" <=> minted[lookup'.id] = "no"
        /\ Held \ Held' \subseteq {lookup'.id}

\* A result leaves for a reason, and for the reason that is recorded: its time
\* is over, or a new result would not have fitted beside it and the results used
\* since.  A result that is itself refused drives out nothing that is fresh.
LeavesForAReason ==
    \A k \in DOMAIN entries :
        LET e == entries[k]
            since == Unexpired(Rest(entries, k - 1))
        IN  e.id \notin IdsOf(entries') =>
              \/ Expired(e) /\ misses'[e.id] = "expired"
              \/ /\ ~Expired(e) /\ misses'[e.id] = "evicted"
                 /\ \E j \in DOMAIN entries' :
                      entries'[j].id \notin Held /\ ~Room(since, entries'[j].bytes)
==============================================================================
