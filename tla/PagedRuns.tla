------------------------------ MODULE PagedRuns ------------------------------
(***************************************************************************)
(* `runPaged` of src/src/facade/engine.ts and its cache,                   *)
(* src/src/engine/page-cache.ts.  Page 0 always runs the command; a later  *)
(* page reuses the last successful run of the same key for Ttl, and runs   *)
(* the command when there is none.  Nothing is locked while a command      *)
(* runs: other calls, for the same key too, read and write the cache.      *)
(* A key stands for the command, its arguments, its real directory and     *)
(* includeDiff; runs are numbered in the order they started.               *)
(***************************************************************************)
EXTENDS OrderedMap, FiniteSets

CONSTANTS
    Clients,      \* each has one call at a time
    Keys, Sizes,  \* sizes of an output
    MaxBytes, MaxEntries, Ttl,
    MayFail,      \* commands may fail; only a success is cached
    MaxTime,      \* bound: the clock stops here
    MaxRuns       \* bound: the commands run

\* What the constants may be.
PagedRunsAssumption ==
    /\ IsFiniteSet(Clients) /\ IsFiniteSet(Keys) /\ Sizes \subseteq Nat
    /\ {MaxBytes, Ttl, MaxTime, MaxRuns} \subseteq Nat
    /\ MaxEntries \in Nat \ {0} /\ MayFail \in BOOLEAN

VARIABLES
    cache,        \* the map in insertion order, least recently used first; the
                  \* code's sizes and totalBytes are sums over it
    now,
    runs,         \* history: the runs started
    succeeded,    \* history: the key of every successful run, by number
    call,         \* the call each client has in flight
    read          \* history: the last run each client was answered from, by key

vars == <<cache, now, runs, succeeded, call, read>>

Idle == [key |-> "none", run |-> 0]

Init ==
    /\ cache = <<>> /\ now = 0 /\ runs = 0
    /\ succeeded = {}
    /\ call = [c \in Clients |-> Idle]
    /\ read = [c \in Clients |-> [k \in Keys |-> 0]]

KeysOf(s) == { s[i].key : i \in DOMAIN s }
Fresh(s) == Kept(s, { i \in DOMAIN s : now - s[i].at <= Ttl })
Without(s, k) == Kept(s, { i \in DOMAIN s : s[i].key # k })

Fits(s) == Len(s) <= MaxEntries /\ BytesOf(s) <= MaxBytes

\* The `while` of set: the oldest entries go until the rest fits.
Trimmed(s) ==
    LET enough == { n \in 0 .. Len(s) : Fits(Rest(s, n)) }
    IN  Rest(s, CHOOSE n \in enough : \A m \in enough : n <= m)

\* `set`: the old entry of the key goes even when the new one is too large.
Store(k, r, b) ==
    LET rest == Without(Fresh(cache), k)
    IN  IF b > MaxBytes THEN rest
        ELSE Trimmed(Append(rest, [key |-> k, run |-> r, bytes |-> b, at |-> now]))

Answered(c, k, r) == read' = [read EXCEPT ![c] = [@ EXCEPT ![k] = r]]

\* Mutant: the age is off by one.
HitLate(e) == now - e.at <= Ttl + 1

Hit(e) == now - e.at <= Ttl

\* A later page is answered from the cache, which notes the use.
Reuse(c, k) ==
    /\ call[c] = Idle
    /\ \E e \in { cache[i] : i \in DOMAIN cache } :
         /\ e.key = k /\ Hit(e)
         /\ cache' = Append(Without(cache, k), e)
         /\ Answered(c, k, e.run)
    /\ UNCHANGED <<now, runs, succeeded, call>>

\* Page 0, or a later page that is not cached: the command runs.
Execute(c, k) ==
    /\ call[c] = Idle /\ runs < MaxRuns
    /\ \/ UNCHANGED cache                             \* page 0
       \/ /\ \A i \in DOMAIN cache : cache[i].key = k => ~Hit(cache[i])
          /\ cache' = Without(cache, k)
    /\ runs' = runs + 1
    /\ call' = [call EXCEPT ![c] = [key |-> k, run |-> runs']]
    /\ UNCHANGED <<now, succeeded, read>>

\* The command ended; the answer is its output either way.
Finish(c) ==
    /\ call[c] # Idle
    /\ LET k == call[c].key
           r == call[c].run
       IN  /\ \/ /\ \E b \in Sizes : cache' = Store(k, r, b)
                 /\ succeeded' = succeeded \cup {<<k, r>>}
              \/ MayFail /\ UNCHANGED <<cache, succeeded>>
           /\ Answered(c, k, r)
    /\ call' = [call EXCEPT ![c] = Idle]
    /\ UNCHANGED <<now, runs>>

Tick ==
    /\ now < MaxTime /\ now' = now + 1
    /\ UNCHANGED <<cache, runs, succeeded, call, read>>

Next ==
    \/ Tick
    \/ \E c \in Clients : Finish(c) \/ \E k \in Keys : Reuse(c, k) \/ Execute(c, k)

Spec == Init /\ [][Next]_vars
------------------------------------------------------------------------------
\* The cache stays within both limits with one entry for each key, whatever the
\* order in which overlapping runs of the same key end.
Bounded == Fits(cache) /\ Cardinality(KeysOf(cache)) = Len(cache)

\* A page that is answered without running comes from a successful run of the
\* same key that ended at most Ttl ago (CHANGELOG.md:437).
ReusesFreshSuccess ==
    \A c \in Clients, k \in Keys :
        read'[c][k] # read[c][k] /\ call[c] = Idle =>
            /\ <<k, read'[c][k]>> \in succeeded
            /\ \E i \in DOMAIN cache :
                 cache[i].run = read'[c][k] /\ now - cache[i].at <= Ttl
==============================================================================
