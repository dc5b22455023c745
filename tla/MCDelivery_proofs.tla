-------------------------- MODULE MCDelivery_proofs --------------------------
(***************************************************************************)
(* What a client gets of a result, for every number of rows, results, keys *)
(* and clients, every size and every limit.  First applyBudget answers     *)
(* with the longest prefix of the rows that fits, and applyRunBudget,      *)
(* which runs it once or twice, is honest about the cap; then the three    *)
(* stores keep their limits and give out what they hold: the result store  *)
(* (by the lemmas of ResultStore_proofs), the pages a result is read on    *)
(* from, and the cache of run_paged.                                       *)
(***************************************************************************)
EXTENDS MCDelivery, TLAPS

\* What the search knows: the rows up to `lo` fit without the report, those
\* beyond `hi` do not.
SearchInv ==
    /\ phase = "search" => lo <= hi
    /\ lo = 0 \/ body[lo] <= cap
    /\ \A m \in hi + 1 .. Total : body[m] > cap

\* What the trimming knows: no longer prefix fits with its report.
TrimInv ==
    /\ phase # "search" => \A m \in kept + 1 .. Total : Whole(m) > cap
    /\ phase = "done" => kept = 0 \/ Whole(kept) <= cap

IInv == TypeOK /\ SearchInv /\ TrimInv

\* The middle of the search lies above `lo`, so each step shrinks the interval.
LEMMA MiddleBounds ==
    ASSUME lo \in Nat, hi \in Nat, lo < hi
    PROVE  Middle \in lo + 1 .. hi
BY DEF Middle

\* It holds before the search.
LEMMA InitIInv == Init => IInv
<1> SUFFICES ASSUME Init PROVE IInv
  OBVIOUS
<1> USE BudgetAssumption DEF Init
<1>1. cap \in Nat /\ body \in [0 .. Total -> Nat] /\ Monotone(body)
  OBVIOUS
<1>2. extra \in [0 .. Total -> Nat]
  OBVIOUS
<1>3. lo \in 0 .. Total /\ hi \in 0 .. Total /\ kept \in 0 .. Total /\ phase = "search"
  OBVIOUS
<1>4. SearchInv /\ TrimInv
  BY DEF SearchInv, TrimInv
<1> QED
  BY <1>1, <1>2, <1>3, <1>4 DEF IInv, TypeOK

\* Every step of the two loops preserves it.
LEMMA NextIInv == IInv /\ [Next]_vars => IInv'
<1> SUFFICES ASSUME IInv, [Next]_vars PROVE IInv'
  OBVIOUS
<1> USE BudgetAssumption DEF IInv, TypeOK
<1>1. CASE Search
  <2>1. lo \in Nat /\ hi \in Nat /\ lo < hi /\ hi <= Total
    BY <1>1 DEF Search
  <2>2. Middle \in lo + 1 .. hi
    BY <2>1, MiddleBounds
  <2>3. CASE body[Middle] <= cap
    <3>1. lo' = Middle /\ UNCHANGED <<hi, cap, body, extra, kept, phase>>
      BY <1>1, <2>3 DEF Search
    <3> QED
      BY <1>1, <2>1, <2>2, <2>3, <3>1 DEF SearchInv, TrimInv, Whole, Monotone, Search
  <2>4. CASE ~(body[Middle] <= cap)
    <3>1. hi' = Middle - 1 /\ UNCHANGED <<lo, cap, body, extra, kept, phase>>
      BY <1>1, <2>4 DEF Search
    <3>2. \A m \in Middle .. Total : body[m] > cap
      BY <2>1, <2>2, <2>4 DEF Monotone
    <3>3. hi' \in 0 .. Total /\ lo <= hi'
      BY <2>1, <2>2, <3>1
    <3>4. SearchInv'
      BY <2>1, <2>2, <3>1, <3>2, <3>3 DEF SearchInv
    <3> QED
      BY <1>1, <3>1, <3>3, <3>4 DEF TrimInv, Whole, Monotone, Search
  <2> QED
    BY <2>3, <2>4
<1>2. CASE SearchEnds
  <2>1. \A m \in lo + 1 .. Total : Whole(m) > cap
    BY <1>2 DEF SearchEnds, SearchInv, Whole
  <2> QED
    BY <1>2, <2>1 DEF SearchEnds, SearchInv, TrimInv, Whole, Monotone
<1>3. CASE Trim
  <2>1. CASE Stops
    BY <1>3, <2>1 DEF Trim, Stops, SearchInv, TrimInv, Whole, Monotone
  <2>2. CASE ~Stops
    <3>1. kept' = kept - 1 /\ kept' \in 0 .. Total /\ Whole(kept) > cap
          /\ UNCHANGED <<lo, hi, cap, body, extra, phase>>
      BY <1>3, <2>2 DEF Trim, Stops, Whole
    <3>2. \A m \in kept .. Total : Whole(m) > cap
      <4>1. \A m \in kept + 1 .. Total : Whole(m) > cap
        BY <1>3 DEF Trim, TrimInv
      <4>2. \A m \in kept .. Total : m = kept \/ m \in kept + 1 .. Total
        OBVIOUS
      <4> HIDE DEF IInv, TypeOK
      <4> QED
        BY <3>1, <4>1, <4>2
    <3>3. kept \in Nat /\ kept' \in Nat /\ kept' + 1 = kept /\ phase = "trim"
      BY <1>3, <3>1 DEF Trim
    <3>4. SearchInv'
      BY <3>1, <3>3 DEF SearchInv
    <3>5. TrimInv'
      BY <3>1, <3>2, <3>3 DEF TrimInv, Whole
    <3> QED
      BY <3>1, <3>4, <3>5 DEF Monotone
  <2> QED
    BY <2>1, <2>2
<1>4. CASE UNCHANGED vars
  BY <1>4 DEF vars, SearchInv, TrimInv, Whole, Monotone
<1> QED
  BY <1>1, <1>2, <1>3, <1>4 DEF Next

\* The invariant of both loops of applyBudget holds throughout.
THEOREM BudgetInvariant == Spec => []IInv
BY InitIInv, NextIInv, PTL DEF Spec

\* The indices of both loops stay within the rows.
THEOREM BudgetTypeOK == Spec => []TypeOK
<1>1. IInv => TypeOK
  BY DEF IInv
<1> QED
  BY <1>1, BudgetInvariant, PTL

\* applyBudget answers with the most rows that fit the budget with their report.
THEOREM BudgetKeepsTheMost == Spec => []KeepsTheMost
<1>1. IInv => KeepsTheMost
  BY DEF IInv, TrimInv, KeepsTheMost, IsLongestFit
<1> QED
  BY <1>1, BudgetInvariant, PTL

------------------------------------------------------------------------------
(* applyRunBudget.                                                         *)

Stages == {"first", "check", "second", "final", "answered"}

Results == [rows : 0 .. Total, requested : Nat, met : BOOLEAN, size : Nat]

RunTypeOK ==
    /\ base \in [0 .. Total -> Nat] /\ Monotone(base)
    /\ delivered \in [0 .. Total -> Nat]
    /\ stage \in Stages
    /\ original \in Results /\ final \in Results

\* The answer that is chosen is the first one, or one that fits the budget; it is
\* delivered as it is if it fits, and otherwise without the claim to have met it.
ChoiceInv ==
    /\ stage # "first" => final = original \/ final.size <= MaxTokens
    /\ stage = "answered" =>
         IF final.size > MaxTokens
         THEN answer = Admitted(final)
         ELSE answer = final

RunInv == IInv /\ RunTypeOK /\ ChoiceInv

\* It holds before the first application.
LEMMA RunInitInv == RunInit => RunInv
<1> SUFFICES ASSUME RunInit PROVE RunInv
  OBVIOUS
<1> USE BudgetAssumption, RunBudgetAssumption DEF RunInit
<1>1. base \in [0 .. Total -> Nat] /\ Monotone(base)
  OBVIOUS
<1>2. body \in [0 .. Total -> Nat] /\ Monotone(body)
  BY <1>1 DEF Monotone
<1>3. TypeOK
  BY <1>2 DEF TypeOK
<1>4. SearchInv /\ TrimInv
  <2>1. lo = 0 /\ hi = Total /\ phase = "search" /\ Total \in Nat
    OBVIOUS
  <2> HIDE DEF RunInit
  <2> QED
    BY <2>1 DEF SearchInv, TrimInv
<1>5. None \in Results
  BY DEF None, Results
<1>6. RunTypeOK
  <2>1. delivered \in [0 .. Total -> Nat]
    OBVIOUS
  <2>2. stage \in Stages
    BY DEF Stages
  <2> QED
    BY <1>1, <1>5, <2>1, <2>2 DEF RunTypeOK
<1> QED
  BY <1>3, <1>4, <1>6 DEF RunInv, IInv, ChoiceInv

\* What applyBudget returns is a result.
LEMMA OutcomeIsResult ==
    ASSUME TypeOK, delivered \in [0 .. Total -> Nat]
    PROVE  Outcome \in Results
<1> DEFINE whole == Fixed \/ (mode = "error" /\ kept < Total)
           rows  == IF whole THEN Total ELSE kept
<1>1. rows \in 0 .. Total
  BY BudgetAssumption DEF TypeOK
<1>2. delivered[rows] \in Nat /\ cap \in Nat
  BY <1>1 DEF TypeOK
<1> QED
  BY <1>1, <1>2 DEF Outcome, Results

\* Every step of both applications and of the choice preserves it.
LEMMA RunNextInv == RunInv /\ [RunNext]_runVars => RunInv'
<1> SUFFICES ASSUME RunInv, [RunNext]_runVars PROVE RunInv'
  OBVIOUS
<1> USE BudgetAssumption, RunBudgetAssumption DEF RunInv, RunTypeOK, sizes
<1>1. CASE UNCHANGED runVars
  BY <1>1 DEF runVars, vars, IInv, TypeOK, SearchInv, TrimInv, Whole, Monotone, ChoiceInv
<1>2. CASE Apply
  <2>1. IInv'
    BY <1>2, NextIInv DEF Apply
  <2> QED
    BY <1>2, <2>1 DEF Apply, Monotone, ChoiceInv
<1>3. ASSUME UNCHANGED vars PROVE IInv'
  BY <1>3, NextIInv
<1>4. CASE First
  <2>1. Outcome \in Results
    BY OutcomeIsResult DEF IInv
  <2> QED
    BY <1>3, <1>4, <2>1 DEF First, Monotone, ChoiceInv, Stages
<1>5. CASE Tighten
  <2>1. cap' \in Nat
    <3>1. cap' = Tighter /\ final.size > MaxTokens /\ Tighter > 0
      BY <1>5 DEF Tighten
    <3>2. Tighter \in Int
      BY DEF Tighter, Results
    <3> QED
      BY <3>1, <3>2
  <2>2. TypeOK'
    BY <1>5, <2>1 DEF Tighten, IInv, TypeOK, Monotone
  <2>3. SearchInv' /\ TrimInv'
    BY <1>5 DEF Tighten, SearchInv, TrimInv
  <2> QED
    BY <1>5, <2>2, <2>3 DEF Tighten, IInv, Monotone, ChoiceInv, Stages
<1>6. CASE Choose
  <2>1. Outcome \in Results
    BY OutcomeIsResult DEF IInv
  <2> QED
    BY <1>3, <1>6, <2>1 DEF Choose, Monotone, ChoiceInv, Stages
<1>7. CASE Accept
  BY <1>3, <1>7 DEF Accept, Monotone, ChoiceInv, Stages
<1>8. CASE Answer
  BY <1>3, <1>8 DEF Answer, Monotone, ChoiceInv, Stages
<1> QED
  BY <1>1, <1>2, <1>4, <1>5, <1>6, <1>7, <1>8 DEF RunNext

\* The invariant of both applications and of the choice between them.
THEOREM RunBudgetInvariant == RunSpec => []RunInv
BY RunInitInv, RunNextInv, PTL DEF RunSpec

\* The indices of both loops stay within the rows, in both applications.
THEOREM RunBudgetTypeOK == RunSpec => []TypeOK
<1>1. RunInv => TypeOK
  BY DEF RunInv, IInv
<1> QED
  BY <1>1, RunBudgetInvariant, PTL

\* Either application answers with the most rows that fit its cap.
THEOREM RunBudgetKeepsTheMost == RunSpec => []KeepsTheMost
<1>1. RunInv => KeepsTheMost
  BY DEF RunInv, IInv, TrimInv, KeepsTheMost, IsLongestFit
<1> QED
  BY <1>1, RunBudgetInvariant, PTL

\* No answer that is larger than the budget of the client claims to meet it.
THEOREM RunBudgetMetIsHonest == RunSpec => []MetIsHonest
<1>1. RunInv => MetIsHonest
  <2> SUFFICES ASSUME RunInv, stage = "answered", answer.met
               PROVE  answer.size <= MaxTokens
    BY DEF MetIsHonest, Answered
  <2> USE BudgetAssumption DEF RunInv, RunTypeOK, ChoiceInv, Results, Admitted
  <2>1. CASE final.size > MaxTokens
    BY <2>1
  <2>2. CASE ~(final.size > MaxTokens)
    BY <2>2
  <2> QED
    BY <2>1, <2>2
<1> QED
  BY <1>1, RunBudgetInvariant, PTL

\* An answer that misses the cap has the rows of the first application.
THEOREM RunBudgetMissedCapKeepsRows == RunSpec => []MissedCapKeepsRows
<1>1. RunInv => MissedCapKeepsRows
  <2> SUFFICES ASSUME RunInv, stage = "answered", answer.size > MaxTokens
               PROVE  answer.rows = original.rows
    BY DEF MissedCapKeepsRows, Answered
  <2> USE BudgetAssumption DEF RunInv, RunTypeOK, ChoiceInv, Results, Admitted
  <2>1. CASE final.size > MaxTokens
    <3>1. final = original
      BY <2>1
    <3> QED
      BY <2>1, <3>1
  <2>2. CASE ~(final.size > MaxTokens)
    BY <2>2
  <2> QED
    BY <2>1, <2>2
<1> QED
  BY <1>1, RunBudgetInvariant, PTL

------------------------------------------------------------------------------
SP == INSTANCE ResultStore_proofs WITH
        Ids <- Names \cup {Fourth}, Sizes <- Stored.sizes, MaxBytesPerResult <- Stored.perResult,
        MaxBytesTotal <- Stored.total, MaxEntries <- Stored.entries, Ttl <- Stored.ttl,
        MaxTime <- Stored.time

RP == INSTANCE ResultStore_proofs WITH
        Ids <- Names, Sizes <- ReadOn.sizes, MaxBytesPerResult <- ReadOn.perResult,
        MaxBytesTotal <- ReadOn.total, MaxEntries <- ReadOn.entries, Ttl <- ReadOn.ttl,
        MaxTime <- ReadOn.time

LEMMA StoreKeptSame == ASSUME NEW s, NEW T PROVE S!Kept(s, T) = SP!Kept(s, T)
BY DEF S!Kept, SP!Kept

LEMMA StoreRestSame == ASSUME NEW s, NEW n PROVE S!Rest(s, n) = SP!Rest(s, n)
BY DEF S!Rest, SP!Rest

LEMMA StoreBytesSame == ASSUME NEW s PROVE S!BytesOf(s) = SP!BytesOf(s)
BY DEF S!BytesOf, SP!BytesOf

LEMMA StoreIdsSame == ASSUME NEW s PROVE S!IdsOf(s) = SP!IdsOf(s)
BY DEF S!IdsOf, SP!IdsOf

LEMMA StoreWithoutSame == ASSUME NEW s, NEW id PROVE S!Without(s, id) = SP!Without(s, id)
BY StoreKeptSame DEF S!Without, SP!Without

LEMMA StoreExpiredSame == ASSUME NEW e PROVE S!Expired(e) <=> SP!Expired(e)
BY DEF S!Expired, SP!Expired

LEMMA StoreUnexpiredSame == ASSUME NEW s PROVE S!Unexpired(s) = SP!Unexpired(s)
BY StoreKeptSame DEF S!Unexpired, SP!Unexpired, S!Expired, SP!Expired

LEMMA StoreFreshSame == S!Fresh = SP!Fresh
BY StoreUnexpiredSame DEF S!Fresh, SP!Fresh

LEMMA StoreStaleSame == S!Stale = SP!Stale
BY StoreKeptSame DEF S!Stale, SP!Stale, S!Expired, SP!Expired

LEMMA StoreRoomSame == ASSUME NEW s, NEW b PROVE S!Room(s, b) <=> SP!Room(s, b)
BY StoreBytesSame DEF S!Room, SP!Room

LEMMA StoreVictimsSame == ASSUME NEW s, NEW b PROVE S!Victims(s, b) = SP!Victims(s, b)
<1> DEFINE E == { n \in 0 .. Len(s) : S!Room(S!Rest(s, n), b) }
           F == { n \in 0 .. Len(s) : SP!Room(SP!Rest(s, n), b) }
           Smallest(X) == IF X = {} THEN Len(s) ELSE CHOOSE n \in X : \A m \in X : n <= m
<1>1. E = F
  BY StoreRestSame, StoreRoomSame
<1>2. S!Victims(s, b) = Smallest(E)
  BY DEF S!Victims
<1>3. SP!Victims(s, b) = Smallest(F)
  BY DEF SP!Victims
<1> HIDE DEF E, F, Smallest
<1> QED
  BY <1>1, <1>2, <1>3

LEMMA StoreMissingSame == ASSUME NEW m, NEW U, NEW x PROVE S!Missing(m, U, x) = SP!Missing(m, U, x)
BY DEF S!Missing, SP!Missing

LEMMA StoreHeldSame == S!Held = SP!Held
BY StoreIdsSame DEF S!Held, SP!Held

LEMMA StorePutSame == ASSUME NEW id, NEW b PROVE S!Put(id, b) <=> SP!Put(id, b)
BY StoreFreshSame, StoreVictimsSame, StoreRestSame, StoreBytesSame, StoreStaleSame, StoreMissingSame, StoreIdsSame, StoreRoomSame DEF S!Put, SP!Put

LEMMA StoreMarkNotRetainedSame == ASSUME NEW id PROVE S!MarkNotRetained(id) <=> SP!MarkNotRetained(id)
BY StoreHeldSame DEF S!MarkNotRetained, SP!MarkNotRetained

LEMMA StoreGetSame == ASSUME NEW id PROVE S!Get(id) <=> SP!Get(id)
BY StoreWithoutSame, StoreExpiredSame, StoreHeldSame DEF S!Get, SP!Get

LEMMA StoreTickSame == S!Tick <=> SP!Tick
BY DEF S!Tick, SP!Tick

LEMMA StoreNextSame == S!Next <=> SP!Next
BY StoreTickSame, StoreMarkNotRetainedSame, StoreGetSame, StorePutSame DEF S!Next, SP!Next

LEMMA ReadKeptSame == ASSUME NEW s, NEW T PROVE C!R!Kept(s, T) = RP!Kept(s, T)
BY DEF C!R!Kept, RP!Kept

LEMMA ReadRestSame == ASSUME NEW s, NEW n PROVE C!R!Rest(s, n) = RP!Rest(s, n)
BY DEF C!R!Rest, RP!Rest

LEMMA ReadBytesSame == ASSUME NEW s PROVE C!R!BytesOf(s) = RP!BytesOf(s)
BY DEF C!R!BytesOf, RP!BytesOf

LEMMA ReadIdsSame == ASSUME NEW s PROVE C!R!IdsOf(s) = RP!IdsOf(s)
BY DEF C!R!IdsOf, RP!IdsOf

LEMMA ReadWithoutSame == ASSUME NEW s, NEW id PROVE C!R!Without(s, id) = RP!Without(s, id)
BY ReadKeptSame DEF C!R!Without, RP!Without

LEMMA ReadExpiredSame == ASSUME NEW e PROVE C!R!Expired(e) <=> RP!Expired(e)
BY DEF C!R!Expired, RP!Expired

LEMMA ReadUnexpiredSame == ASSUME NEW s PROVE C!R!Unexpired(s) = RP!Unexpired(s)
BY ReadKeptSame DEF C!R!Unexpired, RP!Unexpired, C!R!Expired, RP!Expired

LEMMA ReadFreshSame == C!R!Fresh = RP!Fresh
BY ReadUnexpiredSame DEF C!R!Fresh, RP!Fresh

LEMMA ReadStaleSame == C!R!Stale = RP!Stale
BY ReadKeptSame DEF C!R!Stale, RP!Stale, C!R!Expired, RP!Expired

LEMMA ReadRoomSame == ASSUME NEW s, NEW b PROVE C!R!Room(s, b) <=> RP!Room(s, b)
BY ReadBytesSame DEF C!R!Room, RP!Room

LEMMA ReadVictimsSame == ASSUME NEW s, NEW b PROVE C!R!Victims(s, b) = RP!Victims(s, b)
<1> DEFINE E == { n \in 0 .. Len(s) : C!R!Room(C!R!Rest(s, n), b) }
           F == { n \in 0 .. Len(s) : RP!Room(RP!Rest(s, n), b) }
           Smallest(X) == IF X = {} THEN Len(s) ELSE CHOOSE n \in X : \A m \in X : n <= m
<1>1. E = F
  BY ReadRestSame, ReadRoomSame
<1>2. C!R!Victims(s, b) = Smallest(E)
  BY DEF C!R!Victims
<1>3. RP!Victims(s, b) = Smallest(F)
  BY DEF RP!Victims
<1> HIDE DEF E, F, Smallest
<1> QED
  BY <1>1, <1>2, <1>3

LEMMA ReadMissingSame == ASSUME NEW m, NEW U, NEW x PROVE C!R!Missing(m, U, x) = RP!Missing(m, U, x)
BY DEF C!R!Missing, RP!Missing

LEMMA ReadHeldSame == C!R!Held = RP!Held
BY ReadIdsSame DEF C!R!Held, RP!Held

LEMMA ReadPutSame == ASSUME NEW id, NEW b PROVE C!R!Put(id, b) <=> RP!Put(id, b)
BY ReadFreshSame, ReadVictimsSame, ReadRestSame, ReadBytesSame, ReadStaleSame, ReadMissingSame, ReadIdsSame, ReadRoomSame DEF C!R!Put, RP!Put

LEMMA ReadMarkNotRetainedSame == ASSUME NEW id PROVE C!R!MarkNotRetained(id) <=> RP!MarkNotRetained(id)
BY ReadHeldSame DEF C!R!MarkNotRetained, RP!MarkNotRetained

LEMMA ReadGetSame == ASSUME NEW id PROVE C!R!Get(id) <=> RP!Get(id)
BY ReadWithoutSame, ReadExpiredSame, ReadHeldSame DEF C!R!Get, RP!Get

LEMMA ReadTickSame == C!R!Tick <=> RP!Tick
BY DEF C!R!Tick, RP!Tick

LEMMA ReadNextSame == C!R!Next <=> RP!Next
BY ReadTickSame, ReadMarkNotRetainedSame, ReadGetSame, ReadPutSame DEF C!R!Next, RP!Next

LEMMA StoreInitSame == S!Init <=> SP!Init
BY DEF S!Init, SP!Init, S!NoAnswer, SP!NoAnswer

LEMMA StoreAccountingSame == S!Accounting <=> SP!Accounting
BY StoreBytesSame, StoreHeldSame DEF S!Accounting, SP!Accounting, S!Cardinality, SP!Cardinality

LEMMA StoreHeldOrExplainedSame == S!HeldOrExplained <=> SP!HeldOrExplained
BY StoreHeldSame DEF S!HeldOrExplained, SP!HeldOrExplained

LEMMA StoreAnswersTruthfullySame == S!AnswersTruthfully <=> SP!AnswersTruthfully
BY StoreIdsSame DEF S!AnswersTruthfully, SP!AnswersTruthfully, S!Held, SP!Held

LEMMA StoreLeavesForAReasonSame == S!LeavesForAReason <=> SP!LeavesForAReason
BY StoreIdsSame, StoreUnexpiredSame, StoreRestSame, StoreExpiredSame, StoreRoomSame, StoreHeldSame DEF S!LeavesForAReason, SP!LeavesForAReason

LEMMA StoreMCInitSame == S!MCInit <=> SP!MCInit
BY StoreInitSame DEF S!MCInit, SP!MCInit

LEMMA StoreUsedSame == ASSUME NEW id PROVE S!Used(id) <=> SP!Used(id)
BY StoreKeptSame DEF S!Used, SP!Used

LEMMA StoreMCNextSame == S!MCNext <=> SP!MCNext
BY StoreTickSame, StoreMarkNotRetainedSame, StoreGetSame, StorePutSame, StoreUsedSame, StoreIdsSame DEF S!MCNext, SP!MCNext

LEMMA StoreEvictsLeastRecentlyUsedSame == S!EvictsLeastRecentlyUsed <=> SP!EvictsLeastRecentlyUsed
BY StoreIdsSame, StoreHeldSame DEF S!EvictsLeastRecentlyUsed, SP!EvictsLeastRecentlyUsed

LEMMA ReadInitSame == C!R!Init <=> RP!Init
BY DEF C!R!Init, RP!Init, C!R!NoAnswer, RP!NoAnswer

LEMMA ReadAccountingSame == C!R!Accounting <=> RP!Accounting
BY ReadBytesSame, ReadHeldSame DEF C!R!Accounting, RP!Accounting, C!R!Cardinality, RP!Cardinality

LEMMA ReadHeldOrExplainedSame == C!R!HeldOrExplained <=> RP!HeldOrExplained
BY ReadHeldSame DEF C!R!HeldOrExplained, RP!HeldOrExplained

LEMMA ReadAnswersTruthfullySame == C!R!AnswersTruthfully <=> RP!AnswersTruthfully
BY ReadIdsSame DEF C!R!AnswersTruthfully, RP!AnswersTruthfully, C!R!Held, RP!Held

LEMMA ReadLeavesForAReasonSame == C!R!LeavesForAReason <=> RP!LeavesForAReason
BY ReadIdsSame, ReadUnexpiredSame, ReadRestSame, ReadExpiredSame, ReadRoomSame, ReadHeldSame DEF C!R!LeavesForAReason, RP!LeavesForAReason

LEMMA StoreLimitsSound == SP!ResultStoreAssumption /\ SP!LimitsAgree
BY DeliveryAssumption
   DEF S!ResultStoreAssumption, S!LimitsAgree, SP!ResultStoreAssumption, SP!LimitsAgree,
       S!IsFiniteSet, SP!IsFiniteSet

LEMMA ReadLimitsSound == RP!ResultStoreAssumption /\ RP!LimitsAgree
BY DeliveryAssumption
   DEF C!R!ResultStoreAssumption, C!R!LimitsAgree, RP!ResultStoreAssumption, RP!LimitsAgree,
       C!R!IsFiniteSet, RP!IsFiniteSet

------------------------------------------------------------------------------
(* Reading a result on.                                                    *)

Last == ReadOn.rows

\* What a client has read is what its cursor says, and it is done only at the end.
CursorInv ==
    /\ reading \in [Names -> {"unused", "reading", "done"}]
    /\ cursor \in [Names -> 0 .. Last]
    /\ received = [i \in Names |-> C!Numbers(0, cursor[i])]
    /\ \A i \in Names : /\ reading[i] = "unused" => cursor[i] = 0
                        /\ reading[i] = "done" => cursor[i] = Last

\* Only what was run has a page or has lost it, and never both.
PagesInv ==
    /\ pages \in Seq(Names) /\ Len(pages) <= ReadOn.entries
    /\ \A j, k \in 1 .. Len(pages) : pages[j] = pages[k] => j = k
    /\ \A k \in 1 .. Len(pages) : pages[k] \notin dropped /\ reading[pages[k]] # "unused"
    /\ \A i \in dropped : i \in Names /\ reading[i] # "unused"

ReadInv == RP!StoreInv /\ CursorInv /\ PagesInv

LEMMA ReadingTypes == Last \in Nat /\ Last > 0 /\ ReadOn.entries \in Nat /\ ReadOn.entries > 0
BY DeliveryAssumption DEF C!ContinuationAssumption, Last

\* The rows up to one cursor and from there to the next are the rows up to the next.
LEMMA Joined ==
    ASSUME NEW T, NEW s \in Seq(T), NEW t \in Seq(T)
    PROVE  s \o t \in Seq(T) /\ Len(s \o t) = Len(s) + Len(t)
OBVIOUS

LEMMA NumbersJoin ==
    ASSUME NEW a \in Nat, NEW b \in Nat, a <= b
    PROVE  C!Numbers(0, a) \o C!Numbers(a, b) = C!Numbers(0, b)
<1>1. PICK s : s = [k \in 1 .. a |-> 0 + k]
  OBVIOUS
<1>2. s \in Seq(Nat) /\ Len(s) = a
  BY <1>1
<1>3. PICK t : t = [k \in 1 .. b - a |-> a + k]
  OBVIOUS
<1>4. t \in Seq(Nat) /\ Len(t) = b - a
  BY <1>3
<1>5. PICK u : u = [k \in 1 .. b |-> 0 + k]
  OBVIOUS
<1>6. u \in Seq(Nat) /\ Len(u) = b
  BY <1>5
<1>7. s \o t \in Seq(Nat) /\ Len(s \o t) = b
  <2>1. s \o t \in Seq(Nat) /\ Len(s \o t) = Len(s) + Len(t)
    BY <1>2, <1>4, Joined
  <2>2. a + (b - a) = b
    OBVIOUS
  <2> QED
    BY <1>2, <1>4, <2>1, <2>2
<1>8. ASSUME NEW k \in 1 .. b PROVE (s \o t)[k] = u[k]
  <2>1. CASE k <= a
    <3>1. (s \o t)[k] = s[k]
      BY <1>2, <1>4, <2>1
    <3> QED
      BY <1>1, <1>5, <2>1, <3>1
  <2>2. CASE ~(k <= a)
    <3>1. k - a \in 1 .. b - a /\ k \in 1 .. a + (b - a) /\ ~(k <= a)
      BY <2>2
    <3>2. (s \o t)[k] = t[k - a]
      BY <1>2, <1>4, <3>1
    <3>3. t[k - a] = a + (k - a)
      BY <1>3, <3>1
    <3> QED
      BY <1>5, <2>2, <3>2, <3>3
  <2> QED
    BY <2>1, <2>2
<1>9. s \o t = u
  <2>1. PICK w : w = s \o t
    OBVIOUS
  <2>2. w \in Seq(Nat) /\ Len(w) = b /\ \A k \in 1 .. b : w[k] = u[k]
    BY <1>7, <1>8, <2>1
  <2>3. w = u
    BY <1>6, <2>2
  <2> QED
    BY <2>1, <2>3
<1> QED
  BY <1>1, <1>3, <1>5, <1>9 DEF C!Numbers

\* An answer with the rows after the cursor moves the cursor behind them.
LEMMA ReadKeepsCursor ==
    ASSUME CursorInv, NEW id \in Names, NEW to \in cursor[id] .. Last,
           C!Read(id, cursor[id], to, to)
    PROVE  CursorInv' /\ \A i \in Names : reading'[i] # "unused" <=> (reading[i] # "unused" \/ i = id)
<1>1. PICK from \in Nat : from = cursor[id] /\ from <= to /\ to \in 0 .. Last /\ to \in Nat
  BY ReadingTypes DEF CursorInv
<1>2. PICK p \in {"reading", "done"} : reading' = [reading EXCEPT ![id] = p] /\ (p = "done" => to = Last)
  <2>1. reading' = [reading EXCEPT ![id] = IF to < Last THEN "reading" ELSE "done"]
    BY DEF C!Read, Last
  <2>2. to < Last \/ to = Last
    BY <1>1, ReadingTypes
  <2> QED
    BY <2>1, <2>2
<1>3. cursor' = [cursor EXCEPT ![id] = to] /\ cursor' \in [Names -> 0 .. Last]
  BY <1>1 DEF C!Read, CursorInv
<1>4. received'[id] = C!Numbers(0, to)
  <2>1. received'[id] = received[id] \o C!Numbers(from, to)
    BY <1>1 DEF C!Read, CursorInv
  <2>2. received[id] = C!Numbers(0, from)
    BY <1>1 DEF CursorInv
  <2> QED
    BY <1>1, <2>1, <2>2, NumbersJoin
<1>5. received' = [i \in Names |-> C!Numbers(0, cursor'[i])]
  <2>1. /\ received' = [i \in Names |-> received'[i]]
        /\ \A i \in Names : i # id => received'[i] = received[i]
    BY DEF C!Read, CursorInv
  <2>2. \A i \in Names : received'[i] = C!Numbers(0, cursor'[i])
    BY <1>3, <1>4, <2>1 DEF CursorInv
  <2> QED
    BY <2>1, <2>2
<1>6. reading' \in [Names -> {"unused", "reading", "done"}] /\ reading'[id] = p
      /\ \A i \in Names : i # id => reading'[i] = reading[i]
  BY <1>2 DEF CursorInv
<1> QED
  BY <1>2, <1>3, <1>5, <1>6 DEF CursorInv

\* The oldest pages go, the new one comes last.
LEMMA KeepPageKeeps ==
    ASSUME PagesInv, NEW id \in Names, reading[id] = "unused", NEW first, C!KeepPage(id, first),
           \A i \in Names : reading'[i] # "unused" <=> (reading[i] # "unused" \/ i = id)
    PROVE  PagesInv'
<1>1. CASE UNCHANGED <<pages, dropped>>
  BY <1>1 DEF PagesInv
<1>2. CASE ~UNCHANGED <<pages, dropped>>
  <2>1. PICK L \in Nat, M \in Nat : L = Len(pages) /\ M = ReadOn.entries /\ L <= M /\ M > 0
    BY ReadingTypes DEF PagesInv
  <2>2. PICK d \in 0 .. L : C!Survivors(pages) = SP!Rest(pages, d) /\ L - d < M
    <3>1. CASE L >= M
      <4>1. C!Survivors(pages) = SubSeq(pages, L - M + 2, L)
        BY <2>1, <3>1 DEF C!Survivors
      <4>2. L - M + 1 \in 0 .. L /\ L - (L - M + 1) < M /\ (L - M + 1) + 1 = L - M + 2
        BY <2>1, <3>1
      <4> QED
        BY <2>1, <4>1, <4>2 DEF SP!Rest
    <3>2. CASE ~(L >= M)
      <4>1. C!Survivors(pages) = SubSeq(pages, 1, L)
        BY <2>1, <3>2 DEF C!Survivors
      <4>2. 0 \in 0 .. L /\ L - 0 < M /\ 0 + 1 = 1
        BY <2>1, <3>2
      <4> QED
        BY <2>1, <4>1, <4>2 DEF SP!Rest
    <3> QED
      BY <3>1, <3>2
  <2>3. PICK s \in Seq(Names) : /\ s = SP!Rest(pages, d) /\ Len(s) = L - d
                                /\ \A k \in 1 .. L - d : s[k] = pages[d + k]
    <3>1. pages \in Seq(Names) /\ d \in 0 .. Len(pages)
      BY <2>1 DEF PagesInv
    <3>2. /\ SP!Rest(pages, d) \in Seq(Names) /\ Len(SP!Rest(pages, d)) = Len(pages) - d
          /\ \A k \in 1 .. Len(pages) - d : SP!Rest(pages, d)[k] = pages[d + k]
      BY <3>1, SP!RestPlaces
    <3> QED
      BY <2>1, <3>2
  <2>4. /\ pages' = Append(s, id)
        /\ dropped' = dropped \cup { pages[k] : k \in 1 .. L - (L - d) }
    BY <1>2, <2>1, <2>2, <2>3 DEF C!KeepPage
  <2>5. L - (L - d) = d
    BY <2>1
  <2>6. /\ pages' \in Seq(Names) /\ Len(pages') = (L - d) + 1 /\ pages'[(L - d) + 1] = id
        /\ \A k \in 1 .. L - d : pages'[k] = s[k]
    <3>1. id \in Names /\ s \in Seq(Names) /\ Len(s) = L - d
      BY <2>3
    <3>2. /\ Append(s, id) \in Seq(Names) /\ Len(Append(s, id)) = Len(s) + 1
          /\ Append(s, id)[Len(s) + 1] = id
          /\ \A k \in 1 .. Len(s) : Append(s, id)[k] = s[k]
      BY <3>1, SP!AppendPlaces
    <3> QED
      BY <2>4, <3>1, <3>2
  <2>7. Len(pages') <= M /\ \A k \in 1 .. (L - d) + 1 : k = (L - d) + 1 \/ k \in 1 .. L - d
    <3>1. PICK n \in Nat : n = L - d /\ n < M
      BY <2>1, <2>2
    <3>2. n + 1 <= M /\ \A k \in 1 .. n + 1 : k = n + 1 \/ k \in 1 .. n
      BY <2>1, <3>1
    <3> QED
      BY <2>6, <3>1, <3>2
  <2>8. \A k \in 1 .. L - d : d + k \in 1 .. L /\ pages'[k] = pages[d + k]
    BY <2>1, <2>3, <2>6
  <2>9. \A k \in 1 .. L : pages[k] # id /\ pages[k] \notin dropped /\ pages[k] \in Names
    BY <2>1 DEF PagesInv
  <2>10. ASSUME NEW j \in 1 .. Len(pages'), NEW k \in 1 .. Len(pages'), pages'[j] = pages'[k] PROVE j = k
    <3>1. CASE j \in 1 .. L - d /\ k \in 1 .. L - d
      <4>1. d + j = d + k
        BY <2>1, <2>8, <2>10, <3>1 DEF PagesInv
      <4> QED
        BY <3>1, <4>1
    <3>2. \A m \in 1 .. L - d : pages'[m] # id
      BY <2>8, <2>9
    <3>3. /\ j = (L - d) + 1 \/ j \in 1 .. L - d
          /\ k = (L - d) + 1 \/ k \in 1 .. L - d
      BY <2>6, <2>7
    <3> QED
      BY <2>6, <2>10, <3>1, <3>2, <3>3
  <2>11. ASSUME NEW k \in 1 .. Len(pages') PROVE pages'[k] \notin dropped' /\ reading'[pages'[k]] # "unused"
    <3>1. CASE k = (L - d) + 1
      <4>1. id \notin dropped
        BY DEF PagesInv
      <4> QED
        BY <2>1, <2>4, <2>5, <2>6, <2>9, <3>1, <4>1
    <3>2. CASE k \in 1 .. L - d
      <4>1. d + k \in 1 .. L /\ pages'[k] = pages[d + k] /\ ~(d + k \in 1 .. d)
        BY <2>8, <3>2
      <4>2. \A j \in 1 .. d : j \in 1 .. L
        BY <2>1
      <4>3. \A j \in 1 .. d : pages[j] # pages[d + k]
        BY <2>1, <4>1, <4>2 DEF PagesInv
      <4>4. reading[pages[d + k]] # "unused"
        BY <2>1, <4>1 DEF PagesInv
      <4> QED
        BY <2>4, <2>5, <2>9, <4>1, <4>3, <4>4
    <3> QED
      BY <2>6, <2>7, <3>1, <3>2
  <2>12. ASSUME NEW i \in dropped' PROVE i \in Names /\ reading'[i] # "unused"
    <3>1. CASE i \in dropped
      BY <3>1 DEF PagesInv
    <3>2. CASE ~(i \in dropped)
      <4>1. PICK k \in 1 .. d : i = pages[k]
        BY <2>4, <2>5, <3>2
      <4>2. k \in 1 .. L
        BY <2>1
      <4> QED
        BY <2>1, <2>9, <4>1, <4>2 DEF PagesInv
    <3> QED
      BY <3>1, <3>2
  <2> QED
    BY <2>1, <2>6, <2>7, <2>10, <2>11, <2>12 DEF PagesInv
<1> QED
  BY <1>1, <1>2

\* A run: the review keeps or refuses the result, the first rows are answered.
LEMMA RunKeepsReading ==
    ASSUME ReadInv, NEW id \in Names, C!Run(id)
    PROVE  [RP!Next]_RP!storeVars /\ CursorInv' /\ PagesInv'
<1>1. PICK first \in 0 .. Last, got \in 0 .. Last : C!KeepPage(id, first) /\ C!Read(id, 0, got, got)
  BY DEF C!Run, Last
<1>2. reading[id] = "unused" /\ cursor[id] = 0
  BY DEF C!Run, ReadInv, CursorInv
<1>3. CursorInv' /\ \A i \in Names : reading'[i] # "unused" <=> (reading[i] # "unused" \/ i = id)
  BY <1>1, <1>2, ReadKeepsCursor DEF ReadInv
<1>4. PagesInv'
  BY <1>1, <1>2, <1>3, KeepPageKeeps DEF ReadInv
<1>5. C!Review(id)
  BY DEF C!Run
<1>6. CASE UNCHANGED C!storeVars
  BY <1>3, <1>4, <1>6 DEF C!storeVars, RP!storeVars
<1>7. CASE C!R!MarkNotRetained(id)
  BY <1>3, <1>4, <1>7, ReadMarkNotRetainedSame DEF RP!Next
<1>8. ASSUME NEW b \in ReadOn.sizes, C!R!Put(id, b) PROVE RP!Next
  BY <1>8, ReadPutSame DEF RP!Next
<1> QED
  BY <1>3, <1>4, <1>5, <1>6, <1>7, <1>8 DEF C!Review

LEMMA PagesUntouched ==
    ASSUME PagesInv, UNCHANGED <<pages, dropped>>,
           \A i \in Names : reading[i] # "unused" => reading'[i] # "unused"
    PROVE  PagesInv'
BY DEF PagesInv

\* A fetch: the next rows of a page, or the reason of the store.
LEMMA FetchKeepsReading ==
    ASSUME ReadInv, NEW id \in Names, C!Fetch(id)
    PROVE  [RP!Next]_RP!storeVars /\ CursorInv' /\ PagesInv'
<1>1. UNCHANGED <<pages, dropped>>
  BY DEF C!Fetch
<1>2. CASE C!FetchPage(id)
  <2>1. PICK at \in Nat : at = cursor[id] /\ at <= Last
    BY ReadingTypes DEF ReadInv, CursorInv
  <2>2. PICK taken \in 0 .. Last - at : C!Read(id, at, at + taken, C!NextOffset(at, taken))
    BY <1>2, <2>1 DEF C!FetchPage, Last
  <2>3. at + taken \in at .. Last
    BY <2>1, <2>2, ReadingTypes
  <2>4. C!Read(id, at, at + taken, at + taken)
    BY <2>2 DEF C!NextOffset
  <2>5. CursorInv' /\ \A i \in Names : reading'[i] # "unused" <=> (reading[i] # "unused" \/ i = id)
    BY <2>1, <2>3, <2>4, ReadKeepsCursor DEF ReadInv
  <2>6. PagesInv'
    BY <1>1, <2>5, PagesUntouched DEF ReadInv
  <2>7. UNCHANGED RP!storeVars
    BY <1>2 DEF C!FetchPage, C!storeVars, RP!storeVars
  <2> QED
    BY <2>5, <2>6, <2>7
<1>3. CASE C!FetchRefused(id)
  <2>1. UNCHANGED <<reading, cursor, received>> /\ C!R!Get(id)
    BY <1>3 DEF C!FetchRefused, C!clientVars
  <2>2. RP!Next
    BY <2>1, ReadGetSame DEF RP!Next
  <2>3. CursorInv'
    BY <2>1 DEF ReadInv, CursorInv
  <2>4. PagesInv'
    BY <1>1, <2>1, PagesUntouched DEF ReadInv
  <2> QED
    BY <2>2, <2>3, <2>4
<1> QED
  BY <1>2, <1>3 DEF C!Fetch

LEMMA ReadInit == ASSUME C!Init PROVE ReadInv
<1>1. RP!StoreInv
  BY ReadInitSame, ReadLimitsSound, RP!StoreInit DEF C!Init
<1>2. CursorInv
  <2>1. C!Numbers(0, 0) = <<>>
    BY DEF C!Numbers
  <2> QED
    BY <2>1, ReadingTypes DEF C!Init, CursorInv
<1>3. PagesInv
  BY ReadingTypes DEF C!Init, PagesInv
<1> QED
  BY <1>1, <1>2, <1>3 DEF ReadInv

\* Every step of a client is a step of the store, or leaves it alone.
LEMMA ReadNext ==
    ASSUME ReadInv, C!Next
    PROVE  [RP!Next]_RP!storeVars /\ ReadInv'
<1>1. [RP!Next]_RP!storeVars /\ CursorInv' /\ PagesInv'
  <2>1. ASSUME NEW id \in Names, C!Look(id) PROVE RP!Next /\ CursorInv' /\ PagesInv'
    <3>1. UNCHANGED <<pages, dropped, reading, cursor, received>> /\ C!R!Get(id)
      BY <2>1 DEF C!Look, C!clientVars
    <3> QED
      BY <3>1, ReadGetSame, PagesUntouched DEF RP!Next, ReadInv, CursorInv
  <2>2. CASE C!Tick
    <3>1. UNCHANGED <<pages, dropped, reading, cursor, received>> /\ C!R!Tick
      BY <2>2 DEF C!Tick, C!clientVars
    <3> QED
      BY <3>1, ReadTickSame, PagesUntouched DEF RP!Next, ReadInv, CursorInv
  <2> QED
    BY <2>1, <2>2, RunKeepsReading, FetchKeepsReading DEF C!Next
<1>2. RP!StoreInv'
  BY <1>1, ReadLimitsSound, RP!StoreNext DEF ReadInv
<1> QED
  BY <1>1, <1>2 DEF ReadInv

LEMMA ReadInvBounds == ASSUME ReadInv PROVE C!PagesBounded /\ C!ReadsInOrder
<1>1. PICK L \in Nat : L = Len(pages) /\ DOMAIN pages = 1 .. L
  BY SP!Places DEF ReadInv, PagesInv
<1>2. C!Cardinality({ pages[k] : k \in 1 .. L }) = L
  <2>1. SP!Cardinality({ pages[k] : k \in 1 .. L }) = L
    BY <1>1, SP!CountPlaces DEF ReadInv, PagesInv
  <2> QED
    BY <2>1 DEF C!Cardinality, SP!Cardinality
<1>3. C!PagesBounded
  BY <1>1, <1>2 DEF ReadInv, PagesInv, C!PagesBounded
<1>4. C!ReadsInOrder
  BY DEF ReadInv, CursorInv, C!ReadsInOrder, Last
<1> QED
  BY <1>3, <1>4

------------------------------------------------------------------------------
(* The cache of run_paged.                                                 *)

CachedRun == [key : Names, run : Nat \ {0}, bytes : Nat, at : Nat]
Started   == [key : Names, run : Nat \ {0}]

Cached(s, W) ==
    /\ s \in Seq(CachedRun)
    /\ \A j, k \in 1 .. Len(s) : s[j].key = s[k].key => j = k
    /\ \A k \in 1 .. Len(s) : <<s[k].key, s[k].run>> \in W

WithinLimits(s) == Len(s) <= Paged.entries /\ SP!BytesOf(s) <= Paged.total

\* The cache holds successful runs only, one for each key and within its limits.
PagedInv ==
    /\ now \in Nat /\ runs \in Nat
    /\ Cached(cache, succeeded) /\ WithinLimits(cache)
    /\ call \in [Clients -> {P!Idle} \cup Started]
    /\ read \in [Clients -> [Names -> Nat]]

LEMMA PagedTypes ==
    /\ Paged.entries \in Nat /\ Paged.entries > 0 /\ Paged.total \in Nat
    /\ Paged.sizes \subseteq Nat /\ Paged.ttl \in Nat
BY DeliveryAssumption DEF P!PagedRunsAssumption

LEMMA PagedKeptSame == ASSUME NEW s, NEW T PROVE P!Kept(s, T) = SP!Kept(s, T)
BY DEF P!Kept, SP!Kept

LEMMA PagedRestSame == ASSUME NEW s, NEW n PROVE P!Rest(s, n) = SP!Rest(s, n)
BY DEF P!Rest, SP!Rest

LEMMA PagedBytesSame == ASSUME NEW s PROVE P!BytesOf(s) = SP!BytesOf(s)
BY DEF P!BytesOf, SP!BytesOf

LEMMA PagedFitsSame == ASSUME NEW s PROVE P!Fits(s) <=> WithinLimits(s)
BY PagedBytesSame DEF P!Fits, WithinLimits

LEMMA CachedSized == SP!Sized(CachedRun)
BY DEF SP!Sized, CachedRun

LEMMA CachedBytes == ASSUME NEW s \in Seq(CachedRun) PROVE SP!BytesOf(s) \in Nat
BY CachedSized, SP!BytesType

\* What is kept of a cache.
LEMMA CachedKept ==
    ASSUME NEW s, NEW W, Cached(s, W), NEW T
    PROVE  Cached(SP!Kept(s, T), W)
<1>1. PICK t, e : t \in Seq(CachedRun) /\ t = SP!Kept(s, T) /\ SP!Picks(e, t, s, T, Len(s))
  BY SP!KeptPlaces DEF Cached
<1>2. PICK L \in Nat, N \in Nat : L = Len(t) /\ N = Len(s)
  BY <1>1, SP!Places DEF Cached
<1>3. /\ e \in [1 .. L -> 1 .. N]
      /\ \A k \in 1 .. L : t[k] = s[e[k]]
      /\ \A j, k \in 1 .. L : j < k => e[j] < e[k]
  BY <1>1, <1>2 DEF SP!Picks
<1>4. ASSUME NEW j \in 1 .. L, NEW k \in 1 .. L, t[j].key = t[k].key PROVE j = k
  <2>1. e[j] = e[k] /\ e[j] \in Int /\ e[k] \in Int
    BY <1>2, <1>3, <1>4 DEF Cached
  <2>2. ~(e[j] < e[k]) /\ ~(e[k] < e[j])
    BY <2>1
  <2> QED
    BY <1>3, <2>2
<1>5. \A k \in 1 .. L : <<t[k].key, t[k].run>> \in W
  BY <1>2, <1>3 DEF Cached
<1> QED
  BY <1>1, <1>2, <1>4, <1>5 DEF Cached

LEMMA CachedKeptFits ==
    ASSUME NEW s \in Seq(CachedRun), WithinLimits(s), NEW T
    PROVE  WithinLimits(SP!Kept(s, T))
<1>1. PICK N \in Nat : N = Len(s)
  BY SP!Places
<1> DEFINE V == 1 .. N \ T
<1>2. \A n \in 1 .. Len(s) : n \in T <=> n \notin V
  BY <1>1
<1>3. PICK a \in Nat, b \in Nat, c \in Nat :
        a = SP!BytesOf(SP!Kept(s, T)) /\ b = SP!BytesOf(SP!Kept(s, V)) /\ c = SP!BytesOf(s) /\ a + b = c
  <2> HIDE DEF V
  <2>1. SP!BytesOf(SP!Kept(s, T)) + SP!BytesOf(SP!Kept(s, V)) = SP!BytesOf(s)
    BY <1>2, CachedSized, SP!BytesKept
  <2>2. SP!Kept(s, T) \in Seq(CachedRun) /\ SP!Kept(s, V) \in Seq(CachedRun)
    BY SP!KeptPlaces
  <2> QED
    BY <2>1, <2>2, CachedBytes
<1>4. PICK L \in Nat : L = Len(SP!Kept(s, T)) /\ L <= N
  BY <1>1, SP!KeptPlaces, SP!KeptLength, SP!Places
<1>5. a <= c
  BY <1>3
<1> QED
  BY <1>1, <1>3, <1>4, <1>5, PagedTypes DEF WithinLimits

LEMMA CachedRest ==
    ASSUME NEW s, NEW W, Cached(s, W), NEW n \in 0 .. Len(s)
    PROVE  Cached(SP!Rest(s, n), W)
<1>1. PICK N \in Nat : N = Len(s) /\ n \in 0 .. N
  BY SP!Places DEF Cached
<1>2. PICK t \in Seq(CachedRun) : t = SP!Rest(s, n) /\ Len(t) = N - n /\ \A k \in 1 .. N - n : t[k] = s[n + k]
  BY <1>1, SP!RestPlaces DEF Cached
<1>3. \A k \in 1 .. N - n : n + k \in 1 .. N
  BY <1>1
<1>4. ASSUME NEW j \in 1 .. N - n, NEW k \in 1 .. N - n, t[j].key = t[k].key PROVE j = k
  <2>1. n + j = n + k
    BY <1>1, <1>2, <1>3, <1>4 DEF Cached
  <2> QED
    BY <2>1
<1>5. \A k \in 1 .. N - n : <<t[k].key, t[k].run>> \in W
  BY <1>1, <1>2, <1>3 DEF Cached
<1> QED
  BY <1>2, <1>4, <1>5 DEF Cached

LEMMA CachedAppend ==
    ASSUME NEW s, NEW W, Cached(s, W), NEW x \in CachedRun, <<x.key, x.run>> \in W,
           \A k \in 1 .. Len(s) : s[k].key # x.key
    PROVE  Cached(Append(s, x), W)
<1>1. PICK N \in Nat : N = Len(s)
  BY SP!Places DEF Cached
<1>2. PICK t \in Seq(CachedRun) : /\ t = Append(s, x) /\ Len(t) = N + 1 /\ t[N + 1] = x
                                  /\ \A k \in 1 .. N : t[k] = s[k]
  <2>1. s \in Seq(CachedRun)
    BY DEF Cached
  <2>2. /\ Append(s, x) \in Seq(CachedRun) /\ Len(Append(s, x)) = Len(s) + 1
        /\ Append(s, x)[Len(s) + 1] = x
        /\ \A k \in 1 .. Len(s) : Append(s, x)[k] = s[k]
    BY <2>1, SP!AppendPlaces
  <2> QED
    BY <1>1, <2>2
<1>3. \A k \in 1 .. N + 1 : k = N + 1 \/ k \in 1 .. N
  OBVIOUS
<1>4. ASSUME NEW j \in 1 .. N + 1, NEW k \in 1 .. N + 1, t[j].key = t[k].key PROVE j = k
  <2>1. CASE j \in 1 .. N /\ k \in 1 .. N
    BY <1>1, <1>2, <1>4, <2>1 DEF Cached
  <2> QED
    BY <1>1, <1>2, <1>3, <1>4, <2>1
<1>5. \A k \in 1 .. N + 1 : <<t[k].key, t[k].run>> \in W
  BY <1>1, <1>2, <1>3 DEF Cached
<1> QED
  BY <1>2, <1>4, <1>5 DEF Cached

LEMMA CachedMore ==
    ASSUME NEW s, NEW V, NEW W, Cached(s, V), V \subseteq W PROVE Cached(s, W)
BY DEF Cached

\* The trimming drops the oldest until the rest fits; nothing at all fits.
LEMMA TrimmedRest ==
    ASSUME NEW s \in Seq(CachedRun)
    PROVE  \E n \in 0 .. Len(s) : P!Trimmed(s) = SP!Rest(s, n) /\ WithinLimits(SP!Rest(s, n))
<1> DEFINE E == { n \in 0 .. Len(s) : P!Fits(P!Rest(s, n)) }
<1>1. PICK N \in Nat : N = Len(s)
  BY SP!Places
<1>2. N \in E
  <2>1. WithinLimits(SP!Rest(s, N))
    BY <1>1, SP!RestNone, SP!BytesEmpty, PagedTypes DEF WithinLimits
  <2> QED
    BY <1>1, <2>1, PagedRestSame, PagedFitsSame
<1>3. \A n \in E : n \in 0 .. Len(s) /\ WithinLimits(SP!Rest(s, n))
  BY PagedRestSame, PagedFitsSame
<1>4. E \subseteq Nat
  BY <1>1
<1>5. P!Trimmed(s) = P!Rest(s, CHOOSE n \in E : \A m \in E : n <= m)
  BY DEF P!Trimmed
<1> HIDE DEF E
<1>6. \E n \in E : \A m \in E : n <= m
  BY <1>2, <1>4, SP!Least
<1>7. (CHOOSE n \in E : \A m \in E : n <= m) \in E
  BY <1>6
<1> QED
  BY <1>3, <1>5, <1>7, PagedRestSame

LEMMA WithoutKey ==
    ASSUME NEW s, NEW W, Cached(s, W), NEW k
    PROVE  /\ Cached(P!Without(s, k), W)
           /\ \A j \in 1 .. Len(P!Without(s, k)) : P!Without(s, k)[j].key # k
<1> DEFINE T == { j \in DOMAIN s : s[j].key # k }
<1>1. P!Without(s, k) = SP!Kept(s, T)
  BY PagedKeptSame DEF P!Without
<1>2. \A m \in T : s[m].key # k
  OBVIOUS
<1> HIDE DEF T
<1>3. Cached(SP!Kept(s, T), W)
  BY CachedKept
<1>4. PICK t, e : t \in Seq(CachedRun) /\ t = SP!Kept(s, T) /\ SP!Picks(e, t, s, T, Len(s))
  BY SP!KeptPlaces DEF Cached
<1>5. \A j \in 1 .. Len(t) : t[j].key # k
  BY <1>2, <1>4 DEF SP!Picks
<1> QED
  BY <1>1, <1>3, <1>4, <1>5

\* A hit moves its entry to the end.
LEMMA ReuseKeepsCache ==
    ASSUME Cached(cache, succeeded), WithinLimits(cache), NEW m \in 1 .. Len(cache),
           cache' = Append(P!Without(cache, cache[m].key), cache[m])
    PROVE  Cached(cache', succeeded) /\ WithinLimits(cache')
<1> DEFINE T == { j \in DOMAIN cache : cache[j].key # cache[m].key }
           V == {m}
<1>1. PICK N \in Nat : N = Len(cache) /\ DOMAIN cache = 1 .. N /\ m \in 1 .. N
  BY SP!Places DEF Cached
<1>2. cache \in Seq(CachedRun) /\ cache[m] \in CachedRun
  BY <1>1 DEF Cached
<1>3. \A n \in 1 .. Len(cache) : n \in T <=> n \notin V
  BY <1>1 DEF Cached
<1>4. P!Without(cache, cache[m].key) = SP!Kept(cache, T)
  BY PagedKeptSame DEF P!Without
<1>5. m \notin T /\ V = {m}
  OBVIOUS
<1> HIDE DEF T, V
<1>6. PICK r \in Seq(CachedRun) : r = SP!Kept(cache, T) /\ Len(r) < N
  <2>1. SP!Kept(cache, T) \in Seq(CachedRun)
    BY <1>2, SP!KeptPlaces
  <2>2. Len(SP!Kept(cache, T)) < Len(cache)
    BY <1>2, <1>5, SP!KeptFewer
  <2> QED
    BY <1>1, <2>1, <2>2
<1>7. PICK a \in Nat : a = SP!BytesOf(cache) /\ SP!BytesOf(r) + cache[m].bytes = a
  <2>1. SP!BytesOf(SP!Kept(cache, T)) + SP!BytesOf(SP!Kept(cache, V)) = SP!BytesOf(cache)
    BY <1>2, <1>3, CachedSized, SP!BytesKept
  <2>2. SP!BytesOf(SP!Kept(cache, V)) = cache[m].bytes
    BY <1>2, <1>5, SP!KeptOne, CachedSized, SP!BytesOne
  <2> QED
    BY <1>2, <1>6, <2>1, <2>2, CachedBytes
<1>8. SP!BytesOf(cache') = a
  BY <1>2, <1>4, <1>6, <1>7, CachedSized, SP!BytesAppend
<1>9. Len(cache') <= N
  <2>1. PICK L \in Nat : L = Len(r) /\ L < N
    BY <1>6, SP!Places
  <2>2. Len(cache') = L + 1
    BY <1>2, <1>4, <1>6, <2>1, SP!AppendPlaces
  <2> QED
    BY <2>1, <2>2
<1>10. Len(cache') \in Nat
  BY <1>2, <1>4, <1>6, SP!AppendPlaces, SP!Places
<1>11. WithinLimits(cache')
  BY <1>1, <1>7, <1>8, <1>9, <1>10, PagedTypes DEF WithinLimits
<1>12. Cached(cache', succeeded)
  <2>1. /\ Cached(P!Without(cache, cache[m].key), succeeded)
        /\ \A j \in 1 .. Len(P!Without(cache, cache[m].key)) :
             P!Without(cache, cache[m].key)[j].key # cache[m].key
    BY WithoutKey
  <2>2. <<cache[m].key, cache[m].run>> \in succeeded
    BY DEF Cached
  <2> QED
    BY <1>2, <2>1, <2>2, CachedAppend
<1> QED
  BY <1>11, <1>12

\* A success is stored: the expired and the old entry of the key go, then the oldest.
LEMMA StoreKeepsCache ==
    ASSUME now \in Nat, Cached(cache, succeeded), WithinLimits(cache), NEW k \in Names,
           NEW r \in Nat \ {0}, NEW b \in Paged.sizes, NEW W, succeeded \subseteq W, <<k, r>> \in W
    PROVE  Cached(P!Store(k, r, b), W) /\ WithinLimits(P!Store(k, r, b))
<1> DEFINE T == { i \in DOMAIN cache : now - cache[i].at <= Paged.ttl }
           f == P!Fresh(cache)
           rest == P!Without(f, k)
           new == [key |-> k, run |-> r, bytes |-> b, at |-> now]
<1>1. f = SP!Kept(cache, T)
  BY PagedKeptSame DEF P!Fresh
<1>2. P!Store(k, r, b) = IF b > Paged.total THEN rest ELSE P!Trimmed(Append(rest, new))
  BY DEF P!Store
<1>3. new \in CachedRun /\ new.key = k /\ new.run = r
  BY PagedTypes DEF CachedRun
<1>4. rest = SP!Kept(f, { j \in DOMAIN f : f[j].key # k })
  BY PagedKeptSame DEF P!Without
<1> HIDE DEF T, f, new
<1>5. Cached(f, W) /\ WithinLimits(f)
  BY <1>1, CachedMore, CachedKept, CachedKeptFits DEF Cached
<1>6. Cached(rest, W) /\ \A j \in 1 .. Len(rest) : rest[j].key # k
  BY <1>5, WithoutKey
<1>7. WithinLimits(rest)
  BY <1>4, <1>5, CachedKeptFits DEF Cached
<1> HIDE DEF rest
<1>8. Cached(Append(rest, new), W)
  BY <1>3, <1>6, CachedAppend
<1>9. PICK n \in 0 .. Len(Append(rest, new)) :
        /\ P!Trimmed(Append(rest, new)) = SP!Rest(Append(rest, new), n)
        /\ WithinLimits(SP!Rest(Append(rest, new), n))
  BY <1>8, TrimmedRest DEF Cached
<1>10. Cached(SP!Rest(Append(rest, new), n), W)
  BY <1>8, CachedRest
<1>11. CASE b > Paged.total
  BY <1>2, <1>6, <1>7, <1>11
<1>12. CASE ~(b > Paged.total)
  BY <1>2, <1>9, <1>10, <1>12
<1> QED
  BY <1>11, <1>12

\* What a call is answered with, and that no other answer changes.
LEMMA AnsweredOne ==
    ASSUME read \in [Clients -> [Names -> Nat]], NEW c \in Clients, NEW k \in Names, NEW r \in Nat,
           P!Answered(c, k, r)
    PROVE  /\ read' \in [Clients -> [Names -> Nat]] /\ read'[c][k] = r
           /\ \A d \in Clients, j \in Names : read'[d][j] # read[d][j] => d = c /\ j = k
<1>1. PICK g : g = [read[c] EXCEPT ![k] = r]
  OBVIOUS
<1>2. g \in [Names -> Nat] /\ g[k] = r /\ \A j \in Names : j # k => g[j] = read[c][j]
  BY <1>1
<1>3. read' = [read EXCEPT ![c] = g]
  BY <1>1 DEF P!Answered
<1> QED
  BY <1>2, <1>3

LEMMA PagedInit == ASSUME P!Init PROVE PagedInv
<1>1. Cached(cache, succeeded)
  BY DEF P!Init, Cached
<1>2. WithinLimits(cache)
  BY SP!BytesEmpty, PagedTypes DEF P!Init, WithinLimits
<1>3. call \in [Clients -> {P!Idle} \cup Started] /\ read \in [Clients -> [Names -> Nat]]
  BY DEF P!Init
<1> QED
  BY <1>1, <1>2, <1>3 DEF P!Init, PagedInv

LEMMA ReuseKeeps ==
    ASSUME PagedInv, NEW c \in Clients, NEW k \in Names, P!Reuse(c, k)
    PROVE  PagedInv' /\ P!ReusesFreshSuccess
<1>1. PICK N \in Nat : N = Len(cache) /\ DOMAIN cache = 1 .. N
  BY SP!Places DEF PagedInv, Cached
<1>2. PICK m \in 1 .. N : /\ cache[m].key = k /\ P!Hit(cache[m])
                          /\ cache' = Append(P!Without(cache, k), cache[m])
                          /\ P!Answered(c, k, cache[m].run)
  <2>1. PICK e \in { cache[i] : i \in DOMAIN cache } :
          /\ e.key = k /\ P!Hit(e)
          /\ cache' = Append(P!Without(cache, k), e)
          /\ P!Answered(c, k, e.run)
    BY DEF P!Reuse
  <2> QED
    BY <1>1, <2>1
<1>3. UNCHANGED <<now, runs, succeeded, call>>
  BY DEF P!Reuse
<1>4. cache[m] \in CachedRun /\ <<k, cache[m].run>> \in succeeded
  BY <1>1, <1>2 DEF PagedInv, Cached
<1>5. Cached(cache', succeeded) /\ WithinLimits(cache')
  BY <1>1, <1>2, ReuseKeepsCache DEF PagedInv
<1>6. cache[m].run \in Nat
  BY <1>4 DEF CachedRun
<1>7. /\ read' \in [Clients -> [Names -> Nat]] /\ read'[c][k] = cache[m].run
      /\ \A d \in Clients, j \in Names : read'[d][j] # read[d][j] => d = c /\ j = k
  BY <1>2, <1>6, AnsweredOne DEF PagedInv
<1>8. PagedInv'
  BY <1>3, <1>5, <1>7 DEF PagedInv
<1>9. m \in DOMAIN cache /\ now - cache[m].at <= Paged.ttl
  BY <1>1, <1>2 DEF P!Hit
<1> QED
  BY <1>4, <1>7, <1>8, <1>9 DEF P!ReusesFreshSuccess

LEMMA ExecuteKeeps ==
    ASSUME PagedInv, NEW c \in Clients, NEW k \in Names, P!Execute(c, k)
    PROVE  PagedInv' /\ P!ReusesFreshSuccess
<1>1. runs' = runs + 1 /\ UNCHANGED <<now, succeeded, read>>
  BY DEF P!Execute
<1>2. Cached(cache', succeeded) /\ WithinLimits(cache')
  <2>1. CASE cache' = cache
    BY <2>1 DEF PagedInv
  <2>2. CASE cache' = P!Without(cache, k)
    <3>1. cache' = SP!Kept(cache, { j \in DOMAIN cache : cache[j].key # k })
      BY <2>2, PagedKeptSame DEF P!Without
    <3> QED
      BY <3>1, CachedKept, CachedKeptFits DEF PagedInv, Cached
  <2> QED
    BY <2>1, <2>2 DEF P!Execute
<1>3. call' \in [Clients -> {P!Idle} \cup Started]
  <2>1. runs' \in Nat \ {0}
    BY <1>1 DEF PagedInv
  <2>2. [key |-> k, run |-> runs'] \in Started
    BY <2>1 DEF Started
  <2> QED
    BY <2>2 DEF P!Execute, PagedInv
<1>4. PagedInv'
  BY <1>1, <1>2, <1>3 DEF PagedInv
<1>5. P!ReusesFreshSuccess
  BY <1>1 DEF P!ReusesFreshSuccess
<1> QED
  BY <1>4, <1>5

LEMMA FinishKeeps ==
    ASSUME PagedInv, NEW c \in Clients, P!Finish(c)
    PROVE  PagedInv' /\ P!ReusesFreshSuccess
<1>1. call[c] # P!Idle /\ call[c] \in Started
  BY DEF P!Finish, PagedInv
<1>2. PICK k \in Names, r \in Nat \ {0} : k = call[c].key /\ r = call[c].run
  BY <1>1 DEF Started
<1>3. P!Answered(c, k, r)
  BY <1>2 DEF P!Finish
<1>4. call' = [call EXCEPT ![c] = P!Idle] /\ UNCHANGED <<now, runs>>
  BY DEF P!Finish
<1>5. Cached(cache', succeeded') /\ WithinLimits(cache')
  <2>1. CASE UNCHANGED <<cache, succeeded>>
    BY <2>1 DEF PagedInv
  <2>2. ASSUME NEW b \in Paged.sizes, cache' = P!Store(k, r, b), succeeded' = succeeded \cup {<<k, r>>}
        PROVE  Cached(cache', succeeded') /\ WithinLimits(cache')
    <3>1. PICK W : W = succeeded' /\ succeeded \subseteq W /\ <<k, r>> \in W
      BY <2>2
    <3> QED
      BY <1>2, <2>2, <3>1, StoreKeepsCache DEF PagedInv
  <2> QED
    BY <1>2, <2>1, <2>2 DEF P!Finish
<1>6. /\ read' \in [Clients -> [Names -> Nat]]
      /\ \A d \in Clients, j \in Names : read'[d][j] # read[d][j] => d = c /\ j = k
  BY <1>3, AnsweredOne DEF PagedInv
<1>7. call' \in [Clients -> {P!Idle} \cup Started]
  BY <1>4 DEF PagedInv
<1>8. PagedInv'
  BY <1>4, <1>5, <1>6, <1>7 DEF PagedInv
<1>9. P!ReusesFreshSuccess
  BY <1>1, <1>6 DEF P!ReusesFreshSuccess
<1> QED
  BY <1>8, <1>9

LEMMA PagedNext ==
    ASSUME PagedInv, P!Next
    PROVE  PagedInv' /\ P!ReusesFreshSuccess
<1>1. CASE P!Tick
  BY <1>1 DEF P!Tick, PagedInv, P!ReusesFreshSuccess
<1> QED
  BY <1>1, ReuseKeeps, ExecuteKeeps, FinishKeeps DEF P!Next

LEMMA PagedInvBounded == ASSUME PagedInv PROVE P!Bounded
<1>1. PICK N \in Nat : N = Len(cache) /\ DOMAIN cache = 1 .. N
  BY SP!Places DEF PagedInv, Cached
<1> DEFINE g == [k \in 1 .. N |-> cache[k].key]
<1>2. \A j, k \in 1 .. N : g[j] = g[k] => j = k
  BY <1>1 DEF PagedInv, Cached
<1>3. P!KeysOf(cache) = { g[k] : k \in 1 .. N }
  BY <1>1 DEF P!KeysOf
<1> HIDE DEF g
<1>4. SP!Cardinality({ g[k] : k \in 1 .. N }) = N
  BY <1>2, SP!CountPlaces
<1>5. P!Cardinality(P!KeysOf(cache)) = Len(cache)
  BY <1>1, <1>3, <1>4 DEF P!Cardinality, SP!Cardinality
<1> QED
  BY <1>5, PagedFitsSame DEF PagedInv, P!Bounded

------------------------------------------------------------------------------
(* What is said of the commands of the host.                               *)

Statuses == {"never", "installed", "not_executable", "missing"}

\* What is remembered was so when it was looked at; what was said, a little earlier.
HostInv ==
    /\ now \in Nat /\ H!SoAt(host, now) \subseteq seen
    /\ probed \in [Looked.commands -> [at : 0 .. now, status : Statuses]]
    /\ \A c \in Looked.commands : probed[c] # H!Never => <<c, probed[c].status, probed[c].at>> \in seen
    /\ H!AdviceIsRecent

LEMMA HostTypes ==
    /\ Looked.ttl \in Nat /\ Looked.ttl > 0 /\ Looked.allowed \subseteq Looked.commands
    /\ Looked.hints \in [Looked.commands -> Seq(Looked.commands)]
BY DeliveryAssumption DEF H!AvailabilityAssumption

LEMMA LookType == ASSUME NEW h, NEW c PROVE H!Look(h, c) \in Statuses
BY DEF H!Look, Statuses

LEMMA HostInit == ASSUME H!Init PROVE HostInv
<1>1. probed \in [Looked.commands -> [at : 0 .. now, status : Statuses]]
  BY DEF H!Init, H!Never, Statuses
<1>2. H!AdviceIsRecent
  BY DEF H!Init, H!Silence, H!AdviceIsRecent
<1> QED
  BY <1>1, <1>2 DEF H!Init, HostInv

\* A status that is given was so at a time that is not too long ago.
LEMMA StatusWasSo ==
    ASSUME HostInv, NEW c \in Looked.commands
    PROVE  \E t \in 0 .. now : <<c, H!Status(c), t>> \in seen /\ now - t < Looked.ttl
<1>1. CASE H!Hit(c)
  <2>1. /\ probed[c] # H!Never /\ now - probed[c].at < Looked.ttl /\ H!Status(c) = probed[c].status
        /\ probed[c].at \in 0 .. now
    BY <1>1 DEF H!Hit, H!Status, HostInv
  <2> QED
    BY <2>1 DEF HostInv
<1>2. CASE ~H!Hit(c)
  <2>1. H!Status(c) = H!Look(host, c) /\ <<c, H!Look(host, c), now>> \in seen
    BY <1>2 DEF H!Status, HostInv, H!SoAt
  <2>2. now \in 0 .. now /\ now - now < Looked.ttl
    BY HostTypes DEF HostInv
  <2> QED
    BY <2>1, <2>2
<1> QED
  BY <1>1, <1>2

LEMMA RememberKeeps ==
    ASSUME HostInv, NEW D, H!Remember(D)
    PROVE  /\ probed' \in [Looked.commands -> [at : 0 .. now, status : Statuses]]
           /\ \A c \in Looked.commands :
                probed'[c] # H!Never => <<c, probed'[c].status, probed'[c].at>> \in seen
<1>1. ASSUME NEW c \in Looked.commands
      PROVE  /\ probed'[c] \in [at : 0 .. now, status : Statuses]
             /\ probed'[c] # H!Never => <<c, probed'[c].status, probed'[c].at>> \in seen
  <2>1. CASE probed'[c] = probed[c]
    BY <2>1 DEF HostInv
  <2>2. CASE probed'[c] = [at |-> now, status |-> H!Look(host, c)]
    <3>1. <<c, H!Look(host, c), now>> \in seen /\ now \in 0 .. now
      BY DEF HostInv, H!SoAt
    <3> QED
      BY <2>2, <3>1, LookType
  <2> QED
    BY <2>1, <2>2 DEF H!Remember
<1>2. probed' = [c \in Looked.commands |-> probed'[c]]
  BY DEF H!Remember
<1> QED
  BY <1>1, <1>2

\* Only commands are asked about, and the manager that is advised is one of them.
LEMMA ManagerAsked ==
    ASSUME HostInv, NEW c \in Looked.commands
    PROVE  /\ H!Asked(c) \subseteq Looked.commands
           /\ H!Manager(c) # "none" =>
                H!Manager(c) \in H!Asked(c) /\ H!Status(H!Manager(c)) = "installed"
<1> DEFINE E == H!Present(c)
<1>1. PICK hints \in Seq(Looked.commands) : hints = Looked.hints[c]
  BY HostTypes
<1>2. PICK N \in Nat : N = Len(hints) /\ DOMAIN hints = 1 .. N
  BY SP!Places
<1>3. E = { k \in 1 .. N : H!Status(hints[k]) = "installed" }
  BY <1>1, <1>2 DEF H!Present
<1>4. H!Asked(c) = { hints[k] : k \in { m \in 1 .. N : \A j \in E : m <= j } }
  BY <1>1, <1>2 DEF H!Asked
<1>5. H!Manager(c) = IF E = {} THEN "none" ELSE hints[CHOOSE k \in E : \A j \in E : k <= j]
  BY <1>1 DEF H!Manager
<1> HIDE DEF E
<1>6. H!Asked(c) \subseteq Looked.commands
  BY <1>2, <1>4
<1>7. CASE E = {}
  BY <1>5, <1>6, <1>7
<1>8. CASE E # {}
  <2>1. E \subseteq Nat
    BY <1>3
  <2>2. \E k \in E : \A j \in E : k <= j
    BY <1>8, <2>1, SP!Least
  <2>3. PICK k : k = CHOOSE m \in E : \A j \in E : m <= j
    OBVIOUS
  <2>4. k \in E /\ \A j \in E : k <= j
    BY <2>2, <2>3
  <2>5. H!Manager(c) = hints[k]
    BY <1>5, <1>8, <2>3
  <2>6. k \in 1 .. N /\ H!Status(hints[k]) = "installed"
    BY <1>3, <2>4
  <2>7. hints[k] \in H!Asked(c)
    BY <1>4, <2>4, <2>6
  <2> QED
    BY <1>6, <2>5, <2>6, <2>7
<1> QED
  BY <1>7, <1>8

LEMMA AnswerIsRecent ==
    ASSUME HostInv, NEW D \in SUBSET Looked.commands, advice'.said = H!Claims(D), advice'.at = now,
           seen' = seen, now' = now, NEW m, advice'.manager = m,
           m # "none" => m \in D /\ H!Status(m) = "installed"
    PROVE  H!AdviceIsRecent'
<1>1. ASSUME NEW claim \in advice'.said
      PROVE  \E t \in 0 .. now : <<claim[1], claim[2], t>> \in seen /\ now - t < Looked.ttl
  <2>1. PICK c \in D : claim = <<c, H!Status(c)>>
    BY DEF H!Claims
  <2>2. \E t \in 0 .. now : <<c, H!Status(c), t>> \in seen /\ now - t < Looked.ttl
    BY StatusWasSo
  <2> QED
    BY <2>1, <2>2
<1>2. m # "none" => <<m, "installed">> \in advice'.said
  BY DEF H!Claims
<1> QED
  BY <1>1, <1>2 DEF H!AdviceIsRecent

LEMMA AttachKeeps ==
    ASSUME HostInv, NEW c \in Looked.commands, H!Attach(c) PROVE HostInv'
<1>1. PICK D : D = IF H!Status(c) = "missing" THEN {c} \cup H!Asked(c) ELSE {c}
  OBVIOUS
<1>2. D \subseteq Looked.commands
  BY <1>1, ManagerAsked
<1>3. H!Remember(D) /\ UNCHANGED <<host, now, changes, seen>>
  BY <1>1 DEF H!Attach
<1>4. PICK m : /\ advice'.said = H!Claims(D) /\ advice'.at = now /\ advice'.manager = m
               /\ m = IF H!Status(c) = "missing" THEN H!Manager(c) ELSE "none"
  BY <1>1 DEF H!Attach
<1>5. m # "none" => m \in D /\ H!Status(m) = "installed"
  BY <1>1, <1>4, ManagerAsked
<1>6. H!AdviceIsRecent'
  BY <1>2, <1>3, <1>4, <1>5, AnswerIsRecent
<1> QED
  BY <1>3, <1>6, RememberKeeps DEF HostInv

LEMMA DescribeKeeps ==
    ASSUME HostInv, NEW D \in SUBSET Looked.commands, H!Describe(D) PROVE HostInv'
<1>1. H!Remember(D) /\ UNCHANGED <<host, now, changes, failing, seen>>
  BY DEF H!Describe
<1>2. advice'.said = H!Claims(D) /\ advice'.at = now /\ advice'.manager = "none"
  BY DEF H!Describe, H!Silence
<1>3. H!AdviceIsRecent'
  BY <1>1, <1>2, AnswerIsRecent
<1> QED
  BY <1>1, <1>3, RememberKeeps DEF HostInv

\* The host and the clock move on; what was so is not forgotten.
LEMMA HostMoves ==
    ASSUME HostInv, UNCHANGED <<probed, advice>>, now' \in Nat, now <= now',
           seen' = seen \cup H!SoAt(host', now')
    PROVE  HostInv'
<1>1. H!SoAt(host', now') \subseteq seen' /\ seen \subseteq seen'
  OBVIOUS
<1>2. probed' \in [Looked.commands -> [at : 0 .. now', status : Statuses]]
  <2>1. \A t \in 0 .. now : t \in 0 .. now'
    BY DEF HostInv
  <2> QED
    BY <2>1 DEF HostInv
<1>3. H!AdviceIsRecent'
  BY <1>1 DEF HostInv, H!AdviceIsRecent
<1> QED
  BY <1>1, <1>2, <1>3 DEF HostInv

LEMMA HostNext == ASSUME HostInv, H!Next \/ UNCHANGED H!vars PROVE HostInv'
<1>1. CASE UNCHANGED H!vars
  BY <1>1 DEF H!vars, HostInv, H!AdviceIsRecent
<1>2. CASE H!Tick
  BY <1>2, HostMoves DEF H!Tick, HostInv
<1>3. CASE H!Describe(Looked.allowed)
  BY <1>3, DescribeKeeps, HostTypes
<1>4. ASSUME NEW c \in Looked.commands, H!Fail(c) PROVE HostInv'
  BY <1>4 DEF H!Fail, HostInv, H!AdviceIsRecent
<1>5. ASSUME NEW c \in Looked.commands, H!Attach(c) PROVE HostInv'
  BY <1>5, AttachKeeps
<1>6. ASSUME NEW c \in Looked.commands, H!Describe({c}) PROVE HostInv'
  BY <1>6, DescribeKeeps
<1>7. ASSUME NEW c, NEW p, NEW file, H!Change(c, p, file) PROVE HostInv'
  BY <1>7, HostMoves DEF H!Change, HostInv
<1> QED
  BY <1>1, <1>2, <1>3, <1>4, <1>5, <1>6, <1>7 DEF H!Next

LEMMA HostInvRecent == ASSUME HostInv PROVE H!AdviceIsRecent
BY DEF HostInv

------------------------------------------------------------------------------
(* The parts together.                                                     *)

\* The invariant of the part that runs.
DeliveryInv ==
    /\ part = "store" => SP!StoreInv /\ SP!RecentInv
    /\ part = "cursors" => ReadInv
    /\ part = "pages" => PagedInv
    /\ part = "advice" => HostInv

LEMMA DeliveryInit == ASSUME MCInit PROVE DeliveryInv
<1>1. ASSUME part = "store" PROVE SP!StoreInv /\ SP!RecentInv
  <2>1. SP!MCInit
    BY <1>1, StoreMCInitSame DEF MCInit
  <2>2. SP!Init
    BY <2>1 DEF SP!MCInit
  <2> QED
    BY <2>1, <2>2, StoreLimitsSound, SP!StoreInit, SP!RecentInit
<1>2. ASSUME part = "cursors" PROVE ReadInv
  BY <1>2, ReadInit DEF MCInit
<1>3. ASSUME part = "pages" PROVE PagedInv
  BY <1>3, PagedInit DEF MCInit
<1>4. ASSUME part = "advice" PROVE HostInv
  BY <1>4, HostInit DEF MCInit
<1> QED
  BY <1>1, <1>2, <1>3, <1>4 DEF DeliveryInv

\* Each part makes its own steps, or none.
LEMMA PartSteps ==
    ASSUME [MCNext]_allVars
    PROVE  /\ part' = part
           /\ part = "store" => [SP!MCNext]_SP!mcVars
           /\ part = "cursors" => C!Next \/ UNCHANGED <<C!vars, RP!storeVars>>
           /\ part = "pages" => P!Next \/ UNCHANGED P!vars
           /\ part = "advice" => H!Next \/ UNCHANGED H!vars
<1>1. CASE UNCHANGED allVars
  BY <1>1 DEF allVars, storeVars, clientVars, pagedVars, hostVars, H!vars, SP!mcVars, SP!storeVars, C!vars, C!storeVars,
              C!clientVars, RP!storeVars, P!vars
<1>2. CASE MCNext
  BY <1>2, StoreMCNextSame DEF MCNext, Budgeting, Storing, Following, Paging, Advising
<1> QED
  BY <1>1, <1>2

LEMMA ReadStutters ==
    ASSUME ReadInv, UNCHANGED <<C!vars, RP!storeVars>> PROVE ReadInv'
<1>1. RP!StoreInv'
  BY ReadLimitsSound, RP!StoreNext DEF ReadInv
<1> QED
  BY <1>1 DEF ReadInv, CursorInv, PagesInv, C!vars, C!clientVars

LEMMA DeliveryNext == ASSUME DeliveryInv, [MCNext]_allVars PROVE DeliveryInv'
<1>1. ASSUME part = "store" PROVE SP!StoreInv' /\ SP!RecentInv'
  BY <1>1, PartSteps, StoreLimitsSound, SP!MCStoreNext DEF DeliveryInv
<1>2. ASSUME part = "cursors" PROVE ReadInv'
  BY <1>2, PartSteps, ReadNext, ReadStutters DEF DeliveryInv
<1>3. ASSUME part = "pages" PROVE PagedInv'
  <2>1. CASE UNCHANGED P!vars
    BY <1>3, <2>1 DEF DeliveryInv, PagedInv, P!vars
  <2> QED
    BY <1>3, <2>1, PartSteps, PagedNext DEF DeliveryInv
<1>4. ASSUME part = "advice" PROVE HostInv'
  BY <1>4, PartSteps, HostNext DEF DeliveryInv
<1>5. part' = part
  BY PartSteps
<1> QED
  BY <1>1, <1>2, <1>3, <1>4, <1>5 DEF DeliveryInv

\* The inductive invariant of the three stores holds throughout.
THEOREM DeliveryInvariant == MCSpec => []DeliveryInv
<1>1. MCInit => DeliveryInv
  BY DeliveryInit
<1>2. DeliveryInv /\ [MCNext]_allVars => DeliveryInv'
  BY DeliveryNext
<1> QED
  BY <1>1, <1>2, PTL DEF MCSpec

\* No store ever holds more than its limits allow, the running total of the result
\* store is the sum over it, and no page is kept of a result that was evicted: for
\* every number of results, clients and keys and every limit.
THEOREM DeliveryKeepsLimits == MCSpec => []StoresKeepTheirLimits
<1>1. ASSUME DeliveryInv PROVE StoresKeepTheirLimits
  <2>1. ASSUME part = "store" PROVE S!Accounting
    BY <1>1, <2>1, StoreLimitsSound, SP!StoreInvAccounts, StoreAccountingSame DEF DeliveryInv
  <2>2. ASSUME part = "cursors" PROVE C!R!Accounting /\ C!PagesBounded
    BY <1>1, <2>2, ReadLimitsSound, RP!StoreInvAccounts, ReadAccountingSame, ReadInvBounds
       DEF DeliveryInv, ReadInv
  <2>3. ASSUME part = "pages" PROVE P!Bounded
    BY <1>1, <2>3, PagedInvBounded DEF DeliveryInv
  <2> QED
    BY <2>1, <2>2, <2>3 DEF StoresKeepTheirLimits
<1>2. DeliveryInv => StoresKeepTheirLimits
  BY <1>1
<1> QED
  BY <1>2, DeliveryInvariant, PTL

\* The id of every reviewed run is held or has its reason, while results are
\* stored and while they are read on.
THEOREM DeliveryExplains == MCSpec => []HeldOrExplained
<1>1. ASSUME DeliveryInv PROVE HeldOrExplained
  <2>1. ASSUME part = "store" PROVE S!HeldOrExplained
    BY <1>1, <2>1, SP!StoreInvExplains, StoreHeldOrExplainedSame DEF DeliveryInv
  <2>2. ASSUME part = "cursors" PROVE C!R!HeldOrExplained
    BY <1>1, <2>2, RP!StoreInvExplains, ReadHeldOrExplainedSame DEF DeliveryInv, ReadInv
  <2> QED
    BY <2>1, <2>2 DEF HeldOrExplained
<1>2. DeliveryInv => HeldOrExplained
  BY <1>1
<1> QED
  BY <1>2, DeliveryInvariant, PTL

\* A client that follows its cursors has read the rows up to its cursor, every one
\* once and in order, and all of them when it is told that it is done.
THEOREM DeliveryReadsInOrder == MCSpec => []ReadsInOrder
<1>1. DeliveryInv => ReadsInOrder
  BY ReadInvBounds DEF DeliveryInv, ReadsInOrder
<1> QED
  BY <1>1, DeliveryInvariant, PTL

\* What the store says of an id is so: a result it finds is not too old, and only an
\* id that no reviewed run was given is unknown to it; and a page that is answered without
\* running comes from a fresh success of its key.
THEOREM DeliveryAnswersTruthfully == MCSpec => AnswersTruthfully
<1> DEFINE Says == /\ part = "store" => S!AnswersTruthfully
                   /\ part = "cursors" => C!R!AnswersTruthfully
                   /\ part = "pages" => P!ReusesFreshSuccess
<1>1. ASSUME DeliveryInv, [MCNext]_allVars PROVE Says
  <2>1. ASSUME part = "store" PROVE S!AnswersTruthfully
    <3>1. [SP!Next]_SP!storeVars
      <4>1. [SP!MCNext]_SP!mcVars
        BY <1>1, <2>1, PartSteps
      <4> QED
        BY <4>1 DEF SP!MCNext, SP!Next, SP!mcVars
    <3> QED
      BY <1>1, <2>1, <3>1, StoreLimitsSound, SP!StoreStepAnswers, StoreAnswersTruthfullySame DEF DeliveryInv
  <2>2. ASSUME part = "cursors" PROVE C!R!AnswersTruthfully
    <3>1. [RP!Next]_RP!storeVars
      BY <1>1, <2>2, PartSteps, ReadNext DEF DeliveryInv
    <3> QED
      BY <1>1, <2>2, <3>1, ReadLimitsSound, RP!StoreStepAnswers, ReadAnswersTruthfullySame
         DEF DeliveryInv, ReadInv
  <2>3. ASSUME part = "pages" PROVE P!ReusesFreshSuccess
    <3>1. CASE UNCHANGED P!vars
      BY <3>1 DEF P!vars, P!ReusesFreshSuccess
    <3> QED
      BY <1>1, <2>3, <3>1, PartSteps, PagedNext DEF DeliveryInv
  <2> QED
    BY <2>1, <2>2, <2>3
<1>2. DeliveryInv /\ [MCNext]_allVars => Says
  BY <1>1
<1> QED
  BY <1>2, DeliveryInvariant, PTL DEF MCSpec, AnswersTruthfully

\* A result leaves for the reason that is recorded, and what makes room is what was
\* used the longest time ago.
THEOREM DeliveryLeavesInOrder == MCSpec => LeavesInOrder
<1> DEFINE Leaves == /\ part = "store" => S!LeavesForAReason /\ S!EvictsLeastRecentlyUsed
                     /\ part = "cursors" => C!R!LeavesForAReason
<1>1. ASSUME DeliveryInv, [MCNext]_allVars PROVE Leaves
  <2>1. ASSUME part = "store" PROVE S!LeavesForAReason /\ S!EvictsLeastRecentlyUsed
    <3>1. [SP!MCNext]_SP!mcVars
      BY <1>1, <2>1, PartSteps
    <3>2. [SP!Next]_SP!storeVars
      BY <3>1 DEF SP!MCNext, SP!Next, SP!mcVars
    <3>3. S!LeavesForAReason
      BY <1>1, <2>1, <3>2, StoreLimitsSound, SP!StoreStepLeaves, StoreLeavesForAReasonSame DEF DeliveryInv
    <3>4. S!EvictsLeastRecentlyUsed
      BY <1>1, <2>1, <3>1, StoreLimitsSound, SP!StoreStepEvicts, StoreEvictsLeastRecentlyUsedSame
         DEF DeliveryInv
    <3> QED
      BY <3>3, <3>4
  <2>2. ASSUME part = "cursors" PROVE C!R!LeavesForAReason
    <3>1. [RP!Next]_RP!storeVars
      BY <1>1, <2>2, PartSteps, ReadNext DEF DeliveryInv
    <3> QED
      BY <1>1, <2>2, <3>1, ReadLimitsSound, RP!StoreStepLeaves, ReadLeavesForAReasonSame
         DEF DeliveryInv, ReadInv
  <2> QED
    BY <2>1, <2>2
<1>2. DeliveryInv /\ [MCNext]_allVars => Leaves
  BY <1>1
<1> QED
  BY <1>2, DeliveryInvariant, PTL DEF MCSpec, LeavesInOrder

\* What a client is told of a command that could not be run was so less than the life
\* of a look before, for every host, however it changes.
THEOREM DeliveryAdviceIsRecent == MCSpec => []AdviceIsRecent
<1>1. DeliveryInv => AdviceIsRecent
  BY HostInvRecent DEF DeliveryInv, AdviceIsRecent
<1> QED
  BY <1>1, DeliveryInvariant, PTL

==============================================================================
