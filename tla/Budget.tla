------------------------------- MODULE Budget -------------------------------
(***************************************************************************)
(* How many rows fit a token budget: `applyBudget` of                      *)
(* src/src/engine/budget/index.ts.  A binary search finds the longest      *)
(* prefix of the rows whose answer fits without the report about what was  *)
(* left out; then rows are given up one by one until the answer fits with  *)
(* that report.  body[k] is what `measure` says of the answer with the     *)
(* first k rows, extra[k] what the omissions and the continuation add.     *)
(*                                                                         *)
(* The model keeps the loops and abstracts what they measure: any cost     *)
(* that does not shrink when a row is added.  The cost of the report is    *)
(* arbitrary, as its size depends on the digits of the row counts and it   *)
(* loses its continuation when nothing is left out.  `cap` is the budget   *)
(* of this application; it does not change while the loops run.            *)
(***************************************************************************)
EXTENDS Integers

CONSTANTS Total,     \* the rows of the result
          MaxTokens, \* budget.max_tokens
          Costs      \* bound: the costs tried

ASSUME BudgetAssumption == Total \in Nat /\ MaxTokens \in Nat /\ Costs \subseteq Nat

VARIABLES cap, body, extra, lo, hi, kept, phase

vars == <<cap, body, extra, lo, hi, kept, phase>>

Monotone(f) == \A i, j \in 0 .. Total : i <= j => f[i] <= f[j]

Init ==
    /\ cap = MaxTokens
    /\ body \in { f \in [0 .. Total -> Costs] : Monotone(f) }
    /\ extra \in [0 .. Total -> Costs]
    /\ lo = 0 /\ hi = Total /\ kept = 0
    /\ phase = "search"

\* Math.ceil((lo + hi) / 2)
Middle == (lo + hi + 1) \div 2

Search ==
    /\ phase = "search" /\ lo < hi
    /\ IF body[Middle] <= cap
       THEN lo' = Middle /\ UNCHANGED hi
       ELSE hi' = Middle - 1 /\ UNCHANGED lo
    /\ UNCHANGED <<cap, body, extra, kept, phase>>

SearchEnds ==
    /\ phase = "search" /\ lo = hi
    /\ kept' = lo
    /\ phase' = "trim"
    /\ UNCHANGED <<cap, body, extra, lo, hi>>

Whole(k) == body[k] + extra[k]

\* Mutant: the report about what is left out is not measured.
BodyFits == body[kept] <= cap \/ kept = 0

\* The row loop stops where the whole answer fits, or has no row left.
Stops == Whole(kept) <= cap \/ kept = 0

Trim ==
    /\ phase = "trim"
    /\ IF Stops THEN phase' = "done" /\ UNCHANGED kept
       ELSE kept' = kept - 1 /\ UNCHANGED phase
    /\ UNCHANGED <<cap, body, extra, lo, hi>>

Next == Search \/ SearchEnds \/ Trim

\* A synchronous function: it runs to its end.
Spec == Init /\ [][Next]_vars /\ WF_vars(Next)
------------------------------------------------------------------------------
TypeOK ==
    /\ cap \in Nat
    /\ body \in [0 .. Total -> Nat] /\ Monotone(body)
    /\ extra \in [0 .. Total -> Nat]
    /\ lo \in 0 .. Total /\ hi \in 0 .. Total /\ kept \in 0 .. Total
    /\ phase \in {"search", "trim", "done"}

\* The reference: no longer prefix of the rows fits with its report, and the one
\* that is answered fits unless it is empty.
IsLongestFit(k) ==
    /\ \A m \in k + 1 .. Total : Whole(m) > cap
    /\ k = 0 \/ Whole(k) <= cap

\* The rows that are answered are the most that fit: neither the binary search
\* over the cheaper measure nor the loop that corrects it loses a row that could
\* have been answered, and no answer with rows exceeds the budget.
KeepsTheMost == phase = "done" => IsLongestFit(kept)
==============================================================================
