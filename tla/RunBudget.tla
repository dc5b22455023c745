----------------------------- MODULE RunBudget -----------------------------
(***************************************************************************)
(* applyRunBudget, src/src/facade/run-budget.ts: applyBudget is run on the *)
(* rows, the answer is measured once more with everything that is attached *)
(* later, and if it is too large a smaller budget is tried once.           *)
(*                                                                         *)
(* The steps of applyBudget are those of Budget.  The sizes are arbitrary: *)
(* base[k] is the answer with k rows, Report the placeholder of the report *)
(* that only the first application counts, Omission the list of what is    *)
(* left out while it is empty, Surplus what an answer that leaves rows out *)
(* adds to it, delivered[k] the answer as it is finally serialized (with   *)
(* its quotes escaped, so never less than what was measured before),       *)
(* Notice the entry that admits an answer too large.                       *)
(***************************************************************************)
EXTENDS Budget

CONSTANTS Report, Omission, Surplus, Notice

ASSUME RunBudgetAssumption == {Report, Omission, Surplus, Notice} \subseteq Nat

VARIABLES base, delivered, mode, stage, original, final, answer

sizes    == <<base, delivered, mode>>
runVars  == <<vars, sizes, stage, original, final, answer>>

None == [rows |-> 0, requested |-> 0, met |-> FALSE, size |-> 0]

\* What applyBudget may do with the rows: leave some out or, with overflow: error,
\* none; or nothing, as the answer has no rows or one lacks a required field.
Modes == {"page", "error", "no_rows", "no_field"}
Fixed == mode \in {"no_rows", "no_field"}

\* A further row adds to the answer; only the answer that leaves nothing out has
\* no continuation, and may be smaller than one that does.
Grows(f) == \A i, j \in 0 .. Total - 1 : i <= j => f[i] <= f[j]

RunInit ==
    /\ cap = MaxTokens
    /\ base \in { f \in [0 .. Total -> Costs] : Monotone(f) }
    /\ body = [k \in 0 .. Total |-> base[k] + Report]
    /\ extra = [k \in 0 .. Total |-> Omission + (IF k < Total THEN Surplus ELSE 0)]
    /\ delivered \in { f \in [0 .. Total -> Costs] :
                         Grows(f) /\ \A k \in 0 .. Total : f[k] >= Whole(k) }
    /\ mode \in Modes
    /\ lo = 0 /\ hi = Total /\ kept = 0 /\ phase = "search"
    /\ stage = "first" /\ original = None /\ final = None /\ answer = None

\* A step of the loops of applyBudget, in its first or its second application.
Apply ==
    /\ ~Fixed /\ Next
    /\ UNCHANGED <<sizes, stage, original, final, answer>>

\* What applyBudget returns, and its size as it will be delivered.
\* overflow: error answers with every row when they do not fit; an answer without
\* rows is measured before anything is added to it.
Outcome ==
    LET whole == Fixed \/ (mode = "error" /\ kept < Total)
        rows  == IF whole THEN Total ELSE kept
    IN  [rows |-> rows, requested |-> cap, size |-> delivered[rows],
         met  |-> \/ mode = "no_rows" /\ body[Total] <= cap
                  \/ ~whole /\ Whole(kept) <= cap]

Returns == Fixed \/ phase = "done"

First ==
    /\ stage = "first" /\ Returns
    /\ original' = Outcome /\ final' = Outcome
    /\ stage' = "check"
    /\ UNCHANGED <<vars, sizes, answer>>

Tighter == MaxTokens - (final.size - MaxTokens)

\* The one retry, under a budget that is smaller by what was too much.  Its
\* measure does not count the placeholder.
Tighten ==
    /\ stage = "check" /\ final.size > MaxTokens /\ Tighter > 0
    /\ cap' = Tighter
    /\ body' = base
    /\ lo' = 0 /\ hi' = Total /\ kept' = 0 /\ phase' = "search"
    /\ stage' = "second"
    /\ UNCHANGED <<extra, sizes, original, final, answer>>

\* Mutant: the answer of the retry is taken whether it fits or not.
ChooseAnyway ==
    /\ stage = "second" /\ Returns
    /\ final' = Outcome
    /\ stage' = "final"
    /\ UNCHANGED <<vars, sizes, original, answer>>

\* Its answer is taken only if it fits the budget of the client.
Choose ==
    /\ stage = "second" /\ Returns
    /\ final' = IF Outcome.size <= MaxTokens THEN Outcome ELSE final
    /\ stage' = "final"
    /\ UNCHANGED <<vars, sizes, original, answer>>

Accept ==
    /\ stage = "check" /\ (final.size <= MaxTokens \/ Tighter <= 0)
    /\ stage' = "final"
    /\ UNCHANGED <<vars, sizes, original, final, answer>>

\* An answer that does not fit, with the entry that says so.
Admitted(result) == [rows |-> result.rows, requested |-> result.requested,
                     met |-> FALSE, size |-> result.size + Notice]

\* Mutant: the report of applyBudget is passed on as it is.
AnswerUnchecked ==
    /\ stage = "final" /\ stage' = "answered"
    /\ answer' = final
    /\ UNCHANGED <<vars, sizes, original, final>>

\* The answer: too large, it says so and carries the notice.
Answer ==
    /\ stage = "final" /\ stage' = "answered"
    /\ answer' = IF final.size > MaxTokens
                 THEN Admitted(final)
                 ELSE final
    /\ UNCHANGED <<vars, sizes, original, final>>

RunNext == Apply \/ First \/ Tighten \/ Choose \/ Accept \/ Answer

\* A synchronous function: it runs to its end.
RunSpec == RunInit /\ [][RunNext]_runVars /\ WF_runVars(RunNext)
------------------------------------------------------------------------------
Answered == stage = "answered"

\* "budget_met: true is true of what the consumer pays" (the decision record of
\* 2026-10-22, line 57): no answer larger than the requested budget claims to
\* meet it, whichever application it came from.
MetIsHonest == Answered /\ answer.met => answer.size <= MaxTokens

\* An answer that cannot be made to fit loses no rows in vain: it is the one of
\* the first application ("if it does not fit, the untrimmed one stays",
\* run-budget.ts:194), so nothing is dropped for a cap that is missed anyway.
MissedCapKeepsRows ==
    Answered /\ answer.size > MaxTokens => answer.rows = original.rows
==============================================================================
