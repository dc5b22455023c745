---------------------------- MODULE MCResultStore ----------------------------
(***************************************************************************)
(* ResultStore on a small instance, with a history variable: `recent`      *)
(* orders the ids by their last successful use (a put that was kept or a   *)
(* lookup that found them), independently of the order of the map.         *)
(***************************************************************************)
EXTENDS ResultStore, TLC

VARIABLE recent

mcVars == <<storeVars, recent>>

Used(id) ==
    recent' = Append(Kept(recent, { k \in DOMAIN recent : recent[k] # id }), id)

MCInit == Init /\ recent = <<>>

MCNext ==
    \/ Tick /\ UNCHANGED recent
    \/ \E id \in Ids :
         \/ MarkNotRetained(id) /\ UNCHANGED recent
         \/ Get(id) /\ IF lookup'.outcome = "found" THEN Used(id) ELSE UNCHANGED recent
         \/ \E b \in Sizes : Put(id, b) /\ IF id \in IdsOf(entries') THEN Used(id) ELSE UNCHANGED recent

MCSpec == MCInit /\ [][MCNext]_mcVars

IdSymmetry == Permutations(Ids)

\* The order of the map is the order of use: what makes room for a new result is
\* what nobody looked at for the longest time (result-store.ts:87).
EvictsLeastRecentlyUsed ==
    \A i \in Held \ IdsOf(entries'), j \in Held \cap IdsOf(entries') :
        misses'[i] = "evicted" =>
            LET at(x) == CHOOSE k \in DOMAIN recent : recent[k] = x
            IN  at(i) < at(j)
==============================================================================
