------------------------------ MODULE OrderedMap ------------------------------
(***************************************************************************)
(* A JavaScript Map as the caches of the engine use it: the values in the  *)
(* order their keys were set.  `delete` and the loops that drop entries    *)
(* keep the others in their order; every value counts its bytes.           *)
(***************************************************************************)
EXTENDS Integers, Sequences

\* The values of s at the places of T, in their order.
Kept(s, T) ==
    LET upTo[n \in 0 .. Len(s)] ==
          IF n = 0 THEN <<>>
          ELSE IF n \in T THEN Append(upTo[n - 1], s[n]) ELSE upTo[n - 1]
    IN  upTo[Len(s)]

\* What is left when the first n values are dropped.
Rest(s, n) == SubSeq(s, n + 1, Len(s))

\* The bytes of all values.
BytesOf(s) ==
    LET upTo[n \in 0 .. Len(s)] == IF n = 0 THEN 0 ELSE upTo[n - 1] + s[n].bytes
    IN  upTo[Len(s)]
===============================================================================
