-------------------------- MODULE ResultStore_proofs --------------------------
(***************************************************************************)
(* The result store keeps its accounts, explains what it does not hold and *)
(* drops results only for the reason it records, for every number of       *)
(* results, every size and every limit.                                    *)
(*                                                                         *)
(* First what the operators of OrderedMap compute, for every sequence:     *)
(* what is kept are the values at the chosen places, in their order, and   *)
(* the bytes of the parts add up.  Both operators are recursive; the       *)
(* inductions are over sets of numbers, from the theorem that < is well    *)
(* founded on Nat.                                                         *)
(***************************************************************************)
EXTENDS MCResultStore, FiniteSetTheorems, WellFoundedInduction, TLAPS

\* Every set of numbers has a least one.
LEMMA Least ==
    ASSUME NEW T, T \subseteq Nat, T # {} PROVE \E m \in T : \A n \in T : m <= n
<1> DEFINE Less == {p \in Nat \X Nat : p[1] < p[2]}
<1>1. IsWellFoundedOn(Less, Nat)
  BY NatLessThanWellFounded DEF OpToRel
<1>2. PICK m \in T : \A n \in T : <<n, m>> \notin Less
  BY <1>1, WFMin
<1>3. ASSUME NEW n \in T PROVE m <= n
  <2>1. n \in Nat /\ m \in Nat /\ ~(<<n, m>>[1] < <<n, m>>[2])
    BY <1>2
  <2> QED
    BY <2>1
<1> QED
  BY <1>3

\* A set of numbers that holds 0 and every successor of its members holds all.
LEMMA Induct ==
    ASSUME NEW T, 0 \in T, \A n \in Nat : n \in T => n + 1 \in T PROVE Nat \subseteq T
<1> SUFFICES ASSUME ~(Nat \subseteq T) PROVE FALSE
  OBVIOUS
<1>1. PICK m \in Nat \ T : \A n \in Nat \ T : m <= n
  BY Least
<1> QED
  BY <1>1, m - 1 \in Nat \/ m = 0

\* Stepwise definition.
Steps(S) == [Nat -> [S -> S]]
Follows(f, a, step, S) ==
    f \in [Nat -> S] /\ f[0] = a /\ \A n \in Nat : f[n + 1] = step[n][f[n]]

LEMMA Recursion ==
    ASSUME NEW S, NEW a \in S, NEW step \in Steps(S)
    PROVE  \E f : Follows(f, a, step, S)
<1> USE DEF Steps, Follows
<1> DEFINE Good(g, n) == g \in [Nat -> S] /\ g[0] = a
                         /\ \A k \in Nat : k < n => g[k + 1] = step[k][g[k]]
           T == {n \in Nat : \E g \in [Nat -> S] : Good(g, n)}
<1>1. Nat \subseteq T
  <2>1. 0 \in T
    <3>1. Good([k \in Nat |-> a], 0)
      OBVIOUS
    <3> QED
      BY <3>1
  <2>2. ASSUME NEW n \in Nat, n \in T PROVE n + 1 \in T
    <3>1. PICK g \in [Nat -> S] : Good(g, n)
      BY <2>2
    <3> DEFINE h == [g EXCEPT ![n + 1] = step[n][g[n]]]
    <3>2. h \in [Nat -> S] /\ h[0] = a
      BY <3>1
    <3>3. ASSUME NEW k \in Nat, k < n + 1 PROVE h[k + 1] = step[k][h[k]]
      <4>1. CASE k = n
        BY <3>1, <4>1
      <4>2. CASE k # n
        BY <3>1, <3>3, <4>2
      <4> QED
        BY <4>1, <4>2
    <3> HIDE DEF h
    <3>4. Good(h, n + 1)
      BY <3>2, <3>3
    <3> QED
      BY <3>2, <3>4
  <2> QED
    BY <2>1, <2>2, Induct
<1>2. ASSUME NEW n \in Nat, NEW g, NEW h, Good(g, n), Good(h, n), NEW k \in Nat, k <= n
      PROVE  g[k] = h[k]
  <2> DEFINE U == {j \in Nat : j <= n => g[j] = h[j]}
  <2>1. 0 \in U
    BY <1>2
  <2>2. ASSUME NEW j \in Nat, j \in U PROVE j + 1 \in U
    BY <1>2, <2>2
  <2>3. Nat \subseteq U
    BY <2>1, <2>2, Induct
  <2> QED
    BY <1>2, <2>3
<1> DEFINE best(n) == CHOOSE g \in [Nat -> S] : Good(g, n)
           f == [n \in Nat |-> best(n)[n]]
<1>3. ASSUME NEW n \in Nat PROVE Good(best(n), n)
  BY <1>1
<1> HIDE DEF best
<1>4. ASSUME NEW n \in Nat PROVE f[n] \in S
  BY <1>3
<1>5. f[0] = a
  BY <1>3
<1>6. ASSUME NEW n \in Nat PROVE f[n + 1] = step[n][f[n]]
  <2>1. Good(best(n), n) /\ Good(best(n + 1), n + 1)
    BY <1>3
  <2>2. Good(best(n + 1), n)
    BY <2>1
  <2> HIDE DEF Good
  <2>3. best(n)[n] = best(n + 1)[n]
    BY <2>1, <2>2, <1>2
  <2>4. best(n + 1)[n + 1] = step[n][best(n + 1)[n]]
    BY <2>1 DEF Good
  <2> QED
    BY <2>3, <2>4
<1> QED
  BY <1>4, <1>5, <1>6

\* What Kept computes, place by place.
KeepsUpTo(f, s, T) ==
    /\ f = [n \in 0 .. Len(s) |-> f[n]]
    /\ f[0] = <<>>
    /\ \A n \in 1 .. Len(s) : f[n] = IF n \in T THEN Append(f[n - 1], s[n]) ELSE f[n - 1]

LEMMA KeptUpTo ==
    ASSUME NEW S, NEW s \in Seq(S), NEW T
    PROVE  \E f \in [0 .. Len(s) -> Seq(S)] : KeepsUpTo(f, s, T) /\ Kept(s, T) = f[Len(s)]
<1> DEFINE N == Len(s)
           body(f) == [n \in 0 .. N |-> IF n = 0 THEN <<>>
                                        ELSE IF n \in T THEN Append(f[n - 1], s[n]) ELSE f[n - 1]]
           step == [n \in Nat |-> [t \in Seq(S) |->
                       IF n + 1 \in T /\ n + 1 \in 1 .. N THEN Append(t, s[n + 1]) ELSE t]]
           upTo == CHOOSE f : f = body(f)
<1>1. N \in Nat /\ \A n \in 1 .. N : s[n] \in S
  OBVIOUS
<1>2. step \in [Nat -> [Seq(S) -> Seq(S)]]
  BY <1>1
<1>3. <<>> \in Seq(S)
  OBVIOUS
<1> HIDE DEF N
<1>4. PICK g \in [Nat -> Seq(S)] : g[0] = <<>> /\ \A n \in Nat : g[n + 1] = step[n][g[n]]
  <2>1. step \in Steps(Seq(S))
    BY <1>2 DEF Steps
  <2> HIDE DEF step
  <2>2. \E g : Follows(g, <<>>, step, Seq(S))
    BY <1>3, <2>1, Recursion
  <2> QED
    BY <2>2 DEF Follows
<1> DEFINE h == [n \in 0 .. N |-> g[n]]
<1>5. h = body(h)
  <2>1. ASSUME NEW n \in 0 .. N PROVE h[n] = body(h)[n]
    <3>1. CASE n = 0
      BY <1>1, <1>4, <3>1
    <3>2. CASE n # 0
      <4>1. n - 1 \in Nat /\ n - 1 \in 0 .. N /\ (n - 1) + 1 = n /\ n \in 1 .. N
        BY <1>1, <3>2
      <4>2. g[n] = step[n - 1][g[n - 1]] /\ g[n - 1] \in Seq(S)
        BY <1>4, <4>1
      <4> QED
        BY <4>1, <4>2
    <3> QED
      BY <3>1, <3>2
  <2> QED
    BY <2>1
<1> HIDE DEF h
<1>6. upTo = body(upTo)
  BY <1>5
<1>7. Kept(s, T) = upTo[N]
  BY DEF Kept, N
<1> HIDE DEF upTo
<1>8. /\ upTo = [n \in 0 .. N |-> upTo[n]]
      /\ upTo[0] = <<>>
      /\ \A n \in 1 .. N : upTo[n] = IF n \in T THEN Append(upTo[n - 1], s[n]) ELSE upTo[n - 1]
  <2>1. \A n \in 0 .. N : upTo[n] = IF n = 0 THEN <<>>
                 ELSE IF n \in T THEN Append(upTo[n - 1], s[n]) ELSE upTo[n - 1]
    BY <1>6
  <2>2. upTo = [n \in 0 .. N |-> upTo[n]]
    BY <1>6
  <2>3. upTo[0] = <<>>
    BY <1>1, <2>1
  <2>4. ASSUME NEW n \in 1 .. N
        PROVE  upTo[n] = IF n \in T THEN Append(upTo[n - 1], s[n]) ELSE upTo[n - 1]
    <3>1. n # 0 /\ n \in 0 .. N
      BY <1>1
    <3> QED
      BY <2>1, <3>1
  <2> QED
    BY <2>2, <2>3, <2>4
<1>9. \A n \in 0 .. N : upTo[n] \in Seq(S)
  <2> DEFINE U == {n \in Nat : n \in 0 .. N => upTo[n] \in Seq(S)}
  <2>1. 0 \in U
    BY <1>3, <1>8
  <2>2. ASSUME NEW n \in Nat, n \in U PROVE n + 1 \in U
    <3>1. CASE n + 1 \in 0 .. N
      <4>1. upTo[n] \in Seq(S) /\ n + 1 \in 1 .. N /\ (n + 1) - 1 = n
        BY <1>1, <2>2, <3>1
      <4>2. upTo[n + 1] = IF n + 1 \in T THEN Append(upTo[n], s[n + 1]) ELSE upTo[n]
        BY <1>8, <4>1
      <4>3. s[n + 1] \in S
        BY <1>1, <4>1
      <4>4. upTo[n + 1] \in Seq(S)
        BY <4>1, <4>2, <4>3
      <4> QED
        BY <4>4
    <3> QED
      BY <3>1
  <2>3. Nat \subseteq U
    <3> HIDE DEF U
    <3> QED
      BY <2>1, <2>2, Induct
  <2> QED
    BY <1>1, <2>3
<1> QED
  BY <1>1, <1>7, <1>8, <1>9 DEF KeepsUpTo, N

\* The places that were kept: increasing, and all of them.
Picks(e, t, s, T, n) ==
    /\ e \in [1 .. Len(t) -> 1 .. n]
    /\ \A k \in 1 .. Len(t) : e[k] \in T /\ t[k] = s[e[k]]
    /\ \A j, k \in 1 .. Len(t) : j < k => e[j] < e[k]
    /\ \A m \in 1 .. n : m \in T => \E k \in 1 .. Len(t) : e[k] = m

\* One more place, kept.
LEMMA PicksOneMore ==
    ASSUME NEW S, NEW t \in Seq(S), NEW x \in S, NEW s, NEW T, NEW n \in Nat, NEW e,
           Picks(e, t, s, T, n), n + 1 \in T, s[n + 1] = x
    PROVE  \E d : Picks(d, Append(t, x), s, T, n + 1)
<1> DEFINE u == Append(t, x)
<1>1. PICK L \in Nat : L = Len(t)
  OBVIOUS
<1>2. Len(u) = L + 1 /\ u[L + 1] = x /\ \A k \in 1 .. L : u[k] = t[k]
  BY <1>1
<1> HIDE DEF u
<1>3. PICK d : d = [k \in 1 .. L + 1 |-> IF k = L + 1 THEN n + 1 ELSE e[k]]
  OBVIOUS
<1>4. /\ \A k \in 1 .. L : e[k] \in 1 .. n /\ e[k] \in T /\ t[k] = s[e[k]]
      /\ \A j, k \in 1 .. L : j < k => e[j] < e[k]
      /\ \A m \in 1 .. n : m \in T => \E k \in 1 .. L : e[k] = m
  BY <1>1 DEF Picks
<1>5. /\ DOMAIN d = 1 .. L + 1 /\ d = [k \in 1 .. L + 1 |-> d[k]]
      /\ L + 1 \in 1 .. L + 1
      /\ d[L + 1] = n + 1
      /\ \A k \in 1 .. L : d[k] = e[k] /\ k \in 1 .. L + 1
  BY <1>3
<1>6. \A k \in 1 .. L + 1 : k = L + 1 \/ k \in 1 .. L
  OBVIOUS
<1>7. d \in [1 .. L + 1 -> 1 .. n + 1]
  <2>1. ASSUME NEW k \in 1 .. L PROVE d[k] \in 1 .. n + 1
    <3>1. d[k] = e[k] /\ e[k] \in 1 .. n
      BY <1>4, <1>5
    <3> QED
      BY <3>1
  <2>2. d[L + 1] \in 1 .. n + 1
    BY <1>5
  <2>3. \A k \in 1 .. L + 1 : d[k] \in 1 .. n + 1
    BY <1>6, <2>1, <2>2
  <2> QED
    BY <1>5, <2>3
<1>8. \A k \in 1 .. L + 1 : d[k] \in T /\ u[k] = s[d[k]]
  BY <1>2, <1>4, <1>5, <1>6
<1>9. ASSUME NEW j \in 1 .. L + 1, NEW k \in 1 .. L + 1, j < k PROVE d[j] < d[k]
  <2>1. j \in 1 .. L
    BY <1>9
  <2>2. d[j] = e[j] /\ e[j] \in 1 .. n
    BY <1>4, <1>5, <2>1
  <2>3. CASE k = L + 1
    BY <1>5, <2>2, <2>3
  <2>4. CASE k \in 1 .. L
    BY <1>4, <1>5, <1>9, <2>1, <2>2, <2>4
  <2> QED
    BY <1>6, <2>3, <2>4
<1>10. \A m \in 1 .. n + 1 : m \in T => \E k \in 1 .. L + 1 : d[k] = m
  <2>1. \A m \in 1 .. n + 1 : m = n + 1 \/ m \in 1 .. n
    OBVIOUS
  <2> QED
    BY <1>4, <1>5, <2>1
<1>11. Picks(d, u, s, T, n + 1)
  BY <1>2, <1>7, <1>8, <1>9, <1>10 DEF Picks
<1> QED
  BY <1>11 DEF u

\* One more place, left out.
LEMMA PicksNoMore ==
    ASSUME NEW S, NEW t \in Seq(S), NEW s, NEW T, NEW n \in Nat, NEW e,
           Picks(e, t, s, T, n), n + 1 \notin T
    PROVE  Picks(e, t, s, T, n + 1)
<1>1. \A m \in 1 .. n + 1 : m = n + 1 \/ m \in 1 .. n
  OBVIOUS
<1>2. e \in [1 .. Len(t) -> 1 .. n + 1]
  BY DEF Picks
<1> QED
  BY <1>1, <1>2 DEF Picks

\* The arithmetic of the place before.
LEMMA PlaceBefore ==
    ASSUME NEW N \in Nat, NEW n \in Nat, n + 1 \in 0 .. N
    PROVE  n \in 0 .. N /\ n + 1 \in 1 .. N /\ (n + 1) - 1 = n
OBVIOUS

LEMMA KeptPlaces ==
    ASSUME NEW S, NEW s \in Seq(S), NEW T
    PROVE  /\ Kept(s, T) \in Seq(S)
           /\ \E e : Picks(e, Kept(s, T), s, T, Len(s))
<1>1. PICK N \in Nat : N = Len(s) /\ \A n \in 1 .. N : s[n] \in S
  OBVIOUS
<1>2. PICK f \in [0 .. N -> Seq(S)] : KeepsUpTo(f, s, T) /\ Kept(s, T) = f[N]
  BY <1>1, KeptUpTo
<1> DEFINE U == {n \in Nat : n \in 0 .. N => \E e : Picks(e, f[n], s, T, n)}
<1>3. 0 \in U
  <2>1. f[0] = <<>>
    BY <1>1, <1>2 DEF KeepsUpTo
  <2>2. Picks([k \in 1 .. 0 |-> 1], f[0], s, T, 0)
    BY <2>1 DEF Picks
  <2> QED
    BY <2>2
<1>4. ASSUME NEW n \in Nat, n \in U PROVE n + 1 \in U
  <2> SUFFICES ASSUME n + 1 \in 0 .. N PROVE \E e : Picks(e, f[n + 1], s, T, n + 1)
    OBVIOUS
  <2>1. n \in 0 .. N /\ n + 1 \in 1 .. N /\ (n + 1) - 1 = n
    BY PlaceBefore
  <2>2. f[n + 1] = IF n + 1 \in T THEN Append(f[n], s[n + 1]) ELSE f[n]
    BY <1>1, <1>2, <2>1 DEF KeepsUpTo
  <2>3. PICK e : Picks(e, f[n], s, T, n)
    BY <1>4, <2>1
  <2>4. f[n] \in Seq(S) /\ s[n + 1] \in S
    BY <1>1, <1>2, <2>1
  <2> QED
    BY <2>2, <2>3, <2>4, PicksOneMore, PicksNoMore
<1>5. Nat \subseteq U
  <2> HIDE DEF U
  <2> QED
    BY <1>3, <1>4, Induct
<1> QED
  BY <1>1, <1>2, <1>5

\* What BytesOf computes, place by place.
SumsUpTo(f, s) ==
    /\ f = [n \in 0 .. Len(s) |-> f[n]]
    /\ f[0] = 0
    /\ \A n \in 1 .. Len(s) : f[n] = f[n - 1] + s[n].bytes

Sized(S) == \A x \in S : x.bytes \in Nat

LEMMA SumType == ASSUME NEW a \in Nat, NEW b \in Nat PROVE a + b \in Nat
OBVIOUS

LEMMA BytesUpTo ==
    ASSUME NEW S, Sized(S), NEW s \in Seq(S)
    PROVE  \E f \in [0 .. Len(s) -> Nat] : SumsUpTo(f, s) /\ BytesOf(s) = f[Len(s)]
<1> DEFINE N == Len(s)
           body(f) == [n \in 0 .. N |-> IF n = 0 THEN 0 ELSE f[n - 1] + s[n].bytes]
           step == [n \in Nat |-> [b \in Nat |->
                       IF n + 1 \in 1 .. N THEN b + s[n + 1].bytes ELSE b]]
           upTo == CHOOSE f : f = body(f)
<1>1. N \in Nat /\ \A n \in 1 .. N : s[n].bytes \in Nat
  BY DEF Sized
<1>2. step \in [Nat -> [Nat -> Nat]]
  BY <1>1
<1> HIDE DEF N
<1>4. PICK g \in [Nat -> Nat] : g[0] = 0 /\ \A n \in Nat : g[n + 1] = step[n][g[n]]
  <2>1. step \in Steps(Nat)
    BY <1>2 DEF Steps
  <2> HIDE DEF step
  <2>2. \E g : Follows(g, 0, step, Nat)
    BY <2>1, Recursion
  <2> QED
    BY <2>2 DEF Follows
<1> DEFINE h == [n \in 0 .. N |-> g[n]]
<1>5. h = body(h)
  <2>1. ASSUME NEW n \in 0 .. N PROVE h[n] = body(h)[n]
    <3>1. CASE n = 0
      BY <1>1, <1>4, <3>1
    <3>2. CASE n # 0
      <4>1. n - 1 \in Nat /\ n - 1 \in 0 .. N /\ (n - 1) + 1 = n /\ n \in 1 .. N
        BY <1>1, <3>2
      <4>2. g[n] = step[n - 1][g[n - 1]] /\ g[n - 1] \in Nat
        BY <1>4, <4>1
      <4>3. step[n - 1] = [b \in Nat |-> IF (n - 1) + 1 \in 1 .. N THEN b + s[(n - 1) + 1].bytes ELSE b]
        BY <4>1
      <4>4. step[n - 1][g[n - 1]] = g[n - 1] + s[n].bytes
        BY <4>1, <4>2, <4>3
      <4> QED
        BY <3>2, <4>1, <4>2, <4>4
    <3> QED
      BY <3>1, <3>2
  <2> QED
    BY <2>1
<1> HIDE DEF h
<1>6. upTo = body(upTo)
  BY <1>5
<1>7. BytesOf(s) = upTo[N]
  BY DEF BytesOf, N
<1> HIDE DEF upTo
<1>8. /\ upTo = [n \in 0 .. N |-> upTo[n]]
      /\ upTo[0] = 0
      /\ \A n \in 1 .. N : upTo[n] = upTo[n - 1] + s[n].bytes
  <2>1. \A n \in 0 .. N : upTo[n] = IF n = 0 THEN 0 ELSE upTo[n - 1] + s[n].bytes
    BY <1>6
  <2>2. upTo = [n \in 0 .. N |-> upTo[n]]
    BY <1>6
  <2>3. upTo[0] = 0
    BY <1>1, <2>1
  <2>4. ASSUME NEW n \in 1 .. N PROVE upTo[n] = upTo[n - 1] + s[n].bytes
    <3>1. n # 0 /\ n \in 0 .. N
      BY <1>1
    <3> QED
      BY <2>1, <3>1
  <2> QED
    BY <2>2, <2>3, <2>4
<1>9. \A n \in 0 .. N : upTo[n] \in Nat
  <2> DEFINE U == {n \in Nat : n \in 0 .. N => upTo[n] \in Nat}
  <2>1. 0 \in U
    BY <1>8
  <2>2. ASSUME NEW n \in Nat, n \in U PROVE n + 1 \in U
    <3>1. CASE n + 1 \in 0 .. N
      <4>1. n \in 0 .. N /\ n + 1 \in 1 .. N /\ (n + 1) - 1 = n
        BY <1>1, <3>1
      <4>2. upTo[n] \in Nat
        BY <2>2, <4>1
      <4>3. upTo[n + 1] = upTo[n] + s[n + 1].bytes
        BY <1>8, <4>1
      <4>4. s[n + 1].bytes \in Nat
        BY <1>1, <4>1
      <4>5. upTo[n + 1] \in Nat
        BY <4>2, <4>3, <4>4, SumType
      <4> QED
        BY <4>5
    <3> QED
      BY <3>1
  <2>3. Nat \subseteq U
    <3> HIDE DEF U
    <3> QED
      BY <2>1, <2>2, Induct
  <2> QED
    BY <1>1, <2>3
<1> QED
  BY <1>1, <1>7, <1>8, <1>9 DEF SumsUpTo, N

\* Nothing else computes what BytesOf does.
LEMMA BytesUnique ==
    ASSUME NEW S, Sized(S), NEW s \in Seq(S), NEW g, SumsUpTo(g, s)
    PROVE  BytesOf(s) = g[Len(s)] /\ \A n \in 0 .. Len(s) : g[n] \in Nat
<1>1. PICK N \in Nat : N = Len(s) /\ \A n \in 1 .. N : s[n] \in S
  OBVIOUS
<1>2. PICK f \in [0 .. N -> Nat] : SumsUpTo(f, s) /\ BytesOf(s) = f[N]
  BY <1>1, BytesUpTo
<1> DEFINE U == {n \in Nat : n \in 0 .. N => f[n] = g[n]}
<1>3. 0 \in U
  BY <1>2 DEF SumsUpTo
<1>4. ASSUME NEW n \in Nat, n \in U PROVE n + 1 \in U
  <2> SUFFICES ASSUME n + 1 \in 0 .. N PROVE f[n + 1] = g[n + 1]
    OBVIOUS
  <2>1. n \in 0 .. N /\ n + 1 \in 1 .. N /\ (n + 1) - 1 = n
    BY PlaceBefore
  <2>2. f[n] = g[n]
    BY <1>4, <2>1
  <2>3. f[n + 1] = f[n] + s[n + 1].bytes /\ g[n + 1] = g[n] + s[n + 1].bytes
    BY <1>1, <1>2, <2>1 DEF SumsUpTo
  <2> QED
    BY <2>2, <2>3
<1>5. Nat \subseteq U
  <2> HIDE DEF U
  <2> QED
    BY <1>3, <1>4, Induct
<1>6. \A n \in 0 .. N : f[n] = g[n]
  BY <1>5
<1> QED
  BY <1>1, <1>2, <1>6

LEMMA BytesEmpty == BytesOf(<<>>) = 0
<1>1. <<>> \in Seq({}) /\ Sized({}) /\ Len(<<>>) = 0
  BY DEF Sized
<1>2. SumsUpTo([n \in 0 .. 0 |-> 0], <<>>)
  BY DEF SumsUpTo
<1>3. BytesOf(<<>>) = [n \in 0 .. 0 |-> 0][0]
  BY <1>1, <1>2, BytesUnique
<1> QED
  BY <1>3

LEMMA BytesAppend ==
    ASSUME NEW S, Sized(S), NEW s \in Seq(S), NEW x \in S
    PROVE  BytesOf(s) \in Nat /\ BytesOf(Append(s, x)) = BytesOf(s) + x.bytes
<1>1. PICK N \in Nat : N = Len(s)
  OBVIOUS
<1>2. PICK f \in [0 .. N -> Nat] : SumsUpTo(f, s) /\ BytesOf(s) = f[N]
  BY <1>1, BytesUpTo
<1> DEFINE t == Append(s, x)
<1>3. t \in Seq(S) /\ Len(t) = N + 1 /\ t[N + 1] = x /\ \A k \in 1 .. N : t[k] = s[k]
  BY <1>1
<1>4. PICK g : g = [n \in 0 .. N + 1 |-> IF n = N + 1 THEN f[N] + x.bytes ELSE f[n]]
  OBVIOUS
<1>5. /\ g = [n \in 0 .. N + 1 |-> g[n]]
      /\ g[N + 1] = f[N] + x.bytes
      /\ \A n \in 0 .. N : g[n] = f[n]
  BY <1>4
<1>6. /\ f[0] = 0
      /\ \A n \in 1 .. N : f[n] = f[n - 1] + s[n].bytes
  BY <1>1, <1>2 DEF SumsUpTo
<1> HIDE DEF t
<1>7. ASSUME NEW n \in 1 .. N + 1 PROVE g[n] = g[n - 1] + t[n].bytes
  <2>1. CASE n = N + 1
    <3>1. n - 1 = N /\ N \in 0 .. N
      BY <2>1
    <3>2. g[N] = f[N] /\ g[n] = f[N] + x.bytes /\ t[n] = x
      BY <1>3, <1>5, <2>1, <3>1
    <3> QED
      BY <3>1, <3>2
  <2>2. CASE n # N + 1
    <3>1. n \in 1 .. N /\ n \in 0 .. N /\ n - 1 \in 0 .. N
      BY <2>2
    <3> QED
      BY <1>3, <1>5, <1>6, <3>1
  <2> QED
    BY <2>1, <2>2
<1>8. SumsUpTo(g, t)
  <2>1. 0 \in 0 .. N
    OBVIOUS
  <2>2. g[0] = 0
    BY <1>5, <1>6, <2>1
  <2> QED
    BY <1>3, <1>5, <1>7, <2>2 DEF SumsUpTo
<1>9. BytesOf(t) = g[N + 1]
  BY <1>3, <1>8, BytesUnique
<1> QED
  BY <1>2, <1>5, <1>9 DEF t

LEMMA BytesType == ASSUME NEW S, Sized(S), NEW s \in Seq(S) PROVE BytesOf(s) \in Nat
<1>1. PICK N \in Nat : N = Len(s)
  OBVIOUS
<1>2. PICK f \in [0 .. N -> Nat] : BytesOf(s) = f[N]
  BY <1>1, BytesUpTo
<1> QED
  BY <1>2

LEMMA BytesOne == ASSUME NEW S, Sized(S), NEW x \in S PROVE BytesOf(<<x>>) = x.bytes
<1>1. <<>> \in Seq(S) /\ <<x>> = Append(<<>>, x)
  OBVIOUS
<1>2. BytesOf(<<x>>) = BytesOf(<<>>) + x.bytes
  BY <1>1, BytesAppend
<1> QED
  BY <1>2, BytesEmpty DEF Sized

\* The bytes before a place and those from it on.
LEMMA BytesSplit ==
    ASSUME NEW S, Sized(S), NEW s \in Seq(S), NEW m \in 0 .. Len(s)
    PROVE  BytesOf(SubSeq(s, 1, m)) + BytesOf(SubSeq(s, m + 1, Len(s))) = BytesOf(s)
<1>1. PICK N \in Nat : N = Len(s)
  OBVIOUS
<1>2. PICK f \in [0 .. N -> Nat] : SumsUpTo(f, s) /\ BytesOf(s) = f[N]
  BY <1>1, BytesUpTo
<1>3. /\ f[0] = 0
      /\ \A n \in 1 .. N : f[n] = f[n - 1] + s[n].bytes
  BY <1>1, <1>2 DEF SumsUpTo
<1>4. m \in Nat /\ m <= N
  BY <1>1
<1> DEFINE a == SubSeq(s, 1, m)
           b == SubSeq(s, m + 1, N)
           g == [n \in 0 .. m |-> f[n]]
           h == [n \in 0 .. N - m |-> f[m + n] - f[m]]
<1>5. a \in Seq(S) /\ Len(a) = m /\ \A n \in 1 .. m : a[n] = s[n]
  BY <1>1, <1>4
<1>6. b \in Seq(S) /\ Len(b) = N - m /\ \A n \in 1 .. N - m : b[n] = s[m + n]
  BY <1>1, <1>4
<1> HIDE DEF a, b
<1>7. SumsUpTo(g, a)
  <2>1. ASSUME NEW n \in 1 .. m PROVE g[n] = g[n - 1] + a[n].bytes
    <3>1. n \in 0 .. m /\ n - 1 \in 0 .. m /\ n \in 1 .. N
      BY <1>4
    <3> QED
      BY <1>3, <1>5, <3>1
  <2>2. g = [n \in 0 .. m |-> g[n]] /\ g[0] = 0
    BY <1>3, <1>4
  <2> QED
    BY <1>5, <2>1, <2>2 DEF SumsUpTo
<1>8. SumsUpTo(h, b)
  <2>1. ASSUME NEW n \in 1 .. N - m PROVE h[n] = h[n - 1] + b[n].bytes
    <3>1. /\ n \in 0 .. N - m /\ n - 1 \in 0 .. N - m
          /\ m + n \in 1 .. N /\ (m + n) - 1 = m + (n - 1)
          /\ m + (n - 1) \in 0 .. N /\ m \in 0 .. N
      BY <1>4
    <3>2. f[m + n] = f[m + (n - 1)] + b[n].bytes
      BY <1>3, <1>6, <3>1
    <3>3. b[n].bytes \in Nat /\ f[m + (n - 1)] \in Nat /\ f[m] \in Nat
      BY <1>2, <1>6, <3>1 DEF Sized
    <3>4. h[n] = f[m + n] - f[m] /\ h[n - 1] = f[m + (n - 1)] - f[m]
      BY <3>1
    <3> HIDE DEF h
    <3> QED
      BY <3>2, <3>3, <3>4
  <2>2. h = [n \in 0 .. N - m |-> h[n]]
    OBVIOUS
  <2>3. h[0] = 0
    BY <1>2, <1>4
  <2> HIDE DEF h
  <2> QED
    BY <1>6, <2>1, <2>2, <2>3 DEF SumsUpTo
<1>9. BytesOf(a) = f[m]
  BY <1>4, <1>5, <1>7, BytesUnique
<1>10. BytesOf(b) = f[N] - f[m]
  <2>1. BytesOf(b) = h[N - m]
    <3> HIDE DEF h
    <3> QED
      BY <1>6, <1>8, BytesUnique
  <2>2. N - m \in 0 .. N - m /\ m + (N - m) = N
    BY <1>4
  <2> QED
    BY <2>1, <2>2
<1>11. f[m] \in Nat /\ f[N] \in Nat
  BY <1>2, <1>4
<1> QED
  BY <1>1, <1>2, <1>9, <1>10, <1>11 DEF a, b

\* What is kept and what is not add up.
LEMMA SumStep ==
    ASSUME NEW a \in Nat, NEW b \in Nat, NEW x \in Nat, NEW c, a + b = c
    PROVE  (a + x) + b = c + x /\ a + (b + x) = c + x
OBVIOUS

LEMMA BytesKept ==
    ASSUME NEW S, Sized(S), NEW s \in Seq(S), NEW T, NEW V,
           \A n \in 1 .. Len(s) : n \in T <=> n \notin V
    PROVE  BytesOf(Kept(s, T)) + BytesOf(Kept(s, V)) = BytesOf(s)
<1>1. PICK N \in Nat : N = Len(s) /\ \A n \in 1 .. N : s[n] \in S
  OBVIOUS
<1>2. PICK f \in [0 .. N -> Nat] : SumsUpTo(f, s) /\ BytesOf(s) = f[N]
  BY <1>1, BytesUpTo
<1>3. /\ f[0] = 0
      /\ \A n \in 1 .. N : f[n] = f[n - 1] + s[n].bytes
  BY <1>1, <1>2 DEF SumsUpTo
<1>4. PICK a \in [0 .. N -> Seq(S)] : KeepsUpTo(a, s, T) /\ Kept(s, T) = a[N]
  BY <1>1, KeptUpTo
<1>5. PICK b \in [0 .. N -> Seq(S)] : KeepsUpTo(b, s, V) /\ Kept(s, V) = b[N]
  BY <1>1, KeptUpTo
<1>6. /\ a[0] = <<>> /\ b[0] = <<>>
      /\ \A n \in 1 .. N : a[n] = IF n \in T THEN Append(a[n - 1], s[n]) ELSE a[n - 1]
      /\ \A n \in 1 .. N : b[n] = IF n \in V THEN Append(b[n - 1], s[n]) ELSE b[n - 1]
  BY <1>1, <1>4, <1>5 DEF KeepsUpTo
<1> DEFINE U == {n \in Nat : n \in 0 .. N => BytesOf(a[n]) + BytesOf(b[n]) = f[n]}
<1>7. 0 \in U
  BY <1>3, <1>6, BytesEmpty
<1>8. ASSUME NEW n \in Nat, n \in U PROVE n + 1 \in U
  <2> SUFFICES ASSUME n + 1 \in 0 .. N
               PROVE  BytesOf(a[n + 1]) + BytesOf(b[n + 1]) = f[n + 1]
    OBVIOUS
  <2>1. n \in 0 .. N /\ n + 1 \in 1 .. N /\ (n + 1) - 1 = n
    BY PlaceBefore
  <2>2. BytesOf(a[n]) + BytesOf(b[n]) = f[n]
    BY <1>8, <2>1
  <2>3. a[n] \in Seq(S) /\ b[n] \in Seq(S) /\ s[n + 1] \in S /\ s[n + 1].bytes \in Nat
    BY <1>1, <1>4, <1>5, <2>1 DEF Sized
  <2>4. PICK u \in Nat, v \in Nat, y \in Nat :
           u = BytesOf(a[n]) /\ v = BytesOf(b[n]) /\ y = s[n + 1].bytes
    BY <2>3, BytesType
  <2>9. (u + y) + v = f[n] + y /\ u + (v + y) = f[n] + y
    <3>1. u + v = f[n]
      BY <2>2, <2>4
    <3> QED
      BY <3>1, SumStep
  <2>5. f[n + 1] = f[n] + s[n + 1].bytes
    BY <1>3, <2>1
  <2>6. n + 1 \in T <=> n + 1 \notin V
    BY <1>1, <2>1
  <2>7. CASE n + 1 \in T
    <3>1. a[n + 1] = Append(a[n], s[n + 1]) /\ b[n + 1] = b[n]
      BY <1>6, <2>1, <2>6, <2>7
    <3>2. BytesOf(a[n + 1]) = BytesOf(a[n]) + s[n + 1].bytes
      BY <2>3, <3>1, BytesAppend
    <3> QED
      BY <2>4, <2>5, <2>9, <3>1, <3>2
  <2>8. CASE n + 1 \in V
    <3>1. b[n + 1] = Append(b[n], s[n + 1]) /\ a[n + 1] = a[n]
      BY <1>6, <2>1, <2>6, <2>8
    <3>2. BytesOf(b[n + 1]) = BytesOf(b[n]) + s[n + 1].bytes
      BY <2>3, <3>1, BytesAppend
    <3> QED
      BY <2>4, <2>5, <2>9, <3>1, <3>2
  <2> QED
    BY <2>6, <2>7, <2>8
<1>9. Nat \subseteq U
  <2> HIDE DEF U
  <2> QED
    BY <1>7, <1>8, Induct
<1>10. BytesOf(a[N]) + BytesOf(b[N]) = f[N]
  BY <1>9
<1> QED
  BY <1>2, <1>4, <1>5, <1>10

\* The values that are left are those of the places that were kept.
LEMMA KeptMembers ==
    ASSUME NEW S, NEW s \in Seq(S), NEW T
    PROVE  \A x : (\E k \in 1 .. Len(Kept(s, T)) : Kept(s, T)[k] = x)
                   <=> (\E m \in 1 .. Len(s) : m \in T /\ s[m] = x)
<1>1. PICK t, e : t = Kept(s, T) /\ Picks(e, t, s, T, Len(s))
  BY KeptPlaces
<1>2. ASSUME NEW k \in 1 .. Len(t) PROVE \E m \in 1 .. Len(s) : m \in T /\ s[m] = t[k]
  BY <1>1 DEF Picks
<1>3. ASSUME NEW m \in 1 .. Len(s), m \in T PROVE \E k \in 1 .. Len(t) : t[k] = s[m]
  BY <1>1, <1>3 DEF Picks
<1>4. \A x : (\E k \in 1 .. Len(t) : t[k] = x) <=> (\E m \in 1 .. Len(s) : m \in T /\ s[m] = x)
  BY <1>2, <1>3, Zenon
<1> QED
  BY <1>1, <1>4, Zenon

\* Dropping what comes first.
LEMMA RestPlaces ==
    ASSUME NEW S, NEW s \in Seq(S), NEW n \in 0 .. Len(s)
    PROVE  /\ Rest(s, n) \in Seq(S)
           /\ Len(Rest(s, n)) = Len(s) - n
           /\ \A k \in 1 .. Len(s) - n : Rest(s, n)[k] = s[n + k]
BY DEF Rest

LEMMA RestNone == ASSUME NEW S, NEW s \in Seq(S) PROVE Rest(s, Len(s)) = <<>>
BY DEF Rest

LEMMA RestBehind ==
    ASSUME NEW S, NEW a \in Seq(S), NEW b \in Seq(S)
    PROVE  Rest(a \o b, Len(a)) = b
BY DEF Rest

\* Dropping commutes with keeping: what is kept of the rest is the rest of what is
\* kept.
Glued(a, b, x) == Append(a \o b, x) = a \o Append(b, x)

LEMMA AppendBehind ==
    ASSUME NEW S, NEW a \in Seq(S), NEW b \in Seq(S), NEW x \in S PROVE Glued(a, b, x)
BY DEF Glued

Behind(V, T, p, n) == \A j \in 1 .. n : j \in V <=> p + j \in T
EndsWith(t, b, S) == \E a \in Seq(S) : t = a \o b

LEMMA KeptBehind ==
    ASSUME NEW S, NEW s \in Seq(S), NEW T, NEW V, NEW p \in 0 .. Len(s),
           Behind(V, T, p, Len(s) - p)
    PROVE  EndsWith(Kept(s, T), Kept(Rest(s, p), V), S)
<1>1. PICK N \in Nat : N = Len(s) /\ \A n \in 1 .. N : s[n] \in S
  OBVIOUS
<1>2. p \in Nat /\ p <= N /\ N - p \in Nat
  BY <1>1
<1>3. PICK M \in Nat : M = N - p /\ p + M = N
  BY <1>2
<1>4. PICK r \in Seq(S) : r = Rest(s, p) /\ Len(r) = M /\ \A k \in 1 .. M : r[k] = s[p + k]
  <2>1. /\ Rest(s, p) \in Seq(S) /\ Len(Rest(s, p)) = N - p
        /\ \A k \in 1 .. N - p : Rest(s, p)[k] = s[p + k]
    BY <1>1, RestPlaces
  <2> QED
    BY <1>3, <2>1
<1>5. PICK f : f \in [0 .. N -> Seq(S)] /\ KeepsUpTo(f, s, T) /\ Kept(s, T) = f[N]
  BY <1>1, KeptUpTo
<1>6. PICK g : g \in [0 .. M -> Seq(S)] /\ KeepsUpTo(g, r, V) /\ Kept(r, V) = g[M]
  <2>1. \E g \in [0 .. Len(r) -> Seq(S)] : KeepsUpTo(g, r, V) /\ Kept(r, V) = g[Len(r)]
    BY KeptUpTo
  <2> QED
    BY <1>4, <2>1
<1>7. /\ g[0] = <<>>
      /\ \A n \in 1 .. N : f[n] = IF n \in T THEN Append(f[n - 1], s[n]) ELSE f[n - 1]
      /\ \A n \in 1 .. M : g[n] = IF n \in V THEN Append(g[n - 1], r[n]) ELSE g[n - 1]
  BY <1>1, <1>4, <1>5, <1>6 DEF KeepsUpTo
<1>8. f[p] \in Seq(S)
  BY <1>2, <1>5
<1> DEFINE Splits(n) == f[p + n] = f[p] \o g[n]
           U == {n \in Nat : n \in 0 .. M => Splits(n)}
<1>9. 0 \in U
  <2>1. p + 0 = p /\ f[p] \o <<>> = f[p]
    BY <1>2, <1>8
  <2> QED
    BY <1>7, <2>1
<1>10. ASSUME NEW n \in Nat, n \in U PROVE n + 1 \in U
  <2> HIDE DEF Splits
  <2> SUFFICES ASSUME n + 1 \in 0 .. M PROVE Splits(n + 1)
    OBVIOUS
  <2>1. n \in 0 .. M /\ n + 1 \in 1 .. M /\ (n + 1) - 1 = n
    BY PlaceBefore
  <2>2. PICK q \in Nat : q = p + n /\ p + (n + 1) = q + 1
    BY <1>2
  <2>3. q + 1 \in 1 .. N /\ (q + 1) - 1 = q
    BY <1>2, <1>3, <2>1, <2>2
  <2>4. f[q] = f[p] \o g[n] /\ g[n] \in Seq(S)
    BY <1>6, <1>10, <2>1, <2>2 DEF Splits
  <2>5. r[n + 1] = s[q + 1] /\ s[q + 1] \in S
    BY <1>1, <1>4, <2>1, <2>2, <2>3
  <2>6. n + 1 \in V <=> q + 1 \in T
    BY <1>1, <1>3, <2>1, <2>2 DEF Behind
  <2>7. f[q + 1] = IF n + 1 \in V THEN Append(f[q], r[n + 1]) ELSE f[q]
    BY <1>7, <2>3, <2>5, <2>6
  <2>8. g[n + 1] = IF n + 1 \in V THEN Append(g[n], r[n + 1]) ELSE g[n]
    BY <1>7, <2>1
  <2>9. Append(f[p] \o g[n], r[n + 1]) = f[p] \o Append(g[n], r[n + 1])
    <3>1. PICK a \in Seq(S), b \in Seq(S), x \in S : a = f[p] /\ b = g[n] /\ x = r[n + 1]
      BY <1>8, <2>4, <2>5
    <3>2. Glued(a, b, x)
      BY AppendBehind
    <3> QED
      BY <3>1, <3>2 DEF Glued
  <2> QED
    BY <2>2, <2>4, <2>7, <2>8, <2>9 DEF Splits
<1>11. Nat \subseteq U
  <2> HIDE DEF U
  <2> QED
    BY <1>9, <1>10, Induct
<1>12. f[N] = f[p] \o g[M]
  <2>1. M \in 0 .. M
    OBVIOUS
  <2>2. Splits(M)
    BY <1>11, <2>1
  <2> QED
    BY <1>3, <2>2
<1> QED
  BY <1>4, <1>5, <1>6, <1>8, <1>12 DEF EndsWith

\* Where a place that is kept ends up, and what follows it there.
EndsFrom(t, x, b) == \E m \in 1 .. Len(t) : t[m] = x /\ Rest(t, m - 1) = b

LEMMA KeptFrom ==
    ASSUME NEW S, NEW s \in Seq(S), NEW T, NEW V, NEW k \in 1 .. Len(s), k \in T,
           Behind(V, T, k - 1, Len(s) - (k - 1))
    PROVE  EndsFrom(Kept(s, T), s[k], Kept(Rest(s, k - 1), V))
<1>1. PICK p \in 0 .. Len(s) : p = k - 1 /\ p + 1 = k /\ 1 \in 1 .. Len(s) - p
  OBVIOUS
<1>2. PICK a \in Seq(S) : Kept(s, T) = a \o Kept(Rest(s, p), V)
  <2>1. Behind(V, T, p, Len(s) - p)
    BY <1>1
  <2>2. EndsWith(Kept(s, T), Kept(Rest(s, p), V), S)
    BY <2>1, KeptBehind
  <2> QED
    BY <2>2 DEF EndsWith
<1>3. PICK r \in Seq(S) : r = Rest(s, p) /\ r[1] = s[k] /\ 1 \in 1 .. Len(r)
  BY <1>1, RestPlaces
<1>4. PICK b \in Seq(S) : b = Kept(r, V)
  BY KeptPlaces
<1>5. PICK e : Picks(e, b, r, V, Len(r))
  BY <1>4, KeptPlaces
<1>6. PICK i \in 1 .. Len(b) : e[i] = 1
  <2>1. 1 \in V
    BY <1>1 DEF Behind
  <2> QED
    BY <1>3, <1>5, <2>1 DEF Picks
<1>7. Len(b) \in Nat /\ 1 \in 1 .. Len(b) /\ e[1] \in 1 .. Len(r)
  BY <1>5, <1>6 DEF Picks
<1>8. i = 1
  <2>1. ASSUME 1 < i PROVE FALSE
    <3>1. e[1] < e[i]
      BY <1>5, <1>7, <2>1 DEF Picks
    <3> QED
      BY <1>6, <1>7, <3>1
  <2> QED
    BY <2>1
<1>9. b[1] = s[k]
  BY <1>3, <1>5, <1>6, <1>7, <1>8 DEF Picks
<1>10. PICK m \in Nat : m = Len(a) + 1 /\ m - 1 = Len(a)
  OBVIOUS
<1>11. m \in 1 .. Len(a \o b) /\ (a \o b)[m] = b[1]
  BY <1>7, <1>10
<1>12. Rest(a \o b, m - 1) = b
  BY <1>10, RestBehind
<1> QED
  BY <1>1, <1>2, <1>3, <1>4, <1>9, <1>11, <1>12 DEF EndsFrom

\* As many values as places, when no two are the same.
LEMMA CountPlaces ==
    ASSUME NEW n \in Nat, NEW f, \A j, k \in 1 .. n : f[j] = f[k] => j = k
    PROVE  Cardinality({ f[k] : k \in 1 .. n }) = n
<1> DEFINE T == { f[k] : k \in 1 .. n }
           g == [k \in 1 .. n |-> f[k]]
<1>1. g \in Surjection(1 .. n, T) /\ g \in Injection(1 .. n, T)
  <2>1. g \in [1 .. n -> T]
    OBVIOUS
  <2>2. \A x \in T : \E k \in 1 .. n : g[k] = x
    OBVIOUS
  <2>3. \A j, k \in 1 .. n : g[j] = g[k] => j = k
    OBVIOUS
  <2> HIDE DEF g, T
  <2> QED
    BY <2>1, <2>2, <2>3 DEF Surjection, Injection, IsInjective
<1>2. IsFiniteSet(1 .. n) /\ Cardinality(1 .. n) = n
  BY FS_Interval
<1> HIDE DEF g, T
<1>3. Cardinality(T) = Cardinality(1 .. n)
  BY <1>1, <1>2, FS_Surjection
<1> QED
  BY <1>2, <1>3 DEF T

\* No more values are kept than there were.
LEMMA KeptLength ==
    ASSUME NEW S, NEW s \in Seq(S), NEW T
    PROVE  Len(Kept(s, T)) <= Len(s)
<1>1. PICK t, e : t \in Seq(S) /\ t = Kept(s, T) /\ Picks(e, t, s, T, Len(s))
  BY KeptPlaces
<1>2. PICK L \in Nat, N \in Nat : L = Len(t) /\ N = Len(s)
  OBVIOUS
<1>3. /\ e \in [1 .. L -> 1 .. N]
      /\ \A j, k \in 1 .. L : j < k => e[j] < e[k]
  BY <1>1, <1>2 DEF Picks
<1>4. ASSUME NEW j \in 1 .. L, NEW k \in 1 .. L, e[j] = e[k] PROVE j = k
  <2>1. e[j] \in Int /\ e[k] \in Int
    BY <1>3
  <2>2. ~(e[j] < e[k]) /\ ~(e[k] < e[j])
    BY <1>4, <2>1
  <2> QED
    BY <1>3, <2>2
<1>5. e \in Injection(1 .. L, 1 .. N)
  BY <1>3, <1>4 DEF Injection, IsInjective
<1>6. /\ IsFiniteSet(1 .. N) /\ Cardinality(1 .. N) = N
      /\ Cardinality(1 .. L) = L
  BY FS_Interval
<1>7. Cardinality(1 .. L) <= Cardinality(1 .. N)
  BY <1>5, <1>6, FS_Injection
<1> QED
  BY <1>1, <1>2, <1>6, <1>7

\* The places of a sequence, of its beginning and of a longer one.
LEMMA Places == ASSUME NEW S, NEW s \in Seq(S) PROVE Len(s) \in Nat /\ DOMAIN s = 1 .. Len(s)
OBVIOUS

LEMMA FirstPlaces ==
    ASSUME NEW S, NEW s \in Seq(S), NEW n \in 0 .. Len(s)
    PROVE  /\ SubSeq(s, 1, n) \in Seq(S) /\ Len(SubSeq(s, 1, n)) = n
           /\ \A k \in 1 .. n : SubSeq(s, 1, n)[k] = s[k]
OBVIOUS

LEMMA AppendPlaces ==
    ASSUME NEW S, NEW s \in Seq(S), NEW x \in S
    PROVE  /\ Append(s, x) \in Seq(S) /\ Len(Append(s, x)) = Len(s) + 1
           /\ Append(s, x)[Len(s) + 1] = x
           /\ \A k \in 1 .. Len(s) : Append(s, x)[k] = s[k]
OBVIOUS

\* A place that is left out makes it shorter.
LEMMA KeptFewer ==
    ASSUME NEW S, NEW s \in Seq(S), NEW T, NEW m \in 1 .. Len(s), m \notin T
    PROVE  Len(Kept(s, T)) < Len(s)
<1>1. PICK t, e : t \in Seq(S) /\ t = Kept(s, T) /\ Picks(e, t, s, T, Len(s))
  BY KeptPlaces
<1>2. PICK L \in Nat, N \in Nat : L = Len(t) /\ N = Len(s)
  OBVIOUS
<1>3. /\ e \in [1 .. L -> 1 .. N]
      /\ \A k \in 1 .. L : e[k] \in T
      /\ \A j, k \in 1 .. L : j < k => e[j] < e[k]
  BY <1>1, <1>2 DEF Picks
<1> DEFINE R == (1 .. N) \ {m}
<1>4. ASSUME NEW j \in 1 .. L, NEW k \in 1 .. L, e[j] = e[k] PROVE j = k
  <2>1. e[j] \in Int /\ e[k] \in Int
    BY <1>3
  <2>2. ~(e[j] < e[k]) /\ ~(e[k] < e[j])
    BY <1>4, <2>1
  <2> QED
    BY <1>3, <2>2
<1>5. e \in [1 .. L -> R]
  BY <1>3
<1>6. m \in 1 .. N
  BY <1>2
<1> HIDE DEF R
<1>7. e \in Injection(1 .. L, R)
  BY <1>4, <1>5 DEF Injection, IsInjective
<1>8. /\ IsFiniteSet(1 .. N) /\ Cardinality(1 .. N) = N
      /\ Cardinality(1 .. L) = L
  BY FS_Interval
<1>9. IsFiniteSet(R) /\ Cardinality(R) = N - 1
  BY <1>6, <1>8, FS_RemoveElement DEF R
<1>10. L <= N - 1
  BY <1>7, <1>8, <1>9, FS_Injection
<1> QED
  BY <1>1, <1>2, <1>10

\* A single place.
LEMMA KeptOne ==
    ASSUME NEW S, NEW s \in Seq(S), NEW m \in 1 .. Len(s)
    PROVE  Kept(s, {m}) = <<s[m]>>
<1>1. PICK t, e : t \in Seq(S) /\ t = Kept(s, {m}) /\ Picks(e, t, s, {m}, Len(s))
  BY KeptPlaces
<1>2. PICK L \in Nat : L = Len(t)
  OBVIOUS
<1>3. /\ \A k \in 1 .. L : e[k] = m /\ t[k] = s[e[k]]
      /\ \A j, k \in 1 .. L : j < k => e[j] < e[k]
      /\ \E k \in 1 .. L : e[k] = m
  BY <1>1, <1>2 DEF Picks
<1>4. 1 \in 1 .. L
  BY <1>3
<1>5. ~(2 \in 1 .. L)
  <2>1. ASSUME 2 \in 1 .. L PROVE FALSE
    <3>1. e[1] < e[2] /\ e[1] = m /\ e[2] = m
      BY <1>3, <1>4, <2>1
    <3> QED
      BY <3>1
  <2> QED
    BY <2>1
<1>6. L = 1 /\ t[1] = s[m]
  BY <1>3, <1>4, <1>5
<1> QED
  BY <1>1, <1>2, <1>6
-----------------------------------------------------------------------------
Entry   == [id : Ids, bytes : Nat, at : Nat]
Reasons == {"none", "expired", "evicted", "not_retained"}

Apart(s) == \A j, k \in 1 .. Len(s) : s[j].id = s[k].id => j = k

\* The map, and the running total beside it.
Accounts(s, total) ==
    /\ s \in Seq(Entry) /\ Apart(s)
    /\ total = BytesOf(s) /\ total <= MaxBytesTotal
    /\ Len(s) <= MaxEntries

\* What is remembered of an id agrees with what was decided about it.
Explains(held, miss, decided) ==
    /\ miss \in [Ids -> Reasons] /\ decided \in [Ids -> {"no", "retain", "skip"}]
    /\ \A i \in held : decided[i] = "retain" /\ miss[i] = "none"
    /\ \A i \in Ids \ held : decided[i] = "no" <=> miss[i] = "none"
    /\ \A i \in Ids : decided[i] = "skip" <=> miss[i] = "not_retained"

StoreInv == now \in Nat /\ Accounts(entries, totalBytes) /\ Explains(Held, misses, minted)

LEMMA LimitTypes ==
    ASSUME ResultStoreAssumption
    PROVE  /\ MaxBytesPerResult \in Nat /\ MaxBytesTotal \in Nat /\ Ttl \in Nat /\ MaxTime \in Nat
           /\ MaxEntries \in Nat /\ MaxEntries > 0 /\ Sizes \subseteq Nat
BY DEF ResultStoreAssumption

LEMMA MapIds == ASSUME NEW s \in Seq(Entry) PROVE IdsOf(s) \subseteq Ids
<1>1. \A k \in DOMAIN s : s[k] \in Entry
  OBVIOUS
<1>2. \A x \in Entry : x.id \in Ids
  BY DEF Entry
<1> QED
  BY <1>1, <1>2 DEF IdsOf

LEMMA EntrySized == Sized(Entry)
BY DEF Sized, Entry

\* What is kept of a map.
LEMMA KeptMap ==
    ASSUME NEW s \in Seq(Entry), Apart(s), NEW T
    PROVE  /\ Kept(s, T) \in Seq(Entry) /\ Apart(Kept(s, T))
           /\ IdsOf(Kept(s, T)) = { s[k].id : k \in T \cap DOMAIN s }
<1>1. PICK t, e : t \in Seq(Entry) /\ t = Kept(s, T) /\ Picks(e, t, s, T, Len(s))
  BY KeptPlaces
<1>2. PICK L \in Nat, N \in Nat : L = Len(t) /\ N = Len(s) /\ DOMAIN t = 1 .. L /\ DOMAIN s = 1 .. N
  OBVIOUS
<1>3. /\ e \in [1 .. L -> 1 .. N]
      /\ \A k \in 1 .. L : e[k] \in T /\ t[k] = s[e[k]]
      /\ \A j, k \in 1 .. L : j < k => e[j] < e[k]
      /\ \A m \in 1 .. N : m \in T => \E k \in 1 .. L : e[k] = m
  BY <1>1, <1>2 DEF Picks
<1>4. Apart(t)
  <2>1. ASSUME NEW j \in 1 .. L, NEW k \in 1 .. L, t[j].id = t[k].id PROVE j = k
    <3>1. e[j] = e[k]
      BY <1>2, <1>3, <2>1 DEF Apart
    <3>2. e[j] \in Int /\ e[k] \in Int
      BY <1>3
    <3>3. ~(e[j] < e[k]) /\ ~(e[k] < e[j])
      BY <3>1, <3>2
    <3> QED
      BY <1>3, <3>3
  <2> QED
    BY <1>2, <2>1 DEF Apart
<1>5. IdsOf(t) = { s[k].id : k \in T \cap 1 .. N }
  <2>1. ASSUME NEW k \in 1 .. L PROVE \E m \in T \cap 1 .. N : t[k].id = s[m].id
    BY <1>3
  <2>2. ASSUME NEW m \in T \cap 1 .. N PROVE \E k \in 1 .. L : t[k].id = s[m].id
    BY <1>3
  <2>3. ASSUME NEW x PROVE x \in IdsOf(t) <=> \E k \in 1 .. L : t[k].id = x
    BY <1>2 DEF IdsOf
  <2>4. ASSUME NEW x
        PROVE  x \in { s[k].id : k \in T \cap 1 .. N } <=> \E m \in T \cap 1 .. N : s[m].id = x
    OBVIOUS
  <2>5. ASSUME NEW x PROVE x \in IdsOf(t) <=> x \in { s[k].id : k \in T \cap 1 .. N }
    BY <2>1, <2>2, <2>3, <2>4
  <2> QED
    BY <2>5
<1> QED
  BY <1>1, <1>2, <1>4, <1>5

\* Dropping the oldest values of a map.
LEMMA CutMap ==
    ASSUME NEW s \in Seq(Entry), Apart(s), NEW n \in 0 .. Len(s)
    PROVE  /\ Rest(s, n) \in Seq(Entry) /\ SubSeq(s, 1, n) \in Seq(Entry)
           /\ Apart(Rest(s, n))
           /\ IdsOf(SubSeq(s, 1, n)) \cup IdsOf(Rest(s, n)) = IdsOf(s)
           /\ IdsOf(SubSeq(s, 1, n)) \cap IdsOf(Rest(s, n)) = {}
           /\ BytesOf(SubSeq(s, 1, n)) + BytesOf(Rest(s, n)) = BytesOf(s)
           /\ Len(Rest(s, n)) <= Len(s)
<1>1. PICK N \in Nat : N = Len(s) /\ DOMAIN s = 1 .. N /\ n \in Nat /\ n <= N
  OBVIOUS
<1>2. PICK r : /\ r = Rest(s, n) /\ r \in Seq(Entry) /\ DOMAIN r = 1 .. N - n /\ Len(r) = N - n
               /\ \A k \in 1 .. N - n : r[k] = s[n + k]
  <2>1. PICK r : r = Rest(s, n)
    OBVIOUS
  <2>2. r \in Seq(Entry) /\ Len(r) = Len(s) - n /\ \A k \in 1 .. Len(s) - n : r[k] = s[n + k]
    BY <2>1, RestPlaces
  <2>3. DOMAIN r = 1 .. Len(r)
    BY <2>2
  <2> QED
    BY <1>1, <2>1, <2>2, <2>3
<1>3. PICK a : /\ a = SubSeq(s, 1, n) /\ a \in Seq(Entry) /\ DOMAIN a = 1 .. n
               /\ \A k \in 1 .. n : a[k] = s[k]
  <2>1. PICK a : a = SubSeq(s, 1, n)
    OBVIOUS
  <2>2. a \in Seq(Entry) /\ Len(a) = n /\ \A k \in 1 .. n : a[k] = s[k]
    BY <2>1, FirstPlaces
  <2>3. DOMAIN a = 1 .. Len(a)
    BY <2>2
  <2> QED
    BY <2>1, <2>2, <2>3
<1>4. Apart(r)
  <2>1. ASSUME NEW j \in 1 .. N - n, NEW k \in 1 .. N - n, r[j].id = r[k].id PROVE j = k
    <3>1. n + j \in 1 .. N /\ n + k \in 1 .. N
      BY <1>1
    <3>2. n + j = n + k
      BY <1>1, <1>2, <2>1, <3>1 DEF Apart
    <3> QED
      BY <1>1, <3>2
  <2> QED
    BY <1>2, <2>1 DEF Apart
<1>5. IdsOf(a) \cup IdsOf(r) = IdsOf(s)
  <2>1. ASSUME NEW k \in 1 .. N PROVE s[k].id \in IdsOf(a) \cup IdsOf(r)
    <3>1. CASE k <= n
      <4>1. k \in 1 .. n
        BY <1>1, <3>1
      <4> QED
        BY <1>3, <4>1 DEF IdsOf
    <3>2. CASE n < k
      <4>1. k - n \in 1 .. N - n /\ n + (k - n) = k
        BY <1>1, <3>2
      <4> QED
        BY <1>2, <4>1 DEF IdsOf
    <3> QED
      BY <1>1, <3>1, <3>2
  <2>2. \A k \in 1 .. n : k \in 1 .. N
    BY <1>1
  <2>3. \A k \in 1 .. N - n : n + k \in 1 .. N
    BY <1>1
  <2>4. IdsOf(s) \subseteq IdsOf(a) \cup IdsOf(r)
    BY <1>1, <2>1 DEF IdsOf
  <2>5. IdsOf(a) \subseteq IdsOf(s)
    BY <1>1, <1>3, <2>2 DEF IdsOf
  <2>6. IdsOf(r) \subseteq IdsOf(s)
    <3>1. ASSUME NEW k \in 1 .. N - n PROVE r[k].id \in IdsOf(s)
      <4>1. PICK m \in 1 .. N : m = n + k
        BY <2>3
      <4>2. r[k] = s[m]
        BY <1>2, <4>1
      <4> QED
        BY <1>1, <4>2 DEF IdsOf
    <3> QED
      BY <1>2, <3>1 DEF IdsOf
  <2> QED
    BY <2>4, <2>5, <2>6
<1>6. IdsOf(a) \cap IdsOf(r) = {}
  <2>1. ASSUME NEW j \in 1 .. n, NEW k \in 1 .. N - n, a[j].id = r[k].id PROVE FALSE
    <3>1. j \in 1 .. N /\ n + k \in 1 .. N /\ j # n + k
      BY <1>1
    <3> QED
      BY <1>1, <1>2, <1>3, <2>1, <3>1 DEF Apart
  <2> QED
    BY <1>2, <1>3, <2>1 DEF IdsOf
<1>7. BytesOf(a) + BytesOf(r) = BytesOf(s)
  BY <1>1, <1>2, <1>3, BytesSplit, EntrySized DEF Rest
<1> QED
  BY <1>1, <1>2, <1>3, <1>4, <1>5, <1>6, <1>7

\* One more value, under a new key.
LEMMA GrowMap ==
    ASSUME NEW s \in Seq(Entry), Apart(s), NEW x \in Entry, x.id \notin IdsOf(s)
    PROVE  /\ Append(s, x) \in Seq(Entry) /\ Apart(Append(s, x))
           /\ IdsOf(Append(s, x)) = IdsOf(s) \cup {x.id}
           /\ BytesOf(Append(s, x)) = BytesOf(s) + x.bytes
           /\ Len(Append(s, x)) = Len(s) + 1
<1>1. PICK N \in Nat : N = Len(s) /\ DOMAIN s = 1 .. N
  OBVIOUS
<1>2. PICK t : /\ t = Append(s, x) /\ t \in Seq(Entry) /\ DOMAIN t = 1 .. N + 1 /\ Len(t) = N + 1
               /\ t[N + 1] = x /\ \A k \in 1 .. N : t[k] = s[k]
  <2>1. PICK t : t = Append(s, x)
    OBVIOUS
  <2>2. t \in Seq(Entry) /\ Len(t) = N + 1 /\ t[N + 1] = x /\ \A k \in 1 .. N : t[k] = s[k]
    BY <1>1, <2>1, AppendPlaces
  <2>3. DOMAIN t = 1 .. Len(t)
    BY <2>2
  <2> QED
    BY <2>1, <2>2, <2>3
<1>3. \A k \in 1 .. N + 1 : k = N + 1 \/ k \in 1 .. N
  OBVIOUS
<1>4. IdsOf(t) = IdsOf(s) \cup {x.id}
  <2>1. \A k \in 1 .. N : k \in 1 .. N + 1
    OBVIOUS
  <2>2. N + 1 \in 1 .. N + 1
    OBVIOUS
  <2> QED
    BY <1>1, <1>2, <1>3, <2>1, <2>2 DEF IdsOf
<1>5. \A k \in 1 .. N : s[k].id # x.id
  BY <1>1 DEF IdsOf
<1>6. Apart(t)
  BY <1>1, <1>2, <1>3, <1>5 DEF Apart
<1>7. BytesOf(t) = BytesOf(s) + x.bytes
  BY <1>2, BytesAppend, EntrySized
<1> QED
  BY <1>1, <1>2, <1>4, <1>6, <1>7

LEMMA KeptMapLength ==
    ASSUME NEW s \in Seq(Entry), NEW T
    PROVE  Len(Kept(s, T)) <= Len(s) /\ Len(Kept(s, T)) \in Nat
<1>1. Kept(s, T) \in Seq(Entry)
  BY KeptPlaces
<1> QED
  BY <1>1, KeptLength

\* Adding up.
LEMMA SumBounds ==
    ASSUME NEW a \in Nat, NEW b \in Nat, NEW c, a + b = c
    PROVE  c \in Nat /\ a <= c /\ b <= c /\ c - a = b /\ c - b = a
OBVIOUS

\* What the purge of expired results leaves, and what it takes.
LEMMA Purge ==
    ASSUME ResultStoreAssumption, StoreInv
    PROVE  /\ Fresh \in Seq(Entry) /\ Apart(Fresh) /\ Len(Fresh) <= MaxEntries
           /\ totalBytes - BytesOf(Stale) = BytesOf(Fresh)
           /\ BytesOf(Fresh) \in Nat /\ BytesOf(Fresh) <= MaxBytesTotal
           /\ IdsOf(Fresh) \cup IdsOf(Stale) = Held /\ IdsOf(Fresh) \cap IdsOf(Stale) = {}
<1> DEFINE F == { k \in DOMAIN entries : ~Expired(entries[k]) }
           V == { k \in DOMAIN entries : Expired(entries[k]) }
<1>1. entries \in Seq(Entry) /\ Apart(entries) /\ totalBytes = BytesOf(entries)
      /\ totalBytes <= MaxBytesTotal /\ Len(entries) <= MaxEntries
  BY DEF StoreInv, Accounts
<1>2. DOMAIN entries = 1 .. Len(entries) /\ Len(entries) \in Nat
  BY <1>1, Places
<1>3. Fresh = Kept(entries, F) /\ Stale = Kept(entries, V)
  BY DEF Fresh, Unexpired, Stale
<1>4. /\ \A n \in 1 .. Len(entries) : n \in F <=> n \notin V
      /\ F \subseteq DOMAIN entries /\ V \subseteq DOMAIN entries /\ F \cup V = DOMAIN entries
      /\ F \cap V = {}
  BY <1>2
<1> HIDE DEF F, V
<1>5. /\ Fresh \in Seq(Entry) /\ Apart(Fresh)
      /\ IdsOf(Fresh) = { entries[k].id : k \in F \cap DOMAIN entries }
  BY <1>1, <1>3, KeptMap
<1>6. /\ Stale \in Seq(Entry)
      /\ IdsOf(Stale) = { entries[k].id : k \in V \cap DOMAIN entries }
  BY <1>1, <1>3, KeptMap
<1>7. BytesOf(Fresh) + BytesOf(Stale) = BytesOf(entries)
  BY <1>1, <1>3, <1>4, BytesKept, EntrySized
<1>8. BytesOf(Fresh) \in Nat /\ BytesOf(Stale) \in Nat
  BY <1>5, <1>6, BytesType, EntrySized
<1>9. /\ totalBytes - BytesOf(Stale) = BytesOf(Fresh)
      /\ BytesOf(Fresh) <= MaxBytesTotal
  <2>1. /\ BytesOf(entries) \in Nat /\ BytesOf(entries) - BytesOf(Stale) = BytesOf(Fresh)
        /\ BytesOf(Fresh) <= BytesOf(entries)
    BY <1>7, <1>8, SumBounds
  <2> QED
    BY <1>1, <1>8, <2>1, LimitTypes
<1>10. Len(Fresh) <= MaxEntries
  BY <1>1, <1>2, <1>3, KeptMapLength, LimitTypes
<1>11. IdsOf(Fresh) \cup IdsOf(Stale) = Held
  BY <1>4, <1>5, <1>6 DEF Held, IdsOf
<1>12. IdsOf(Fresh) \cap IdsOf(Stale) = {}
  <2>1. ASSUME NEW j \in F, NEW k \in V, entries[j].id = entries[k].id PROVE FALSE
    <3>1. j \in 1 .. Len(entries) /\ k \in 1 .. Len(entries)
      BY <1>2, <1>4
    <3>2. j = k
      BY <1>1, <2>1, <3>1 DEF Apart
    <3> QED
      BY <1>4, <3>2
  <2> QED
    BY <1>5, <1>6, <2>1
<1> QED
  BY <1>5, <1>8, <1>9, <1>10, <1>11, <1>12

\* The number of values that make room.
LEMMA VictimsType ==
    ASSUME NEW s \in Seq(Entry), NEW b PROVE Victims(s, b) \in 0 .. Len(s)
<1> DEFINE enough == { n \in 0 .. Len(s) : Room(Rest(s, n), b) }
<1>1. Len(s) \in 0 .. Len(s) /\ enough \subseteq Nat /\ enough \subseteq 0 .. Len(s)
  OBVIOUS
<1>2. Victims(s, b) = IF enough = {} THEN Len(s)
                      ELSE CHOOSE n \in enough : \A m \in enough : n <= m
  BY DEF Victims
<1> HIDE DEF enough
<1>3. CASE enough = {}
  BY <1>1, <1>2, <1>3
<1>4. CASE enough # {}
  <2>1. \E n \in enough : \A m \in enough : n <= m
    BY <1>1, <1>4, Least
  <2>2. Victims(s, b) \in enough
    BY <1>2, <1>4, <2>1
  <2> QED
    BY <1>1, <2>2
<1> QED
  BY <1>3, <1>4

\* A result that is new, and what is held of it afterwards.
LEMMA PutKeeps ==
    ASSUME ResultStoreAssumption, StoreInv, NEW id \in Ids, NEW b \in Nat, Put(id, b)
    PROVE  StoreInv'
<1> DEFINE n == Victims(Fresh, b)
           rest == Rest(Fresh, n)
           out == SubSeq(Fresh, 1, n)
           left == totalBytes - BytesOf(Stale)
           purged == Missing(misses, IdsOf(Stale), "expired")
           evict == Missing(purged, IdsOf(out), "evicted")
           fits == Room(rest, b)
           new == [id |-> id, bytes |-> b, at |-> now]
<1>1. /\ Fresh \in Seq(Entry) /\ Apart(Fresh) /\ Len(Fresh) <= MaxEntries
      /\ left = BytesOf(Fresh) /\ BytesOf(Fresh) \in Nat /\ BytesOf(Fresh) <= MaxBytesTotal
      /\ IdsOf(Fresh) \cup IdsOf(Stale) = Held /\ IdsOf(Fresh) \cap IdsOf(Stale) = {}
  BY Purge
<1>2. n \in 0 .. Len(Fresh)
  BY <1>1, VictimsType
<1> HIDE DEF n
<1>3. /\ rest \in Seq(Entry) /\ out \in Seq(Entry) /\ Apart(rest)
      /\ IdsOf(out) \cup IdsOf(rest) = IdsOf(Fresh) /\ IdsOf(out) \cap IdsOf(rest) = {}
      /\ BytesOf(out) + BytesOf(rest) = BytesOf(Fresh)
      /\ Len(rest) <= Len(Fresh)
  BY <1>1, <1>2, CutMap
<1>4. /\ minted[id] = "no" /\ minted' = [minted EXCEPT ![id] = "retain"] /\ now' = now
      /\ \/ /\ entries' = Fresh /\ totalBytes' = left
            /\ misses' = [purged EXCEPT ![id] = "evicted"]
         \/ /\ entries' = IF fits THEN Append(rest, new) ELSE rest
            /\ totalBytes' = left - BytesOf(out) + (IF fits THEN b ELSE 0)
            /\ misses' = [evict EXCEPT ![id] = IF fits THEN "none" ELSE "evicted"]
  BY DEF Put, n
<1>5. /\ now \in Nat /\ Explains(Held, misses, minted) /\ id \notin Held /\ Held \subseteq Ids
  <2>1. now \in Nat /\ Explains(Held, misses, minted) /\ entries \in Seq(Entry)
    BY DEF StoreInv, Accounts
  <2> QED
    BY <1>4, <2>1, MapIds DEF Held, Explains
<1> HIDE DEF rest, out, left, purged, evict, fits, new
<1>6. CASE /\ entries' = Fresh /\ totalBytes' = left
           /\ misses' = [purged EXCEPT ![id] = "evicted"]
  <2>1. Accounts(entries, totalBytes)'
    BY <1>1, <1>6 DEF Accounts
  <2>2. Explains(Held, misses, minted)'
    <3>1. Held' = IdsOf(Fresh)
      BY <1>6 DEF Held
    <3>2. misses' = [i \in Ids |-> IF i = id THEN "evicted"
                                    ELSE IF i \in IdsOf(Stale) THEN "expired" ELSE misses[i]]
      BY <1>6 DEF purged, Missing
    <3> QED
      BY <1>1, <1>4, <1>5, <3>1, <3>2 DEF Explains, Reasons
  <2> QED
    BY <1>4, <1>5, <2>1, <2>2 DEF StoreInv
<1>7. CASE /\ entries' = IF fits THEN Append(rest, new) ELSE rest
           /\ totalBytes' = left - BytesOf(out) + (IF fits THEN b ELSE 0)
           /\ misses' = [evict EXCEPT ![id] = IF fits THEN "none" ELSE "evicted"]
  <2>1. BytesOf(rest) \in Nat /\ BytesOf(out) \in Nat
    BY <1>3, BytesType, EntrySized
  <2>2. left - BytesOf(out) = BytesOf(rest) /\ BytesOf(rest) <= MaxBytesTotal
    <3>1. BytesOf(Fresh) - BytesOf(out) = BytesOf(rest) /\ BytesOf(rest) <= BytesOf(Fresh)
      <4>1. PICK u \in Nat, v \in Nat :
              u = BytesOf(out) /\ v = BytesOf(rest) /\ u + v = BytesOf(Fresh)
        BY <1>3, <2>1
      <4>2. (u + v) - u = v /\ v <= u + v
        OBVIOUS
      <4> QED
        BY <4>1, <4>2
    <3> QED
      BY <1>1, <2>1, <3>1, LimitTypes
  <2>3. Len(rest) <= MaxEntries /\ Len(rest) \in Nat
    BY <1>1, <1>3, LimitTypes
  <2>4. id \notin IdsOf(rest)
    BY <1>1, <1>3, <1>5
  <2>5. misses' = [i \in Ids |-> IF i = id THEN IF fits THEN "none" ELSE "evicted"
                                  ELSE IF i \in IdsOf(out) THEN "evicted"
                                  ELSE IF i \in IdsOf(Stale) THEN "expired" ELSE misses[i]]
    BY <1>7 DEF evict, purged, Missing
  <2>6. CASE fits
    <3>1. new \in Entry /\ new.id = id /\ new.bytes = b
      BY <1>5 DEF Entry, new
    <3>2. /\ Append(rest, new) \in Seq(Entry) /\ Apart(Append(rest, new))
          /\ IdsOf(Append(rest, new)) = IdsOf(rest) \cup {id}
          /\ BytesOf(Append(rest, new)) = BytesOf(rest) + b
          /\ Len(Append(rest, new)) = Len(rest) + 1
      BY <1>3, <2>4, <3>1, GrowMap
    <3>3. entries' = Append(rest, new) /\ totalBytes' = BytesOf(rest) + b
      BY <1>7, <2>2, <2>6
    <3>4. Len(rest) < MaxEntries /\ BytesOf(rest) + b <= MaxBytesTotal
      BY <2>6 DEF fits, Room
    <3>5. Accounts(entries, totalBytes)'
      BY <2>3, <3>2, <3>3, <3>4, LimitTypes DEF Accounts
    <3>6. Held' = IdsOf(rest) \cup {id}
      BY <3>2, <3>3 DEF Held
    <3>7. Explains(Held, misses, minted)'
      BY <1>1, <1>3, <1>4, <1>5, <2>5, <2>6, <3>6 DEF Explains, Reasons
    <3> QED
      BY <1>4, <1>5, <3>5, <3>7 DEF StoreInv
  <2>7. CASE ~fits
    <3>1. entries' = rest /\ totalBytes' = BytesOf(rest)
      BY <1>7, <2>1, <2>2, <2>7
    <3>2. Accounts(entries, totalBytes)'
      BY <1>3, <2>2, <2>3, <3>1 DEF Accounts
    <3>3. Held' = IdsOf(rest)
      BY <3>1 DEF Held
    <3>4. Explains(Held, misses, minted)'
      BY <1>1, <1>3, <1>4, <1>5, <2>4, <2>5, <2>7, <3>3 DEF Explains, Reasons
    <3> QED
      BY <1>4, <1>5, <3>2, <3>4 DEF StoreInv
  <2> QED
    BY <2>6, <2>7
<1> QED
  BY <1>4, <1>6, <1>7

\* One value leaves its place.
LEMMA WithoutMap ==
    ASSUME NEW s \in Seq(Entry), Apart(s), NEW m \in DOMAIN s
    PROVE  /\ Without(s, s[m].id) \in Seq(Entry) /\ Apart(Without(s, s[m].id))
           /\ IdsOf(Without(s, s[m].id)) = IdsOf(s) \ {s[m].id}
           /\ BytesOf(Without(s, s[m].id)) \in Nat
           /\ BytesOf(Without(s, s[m].id)) + s[m].bytes = BytesOf(s)
           /\ Len(Without(s, s[m].id)) < Len(s)
<1>1. PICK N \in Nat : N = Len(s) /\ DOMAIN s = 1 .. N /\ m \in 1 .. N
  BY Places
<1> DEFINE T == { k \in DOMAIN s : s[k].id # s[m].id }
<1>2. Without(s, s[m].id) = Kept(s, T)
  BY DEF Without
<1>3. \A n \in 1 .. N : n \in T <=> n \notin {m}
  BY <1>1 DEF Apart
<1> HIDE DEF T
<1>4. /\ Kept(s, T) \in Seq(Entry) /\ Apart(Kept(s, T))
      /\ IdsOf(Kept(s, T)) = { s[k].id : k \in T \cap DOMAIN s }
  BY KeptMap
<1>5. { s[k].id : k \in T \cap DOMAIN s } = IdsOf(s) \ {s[m].id}
  <2>1. \A k \in DOMAIN s : k \in T <=> s[k].id # s[m].id
    BY DEF T
  <2> QED
    BY <2>1 DEF IdsOf
<1>6. BytesOf(Kept(s, T)) + s[m].bytes = BytesOf(s) /\ BytesOf(Kept(s, T)) \in Nat
  <2>1. BytesOf(Kept(s, T)) + BytesOf(Kept(s, {m})) = BytesOf(s)
    BY <1>1, <1>3, BytesKept, EntrySized
  <2>2. Kept(s, {m}) = <<s[m]>> /\ s[m] \in Entry
    BY <1>1, KeptOne
  <2>3. BytesOf(<<s[m]>>) = s[m].bytes
    BY <2>2, BytesOne, EntrySized
  <2>4. BytesOf(Kept(s, T)) \in Nat
    BY <1>4, BytesType, EntrySized
  <2> QED
    BY <2>1, <2>2, <2>3, <2>4
<1>7. Len(Kept(s, T)) < Len(s)
  BY <1>1, <1>3, KeptFewer
<1> QED
  BY <1>2, <1>4, <1>5, <1>6, <1>7

\* A lookup.
LEMMA GetKeeps ==
    ASSUME ResultStoreAssumption, StoreInv, NEW id \in Ids, Get(id)
    PROVE  /\ StoreInv' /\ Held \ Held' \subseteq {id}
           /\ lookup'.id = id
           /\ lookup'.outcome = "found" => lookup'.age <= Ttl
           /\ lookup'.outcome = "not_retained" <=> minted[id] = "skip"
           /\ lookup'.outcome = "unknown_id" <=> minted[id] = "no"
<1>1. /\ entries \in Seq(Entry) /\ Apart(entries) /\ totalBytes = BytesOf(entries)
      /\ totalBytes <= MaxBytesTotal /\ Len(entries) <= MaxEntries /\ now \in Nat
      /\ Explains(Held, misses, minted)
  BY DEF StoreInv, Accounts
<1>2. CASE id \notin Held
  <2>1. /\ lookup' = [id |-> id, age |-> 0,
                      outcome |-> IF misses[id] # "none" THEN misses[id] ELSE "unknown_id"]
        /\ UNCHANGED <<entries, totalBytes, misses, now, minted>>
    BY <1>2 DEF Get, Held, IdsOf
  <2>2. StoreInv' /\ Held' = Held
    BY <2>1 DEF StoreInv, Accounts, Explains, Held
  <2>3. /\ minted[id] = "no" <=> misses[id] = "none"
        /\ minted[id] = "skip" <=> misses[id] = "not_retained"
        /\ misses[id] \in Reasons
    BY <1>1, <1>2 DEF Explains
  <2> QED
    BY <2>1, <2>2, <2>3 DEF Reasons
<1>3. CASE id \in Held
  <2>1. PICK m \in DOMAIN entries : entries[m].id = id
    BY <1>3 DEF Held, IdsOf
  <2>2. \A k \in DOMAIN entries : entries[k].id = id => k = m
    BY <1>1, <2>1, Places DEF Apart
  <2>3. PICK e : e = entries[m] /\ e \in Entry /\ e.id = id /\ e.bytes \in Nat /\ e.at \in Nat
    <3>1. entries[m] \in Entry
      BY <1>1, <2>1
    <3> QED
      BY <2>1, <3>1 DEF Entry
  <2>4. minted[id] = "retain" /\ misses[id] = "none"
    BY <1>1, <1>3 DEF Explains
  <2>5. /\ Without(entries, id) \in Seq(Entry) /\ Apart(Without(entries, id))
        /\ IdsOf(Without(entries, id)) = Held \ {id}
        /\ BytesOf(Without(entries, id)) \in Nat
        /\ BytesOf(Without(entries, id)) + e.bytes = BytesOf(entries)
        /\ Len(Without(entries, id)) < Len(entries)
    BY <1>1, <2>1, <2>3, WithoutMap DEF Held
  <2>6. \/ /\ ~Expired(e) /\ entries' = Append(Without(entries, id), e)
           /\ lookup' = [id |-> id, outcome |-> "found", age |-> now - e.at]
           /\ UNCHANGED <<totalBytes, misses, now, minted>>
        \/ /\ Expired(e)
           /\ entries' = Without(entries, id) /\ totalBytes' = totalBytes - e.bytes
           /\ misses' = [misses EXCEPT ![id] = "expired"]
           /\ lookup' = [id |-> id, outcome |-> "expired", age |-> now - e.at]
           /\ UNCHANGED <<now, minted>>
    BY <1>3, <2>2, <2>3 DEF Get
  <2>7. CASE /\ ~Expired(e) /\ entries' = Append(Without(entries, id), e)
             /\ lookup' = [id |-> id, outcome |-> "found", age |-> now - e.at]
             /\ UNCHANGED <<totalBytes, misses, now, minted>>
    <3>1. /\ entries' \in Seq(Entry) /\ Apart(entries')
          /\ IdsOf(entries') = Held
          /\ BytesOf(entries') = BytesOf(entries)
          /\ Len(entries') <= Len(entries)
      <4>1. /\ Append(Without(entries, id), e) \in Seq(Entry)
            /\ Apart(Append(Without(entries, id), e))
            /\ IdsOf(Append(Without(entries, id), e)) = IdsOf(Without(entries, id)) \cup {id}
            /\ BytesOf(Append(Without(entries, id), e)) = BytesOf(Without(entries, id)) + e.bytes
            /\ Len(Append(Without(entries, id), e)) = Len(Without(entries, id)) + 1
        BY <2>3, <2>5, GrowMap
      <4>2. Len(Without(entries, id)) \in Nat /\ Len(entries) \in Nat
        BY <1>1, <2>5
      <4> QED
        BY <1>3, <2>5, <2>7, <4>1, <4>2
    <3>2. Accounts(entries, totalBytes)'
      BY <1>1, <2>7, <3>1, LimitTypes DEF Accounts
    <3>3. Held' = Held /\ Explains(Held, misses, minted)'
      BY <1>1, <2>7, <3>1 DEF Held, Explains
    <3>4. now - e.at <= Ttl
      BY <1>1, <2>3, <2>7, LimitTypes DEF Expired
    <3> QED
      BY <1>1, <2>4, <2>7, <3>2, <3>3, <3>4 DEF StoreInv
  <2>8. CASE /\ Expired(e)
             /\ entries' = Without(entries, id) /\ totalBytes' = totalBytes - e.bytes
             /\ misses' = [misses EXCEPT ![id] = "expired"]
             /\ lookup' = [id |-> id, outcome |-> "expired", age |-> now - e.at]
             /\ UNCHANGED <<now, minted>>
    <3>1. Held' = Held \ {id}
      BY <2>5, <2>8 DEF Held
    <3>2. totalBytes' = BytesOf(entries') /\ totalBytes' <= MaxBytesTotal
      BY <1>1, <2>3, <2>5, <2>8, LimitTypes
    <3>3. Accounts(entries, totalBytes)'
      BY <1>1, <2>5, <2>8, <3>2, LimitTypes DEF Accounts
    <3>4. Explains(Held, misses, minted)'
      BY <1>1, <2>4, <2>8, <3>1 DEF Explains, Reasons
    <3> QED
      BY <1>1, <2>4, <2>8, <3>1, <3>3, <3>4 DEF StoreInv
  <2> QED
    BY <2>6, <2>7, <2>8
<1> QED
  BY <1>2, <1>3

LEMMA MarkKeeps ==
    ASSUME StoreInv, NEW id \in Ids, MarkNotRetained(id) PROVE StoreInv'
<1>1. Explains(Held, misses, minted)
  BY DEF StoreInv
<1>2. id \notin Held
  BY <1>1 DEF Explains, MarkNotRetained
<1>3. /\ minted' = [minted EXCEPT ![id] = "skip"]
      /\ misses' = [misses EXCEPT ![id] = "not_retained"]
      /\ UNCHANGED <<entries, totalBytes, now>>
  BY <1>2 DEF MarkNotRetained
<1>4. Held' = Held
  BY <1>3 DEF Held
<1>5. Explains(Held, misses, minted)'
  BY <1>1, <1>2, <1>3, <1>4 DEF Explains, Reasons
<1> QED
  BY <1>3, <1>5 DEF StoreInv, Accounts

LEMMA SameKeeps ==
    ASSUME StoreInv, UNCHANGED <<entries, totalBytes, misses, minted>>, now' \in Nat
    PROVE  StoreInv' /\ Held' = Held
BY DEF StoreInv, Accounts, Explains, Held

LEMMA StoreInit == ASSUME ResultStoreAssumption, Init PROVE StoreInv
<1>1. entries = <<>> /\ Len(<<>>) = 0 /\ entries \in Seq(Entry)
  BY DEF Init
<1>2. Accounts(entries, totalBytes)
  BY <1>1, BytesEmpty, LimitTypes DEF Init, Accounts, Apart
<1>3. Held = {}
  BY <1>1 DEF Held, IdsOf
<1>4. Explains(Held, misses, minted)
  BY <1>3 DEF Init, Explains, Reasons
<1> QED
  BY <1>2, <1>4 DEF Init, StoreInv

LEMMA StoreNext == ASSUME ResultStoreAssumption, StoreInv, [Next]_storeVars PROVE StoreInv'
<1>1. CASE Tick
  BY <1>1, SameKeeps DEF Tick, StoreInv
<1>2. ASSUME NEW id \in Ids, MarkNotRetained(id) PROVE StoreInv'
  BY <1>2, MarkKeeps
<1>3. ASSUME NEW id \in Ids, Get(id) PROVE StoreInv'
  BY <1>3, GetKeeps
<1>4. ASSUME NEW id \in Ids, NEW b \in Sizes, Put(id, b) PROVE StoreInv'
  BY <1>4, PutKeeps, LimitTypes
<1>5. CASE UNCHANGED storeVars
  BY <1>5, SameKeeps DEF storeVars, StoreInv
<1> QED
  BY <1>1, <1>2, <1>3, <1>4, <1>5 DEF Next

\* What the invariant says of the accounts and of the ids.
LEMMA StoreInvAccounts == ASSUME ResultStoreAssumption, StoreInv PROVE Accounting
<1>1. PICK N \in Nat : N = Len(entries) /\ DOMAIN entries = 1 .. N
  BY Places DEF StoreInv, Accounts
<1> DEFINE f == [k \in 1 .. N |-> entries[k].id]
<1>2. \A j, k \in 1 .. N : f[j] = f[k] => j = k
  BY <1>1 DEF StoreInv, Accounts, Apart
<1>3. Held = { f[k] : k \in 1 .. N }
  BY <1>1 DEF Held, IdsOf
<1> HIDE DEF f
<1>4. Cardinality(Held) = N
  BY <1>2, <1>3, CountPlaces
<1> QED
  BY <1>1, <1>4 DEF StoreInv, Accounts, Accounting

LEMMA StoreInvExplains == ASSUME StoreInv PROVE HeldOrExplained
BY DEF StoreInv, Explains, HeldOrExplained

LEMMA StoreStepAnswers ==
    ASSUME ResultStoreAssumption, StoreInv, [Next]_storeVars PROVE AnswersTruthfully
<1>1. CASE \E id \in Ids : Get(id)
  <2>1. PICK id \in Ids : Get(id)
    BY <1>1
  <2>2. /\ Held \ Held' \subseteq {id} /\ lookup'.id = id
        /\ lookup'.outcome = "found" => lookup'.age <= Ttl
        /\ lookup'.outcome = "not_retained" <=> minted[id] = "skip"
        /\ lookup'.outcome = "unknown_id" <=> minted[id] = "no"
    BY <2>1, GetKeeps
  <2> QED
    BY <2>2 DEF AnswersTruthfully
<1>2. CASE lookup' = lookup
  BY <1>2 DEF AnswersTruthfully
<1> QED
  BY <1>1, <1>2 DEF Next, Tick, MarkNotRetained, Put, storeVars

\* The result store keeps its accounts, and knows why it does not hold what it
\* does not hold.
THEOREM ResultStoreInvariant == ASSUME ResultStoreAssumption PROVE Spec => []StoreInv
<1>1. Init => StoreInv
  BY StoreInit
<1>2. StoreInv /\ [Next]_storeVars => StoreInv'
  BY StoreNext
<1> QED
  BY <1>1, <1>2, PTL DEF Spec

\* A lookup only drops what has expired.
LEMMA GetLeaves ==
    ASSUME StoreInv, NEW id \in Ids, Get(id), NEW k \in DOMAIN entries,
           entries[k].id \notin IdsOf(entries')
    PROVE  Expired(entries[k]) /\ misses'[entries[k].id] = "expired"
<1>1. entries \in Seq(Entry) /\ Apart(entries) /\ Explains(Held, misses, minted)
  BY DEF StoreInv, Accounts
<1>2. entries[k].id \in Held
  BY DEF Held, IdsOf
<1>3. id \in Held /\ ~(entries' = entries)
  <2>1. entries' # entries
    BY <1>2 DEF Held
  <2>2. id \notin Held => entries' = entries
    BY DEF Get, Held, IdsOf
  <2> QED
    BY <2>1, <2>2
<1>4. PICK m \in DOMAIN entries : entries[m].id = id
  BY <1>3 DEF Held, IdsOf
<1>5. \A j \in DOMAIN entries : entries[j].id = id => j = m
  BY <1>1, <1>4, Places DEF Apart
<1>6. PICK e : e = entries[m] /\ e \in Entry /\ e.id = id
  <2>1. entries[m] \in Entry
    BY <1>1, <1>4
  <2> QED
    BY <1>4, <2>1
<1>7. /\ Without(entries, id) \in Seq(Entry) /\ Apart(Without(entries, id))
      /\ IdsOf(Without(entries, id)) = Held \ {id}
  BY <1>1, <1>4, WithoutMap DEF Held
<1>8. CASE Expired(e) /\ entries' = Without(entries, id) /\ misses' = [misses EXCEPT ![id] = "expired"]
  <2>1. entries[k].id = id
    BY <1>2, <1>7, <1>8
  <2>2. misses'[id] = "expired"
    BY <1>1, <1>8 DEF Explains
  <2> QED
    BY <1>5, <1>6, <1>8, <2>1, <2>2
<1>9. CASE entries' = Append(Without(entries, id), e)
  <2>1. IdsOf(Append(Without(entries, id), e)) = IdsOf(Without(entries, id)) \cup {id}
    BY <1>6, <1>7, GrowMap
  <2> QED
    BY <1>2, <1>7, <1>9, <2>1
<1> QED
  BY <1>3, <1>5, <1>6, <1>8, <1>9 DEF Get

\* The least number of values that make room: fewer would not.
LEMMA VictimsLeast ==
    ASSUME NEW s \in Seq(Entry), NEW b, NEW m \in 0 .. Len(s), m < Victims(s, b)
    PROVE  ~Room(Rest(s, m), b)
<1> DEFINE enough == { n \in 0 .. Len(s) : Room(Rest(s, n), b) }
<1>1. Len(s) \in Nat /\ enough \subseteq Nat
  OBVIOUS
<1>2. Victims(s, b) = IF enough = {} THEN Len(s)
                      ELSE CHOOSE n \in enough : \A j \in enough : n <= j
  BY DEF Victims
<1>3. m \notin enough => ~Room(Rest(s, m), b)
  OBVIOUS
<1> HIDE DEF enough
<1>4. CASE enough = {}
  BY <1>3, <1>4
<1>5. CASE enough # {}
  <2>1. \E n \in enough : \A j \in enough : n <= j
    BY <1>1, <1>5, Least
  <2>2. Victims(s, b) \in enough /\ \A j \in enough : Victims(s, b) <= j
    BY <1>2, <1>5, <2>1
  <2>3. m \notin enough
    <3>1. Victims(s, b) \in Nat
      BY <1>1, <2>2
    <3>2. m \in Nat
      BY <1>1
    <3> QED
      BY <2>2, <3>1, <3>2
  <2> QED
    BY <1>3, <2>3
<1> QED
  BY <1>4, <1>5

LEMMA VictimsEnough ==
    ASSUME ResultStoreAssumption, LimitsAgree, NEW s \in Seq(Entry),
           NEW b \in Nat, b <= MaxBytesPerResult
    PROVE  Room(Rest(s, Victims(s, b)), b)
<1> DEFINE enough == { n \in 0 .. Len(s) : Room(Rest(s, n), b) }
<1>1. Room(<<>>, b)
  <2>1. Len(<<>>) < MaxEntries
    BY LimitTypes
  <2>2. BytesOf(<<>>) + b <= MaxBytesTotal
    BY BytesEmpty, LimitTypes DEF LimitsAgree
  <2> QED
    BY <2>1, <2>2 DEF Room
<1>2. Len(s) \in enough
  BY <1>1, RestNone
<1>3. enough \subseteq Nat /\ \A n \in enough : Room(Rest(s, n), b)
  OBVIOUS
<1>4. Victims(s, b) = IF enough = {} THEN Len(s)
                      ELSE CHOOSE n \in enough : \A j \in enough : n <= j
  BY DEF Victims
<1> HIDE DEF enough
<1>5. \E n \in enough : \A j \in enough : n <= j
  BY <1>2, <1>3, Least
<1>6. Victims(s, b) \in enough
  BY <1>2, <1>4, <1>5
<1> QED
  BY <1>3, <1>6

\* A new result drops what has expired, and what would not have fitted beside it.
LEMMA PutLeaves ==
    ASSUME ResultStoreAssumption, LimitsAgree, StoreInv, NEW id \in Ids, NEW b \in Nat, Put(id, b),
           NEW k \in DOMAIN entries, entries[k].id \notin IdsOf(entries')
    PROVE  \/ Expired(entries[k]) /\ misses'[entries[k].id] = "expired"
           \/ /\ ~Expired(entries[k]) /\ misses'[entries[k].id] = "evicted"
              /\ \E j \in DOMAIN entries' :
                   /\ entries'[j].id \notin Held
                   /\ ~Room(Unexpired(Rest(entries, k - 1)), entries'[j].bytes)
<1> DEFINE n == Victims(Fresh, b)
           rest == Rest(Fresh, n)
           out == SubSeq(Fresh, 1, n)
           purged == Missing(misses, IdsOf(Stale), "expired")
           evict == Missing(purged, IdsOf(out), "evicted")
           fits == Room(rest, b)
           new == [id |-> id, bytes |-> b, at |-> now]
           F == { j \in DOMAIN entries : ~Expired(entries[j]) }
           V == { j \in DOMAIN entries : Expired(entries[j]) }
<1>1. PICK e : e = entries[k]
  OBVIOUS
<1>2. /\ entries \in Seq(Entry) /\ Apart(entries)
      /\ Explains(Held, misses, minted)
  BY DEF StoreInv, Accounts
<1>3. /\ Fresh \in Seq(Entry) /\ Apart(Fresh)
      /\ IdsOf(Fresh) \cup IdsOf(Stale) = Held /\ IdsOf(Fresh) \cap IdsOf(Stale) = {}
  BY Purge
<1>4. n \in 0 .. Len(Fresh)
  BY <1>3, VictimsType
<1> HIDE DEF n
<1>5. /\ rest \in Seq(Entry) /\ IdsOf(out) \cup IdsOf(rest) = IdsOf(Fresh)
      /\ IdsOf(out) \cap IdsOf(rest) = {} /\ Apart(rest)
  BY <1>3, <1>4, CutMap
<1>6. /\ minted[id] = "no"
      /\ \/ /\ entries' = Fresh
            /\ misses' = [purged EXCEPT ![id] = "evicted"]
         \/ /\ b <= MaxBytesPerResult
            /\ entries' = IF fits THEN Append(rest, new) ELSE rest
            /\ misses' = [evict EXCEPT ![id] = IF fits THEN "none" ELSE "evicted"]
  BY DEF Put, n
<1>7. e.id \in Held /\ Held \subseteq Ids /\ id \notin Held /\ e.id # id /\ e.id \in Ids
  <2>1. e.id \in Held
    BY <1>1 DEF Held, IdsOf
  <2>2. Held \subseteq Ids
    BY <1>2, MapIds DEF Held
  <2>3. id \notin Held
    BY <1>2, <1>6 DEF Explains
  <2> QED
    BY <2>1, <2>2, <2>3
<1>8. IdsOf(Fresh) = { entries[j].id : j \in F } /\ IdsOf(Stale) = { entries[j].id : j \in V }
  <2>1. Fresh = Kept(entries, F) /\ Stale = Kept(entries, V)
    BY DEF Fresh, Unexpired, Stale
  <2>2. F \cap DOMAIN entries = F /\ V \cap DOMAIN entries = V
    OBVIOUS
  <2> HIDE DEF F, V
  <2>3. IdsOf(Kept(entries, F)) = { entries[j].id : j \in F \cap DOMAIN entries }
    BY <1>2, KeptMap
  <2>4. IdsOf(Kept(entries, V)) = { entries[j].id : j \in V \cap DOMAIN entries }
    BY <1>2, KeptMap
  <2> QED
    BY <2>1, <2>2, <2>3, <2>4
<1>9. /\ Expired(e) => e.id \in IdsOf(Stale)
      /\ ~Expired(e) => e.id \in IdsOf(Fresh)
  BY <1>1, <1>8
<1> HIDE DEF F, V
<1>10. e.id \notin IdsOf(entries')
  BY <1>1
<1> HIDE DEF rest, out, purged, evict, fits, new
<1>11. CASE /\ entries' = Fresh
            /\ misses' = [purged EXCEPT ![id] = "evicted"]
  <2>1. Expired(e)
    BY <1>9, <1>10, <1>11
  <2>2. misses'[e.id] = "expired"
    BY <1>7, <1>9, <1>11, <2>1 DEF purged, Missing
  <2> QED
    BY <1>1, <2>1, <2>2
<1>12. CASE /\ b <= MaxBytesPerResult
            /\ entries' = IF fits THEN Append(rest, new) ELSE rest
            /\ misses' = [evict EXCEPT ![id] = IF fits THEN "none" ELSE "evicted"]
  <2>1. fits
    BY <1>3, <1>12, VictimsEnough DEF fits, rest, n
  <2>2. misses'[e.id] = IF e.id \in IdsOf(out) THEN "evicted"
                        ELSE IF e.id \in IdsOf(Stale) THEN "expired" ELSE misses[e.id]
    BY <1>7, <1>12 DEF evict, purged, Missing
  <2>3. CASE Expired(e)
    <3>1. e.id \in IdsOf(Stale) /\ e.id \notin IdsOf(out)
      BY <1>3, <1>5, <1>9, <2>3
    <3> QED
      BY <1>1, <2>2, <2>3, <3>1
  <2>4. CASE ~Expired(e)
    <3>1. new \in Entry /\ new.id = id /\ new.bytes = b
      BY DEF new, Entry, StoreInv
    <3>2. entries' = Append(rest, new)
      BY <1>12, <2>1
    <3>3. PICK last : last \in DOMAIN entries' /\ entries'[last] = new
      <4>1. PICK L \in Nat : L = Len(rest)
        BY <1>5, Places
      <4>2. /\ Append(rest, new) \in Seq(Entry) /\ Len(Append(rest, new)) = L + 1
            /\ Append(rest, new)[L + 1] = new
        BY <1>5, <3>1, <4>1, AppendPlaces
      <4>3. DOMAIN Append(rest, new) = 1 .. L + 1
        BY <4>2, Places
      <4>4. L + 1 \in 1 .. L + 1
        OBVIOUS
      <4> QED
        BY <3>2, <4>2, <4>3, <4>4
    <3>4. e.id \in IdsOf(Fresh) /\ e.id \notin IdsOf(rest) /\ e.id \in IdsOf(out)
      <4>1. e.id \in IdsOf(Fresh)
        BY <1>9, <2>4
      <4>2. IdsOf(Append(rest, new)) = IdsOf(rest) \cup {id}
        BY <1>3, <1>5, <1>7, <3>1, GrowMap
      <4> QED
        BY <1>5, <1>10, <3>2, <4>1, <4>2
    <3>5. PICK m \in 1 .. Len(Fresh) :
            Fresh[m] = e /\ Rest(Fresh, m - 1) = Unexpired(Rest(entries, k - 1))
      <4> DEFINE r == Rest(entries, k - 1)
                 G == { j \in DOMAIN r : ~Expired(r[j]) }
      <4>1. PICK N \in Nat : N = Len(entries) /\ DOMAIN entries = 1 .. N /\ k \in 1 .. N
        BY <1>2, Places
      <4>2. k - 1 \in 0 .. N
        BY <4>1
      <4>3. /\ r \in Seq(Entry) /\ Len(r) = N - (k - 1)
            /\ \A j \in 1 .. N - (k - 1) : r[j] = entries[(k - 1) + j]
        BY <1>2, <4>1, <4>2, RestPlaces
      <4>4. DOMAIN r = 1 .. N - (k - 1)
        BY <4>3, Places
      <4> HIDE DEF r
      <4>5. Behind(G, F, k - 1, N - (k - 1))
        <5>1. ASSUME NEW j \in 1 .. N - (k - 1)
              PROVE  j \in G <=> (k - 1) + j \in F
          <6>1. (k - 1) + j \in DOMAIN entries
            BY <4>1
          <6> QED
            BY <4>3, <4>4, <6>1 DEF F
        <5> QED
          BY <5>1 DEF Behind
      <4>6. k \in F
        BY <1>1, <2>4 DEF F
      <4>7. Fresh = Kept(entries, F) /\ Unexpired(r) = Kept(r, G)
        BY DEF Fresh, Unexpired, F
      <4> HIDE DEF G
      <4>8. EndsFrom(Kept(entries, F), entries[k], Kept(Rest(entries, k - 1), G))
        <5>1. k \in 1 .. Len(entries) /\ Behind(G, F, k - 1, Len(entries) - (k - 1))
          BY <4>1, <4>5
        <5> QED
          BY <1>2, <4>6, <5>1, KeptFrom
      <4> QED
        BY <1>1, <4>7, <4>8 DEF r, EndsFrom
    <3>6. m \in Nat /\ n \in Nat /\ m <= n /\ m - 1 \in 0 .. Len(Fresh) /\ m - 1 < n
      <4>1. PICK N \in Nat : N = Len(Fresh)
        BY <1>3, Places
      <4>2. /\ rest \in Seq(Entry) /\ Len(rest) = N - n
            /\ \A j \in 1 .. N - n : rest[j] = Fresh[n + j]
        BY <1>3, <1>4, <4>1, RestPlaces DEF rest
      <4>3. DOMAIN rest = 1 .. N - n
        BY <4>2, Places
      <4>4. ASSUME n < m PROVE FALSE
        <5>1. m - n \in 1 .. N - n /\ n + (m - n) = m
          BY <1>4, <4>1, <4>4
        <5>2. rest[m - n] = e
          BY <3>5, <4>2, <5>1
        <5>3. e.id \in IdsOf(rest)
          BY <4>3, <5>1, <5>2 DEF IdsOf
        <5> QED
          BY <3>4, <5>3
      <4> QED
        BY <1>4, <4>1, <4>4
    <3>7. ~Room(Rest(Fresh, m - 1), b)
      BY <1>3, <3>6, VictimsLeast DEF n
    <3> QED
      BY <1>1, <1>7, <2>2, <2>4, <3>1, <3>3, <3>4, <3>5, <3>7
  <2> QED
    BY <2>3, <2>4
<1> QED
  BY <1>6, <1>11, <1>12

LEMMA StoreStepLeaves ==
    ASSUME ResultStoreAssumption, LimitsAgree, StoreInv, [Next]_storeVars PROVE LeavesForAReason
<1>1. CASE entries' = entries
  BY <1>1 DEF LeavesForAReason, IdsOf
<1>2. CASE \E id \in Ids : Get(id)
  BY <1>2, GetLeaves DEF LeavesForAReason
<1>3. CASE \E id \in Ids, b \in Sizes : Put(id, b)
  BY <1>3, PutLeaves, LimitTypes DEF LeavesForAReason
<1> QED
  BY <1>1, <1>2, <1>3 DEF Next, Tick, MarkNotRetained, storeVars

\* The order of the map is the order of use.
Orders(s, t) ==
    \A j, k \in 1 .. Len(s) : j < k =>
        \E a, b \in 1 .. Len(t) : a < b /\ t[a] = s[j].id /\ t[b] = s[k].id
Covers(s, t) == \A j \in 1 .. Len(s) : \E a \in 1 .. Len(t) : t[a] = s[j].id
NoneTwice(t) == \A a, b \in 1 .. Len(t) : t[a] = t[b] => a = b

RecentInv ==
    recent \in Seq(Ids) /\ NoneTwice(recent) /\ Orders(entries, recent) /\ Covers(entries, recent)

LEMMA KeptOrder ==
    ASSUME NEW s \in Seq(Entry), NEW t, Orders(s, t), Covers(s, t), NEW T
    PROVE  Orders(Kept(s, T), t) /\ Covers(Kept(s, T), t)
<1>1. PICK u, e : u = Kept(s, T) /\ Picks(e, u, s, T, Len(s))
  BY KeptPlaces
<1>2. /\ e \in [1 .. Len(u) -> 1 .. Len(s)]
      /\ \A k \in 1 .. Len(u) : u[k] = s[e[k]]
      /\ \A j, k \in 1 .. Len(u) : j < k => e[j] < e[k]
  BY <1>1 DEF Picks
<1>3. ASSUME NEW j \in 1 .. Len(u), NEW k \in 1 .. Len(u), j < k
      PROVE  \E a, b \in 1 .. Len(t) : a < b /\ t[a] = u[j].id /\ t[b] = u[k].id
  <2>1. /\ e[j] \in 1 .. Len(s) /\ e[k] \in 1 .. Len(s) /\ e[j] < e[k]
        /\ u[j] = s[e[j]] /\ u[k] = s[e[k]]
    BY <1>2, <1>3
  <2>2. \E a, b \in 1 .. Len(t) : a < b /\ t[a] = s[e[j]].id /\ t[b] = s[e[k]].id
    BY <2>1 DEF Orders
  <2> QED
    BY <2>1, <2>2
<1>4. ASSUME NEW j \in 1 .. Len(u) PROVE \E a \in 1 .. Len(t) : t[a] = u[j].id
  <2>1. e[j] \in 1 .. Len(s) /\ u[j] = s[e[j]]
    BY <1>2
  <2>2. \E a \in 1 .. Len(t) : t[a] = s[e[j]].id
    BY <2>1 DEF Covers
  <2> QED
    BY <2>1, <2>2
<1> QED
  BY <1>1, <1>3, <1>4 DEF Orders, Covers

LEMMA RestOrder ==
    ASSUME NEW s \in Seq(Entry), NEW t, Orders(s, t), Covers(s, t), NEW n \in 0 .. Len(s)
    PROVE  Orders(Rest(s, n), t) /\ Covers(Rest(s, n), t)
<1>1. PICK N \in Nat : N = Len(s) /\ n \in Nat /\ n <= N
  BY Places
<1>2. PICK u : u = Rest(s, n) /\ Len(u) = N - n /\ \A k \in 1 .. N - n : u[k] = s[n + k]
  <2>1. PICK u : u = Rest(s, n)
    OBVIOUS
  <2>2. Len(u) = Len(s) - n /\ \A k \in 1 .. Len(s) - n : u[k] = s[n + k]
    BY <2>1, RestPlaces
  <2> QED
    BY <1>1, <2>1, <2>2
<1>3. ASSUME NEW j \in 1 .. N - n, NEW k \in 1 .. N - n, j < k
      PROVE  \E a, b \in 1 .. Len(t) : a < b /\ t[a] = u[j].id /\ t[b] = u[k].id
  <2>1. PICK l \in 1 .. N, m \in 1 .. N : l = n + j /\ m = n + k /\ l < m
    <3>1. n + j \in 1 .. N /\ n + k \in 1 .. N /\ n + j < n + k
      BY <1>1, <1>3
    <3> QED
      BY <3>1
  <2>2. \E a, b \in 1 .. Len(t) : a < b /\ t[a] = s[l].id /\ t[b] = s[m].id
    BY <1>1, <2>1 DEF Orders
  <2>3. u[j] = s[l] /\ u[k] = s[m]
    BY <1>2, <2>1
  <2> QED
    BY <2>2, <2>3
<1>4. ASSUME NEW j \in 1 .. N - n PROVE \E a \in 1 .. Len(t) : t[a] = u[j].id
  <2>1. PICK l \in 1 .. N : l = n + j
    <3>1. n + j \in 1 .. N
      BY <1>1
    <3> QED
      BY <3>1
  <2>2. \E a \in 1 .. Len(t) : t[a] = s[l].id
    BY <1>1 DEF Covers
  <2> QED
    BY <1>2, <2>1, <2>2
<1> QED
  BY <1>2, <1>3, <1>4 DEF Orders, Covers

\* What is used moves to the end of the history.
UsedAfter(t, id) == Append(Kept(t, { k \in DOMAIN t : t[k] # id }), id)

UsedAt(t, id, v, M) ==
    /\ v \in Seq(Ids) /\ NoneTwice(v)
    /\ M = Len(v) /\ M \in 1 .. M /\ v[M] = id
    /\ \A a \in 1 .. Len(t) : t[a] # id => \E p \in 1 .. M - 1 : v[p] = t[a]
    /\ \A a, b \in 1 .. Len(t) : a < b /\ t[a] # id /\ t[b] # id =>
          \E p, q \in 1 .. M : p < q /\ v[p] = t[a] /\ v[q] = t[b]

LEMMA UsedPlaces ==
    ASSUME NEW t \in Seq(Ids), NoneTwice(t), NEW id \in Ids
    PROVE  \E M \in Nat : UsedAt(t, id, UsedAfter(t, id), M)
<1> DEFINE T == { k \in DOMAIN t : t[k] # id }
<1>1. PICK N \in Nat : N = Len(t) /\ DOMAIN t = 1 .. N
  BY Places
<1>2. \A k \in 1 .. N : k \in T <=> t[k] # id
  BY <1>1
<1>3. UsedAfter(t, id) = Append(Kept(t, T), id)
  BY DEF UsedAfter
<1> HIDE DEF T
<1>4. PICK u, e : u \in Seq(Ids) /\ u = Kept(t, T) /\ Picks(e, u, t, T, N)
  BY <1>1, KeptPlaces
<1>5. PICK L \in Nat : L = Len(u)
  BY <1>4, Places
<1>6. /\ e \in [1 .. L -> 1 .. N]
      /\ \A k \in 1 .. L : e[k] \in T /\ u[k] = t[e[k]]
      /\ \A j, k \in 1 .. L : j < k => e[j] < e[k]
      /\ \A m \in 1 .. N : m \in T => \E k \in 1 .. L : e[k] = m
  BY <1>4, <1>5 DEF Picks
<1>7. PICK v : /\ v = UsedAfter(t, id) /\ v \in Seq(Ids) /\ Len(v) = L + 1 /\ v[L + 1] = id
               /\ \A k \in 1 .. L : v[k] = u[k]
  <2>1. PICK v : v = Append(u, id)
    OBVIOUS
  <2>2. /\ v \in Seq(Ids) /\ Len(v) = L + 1 /\ v[L + 1] = id
        /\ \A k \in 1 .. L : v[k] = u[k]
    BY <1>4, <1>5, <2>1, AppendPlaces
  <2> QED
    BY <1>3, <1>4, <2>1, <2>2
<1>8. \A k \in 1 .. L + 1 : k = L + 1 \/ k \in 1 .. L
  OBVIOUS
<1>9. ASSUME NEW k \in 1 .. L PROVE v[k] = t[e[k]] /\ v[k] # id /\ e[k] \in 1 .. N
  <2>1. v[k] = u[k] /\ u[k] = t[e[k]] /\ e[k] \in T /\ e[k] \in 1 .. N
    BY <1>6, <1>7
  <2> QED
    BY <1>2, <2>1
<1>10. ASSUME NEW j \in 1 .. L, NEW k \in 1 .. L, v[j] = v[k] PROVE j = k
  <2>1. e[j] = e[k]
    <3>1. v[j] = t[e[j]] /\ v[k] = t[e[k]] /\ e[j] \in 1 .. N /\ e[k] \in 1 .. N
      BY <1>9
    <3> QED
      BY <1>1, <1>10, <3>1 DEF NoneTwice
  <2>2. e[j] \in Int /\ e[k] \in Int
    BY <1>6
  <2>3. ~(e[j] < e[k]) /\ ~(e[k] < e[j])
    BY <2>1, <2>2
  <2> QED
    BY <1>6, <2>3
<1>11. NoneTwice(v)
  BY <1>7, <1>8, <1>9, <1>10 DEF NoneTwice
<1>12. ASSUME NEW a \in 1 .. N, t[a] # id PROVE \E p \in 1 .. L : e[p] = a /\ v[p] = t[a]
  BY <1>2, <1>6, <1>7, <1>12
<1>13. ASSUME NEW a \in 1 .. N, NEW b \in 1 .. N, a < b, t[a] # id, t[b] # id
       PROVE  \E p, q \in 1 .. L + 1 : p < q /\ v[p] = t[a] /\ v[q] = t[b]
  <2>1. PICK p \in 1 .. L : e[p] = a /\ v[p] = t[a]
    BY <1>12, <1>13
  <2>2. PICK q \in 1 .. L : e[q] = b /\ v[q] = t[b]
    BY <1>12, <1>13
  <2>3. p < q
    <3>1. ~(q < p) /\ q # p
      BY <1>6, <1>13, <2>1, <2>2
    <3> QED
      BY <3>1
  <2>4. p \in 1 .. L + 1 /\ q \in 1 .. L + 1
    OBVIOUS
  <2> QED
    BY <2>1, <2>2, <2>3, <2>4
<1>14. L + 1 \in Nat /\ L + 1 \in 1 .. L + 1 /\ (L + 1) - 1 = L
  OBVIOUS
<1>15. UsedAt(t, id, v, L + 1)
  BY <1>1, <1>7, <1>11, <1>12, <1>13, <1>14 DEF UsedAt
<1> QED
  BY <1>7, <1>14, <1>15

LEMMA UsedOrder ==
    ASSUME NEW s \in Seq(Entry), NEW t \in Seq(Ids), Orders(s, t), Covers(s, t), NoneTwice(t),
           NEW x \in Entry, x.id \notin IdsOf(s)
    PROVE  Orders(Append(s, x), UsedAfter(t, x.id)) /\ Covers(Append(s, x), UsedAfter(t, x.id))
<1>1. PICK N \in Nat : N = Len(s) /\ DOMAIN s = 1 .. N
  BY Places
<1>2. PICK u : /\ u = Append(s, x) /\ Len(u) = N + 1 /\ u[N + 1] = x
               /\ \A k \in 1 .. N : u[k] = s[k]
  <2>1. PICK u : u = Append(s, x)
    OBVIOUS
  <2>2. Len(u) = N + 1 /\ u[N + 1] = x /\ \A k \in 1 .. N : u[k] = s[k]
    BY <1>1, <2>1, AppendPlaces
  <2> QED
    BY <2>1, <2>2
<1>3. PICK id \in Ids : id = x.id
  BY DEF Entry
<1>11. PICK v : v = UsedAfter(t, id)
  OBVIOUS
<1>4. PICK M \in Nat :
        /\ M = Len(v) /\ M \in 1 .. M /\ v[M] = id
        /\ \A a \in 1 .. Len(t) : t[a] # id => \E p \in 1 .. M - 1 : v[p] = t[a]
        /\ \A a, b \in 1 .. Len(t) : a < b /\ t[a] # id /\ t[b] # id =>
              \E p, q \in 1 .. M : p < q /\ v[p] = t[a] /\ v[q] = t[b]
  <2>1. PICK M \in Nat : UsedAt(t, id, UsedAfter(t, id), M)
    BY UsedPlaces
  <2> QED
    BY <1>11, <2>1 DEF UsedAt
<1>5. \A k \in 1 .. N : s[k].id # id
  BY <1>1, <1>3 DEF IdsOf
<1>6. \A k \in 1 .. N + 1 : k = N + 1 \/ k \in 1 .. N
  OBVIOUS
<1>7. ASSUME NEW j \in 1 .. N PROVE \E p \in 1 .. M - 1 : v[p] = u[j].id
  <2>1. PICK a \in 1 .. Len(t) : t[a] = s[j].id
    BY <1>1 DEF Covers
  <2>2. t[a] # id /\ u[j] = s[j]
    BY <1>2, <1>5, <2>1
  <2>3. \E p \in 1 .. M - 1 : v[p] = t[a]
    BY <1>4, <2>2
  <2> QED
    BY <2>1, <2>2, <2>3
<1>8. Covers(u, v)
  <2>1. ASSUME NEW j \in 1 .. N + 1 PROVE \E p \in 1 .. M : v[p] = u[j].id
    <3>1. CASE j = N + 1
      BY <1>2, <1>3, <1>4, <3>1
    <3>2. CASE j \in 1 .. N
      <4>1. \A p \in 1 .. M - 1 : p \in 1 .. M
        OBVIOUS
      <4> QED
        BY <1>7, <3>2, <4>1
    <3> QED
      BY <1>6, <3>1, <3>2
  <2> QED
    BY <1>2, <1>4, <2>1 DEF Covers
<1>9. ASSUME NEW j \in 1 .. N + 1, NEW k \in 1 .. N + 1, j < k
      PROVE  \E p, q \in 1 .. M : p < q /\ v[p] = u[j].id /\ v[q] = u[k].id
  <2>1. j \in 1 .. N
    BY <1>9
  <2>2. CASE k = N + 1
    <3>1. PICK p \in 1 .. M - 1 : v[p] = u[j].id
      BY <1>7, <2>1
    <3>2. p \in 1 .. M /\ p < M
      OBVIOUS
    <3>3. v[M] = u[k].id /\ M \in 1 .. M
      BY <1>2, <1>3, <1>4, <2>2
    <3> QED
      BY <3>1, <3>2, <3>3
  <2>3. CASE k \in 1 .. N
    <3>1. PICK a \in 1 .. Len(t), b \in 1 .. Len(t) : a < b /\ t[a] = s[j].id /\ t[b] = s[k].id
      BY <1>1, <1>9, <2>1, <2>3 DEF Orders
    <3>2. t[a] # id /\ t[b] # id
      BY <1>5, <2>1, <2>3, <3>1
    <3>3. PICK p \in 1 .. M, q \in 1 .. M : p < q /\ v[p] = t[a] /\ v[q] = t[b]
      BY <1>4, <3>1, <3>2
    <3>4. u[j] = s[j] /\ u[k] = s[k]
      BY <1>2, <2>1, <2>3
    <3> QED
      BY <3>1, <3>3, <3>4
  <2> QED
    BY <1>6, <2>2, <2>3
<1>10. Orders(u, v)
  <2>1. Len(u) = N + 1 /\ Len(v) = M
    BY <1>2, <1>4
  <2>2. ASSUME NEW j \in 1 .. Len(u), NEW k \in 1 .. Len(u), j < k
        PROVE  \E a, b \in 1 .. Len(v) : a < b /\ v[a] = u[j].id /\ v[b] = u[k].id
    <3>1. \E a, b \in 1 .. M : a < b /\ v[a] = u[j].id /\ v[b] = u[k].id
      BY <1>9, <2>1, <2>2
    <3> QED
      BY <2>1, <3>1
  <2> QED
    BY <2>2, Zenon DEF Orders
<1> QED
  BY <1>2, <1>3, <1>8, <1>10, <1>11

LEMMA RecentInit == ASSUME MCInit PROVE RecentInv
<1>1. entries = <<>> /\ recent = <<>>
  BY DEF MCInit, Init
<1> QED
  BY <1>1 DEF RecentInv, NoneTwice, Orders, Covers

\* What a lookup does to the map.
LEMMA GetCases ==
    ASSUME StoreInv, NEW id \in Ids, Get(id)
    PROVE  \/ entries' = entries /\ lookup'.outcome # "found"
           \/ entries' = Without(entries, id) /\ lookup'.outcome # "found"
           \/ /\ lookup'.outcome = "found"
              /\ \E e \in Entry : e.id = id /\ entries' = Append(Without(entries, id), e)
<1>1. entries \in Seq(Entry) /\ Explains(Held, misses, minted)
  BY DEF StoreInv, Accounts
<1>2. \A e \in { entries[k] : k \in DOMAIN entries } : e \in Entry
  BY <1>1
<1>3. misses[id] \in Reasons
  BY <1>1 DEF Explains
<1> QED
  BY <1>2, <1>3 DEF Get, Reasons

LEMMA WithoutIds ==
    ASSUME NEW s \in Seq(Entry), Apart(s), NEW id
    PROVE  Without(s, id) \in Seq(Entry) /\ id \notin IdsOf(Without(s, id))
<1> DEFINE T == { k \in DOMAIN s : s[k].id # id }
<1>1. Without(s, id) = Kept(s, T) /\ \A k \in T : s[k].id # id
  BY DEF Without
<1> HIDE DEF T
<1>2. /\ Kept(s, T) \in Seq(Entry)
      /\ IdsOf(Kept(s, T)) = { s[k].id : k \in T \cap DOMAIN s }
  BY KeptMap
<1> QED
  BY <1>1, <1>2

LEMMA UsedSame == ASSUME NEW id, Used(id) PROVE recent' = UsedAfter(recent, id)
BY DEF Used, UsedAfter

LEMMA RecentGet ==
    ASSUME StoreInv, RecentInv, NEW id \in Ids, Get(id),
           IF lookup'.outcome = "found" THEN Used(id) ELSE UNCHANGED recent
    PROVE  RecentInv'
<1>1. /\ entries \in Seq(Entry) /\ Apart(entries) /\ recent \in Seq(Ids) /\ NoneTwice(recent)
      /\ Orders(entries, recent) /\ Covers(entries, recent)
  BY DEF StoreInv, Accounts, RecentInv
<1>2. Orders(Without(entries, id), recent) /\ Covers(Without(entries, id), recent)
  BY <1>1, KeptOrder DEF Without
<1>3. Without(entries, id) \in Seq(Entry) /\ id \notin IdsOf(Without(entries, id))
  BY <1>1, WithoutIds
<1>4. CASE entries' = entries /\ lookup'.outcome # "found"
  BY <1>1, <1>4 DEF RecentInv
<1>5. CASE entries' = Without(entries, id) /\ lookup'.outcome # "found"
  BY <1>1, <1>2, <1>5 DEF RecentInv
<1>6. CASE /\ lookup'.outcome = "found"
           /\ \E e \in Entry : e.id = id /\ entries' = Append(Without(entries, id), e)
  <2>1. PICK e \in Entry : e.id = id /\ entries' = Append(Without(entries, id), e)
    BY <1>6
  <2>2. recent' = UsedAfter(recent, id)
    BY <1>6, UsedSame
  <2>3. /\ Orders(Append(Without(entries, id), e), UsedAfter(recent, id))
        /\ Covers(Append(Without(entries, id), e), UsedAfter(recent, id))
    BY <1>1, <1>2, <1>3, <2>1, UsedOrder
  <2>4. UsedAfter(recent, id) \in Seq(Ids) /\ NoneTwice(UsedAfter(recent, id))
    BY <1>1, UsedPlaces DEF UsedAt
  <2> QED
    BY <2>1, <2>2, <2>3, <2>4 DEF RecentInv
<1> QED
  BY <1>4, <1>5, <1>6, GetCases

\* What a new result does to the map.
LEMMA PutCases ==
    ASSUME ResultStoreAssumption, StoreInv, NEW id \in Ids, NEW b \in Nat, Put(id, b)
    PROVE  /\ id \notin Held
           /\ \/ entries' = Fresh
              \/ /\ Victims(Fresh, b) \in 0 .. Len(Fresh)
                 /\ \/ entries' = Rest(Fresh, Victims(Fresh, b))
                    \/ \E e \in Entry : /\ e.id = id
                                       /\ entries' = Append(Rest(Fresh, Victims(Fresh, b)), e)
<1>1. Fresh \in Seq(Entry)
  BY Purge
<1>2. Victims(Fresh, b) \in 0 .. Len(Fresh)
  BY <1>1, VictimsType
<1>3. [id |-> id, bytes |-> b, at |-> now] \in Entry /\ id \notin Held
  BY DEF Put, Entry, StoreInv, Explains
<1> QED
  BY <1>2, <1>3 DEF Put

LEMMA FreshOrder ==
    ASSUME ResultStoreAssumption, StoreInv, RecentInv
    PROVE  /\ Fresh \in Seq(Entry) /\ Apart(Fresh)
           /\ Orders(Fresh, recent) /\ Covers(Fresh, recent)
           /\ \A n \in 0 .. Len(Fresh) :
                 /\ Rest(Fresh, n) \in Seq(Entry) /\ IdsOf(Rest(Fresh, n)) \subseteq Held
                 /\ Orders(Rest(Fresh, n), recent) /\ Covers(Rest(Fresh, n), recent)
<1>1. Fresh \in Seq(Entry) /\ Apart(Fresh) /\ IdsOf(Fresh) \subseteq Held
  BY Purge
<1>2. Orders(Fresh, recent) /\ Covers(Fresh, recent)
  BY KeptOrder DEF Fresh, Unexpired, StoreInv, Accounts, RecentInv
<1>3. ASSUME NEW n \in 0 .. Len(Fresh)
      PROVE  /\ Rest(Fresh, n) \in Seq(Entry) /\ IdsOf(Rest(Fresh, n)) \subseteq Held
             /\ Orders(Rest(Fresh, n), recent) /\ Covers(Rest(Fresh, n), recent)
  <2>1. Rest(Fresh, n) \in Seq(Entry) /\ IdsOf(Rest(Fresh, n)) \subseteq Held
    BY <1>1, CutMap
  <2>2. Orders(Rest(Fresh, n), recent) /\ Covers(Rest(Fresh, n), recent)
    BY <1>1, <1>2, RestOrder
  <2> QED
    BY <2>1, <2>2
<1> QED
  BY <1>1, <1>2, <1>3

LEMMA RecentPut ==
    ASSUME ResultStoreAssumption, StoreInv, RecentInv, NEW id \in Ids, NEW b \in Nat, Put(id, b),
           IF id \in IdsOf(entries') THEN Used(id) ELSE UNCHANGED recent
    PROVE  RecentInv'
<1> DEFINE rest == Rest(Fresh, Victims(Fresh, b))
<1>1. /\ recent \in Seq(Ids) /\ NoneTwice(recent)
      /\ Orders(Fresh, recent) /\ Covers(Fresh, recent) /\ id \notin Held
  BY FreshOrder, PutCases DEF RecentInv
<1>2. CASE entries' = Fresh
  <2>1. id \notin IdsOf(entries')
    BY <1>1, <1>2, Purge
  <2> QED
    BY <1>1, <1>2, <2>1 DEF RecentInv
<1>3. ASSUME Victims(Fresh, b) \in 0 .. Len(Fresh), entries' = rest PROVE RecentInv'
  <2>1. Orders(rest, recent) /\ Covers(rest, recent) /\ IdsOf(rest) \subseteq Held
    BY <1>3, FreshOrder
  <2>2. id \notin IdsOf(entries')
    BY <1>1, <1>3, <2>1
  <2> QED
    BY <1>1, <1>3, <2>1, <2>2 DEF RecentInv
<1>4. ASSUME Victims(Fresh, b) \in 0 .. Len(Fresh),
             NEW e \in Entry, e.id = id, entries' = Append(rest, e)
      PROVE  RecentInv'
  <2>1. /\ rest \in Seq(Entry) /\ Apart(rest)
        /\ Orders(rest, recent) /\ Covers(rest, recent) /\ IdsOf(rest) \subseteq Held
    BY <1>4, FreshOrder, CutMap
  <2>2. id \notin IdsOf(rest)
    BY <1>1, <2>1
  <2> HIDE DEF rest
  <2>3. id \in IdsOf(Append(rest, e))
    BY <1>4, <2>1, <2>2, GrowMap
  <2>4. recent' = UsedAfter(recent, id)
    BY <1>4, <2>3, UsedSame
  <2>5. /\ Orders(Append(rest, e), UsedAfter(recent, id))
        /\ Covers(Append(rest, e), UsedAfter(recent, id))
    BY <1>1, <1>4, <2>1, <2>2, UsedOrder
  <2>6. UsedAfter(recent, id) \in Seq(Ids) /\ NoneTwice(UsedAfter(recent, id))
    BY <1>1, UsedPlaces DEF UsedAt
  <2> QED
    BY <1>4, <2>4, <2>5, <2>6 DEF RecentInv
<1> QED
  BY <1>2, <1>3, <1>4, PutCases

LEMMA MCStoreNext ==
    ASSUME ResultStoreAssumption, StoreInv, RecentInv, [MCNext]_mcVars
    PROVE  StoreInv' /\ RecentInv'
<1>1. [Next]_storeVars
  BY DEF MCNext, mcVars, Next
<1>2. StoreInv'
  BY <1>1, StoreNext
<1>3. RecentInv'
  <2>1. CASE UNCHANGED <<entries, recent>>
    BY <2>1 DEF RecentInv
  <2>2. ASSUME NEW id \in Ids, Get(id),
               IF lookup'.outcome = "found" THEN Used(id) ELSE UNCHANGED recent
        PROVE  RecentInv'
    BY <2>2, RecentGet
  <2>3. ASSUME NEW id \in Ids, NEW b \in Sizes, Put(id, b),
               IF id \in IdsOf(entries') THEN Used(id) ELSE UNCHANGED recent
        PROVE  RecentInv'
    BY <2>3, RecentPut, LimitTypes
  <2> QED
    BY <2>1, <2>2, <2>3 DEF MCNext, mcVars, storeVars, Tick, MarkNotRetained
<1> QED
  BY <1>2, <1>3

\* Of two results in the map, the one that comes first was used first.
LEMMA OrderedUse ==
    ASSUME RecentInv, NEW s, Orders(s, recent), NEW p \in 1 .. Len(s), NEW q \in 1 .. Len(s), p < q
    PROVE  LET at(x) == CHOOSE k \in DOMAIN recent : recent[k] = x
           IN  at(s[p].id) < at(s[q].id)
<1>1. PICK a \in 1 .. Len(recent), b \in 1 .. Len(recent) :
        a < b /\ recent[a] = s[p].id /\ recent[b] = s[q].id
  BY DEF Orders
<1>2. DOMAIN recent = 1 .. Len(recent)
  BY Places DEF RecentInv
<1>3. \A k \in DOMAIN recent : recent[k] = s[p].id => k = a
  BY <1>1, <1>2 DEF RecentInv, NoneTwice
<1>4. \A k \in DOMAIN recent : recent[k] = s[q].id => k = b
  BY <1>1, <1>2 DEF RecentInv, NoneTwice
<1> QED
  BY <1>1, <1>2, <1>3, <1>4

LEMMA PutEvictsOldest ==
    ASSUME ResultStoreAssumption, StoreInv, RecentInv, NEW id \in Ids, NEW c \in Nat, Put(id, c)
    PROVE  EvictsLeastRecentlyUsed
<1> DEFINE n == Victims(Fresh, c)
           out == SubSeq(Fresh, 1, n)
           rest == Rest(Fresh, n)
           purged == Missing(misses, IdsOf(Stale), "expired")
           evict == Missing(purged, IdsOf(out), "evicted")
           at(x) == CHOOSE k \in DOMAIN recent : recent[k] = x
<1> SUFFICES ASSUME NEW i \in Held \ IdsOf(entries'), NEW j \in Held \cap IdsOf(entries'),
                    misses'[i] = "evicted"
             PROVE  at(i) < at(j)
  BY DEF EvictsLeastRecentlyUsed
<1>1. /\ Fresh \in Seq(Entry) /\ Apart(Fresh) /\ Orders(Fresh, recent)
      /\ IdsOf(Fresh) \cup IdsOf(Stale) = Held /\ IdsOf(Fresh) \cap IdsOf(Stale) = {}
  BY FreshOrder, Purge
<1>2. n \in 0 .. Len(Fresh)
  BY <1>1, VictimsType
<1>3. /\ rest \in Seq(Entry) /\ out \in Seq(Entry) /\ Apart(rest)
      /\ IdsOf(out) \cup IdsOf(rest) = IdsOf(Fresh) /\ IdsOf(out) \cap IdsOf(rest) = {}
  BY <1>1, <1>2, CutMap
<1>4. id \notin Held /\ i # id /\ j # id /\ i \in Ids
  <2>1. id \notin Held
    BY PutCases
  <2>2. Held \subseteq Ids
    BY MapIds DEF Held, StoreInv, Accounts
  <2> QED
    BY <2>1, <2>2
<1>5. /\ \/ entries' = Fresh /\ misses' = [purged EXCEPT ![id] = "evicted"]
         \/ /\ entries' = rest
            /\ misses' = [evict EXCEPT ![id] = "evicted"]
         \/ /\ entries' = Append(rest, [id |-> id, bytes |-> c, at |-> now])
            /\ misses' = [evict EXCEPT ![id] = "none"]
  BY DEF Put
<1>6. CASE entries' = Fresh /\ misses' = [purged EXCEPT ![id] = "evicted"]
  <2>1. misses'[i] = "expired"
    BY <1>1, <1>4, <1>6 DEF Missing
  <2> QED
    BY <2>1
<1>7. ASSUME NEW m \in {"none", "evicted"}, misses' = [evict EXCEPT ![id] = m],
             IdsOf(entries') \subseteq IdsOf(rest) \cup {id}, IdsOf(rest) \subseteq IdsOf(entries')
      PROVE  at(i) < at(j)
  <2>1. i \in IdsOf(out)
    <3>1. misses'[i] = IF i \in IdsOf(out) THEN "evicted"
                       ELSE IF i \in IdsOf(Stale) THEN "expired" ELSE misses[i]
      BY <1>4, <1>7 DEF Missing
    <3>2. i \in IdsOf(Fresh) => i \in IdsOf(out)
      BY <1>3, <1>7
    <3> QED
      BY <1>1, <3>1, <3>2
  <2>2. j \in IdsOf(rest)
    BY <1>4, <1>7
  <2>3. PICK N \in Nat : N = Len(Fresh) /\ n \in 0 .. N
    BY <1>1, <1>2, Places
  <2> HIDE DEF n
  <2>4. PICK p \in 1 .. n : Fresh[p].id = i
    <3>1. Len(out) = n /\ \A k \in 1 .. n : out[k] = Fresh[k]
      BY <1>1, <1>2, FirstPlaces
    <3>2. DOMAIN out = 1 .. n
      BY <1>3, <3>1, Places
    <3> QED
      BY <2>1, <3>1, <3>2 DEF IdsOf
  <2>5. PICK k \in 1 .. N - n : Fresh[n + k].id = j
    <3>1. Len(rest) = N - n /\ \A k \in 1 .. N - n : rest[k] = Fresh[n + k]
      <4>1. /\ Len(Rest(Fresh, n)) = Len(Fresh) - n
            /\ \A k \in 1 .. Len(Fresh) - n : Rest(Fresh, n)[k] = Fresh[n + k]
        BY <1>1, <1>2, RestPlaces
      <4> QED
        BY <2>3, <4>1
    <3>2. DOMAIN rest = 1 .. N - n
      BY <1>3, <3>1, Places
    <3> QED
      BY <2>2, <3>1, <3>2 DEF IdsOf
  <2>6. PICK q \in 1 .. N : q = n + k /\ p \in 1 .. N /\ p < q
    <3>1. n + k \in 1 .. N /\ p \in 1 .. N /\ p < n + k
      BY <2>3
    <3> QED
      BY <3>1
  <2> QED
    BY <1>1, <2>3, <2>4, <2>5, <2>6, OrderedUse
<1>8. CASE entries' = rest /\ misses' = [evict EXCEPT ![id] = "evicted"]
  BY <1>7, <1>8
<1>9. CASE /\ entries' = Append(rest, [id |-> id, bytes |-> c, at |-> now])
           /\ misses' = [evict EXCEPT ![id] = "none"]
  <2>1. PICK e \in Entry : e = [id |-> id, bytes |-> c, at |-> now] /\ e.id = id
    <3>1. now \in Nat
      BY DEF StoreInv
    <3>2. [id |-> id, bytes |-> c, at |-> now] \in Entry
      BY <3>1 DEF Entry
    <3> QED
      BY <3>2
  <2>2. IdsOf(Append(rest, e)) = IdsOf(rest) \cup {id}
    <3>1. id \notin IdsOf(rest)
      BY <1>1, <1>3, <1>4
    <3> QED
      BY <1>3, <2>1, <3>1, GrowMap
  <2> QED
    BY <1>7, <1>9, <2>1, <2>2
<1> QED
  BY <1>5, <1>6, <1>8, <1>9

LEMMA StoreStepEvicts ==
    ASSUME ResultStoreAssumption, StoreInv, RecentInv, [MCNext]_mcVars PROVE EvictsLeastRecentlyUsed
<1>1. CASE entries' = entries
  BY <1>1 DEF EvictsLeastRecentlyUsed, Held
<1>2. ASSUME NEW id \in Ids, Get(id) PROVE EvictsLeastRecentlyUsed
  <2>1. ASSUME NEW i \in Held \ IdsOf(entries') PROVE misses'[i] = "expired"
    <3>1. PICK k \in DOMAIN entries : entries[k].id = i
      BY DEF Held, IdsOf
    <3> QED
      BY <1>2, <3>1, GetLeaves
  <2> QED
    BY <2>1 DEF EvictsLeastRecentlyUsed
<1>3. ASSUME NEW id \in Ids, NEW b \in Sizes, Put(id, b) PROVE EvictsLeastRecentlyUsed
  BY <1>3, PutEvictsOldest, LimitTypes
<1> QED
  BY <1>1, <1>2, <1>3 DEF MCNext, mcVars, storeVars, Tick, MarkNotRetained
===============================================================================
