---------------------------- MODULE UlGrid_proofs ----------------------------
(***************************************************************************)
(* Proofs that the searches of the uplink grid find what they should, for  *)
(* a carrier of any width, every mask and every size.                      *)
(***************************************************************************)
EXTENDS MCUlGrid, FiniteSetTheorems, WellFoundedInduction, TLAPS

-----------------------------------------------------------------------------
(***************************************************************************)
(* Least and greatest elements, and induction from the right end of an     *)
(* interval to the left, which is how the searches recur.                  *)
(***************************************************************************)
LEMMA LeastOfNat ==
    ASSUME NEW D \in SUBSET Nat, D # {}
    PROVE  \E x \in D : \A y \in D : x <= y
<1>1. PICK x \in D : \A y \in D : <<y, x>> \notin OpToRel(<, Nat)
  BY NatLessThanWellFounded, WFMin
<1>2. ASSUME NEW y \in D PROVE x <= y
  <2>1. x \in Nat /\ y \in Nat /\ <<y, x>> \notin OpToRel(<, Nat)
    BY <1>1
  <2> QED BY <2>1 DEF OpToRel
<1> QED BY <1>2

LEMMA GreatestUpTo ==
    ASSUME NEW N \in Nat, NEW D \in SUBSET (0 .. N), D # {}
    PROVE  \E x \in D : \A y \in D : y <= x
<1> DEFINE E == {m \in Nat : m <= N /\ N - m \in D}
<1>1. E \in SUBSET Nat /\ E # {}
  <2>1. PICK y \in D : TRUE
    OBVIOUS
  <2>2. N - y \in Nat /\ N - y <= N /\ N - (N - y) = y
    BY <2>1
  <2>3. N - y \in E
    BY <2>1, <2>2
  <2> QED BY <2>3
<1> HIDE DEF E
<1>2. PICK m \in E : \A k \in E : m <= k
  BY <1>1, LeastOfNat
<1>3. m \in Nat /\ N - m \in D
  BY <1>2 DEF E
<1>4. ASSUME NEW y \in D PROVE y <= N - m
  <2>1. y \in Nat /\ N - y \in Nat /\ N - (N - y) = y /\ N - y <= N
    OBVIOUS
  <2>2. N - y \in E
    BY <2>1 DEF E
  <2>3. m <= N - y
    BY <1>2, <2>2
  <2> QED BY <1>3, <2>1, <2>3
<1> QED BY <1>3, <1>4

LEMMA DownInduction ==
    ASSUME NEW N \in Nat, NEW S \in SUBSET (0 .. N),
           ASSUME NEW n \in 0 .. N, \A m \in 0 .. N : n < m => m \in S PROVE n \in S
    PROVE  S = 0 .. N
<1> SUFFICES ASSUME S # 0 .. N PROVE FALSE
  OBVIOUS
<1> DEFINE Rest == (0 .. N) \ S
<1>1. Rest \in SUBSET (0 .. N) /\ Rest # {}
  OBVIOUS
<1> HIDE DEF Rest
<1>2. PICK n \in Rest : \A m \in Rest : m <= n
  BY <1>1, GreatestUpTo
<1>3. n \in 0 .. N /\ \A m \in 0 .. N : n < m => m \in S
  BY <1>1, <1>2 DEF Rest
<1> QED BY <1>3, <1>2 DEF Rest

(***************************************************************************)
(* A search that, from n, ends with B[n] or goes on at some place to the   *)
(* right and makes its answer from the answer there, has a solution.       *)
(***************************************************************************)
Searches(f, N, S, End, B, to, Step) ==
    /\ f \in [0 .. N -> S]
    /\ \A n \in 0 .. N : f[n] = IF n \in End THEN B[n] ELSE Step[n][f[to[n]]]

LEMMA SearchExists ==
    ASSUME NEW N \in Nat, NEW S, NEW End \in SUBSET (0 .. N),
           NEW B \in [0 .. N -> S], NEW to \in [0 .. N -> Int], NEW Step \in [0 .. N -> [S -> S]],
           \A n \in (0 .. N) \ End : to[n] \in n + 1 .. N
    PROVE  \E f : Searches(f, N, S, End, B, to, Step)
<1> DEFINE Good(f, n) ==
               \A k \in n .. N : f[k] = IF k \in End THEN B[k] ELSE Step[k][f[to[k]]]
           Done == {n \in 0 .. N : \E f \in [0 .. N -> S] : Good(f, n)}
<1>1. ASSUME NEW n \in 0 .. N, \A m \in 0 .. N : n < m => m \in Done
      PROVE  n \in Done
  <2>1. PICK f \in [0 .. N -> S] : n < N => Good(f, n + 1)
    <3>1. CASE n < N
      <4>1. n + 1 \in 0 .. N /\ n < n + 1
        BY <3>1
      <4> HIDE DEF Done
      <4>2. n + 1 \in Done
        BY <1>1, <4>1
      <4> QED BY <4>2 DEF Done
    <3>2. CASE ~(n < N)
      BY <3>2
    <3> QED BY <3>1, <3>2
  <2> DEFINE v == IF n \in End THEN B[n] ELSE Step[n][f[to[n]]]
             g == [f EXCEPT ![n] = v]
  <2>2. n \notin End => to[n] \in n + 1 .. N /\ to[n] \in 0 .. N
    OBVIOUS
  <2>3. v \in S
    <3>1. n \notin End => f[to[n]] \in S
      BY <2>2
    <3>2. n \notin End => Step[n][f[to[n]]] \in S
      BY <3>1
    <3> QED BY <3>2
  <2> HIDE DEF v
  <2>4. g \in [0 .. N -> S] /\ g[n] = v /\ \A k \in 0 .. N : k # n => g[k] = f[k]
    BY <2>3
  <2> HIDE DEF g
  <2>5. ASSUME NEW k \in n .. N
        PROVE  g[k] = IF k \in End THEN B[k] ELSE Step[k][g[to[k]]]
    <3>1. k \in 0 .. N /\ (k \notin End => to[k] \in k + 1 .. N)
      OBVIOUS
    <3>2. k \notin End => to[k] \in 0 .. N /\ to[k] # n
      BY <3>1
    <3>3. k \notin End => g[to[k]] = f[to[k]]
      BY <2>4, <3>2
    <3>4. CASE k = n
      BY <2>4, <3>3, <3>4 DEF v
    <3>5. CASE k # n
      <4>1. n < N /\ k \in n + 1 .. N
        BY <3>5
      <4>2. f[k] = IF k \in End THEN B[k] ELSE Step[k][f[to[k]]]
        BY <2>1, <4>1
      <4> QED BY <2>4, <3>1, <3>3, <3>5, <4>2
    <3> QED BY <3>4, <3>5
  <2> QED BY <2>4, <2>5
<1> HIDE DEF Done
<1>2. Done = 0 .. N
  <2>1. Done \in SUBSET (0 .. N)
    BY DEF Done
  <2> QED BY <1>1, <2>1, DownInduction
<1>3. 0 \in Done
  BY <1>2
<1> QED BY <1>3 DEF Done, Searches

-----------------------------------------------------------------------------
(***************************************************************************)
(* bounded_bitset::find_lowest: the first PRB of those looked at that is   *)
(* free, or taken, and -1 when there is none.                              *)
(***************************************************************************)
LEMMA FirstHit ==
    ASSUME NEW lo \in Nat, NEW hi \in Int, NEW D \in SUBSET (lo .. hi)
    PROVE  LET p == IF D = {} THEN -1 ELSE CHOOSE n \in D : \A m \in D : n <= m
           IN  \/ p = -1 /\ D = {}
               \/ p \in D /\ \A x \in lo .. p - 1 : x \notin D
<1>1. CASE D = {}
  BY <1>1
<1>2. CASE D # {}
  <2>1. D \in SUBSET Nat
    OBVIOUS
  <2> DEFINE p == CHOOSE n \in D : \A m \in D : n <= m
  <2>2. p \in D /\ \A m \in D : p <= m
    <3>1. \E n \in D : \A m \in D : n <= m
      BY <1>2, <2>1, LeastOfNat
    <3> QED BY <3>1
  <2> HIDE DEF p
  <2>3. ASSUME NEW x \in lo .. p - 1 PROVE x \notin D
    <3>1. ~(p <= x)
      BY <2>1, <2>2
    <3> QED BY <2>2, <3>1
  <2> QED BY <1>2, <2>2, <2>3 DEF p
<1> QED BY <1>1, <1>2

NextFree(M, lo, hi)  == FindLowest(M, lo, hi, FALSE)
NextTaken(M, lo, hi) == FindLowest(M, lo, hi, TRUE)

LEMMA FirstFree ==
    ASSUME NEW M, NEW lo \in Nat, NEW hi \in Int
    PROVE  LET p == NextFree(M, lo, hi)
           IN  \/ p = -1 /\ \A x \in lo .. hi - 1 : x \in M
               \/ p \in lo .. hi - 1 /\ p \notin M /\ \A x \in lo .. p - 1 : x \in M
<1> DEFINE D == {n \in lo .. hi - 1 : (n \in M) = FALSE}
           p == NextFree(M, lo, hi)
<1>1. p = IF D = {} THEN -1 ELSE CHOOSE n \in D : \A m \in D : n <= m
  BY Zenon DEF FindLowest, NextFree
<1>2. \A x : x \in D <=> x \in lo .. hi - 1 /\ x \notin M
  OBVIOUS
<1> HIDE DEF D, p
<1>3. \/ p = -1 /\ D = {}
      \/ p \in D /\ \A x \in lo .. p - 1 : x \notin D
  <2>1. D \in SUBSET (lo .. hi - 1) /\ hi - 1 \in Int
    BY <1>2
  <2> QED BY <1>1, <2>1, FirstHit
<1>4. CASE p \in D
  <2>1. p \in lo .. hi - 1 /\ p \notin M
    BY <1>2, <1>4
  <2>2. \A x \in lo .. p - 1 : x \in lo .. hi - 1
    BY <2>1
  <2>3. p # -1
    BY <2>1
  <2>4. \A x \in lo .. p - 1 : x \in M
    BY <1>2, <1>3, <1>4, <2>2, <2>3
  <2> QED BY <2>1, <2>4 DEF p
<1> QED BY <1>2, <1>3, <1>4 DEF p

LEMMA FirstTaken ==
    ASSUME NEW M, NEW lo \in Nat, NEW hi \in Int
    PROVE  LET p == NextTaken(M, lo, hi)
           IN  \/ p = -1 /\ \A x \in lo .. hi - 1 : x \notin M
               \/ p \in lo .. hi - 1 /\ p \in M /\ \A x \in lo .. p - 1 : x \notin M
<1> DEFINE D == {n \in lo .. hi - 1 : (n \in M) = TRUE}
           p == NextTaken(M, lo, hi)
<1>1. p = IF D = {} THEN -1 ELSE CHOOSE n \in D : \A m \in D : n <= m
  BY Zenon DEF FindLowest, NextTaken
<1>2. \A x : x \in D <=> x \in lo .. hi - 1 /\ x \in M
  OBVIOUS
<1> HIDE DEF D, p
<1>3. \/ p = -1 /\ D = {}
      \/ p \in D /\ \A x \in lo .. p - 1 : x \notin D
  <2>1. D \in SUBSET (lo .. hi - 1) /\ hi - 1 \in Int
    BY <1>2
  <2> QED BY <1>1, <2>1, FirstHit
<1>4. CASE p \in D
  <2>1. p \in lo .. hi - 1 /\ p \in M
    BY <1>2, <1>4
  <2>2. \A x \in lo .. p - 1 : x \in lo .. hi - 1
    BY <2>1
  <2>3. p # -1
    BY <2>1
  <2>4. \A x \in lo .. p - 1 : x \notin M
    BY <1>2, <1>3, <1>4, <2>2, <2>3
  <2> QED BY <2>1, <2>4 DEF p
<1> QED BY <1>2, <1>3, <1>4 DEF p

\* The k PRBs from a are PRBs of the carrier, and free.
FreeRun(M, a, k) == a + k <= NofPrb /\ \A x \in a .. a + k - 1 : x \notin M

\* A search's run: from the first free PRB to the next taken one, the size asked
\* for or the end of the carrier.
RunFrom(M, n, to, a, k) ==
    /\ a \in n .. NofPrb - 1 /\ a \notin M /\ \A x \in n .. a - 1 : x \in M
    /\ k \in 1 .. NofPrb /\ a + k <= to /\ FreeRun(M, a, k)
    /\ a + k < to => a + k \in M

LEMMA RunFound ==
    ASSUME NEW M, NEW n \in 0 .. NofPrb, NEW pos, pos = NextFree(M, n, NofPrb),
           pos \in Nat, NEW to \in pos + 1 .. NofPrb,
           NEW pos2, pos2 = NextTaken(M, pos + 1, to),
           NEW last, last = IF pos2 < 0 THEN to ELSE pos2
    PROVE  /\ last \in Nat /\ last - pos \in 1 .. NofPrb
           /\ RunFrom(M, n, to, pos, last - pos)
           /\ Cardinality(pos .. last - 1) = last - pos
           /\ pos2 < 0 \/ (pos2 \in Nat /\ pos2 = last /\ last < to)
<1>1. NofPrb \in Nat \ {0}
  BY PrbAssumption
<1>2. pos \in n .. NofPrb - 1 /\ pos \notin M /\ \A x \in n .. pos - 1 : x \in M
  BY <1>1, FirstFree
<1>3. \/ pos2 = -1 /\ \A x \in pos + 1 .. to - 1 : x \notin M
      \/ pos2 \in pos + 1 .. to - 1 /\ pos2 \in M /\ \A x \in pos + 1 .. pos2 - 1 : x \notin M
  BY <1>1, FirstTaken
<1>4. /\ last \in pos + 1 .. to /\ (last < to => last \in M)
      /\ \A x \in pos .. last - 1 : x \notin M
      /\ pos2 < 0 \/ (pos2 \in Nat /\ pos2 = last /\ last < to)
  <2>1. CASE pos2 = -1
    BY <1>1, <1>2, <1>3, <2>1
  <2>2. CASE pos2 # -1
    <3>1. last = pos2 /\ pos2 \in pos + 1 .. to - 1
      BY <1>1, <1>3, <2>2
    <3> QED BY <1>1, <1>2, <1>3, <2>2, <3>1
  <2> QED BY <2>1, <2>2
<1>5. last \in Nat /\ last - pos \in 1 .. NofPrb /\ pos + (last - pos) = last
  BY <1>1, <1>4
<1>6. FreeRun(M, pos, last - pos)
  BY <1>1, <1>4, <1>5 DEF FreeRun
<1>7. Cardinality(pos .. last - 1) = last - pos
  <2>1. pos \in Int /\ last - 1 \in Int /\ ~(pos > last - 1) /\ (last - 1) - pos + 1 = last - pos
    BY <1>1, <1>4
  <2>2. \A lo, hi \in Int : Cardinality(lo .. hi) = IF lo > hi THEN 0 ELSE hi - lo + 1
    BY FS_Interval
  <2> QED BY <2>1, <2>2
<1> QED BY <1>1, <1>2, <1>4, <1>5, <1>6, <1>7 DEF RunFrom

-----------------------------------------------------------------------------
(***************************************************************************)
(* find_contiguous_interval: from n on, the leftmost free run of the size  *)
(* asked for, or of the longest there is.                                  *)
(***************************************************************************)
BestRun(M, s, n, a, k) ==
    /\ a \in n .. NofPrb - 1 /\ k \in 1 .. NofPrb /\ k <= s /\ FreeRun(M, a, k)
    /\ \A b \in n .. NofPrb - 1 : FreeRun(M, b, k) => a <= b
    /\ k < s => \A b \in n .. NofPrb - 1 : ~ FreeRun(M, b, k + 1)

Best(M, s, n, iv) ==
    \/ iv = {} /\ \A x \in n .. NofPrb - 1 : x \in M
    \/ \E a, k \in Nat : iv = a .. a + k - 1 /\ BestRun(M, s, n, a, k)

LEMMA SizeOfInterval == \A a, k \in Nat : Cardinality(a .. a + k - 1) = k
<1>1. \A lo, hi \in Int : Cardinality(lo .. hi) = IF lo > hi THEN 0 ELSE hi - lo + 1
  BY FS_Interval
<1>2. SUFFICES ASSUME NEW a \in Nat, NEW k \in Nat PROVE Cardinality(a .. a + k - 1) = k
  OBVIOUS
<1>3. a \in Int /\ a + k - 1 \in Int /\ k = IF a > a + k - 1 THEN 0 ELSE (a + k - 1) - a + 1
  OBVIOUS
<1> DEFINE hi == a + k - 1
<1>4. a \in Int /\ hi \in Int /\ k = IF a > hi THEN 0 ELSE hi - a + 1
  BY <1>3
<1> HIDE DEF hi
<1>5. Cardinality(a .. hi) = k
  BY <1>1, <1>4
<1> QED BY <1>5 DEF hi

LEMMA ShorterIsFree ==
    ASSUME NEW M, NEW b \in Nat, NEW j \in Nat, NEW k \in 1 .. j, FreeRun(M, b, j)
    PROVE  FreeRun(M, b, k)
BY PrbAssumption DEF FreeRun

\* Behind a run that is too short, a free run lies in it or starts after it.
LEMMA RunsApart ==
    ASSUME NEW M, NEW n \in 0 .. NofPrb, NEW s \in 1 .. NofPrb, NEW a \in Nat, NEW k \in Nat, NEW to \in Int,
           RunFrom(M, n, to, a, k), k < s, to = a + s \/ to = NofPrb,
           NEW b \in n .. NofPrb - 1, NEW j \in Nat \ {0}, FreeRun(M, b, j)
    PROVE  a <= b /\ (b < a + k => j <= k /\ (j = k => b = a))
<1>1. NofPrb \in Nat \ {0}
  BY PrbAssumption
<1>2. b \in b .. b + j - 1 /\ b \notin M /\ b + j <= NofPrb
  BY <1>1 DEF FreeRun
<1>3. a <= b
  BY <1>1, <1>2 DEF RunFrom
<1>4. ASSUME b < a + k, b + j > a + k PROVE FALSE
  <2>1. a + k \in b .. b + j - 1
    BY <1>1, <1>3, <1>4
  <2>2. a + k \notin M /\ a + k < NofPrb
    BY <1>1, <1>2, <1>4, <2>1 DEF FreeRun
  <2>3. a + k < to
    BY <1>1, <2>2
  <2> QED BY <2>2, <2>3 DEF RunFrom
<1> QED BY <1>1, <1>3, <1>4

LEMMA BestOfTwo ==
    ASSUME NEW M, NEW n \in 0 .. NofPrb, NEW s \in 1 .. NofPrb, NEW a \in Nat, NEW k \in Nat, NEW to \in Int,
           RunFrom(M, n, to, a, k), to = a + s \/ to = NofPrb, to <= a + s,
           NEW rest, k < s => Best(M, s, a + k, rest)
    PROVE  Best(M, s, n, IF k >= s \/ k >= Cardinality(rest) THEN a .. a + k - 1 ELSE rest)
<1>1. NofPrb \in Nat \ {0}
  BY PrbAssumption
<1>2. a \in n .. NofPrb - 1 /\ k \in 1 .. NofPrb /\ FreeRun(M, a, k) /\ k <= s
  BY <1>1 DEF RunFrom
<1>3. \A b \in n .. NofPrb - 1 : \A j \in Nat \ {0} : FreeRun(M, b, j) => a <= b
  <2> SUFFICES ASSUME NEW b \in n .. NofPrb - 1, NEW j \in Nat \ {0}, FreeRun(M, b, j) PROVE a <= b
    OBVIOUS
  <2>1. b \in b .. b + j - 1
    BY <1>1
  <2> QED BY <1>1, <2>1 DEF FreeRun, RunFrom
<1>4. ASSUME k < s => \A b \in n .. NofPrb - 1 : ~ FreeRun(M, b, k + 1)
      PROVE  Best(M, s, n, a .. a + k - 1)
  <2>1. BestRun(M, s, n, a, k)
    BY <1>2, <1>3, <1>4 DEF BestRun
  <2> QED BY <2>1 DEF Best
<1>5. CASE k >= s
  BY <1>2, <1>4, <1>5
<1>6. CASE k < s
  <2>1. ASSUME NEW b \in n .. NofPrb - 1, NEW j \in Nat, j > k, FreeRun(M, b, j)
        PROVE  b \in a + k .. NofPrb - 1 /\ b \notin M
    <3>1. ~(b < a + k)
      BY <1>6, <2>1, RunsApart
    <3>2. b \in b .. b + j - 1 /\ k \in Nat
      BY <1>1, <2>1
    <3> QED BY <1>1, <2>1, <3>1, <3>2 DEF FreeRun
  <2>2. CASE rest = {} /\ \A x \in a + k .. NofPrb - 1 : x \in M
    <3>1. k >= Cardinality(rest)
      BY <2>2, FS_EmptySet
    <3>2. \A b \in n .. NofPrb - 1 : ~ FreeRun(M, b, k + 1)
      BY <2>1, <2>2
    <3> QED BY <1>4, <3>1, <3>2
  <2>3. ASSUME NEW a2 \in Nat, NEW k2 \in Nat, rest = a2 .. a2 + k2 - 1, BestRun(M, s, a + k, a2, k2)
        PROVE  Best(M, s, n, IF k >= s \/ k >= Cardinality(rest) THEN a .. a + k - 1 ELSE rest)
    <3>1. Cardinality(rest) = k2
      BY <2>3, SizeOfInterval
    <3>2. CASE k >= k2
      <4>1. ASSUME NEW b \in n .. NofPrb - 1, FreeRun(M, b, k + 1) PROVE FALSE
        <5>1. b \in a + k .. NofPrb - 1
          BY <2>1, <4>1
        <5>2. k2 + 1 \in 1 .. k + 1 /\ k2 < s /\ b \in Nat /\ k + 1 \in Nat
          BY <1>1, <1>6, <3>2
        <5>3. FreeRun(M, b, k2 + 1)
          BY <4>1, <5>2, ShorterIsFree
        <5> QED BY <2>3, <5>1, <5>2, <5>3 DEF BestRun
      <4> QED BY <1>4, <3>1, <3>2, <4>1
    <3>3. CASE k < k2
      <4>1. a2 \in n .. NofPrb - 1 /\ k2 \in 1 .. NofPrb /\ k2 <= s /\ FreeRun(M, a2, k2)
        BY <1>1, <1>2, <2>3 DEF BestRun
      <4>2. ASSUME NEW b \in n .. NofPrb - 1, FreeRun(M, b, k2) PROVE a2 <= b
        BY <2>1, <2>3, <3>3, <4>2 DEF BestRun
      <4>3. ASSUME k2 < s, NEW b \in n .. NofPrb - 1, FreeRun(M, b, k2 + 1) PROVE FALSE
        <5>1. k2 + 1 \in Nat /\ k2 + 1 > k
          BY <3>3
        <5> QED BY <2>1, <2>3, <4>3, <5>1 DEF BestRun
      <4>4. BestRun(M, s, n, a2, k2)
        BY <4>1, <4>2, <4>3 DEF BestRun
      <4>5. ~(k >= s \/ k >= Cardinality(rest))
        BY <1>6, <3>1, <3>3
      <4> QED BY <2>3, <4>4, <4>5 DEF Best
    <3> QED BY <3>2, <3>3
  <2> QED BY <1>6, <2>2, <2>3 DEF Best
<1> QED BY <1>5, <1>6

\* The parts of the loop: where a run starts, where it may end, where it ends.
Pos(M, n)     == FindLowest(M, n, NofPrb, FALSE)
To(M, s, n)   == IF Pos(M, n) + s < NofPrb THEN Pos(M, n) + s ELSE NofPrb
Stop(M, s, n) == FindLowest(M, Pos(M, n) + 1, To(M, s, n), TRUE)
Run(M, s, n)  == Pos(M, n) .. (IF Stop(M, s, n) < 0 THEN To(M, s, n) ELSE Stop(M, s, n)) - 1
Onward(M, s, n) == Pos(M, n) + Cardinality(Run(M, s, n))

LEMMA RunOfScan ==
    ASSUME NEW M, NEW s \in 1 .. NofPrb, NEW n \in 0 .. NofPrb, ~(Pos(M, n) < 0)
    PROVE  \E a, k \in Nat : \E to \in Int :
              /\ RunFrom(M, n, to, a, k) /\ (to = a + s \/ to = NofPrb) /\ to <= a + s
              /\ Run(M, s, n) = a .. a + k - 1 /\ Cardinality(Run(M, s, n)) = k
              /\ Onward(M, s, n) = a + k /\ a + k \in n + 1 .. NofPrb
<1> DEFINE a    == Pos(M, n)
           to   == To(M, s, n)
           pos2 == Stop(M, s, n)
           last == IF pos2 < 0 THEN to ELSE pos2
<1>1. NofPrb \in Nat \ {0}
  BY PrbAssumption
<1>2. a = NextFree(M, n, NofPrb)
  BY Zenon DEF NextFree, Pos
<1>3. a \in n .. NofPrb - 1 /\ a \in Nat
  <2>1. ~(a < 0) /\ n \in Nat /\ NofPrb \in Int
    BY <1>1
  <2> HIDE DEF a
  <2>2. a = -1 \/ a \in n .. NofPrb - 1
    BY <1>2, <2>1, FirstFree
  <2> QED BY <2>1, <2>2
<1>4. /\ to = IF a + s < NofPrb THEN a + s ELSE NofPrb
      /\ pos2 = NextTaken(M, a + 1, to)
      /\ Run(M, s, n) = a .. last - 1
      /\ Onward(M, s, n) = a + Cardinality(Run(M, s, n))
  BY Zenon DEF To, Stop, NextTaken, Run, Onward
<1> HIDE DEF a, to, pos2
<1>5. to \in a + 1 .. NofPrb /\ (to = a + s \/ to = NofPrb) /\ to <= a + s
  BY <1>1, <1>3, <1>4
<1>6. /\ last \in Nat /\ last - a \in 1 .. NofPrb /\ RunFrom(M, n, to, a, last - a)
      /\ Cardinality(a .. last - 1) = last - a
  BY <1>2, <1>3, <1>4, <1>5, RunFound
<1> DEFINE k == last - a
<1>7. k \in 1 .. NofPrb /\ a + k = last
  BY <1>3, <1>6
<1> HIDE DEF last
<1>8. RunFrom(M, n, to, a, k) /\ Cardinality(Run(M, s, n)) = k
  BY <1>4, <1>6
<1> HIDE DEF k
<1>9. a + k \in n + 1 .. NofPrb
  BY <1>1, <1>3, <1>5, <1>7, <1>8 DEF RunFrom
<1>10. Run(M, s, n) = a .. a + k - 1 /\ Onward(M, s, n) = a + k
  <2>1. a + k - 1 = last - 1
    BY <1>1, <1>3, <1>6, <1>7
  <2>2. Run(M, s, n) = a .. a + k - 1
    BY <1>4, <2>1, Zenon
  <2>3. Onward(M, s, n) = a + k
    BY <1>4, <1>8, Zenon
  <2> QED BY <2>2, <2>3
<1> QED BY <1>1, <1>3, <1>5, <1>7, <1>8, <1>9, <1>10

\* One turn of the loop, given the answers to the right of it.
Turn(M, s, n, f) ==
    IF Pos(M, n) < 0 THEN {}
    ELSE IF Cardinality(Run(M, s, n)) >= s \/ Cardinality(Run(M, s, n)) >= Cardinality(f[Onward(M, s, n)])
         THEN Run(M, s, n) ELSE f[Onward(M, s, n)]

LEMMA IntervalUnfolds ==
    ASSUME NEW M, NEW s \in 1 .. NofPrb
    PROVE  \E f : /\ FindContiguousInterval(M, s) = f[0]
                  /\ \A n \in 0 .. NofPrb : f[n] = Turn(M, s, n, f)
<1> DEFINE S    == SUBSET Int
           End  == {n \in 0 .. NofPrb : Pos(M, n) < 0}
           B    == [n \in 0 .. NofPrb |-> {}]
           to   == [n \in 0 .. NofPrb |-> IF n \in End THEN 0 ELSE Onward(M, s, n)]
           pick(n, rest) == IF n \in End THEN {}
                            ELSE IF Cardinality(Run(M, s, n)) >= s
                                    \/ Cardinality(Run(M, s, n)) >= Cardinality(rest)
                            THEN Run(M, s, n) ELSE rest
           Step == [n \in 0 .. NofPrb |-> [rest \in S |-> pick(n, rest)]]
<1>1. NofPrb \in Nat \ {0}
  BY PrbAssumption
<1>2. ASSUME NEW n \in (0 .. NofPrb) \ End
      PROVE  Onward(M, s, n) \in n + 1 .. NofPrb /\ Run(M, s, n) \in S
  <2>1. ~(Pos(M, n) < 0)
    OBVIOUS
  <2>2. PICK a, k \in Nat : /\ Run(M, s, n) = a .. a + k - 1
                            /\ Onward(M, s, n) = a + k /\ a + k \in n + 1 .. NofPrb
    BY <2>1, RunOfScan
  <2> QED BY <2>2
<1> HIDE DEF End
<1>3. /\ B \in [0 .. NofPrb -> S] /\ to \in [0 .. NofPrb -> Int] /\ Step \in [0 .. NofPrb -> [S -> S]]
      /\ \A n \in (0 .. NofPrb) \ End : to[n] \in n + 1 .. NofPrb
  <2>1. B \in [0 .. NofPrb -> S]
    OBVIOUS
  <2>2. to \in [0 .. NofPrb -> Int] /\ \A n \in (0 .. NofPrb) \ End : to[n] \in n + 1 .. NofPrb
    BY <1>1, <1>2
  <2>3. \A n \in 0 .. NofPrb : \A rest \in S : pick(n, rest) \in S
    BY <1>2, Zenon
  <2> HIDE DEF pick, S
  <2>4. Step \in [0 .. NofPrb -> [S -> S]]
    BY <2>3
  <2> QED BY <2>1, <2>2, <2>4 DEF S
<1>4. PICK f : Searches(f, NofPrb, S, End, B, to, Step)
  <2>1. NofPrb \in Nat /\ End \in SUBSET (0 .. NofPrb)
    BY <1>1 DEF End
  <2> HIDE DEF S, B, to, Step
  <2> QED BY <1>3, <2>1, SearchExists, Zenon
<1>5. ASSUME NEW n \in 0 .. NofPrb PROVE f[n] = Turn(M, s, n, f)
  <2>1. f[n] = IF n \in End THEN B[n] ELSE Step[n][f[to[n]]]
    BY <1>4 DEF Searches
  <2>2. CASE n \in End
    <3>1. f[n] = {} /\ Pos(M, n) < 0
      BY <2>1, <2>2 DEF End
    <3> QED BY <3>1 DEF Turn
  <2>3. CASE n \notin End
    <3>1. to[n] = Onward(M, s, n) /\ Onward(M, s, n) \in 0 .. NofPrb
      BY <1>1, <1>2, <2>3
    <3>2. f[Onward(M, s, n)] \in S
      BY <1>4, <3>1, Zenon DEF Searches
    <3>3. Step[n][f[Onward(M, s, n)]] = pick(n, f[Onward(M, s, n)])
      <4> HIDE DEF pick, S
      <4> QED BY <3>2
    <3>4. f[n] = pick(n, f[Onward(M, s, n)])
      <4> HIDE DEF pick, Step, to
      <4> QED BY <2>1, <2>3, <3>1, <3>3, Zenon
    <3>5. ~(Pos(M, n) < 0)
      BY <2>3 DEF End
    <3> QED BY <2>3, <3>4, <3>5, Zenon DEF Turn
  <2> QED BY <2>2, <2>3
<1>6. f = [n \in 0 .. NofPrb |-> Turn(M, s, n, f)]
  <2>1. f \in [0 .. NofPrb -> S]
    BY <1>4, Zenon DEF Searches
  <2> HIDE DEF S
  <2> QED BY <1>5, <2>1
<1> DEFINE scan == CHOOSE g : g = [n \in 0 .. NofPrb |-> Turn(M, s, n, g)]
<1>7. scan = [n \in 0 .. NofPrb |-> Turn(M, s, n, scan)]
  BY <1>6, Zenon
<1>8. FindContiguousInterval(M, s) = scan[0]
  BY Zenon DEF FindContiguousInterval, Turn, Onward, Run, Stop, To, Pos
<1> HIDE DEF scan
<1>9. \A n \in 0 .. NofPrb : scan[n] = Turn(M, s, n, scan)
  BY <1>7
<1> QED BY <1>8, <1>9

LEMMA IntervalBest ==
    ASSUME NEW M, NEW s \in 1 .. NofPrb
    PROVE  Best(M, s, 0, FindContiguousInterval(M, s))
<1>1. NofPrb \in Nat \ {0}
  BY PrbAssumption
<1>2. PICK f : /\ FindContiguousInterval(M, s) = f[0]
               /\ \A n \in 0 .. NofPrb : f[n] = Turn(M, s, n, f)
  BY IntervalUnfolds
<1> DEFINE S == {n \in 0 .. NofPrb : Best(M, s, n, f[n])}
<1>3. ASSUME NEW n \in 0 .. NofPrb, \A m \in 0 .. NofPrb : n < m => m \in S
      PROVE  n \in S
  <2>1. CASE Pos(M, n) < 0
    <3>1. f[n] = {}
      BY <1>2, <2>1 DEF Turn
    <3>2. \A x \in n .. NofPrb - 1 : x \in M
      <4>1. NextFree(M, n, NofPrb) < 0
        BY <2>1, Zenon DEF Pos, NextFree
      <4>2. n \in Nat /\ NofPrb \in Int
        BY <1>1
      <4> DEFINE p == NextFree(M, n, NofPrb)
      <4>3. \/ p = -1 /\ \A x \in n .. NofPrb - 1 : x \in M
            \/ p \in n .. NofPrb - 1
        BY <4>2, FirstFree
      <4>4. ~(p \in n .. NofPrb - 1)
        BY <4>1, <4>2
      <4> QED BY <4>3, <4>4
    <3> QED BY <3>1, <3>2 DEF Best
  <2>2. CASE ~(Pos(M, n) < 0)
    <3>1. PICK a, k \in Nat, to \in Int :
              /\ RunFrom(M, n, to, a, k) /\ (to = a + s \/ to = NofPrb) /\ to <= a + s
              /\ Run(M, s, n) = a .. a + k - 1 /\ Cardinality(Run(M, s, n)) = k
              /\ Onward(M, s, n) = a + k /\ a + k \in n + 1 .. NofPrb
      BY <2>2, RunOfScan
    <3> DEFINE rest == f[a + k]
    <3>2. f[n] = IF k >= s \/ k >= Cardinality(rest) THEN a .. a + k - 1 ELSE rest
      BY <1>2, <2>2, <3>1 DEF Turn
    <3>3. Best(M, s, a + k, rest)
      <4>1. a + k \in 0 .. NofPrb /\ n < a + k
        BY <1>1, <3>1
      <4> HIDE DEF Best
      <4> QED BY <1>3, <4>1
    <3> HIDE DEF rest
    <3>4. Best(M, s, n, IF k >= s \/ k >= Cardinality(rest) THEN a .. a + k - 1 ELSE rest)
      BY <3>1, <3>3, BestOfTwo
    <3> QED BY <3>2, <3>4
  <2> QED BY <2>1, <2>2
<1> HIDE DEF S
<1>4. S = 0 .. NofPrb
  <2>1. S \in SUBSET (0 .. NofPrb)
    BY DEF S
  <2> QED BY <1>1, <1>3, <2>1, DownInduction
<1> QED BY <1>1, <1>2, <1>4 DEF S

-----------------------------------------------------------------------------
(***************************************************************************)
(* The free intervals of the mask, and the longest of them.                *)
(***************************************************************************)
TypeInv == mask \in SUBSET Prbs /\ size \in 1 .. NofPrb

LEMMA Stays == Spec => []TypeInv
<1>1. Init => TypeInv
  BY DEF Init, TypeInv
<1>2. TypeInv /\ [Next]_<<mask, size>> => TypeInv'
  BY DEF Next, TypeInv
<1> QED BY <1>1, <1>2, PTL DEF Spec

LEMMA FreeIntervalsAre ==
    ASSUME NEW k \in Nat \ {0}
    PROVE  \A iv : iv \in FreeIntervals(k)
              <=> \E a \in 0 .. NofPrb - 1 : FreeRun(mask, a, k) /\ iv = a .. a + k - 1
<1>1. NofPrb \in Nat \ {0}
  BY PrbAssumption
<1>2. ASSUME NEW b \in 0 .. NofPrb - 1
      PROVE  b .. b + k - 1 \subseteq Prbs \ mask <=> FreeRun(mask, b, k)
  <2>1. ASSUME b .. b + k - 1 \subseteq Prbs \ mask PROVE FreeRun(mask, b, k)
    <3>1. b + k - 1 \in b .. b + k - 1
      BY <1>1
    <3>2. b + k - 1 \in Prbs
      BY <2>1, <3>1
    <3>3. b + k <= NofPrb
      BY <1>1, <3>2 DEF Prbs
    <3> QED BY <2>1, <3>3 DEF FreeRun
  <2>2. ASSUME FreeRun(mask, b, k) PROVE b .. b + k - 1 \subseteq Prbs \ mask
    BY <1>1, <2>2 DEF FreeRun, Prbs
  <2> QED BY <2>1, <2>2
<1>3. {b \in Prbs : b .. b + k - 1 \subseteq Prbs \ mask} = {b \in 0 .. NofPrb - 1 : FreeRun(mask, b, k)}
  BY <1>2 DEF Prbs
<1>4. FreeIntervals(k) = {a .. a + k - 1 : a \in {b \in 0 .. NofPrb - 1 : FreeRun(mask, b, k)}}
  BY <1>3, Zenon DEF FreeIntervals
<1> QED BY <1>4, Zenon

LEMMA LongestRight ==
    ASSUME TypeInv, mask # Prbs
    PROVE  /\ Longest \in 1 .. NofPrb
           /\ \E a \in 0 .. NofPrb - 1 : FreeRun(mask, a, Longest)
           /\ \A b \in 0 .. NofPrb - 1 : ~ FreeRun(mask, b, Longest + 1)
<1>1. NofPrb \in Nat \ {0} /\ NofPrb \in 1 .. NofPrb
  BY PrbAssumption
<1>2. PICK x \in 0 .. NofPrb - 1 : x \notin mask
  BY DEF TypeInv, Prbs
<1>3. PICK a, k \in Nat : BestRun(mask, NofPrb, 0, a, k)
  <2>1. Best(mask, NofPrb, 0, FindContiguousInterval(mask, NofPrb))
    BY <1>1, IntervalBest
  <2> QED BY <1>2, <2>1 DEF Best
<1>4. a \in 0 .. NofPrb - 1 /\ k \in 1 .. NofPrb /\ FreeRun(mask, a, k)
  BY <1>3 DEF BestRun
<1>5. ASSUME NEW b \in 0 .. NofPrb - 1 PROVE ~ FreeRun(mask, b, k + 1)
  <2>1. CASE k < NofPrb
    BY <1>3, <2>1 DEF BestRun
  <2>2. CASE k = NofPrb
    BY <1>1, <2>2 DEF FreeRun
  <2> QED BY <1>1, <1>4, <2>1, <2>2
<1> DEFINE Longest1(n) == FreeIntervals(n) # {} /\ FreeIntervals(n + 1) = {}
<1>6. k \in 0 .. NofPrb /\ Longest1(k)
  <2>1. k \in Nat \ {0} /\ k + 1 \in Nat \ {0} /\ k \in 0 .. NofPrb
    BY <1>1, <1>4
  <2>2. a .. a + k - 1 \in FreeIntervals(k)
    BY <1>4, <2>1, FreeIntervalsAre, Zenon
  <2>3. \A iv : iv \notin FreeIntervals(k + 1)
    BY <1>5, <2>1, FreeIntervalsAre
  <2> QED BY <2>1, <2>2, <2>3
<1>7. ASSUME NEW n \in 0 .. NofPrb, Longest1(n) PROVE n = k
  <2>1. CASE n < k
    <3>1. n + 1 \in 1 .. k /\ n + 1 \in Nat \ {0} /\ a \in Nat
      BY <1>1, <1>4, <2>1
    <3>2. FreeRun(mask, a, n + 1)
      BY <1>4, <3>1, ShorterIsFree
    <3>3. a .. a + (n + 1) - 1 \in FreeIntervals(n + 1)
      BY <1>4, <3>1, <3>2, FreeIntervalsAre, Zenon
    <3> QED BY <1>7, <3>3
  <2>2. CASE k < n
    <3>1. n \in Nat \ {0} /\ k + 1 \in 1 .. n
      BY <1>1, <1>4, <2>2
    <3>2. PICK iv : iv \in FreeIntervals(n)
      BY <1>7
    <3>3. PICK b \in 0 .. NofPrb - 1 : FreeRun(mask, b, n)
      BY <3>1, <3>2, FreeIntervalsAre
    <3>4. FreeRun(mask, b, k + 1)
      BY <1>1, <3>1, <3>3, ShorterIsFree
    <3> QED BY <1>5, <3>4
  <2> QED BY <1>1, <1>4, <2>1, <2>2
<1> HIDE DEF Longest1
<1>8. Longest = k
  <2>1. Longest = CHOOSE n \in 0 .. NofPrb : Longest1(n)
    BY DEF Longest, Longest1
  <2> QED BY <1>6, <1>7, <2>1
<1> QED BY <1>4, <1>5, <1>8

LEMMA LongestOfNone ==
    ASSUME mask = Prbs
    PROVE  Longest = 0
<1>1. NofPrb \in Nat \ {0}
  BY PrbAssumption
<1>2. ASSUME NEW n \in Nat \ {0} PROVE FreeIntervals(n) = {}
  <2>1. \A a \in 0 .. NofPrb - 1 : ~ FreeRun(mask, a, n)
    <3> SUFFICES ASSUME NEW a \in 0 .. NofPrb - 1, FreeRun(mask, a, n) PROVE FALSE
      OBVIOUS
    <3>1. a \in a .. a + n - 1 /\ a \in mask
      BY <1>1 DEF Prbs
    <3> QED BY <3>1 DEF FreeRun
  <2>2. \A iv : iv \notin FreeIntervals(n)
    BY <2>1, FreeIntervalsAre
  <2> QED BY <2>2
<1>3. FreeIntervals(0) # {}
  <2>1. 0 \in Prbs /\ 0 .. 0 + 0 - 1 = {}
    BY <1>1 DEF Prbs
  <2>2. 0 .. 0 + 0 - 1 \in FreeIntervals(0)
    BY <2>1 DEF FreeIntervals
  <2> QED BY <2>2
<1> DEFINE Longest1(n) == FreeIntervals(n) # {} /\ FreeIntervals(n + 1) = {}
<1>4. Longest1(0)
  <2>1. 0 + 1 \in Nat \ {0}
    OBVIOUS
  <2> QED BY <1>2, <1>3, <2>1
<1>5. 0 \in 0 .. NofPrb /\ \A n \in 0 .. NofPrb : Longest1(n) => n = 0
  BY <1>1, <1>2
<1> HIDE DEF Longest1
<1>6. Longest = CHOOSE n \in 0 .. NofPrb : Longest1(n)
  BY DEF Longest, Longest1
<1> QED BY <1>4, <1>5, <1>6

LEMMA StartOfInterval == \A a, k \in Nat : k # 0 => Starts(a .. a + k - 1) = a
<1> SUFFICES ASSUME NEW a \in Nat, NEW k \in Nat, k # 0
             PROVE  Starts(a .. a + k - 1) = a
  OBVIOUS
<1> DEFINE iv == a .. a + k - 1
<1>1. a \in iv /\ \A b \in iv : a <= b /\ b \in Int
  OBVIOUS
<1> HIDE DEF iv
<1>2. \A x \in iv : (\A b \in iv : x <= b) => x = a
  BY <1>1
<1>3. Starts(iv) = a
  BY <1>1, <1>2 DEF Starts
<1> QED BY <1>3 DEF iv

LEMMA IntervalRight ==
    ASSUME TypeInv
    PROVE  \/ mask = Prbs /\ FindContiguousInterval(mask, size) = {}
           \/ /\ mask # Prbs
              /\ \E a, k \in Nat : /\ FindContiguousInterval(mask, size) = a .. a + k - 1
                                   /\ BestRun(mask, size, 0, a, k)
                                   /\ k = Smaller(size, Longest)
<1>1. NofPrb \in Nat \ {0} /\ size \in 1 .. NofPrb /\ mask \subseteq Prbs
  BY PrbAssumption DEF TypeInv
<1>2. Best(mask, size, 0, FindContiguousInterval(mask, size))
  BY <1>1, IntervalBest
<1>3. mask = Prbs <=> \A x \in 0 .. NofPrb - 1 : x \in mask
  BY <1>1 DEF Prbs
<1>4. ASSUME NEW a \in Nat, NEW k \in Nat, BestRun(mask, size, 0, a, k)
      PROVE  mask # Prbs /\ k = Smaller(size, Longest)
  <2>1. a \in 0 .. NofPrb - 1 /\ k \in 1 .. NofPrb /\ k <= size /\ FreeRun(mask, a, k)
    BY <1>4 DEF BestRun
  <2>2. a \in a .. a + k - 1
    BY <1>1, <2>1
  <2>3. mask # Prbs
    BY <1>3, <2>1, <2>2 DEF FreeRun
  <2>4. /\ Longest \in 1 .. NofPrb
        /\ \E b \in 0 .. NofPrb - 1 : FreeRun(mask, b, Longest)
        /\ \A b \in 0 .. NofPrb - 1 : ~ FreeRun(mask, b, Longest + 1)
    BY <2>3, LongestRight
  <2>5. ~(Longest < k)
    <3> SUFFICES ASSUME Longest < k PROVE FALSE
      OBVIOUS
    <3>1. Longest + 1 \in 1 .. k
      BY <1>1, <2>1, <2>4
    <3>2. FreeRun(mask, a, Longest + 1)
      BY <1>1, <2>1, <3>1, ShorterIsFree
    <3> QED BY <2>1, <2>4, <3>2
  <2>6. k < size => ~(k < Longest)
    <3> SUFFICES ASSUME k < size, k < Longest PROVE FALSE
      OBVIOUS
    <3>1. PICK b \in 0 .. NofPrb - 1 : FreeRun(mask, b, Longest)
      BY <2>4
    <3>2. k + 1 \in 1 .. Longest /\ Longest \in Nat /\ b \in Nat
      BY <1>1, <2>1, <2>4
    <3>3. FreeRun(mask, b, k + 1)
      BY <3>1, <3>2, ShorterIsFree
    <3> QED BY <1>4, <3>3 DEF BestRun
  <2>7. k = Smaller(size, Longest)
    BY <1>1, <2>1, <2>4, <2>5, <2>6 DEF Smaller
  <2> QED BY <2>3, <2>7
<1> QED BY <1>2, <1>3, <1>4 DEF Best

(***************************************************************************)
(* find_contiguous_interval, on any mask and for any size, gives the       *)
(* leftmost free interval of the size, or of the longest there is: no run  *)
(* is passed over by the loop that compares them from left to right.       *)
(***************************************************************************)
THEOREM IntervalsAreBest == Spec => []IntervalIsLeftmostBest
<1>1. TypeInv => IntervalIsLeftmostBest
  <2> SUFFICES ASSUME TypeInv PROVE IntervalIsLeftmostBest
    OBVIOUS
  <2>1. CASE mask = Prbs /\ FindContiguousInterval(mask, size) = {}
    BY <2>1 DEF IntervalIsLeftmostBest
  <2>2. ASSUME NEW a \in Nat, NEW k \in Nat, mask # Prbs,
               FindContiguousInterval(mask, size) = a .. a + k - 1,
               BestRun(mask, size, 0, a, k), k = Smaller(size, Longest)
        PROVE  IntervalIsLeftmostBest
    <3> DEFINE ivs == FreeIntervals(k)
               iv == a .. a + k - 1
    <3>1. /\ a \in 0 .. NofPrb - 1 /\ k \in Nat \ {0} /\ FreeRun(mask, a, k)
          /\ \A b \in 0 .. NofPrb - 1 : FreeRun(mask, b, k) => a <= b
      BY <2>2, PrbAssumption DEF BestRun
    <3>2. \A other : other \in ivs
             <=> \E b \in 0 .. NofPrb - 1 : FreeRun(mask, b, k) /\ other = b .. b + k - 1
      BY <3>1, FreeIntervalsAre
    <3>3. \A b \in 0 .. NofPrb - 1 : Starts(b .. b + k - 1) = b
      <4>1. k \in Nat /\ k # 0 /\ \A b \in 0 .. NofPrb - 1 : b \in Nat
        BY <3>1, PrbAssumption
      <4> QED BY <4>1, StartOfInterval, Zenon
    <3> HIDE DEF ivs
    <3>4. iv \in ivs /\ \A other \in ivs : Starts(iv) <= Starts(other)
      BY <3>1, <3>2, <3>3
    <3>5. ASSUME NEW other \in ivs, \A third \in ivs : Starts(other) <= Starts(third)
          PROVE  other = iv
      <4>1. PICK b \in 0 .. NofPrb - 1 : FreeRun(mask, b, k) /\ other = b .. b + k - 1
        BY <3>2
      <4>2. Starts(other) = b /\ Starts(iv) = a
        BY <3>1, <3>3, <4>1
      <4>3. b <= a /\ a <= b
        BY <3>1, <3>4, <3>5, <4>1, <4>2
      <4>4. b = a
        BY <3>1, <4>3, PrbAssumption
      <4> QED BY <4>1, <4>4
    <3> HIDE DEF iv
    <3>6. Leftmost(ivs) = iv
      BY <3>4, <3>5 DEF Leftmost
    <3> QED BY <2>2, <3>6 DEF IntervalIsLeftmostBest, ivs, iv
  <2> QED BY <2>1, <2>2, IntervalRight
<1> QED BY <1>1, Stays, PTL

-----------------------------------------------------------------------------
(***************************************************************************)
(* Intervals made to a size a DFT exists for.                              *)
(***************************************************************************)
LEMMA ValidBelow ==
    ASSUME NEW n \in Nat
    PROVE  /\ ValidSizeBelow(n) \in ValidSizes /\ ValidSizeBelow(n) \in 0 .. n
           /\ \A k \in ValidSizes : k <= n => k <= ValidSizeBelow(n)
<1> DEFINE D == {m \in ValidSizes : m <= n}
<1>1. ValidSizes \subseteq Nat /\ 0 \in ValidSizes
  BY DEF ValidSizes
<1> HIDE DEF ValidSizes
<1>2. D \in SUBSET (0 .. n) /\ 0 \in D
  <2>1. \A m \in D : m \in 0 .. n
    BY <1>1
  <2>2. 0 \in D
    BY <1>1
  <2> QED BY <2>1, <2>2
<1>3. PICK m \in D : \A k \in D : k <= m
  <2> HIDE DEF D
  <2> QED BY <1>2, GreatestUpTo
<1>4. m \in ValidSizes /\ m <= n /\ \A k \in ValidSizes : k <= n => k <= m
  BY <1>3
<1>5. /\ ValidSizeBelow(n) \in ValidSizes /\ ValidSizeBelow(n) <= n
      /\ \A k \in ValidSizes : k <= n => k <= ValidSizeBelow(n)
  BY <1>4, Zenon DEF ValidSizeBelow
<1> HIDE DEF D
<1>6. ValidSizeBelow(n) \in Nat
  BY <1>1, <1>5
<1> QED BY <1>5, <1>6

\* An interval that starts at a place and is given another size starts there still.
LEMMA ResizedRight ==
    ASSUME NEW a \in 0 .. NofPrb - 1, NEW k \in 1 .. NofPrb, a + k <= NofPrb, NEW n \in Nat
    PROVE  Resized(a .. a + k - 1, n) = a .. a + n - 1
<1> DEFINE run == a .. a + k - 1
           p   == NextTaken(run, 0, NofPrb)
<1>1. NofPrb \in Nat \ {0}
  BY PrbAssumption
<1>2. a \in run /\ a \in 0 .. NofPrb - 1 /\ \A x \in run : a <= x /\ x \in Nat
  BY <1>1
<1>3. Resized(run, n) = p .. p + n - 1
  BY Zenon DEF Resized, NextTaken
<1> HIDE DEF run
<1>4. \/ p = -1 /\ \A x \in 0 .. NofPrb - 1 : x \notin run
      \/ p \in 0 .. NofPrb - 1 /\ p \in run /\ \A x \in 0 .. p - 1 : x \notin run
  <2>1. 0 \in Nat /\ NofPrb \in Int
    BY <1>1
  <2> QED BY <2>1, FirstTaken
<1> HIDE DEF p
<1>5. p = a
  <2>1. p \in 0 .. NofPrb - 1 /\ p \in run /\ \A x \in 0 .. p - 1 : x \notin run
    BY <1>2, <1>4
  <2>2. a <= p
    BY <1>2, <2>1
  <2>3. ~(a < p)
    BY <1>1, <1>2, <2>1
  <2> QED BY <1>1, <2>1, <2>2, <2>3
<1> QED BY <1>3, <1>5 DEF run

\* The loop that grows a run stands still at n: the size is valid, or the next PRB is not free.
Stuck(M, run, n) == n \in ValidSizes \/ Resized(run, n + 1) \cap (Prbs \ M) # Resized(run, n + 1)

LEMMA StuckMeans ==
    ASSUME NEW M, NEW a \in 0 .. NofPrb - 1, NEW k \in 1 .. NofPrb, a + k <= NofPrb, NEW n \in Nat
    PROVE  Stuck(M, a .. a + k - 1, n) <=> n \in ValidSizes \/ ~ FreeRun(M, a, n + 1)
<1>1. NofPrb \in Nat \ {0}
  BY PrbAssumption
<1> DEFINE wider == a .. a + (n + 1) - 1
<1>2. n + 1 \in Nat /\ Resized(a .. a + k - 1, n + 1) = wider
  BY ResizedRight
<1>3. wider \subseteq Prbs \ M <=> FreeRun(M, a, n + 1)
  <2>1. ASSUME wider \subseteq Prbs \ M PROVE FreeRun(M, a, n + 1)
    <3>1. a + (n + 1) - 1 \in wider
      BY <1>1
    <3>2. a + (n + 1) - 1 \in Prbs
      BY <2>1, <3>1
    <3>3. a + (n + 1) <= NofPrb
      BY <1>1, <3>2 DEF Prbs
    <3> QED BY <2>1, <3>3 DEF FreeRun
  <2>2. ASSUME FreeRun(M, a, n + 1) PROVE wider \subseteq Prbs \ M
    BY <1>1, <2>2 DEF FreeRun, Prbs
  <2> QED BY <2>1, <2>2
<1> HIDE DEF wider
<1>4. wider \cap (Prbs \ M) = wider <=> wider \subseteq Prbs \ M
  OBVIOUS
<1> QED BY <1>2, <1>3, <1>4 DEF Stuck

UlPrbs(run, grown) ==
    IF run = {} THEN {}
    ELSE Resized(run, IF grown \in ValidSizes THEN grown ELSE ValidSizeBelow(Cardinality(run)))

LEMMA FitUnfolds ==
    ASSUME NEW M, NEW s, NEW a \in 0 .. NofPrb - 1, NEW k \in 1 .. NofPrb, a + k <= NofPrb,
           FindContiguousInterval(M, s) = a .. a + k - 1
    PROVE  \E f : /\ FindContiguousUlPrbs(s, M) = UlPrbs(a .. a + k - 1, f[k])
                  /\ \A n \in 0 .. NofPrb : f[n] = IF Stuck(M, a .. a + k - 1, n) THEN n ELSE f[n + 1]
<1> DEFINE run  == FindContiguousInterval(M, s)
           End  == {n \in 0 .. NofPrb : Stuck(M, run, n)}
           B    == [n \in 0 .. NofPrb |-> n]
           to   == [n \in 0 .. NofPrb |-> n + 1]
           Step == [n \in 0 .. NofPrb |-> [m \in Nat |-> m]]
<1>1. NofPrb \in Nat \ {0}
  BY PrbAssumption
<1>2. \A n \in (0 .. NofPrb) \ End : to[n] \in n + 1 .. NofPrb
  <2> SUFFICES ASSUME NEW n \in 0 .. NofPrb, ~ Stuck(M, run, n) PROVE n + 1 <= NofPrb
    BY <1>1
  <2>1. n \in Nat /\ ~ Stuck(M, a .. a + k - 1, n)
    BY <1>1
  <2>2. Stuck(M, a .. a + k - 1, n) <=> n \in ValidSizes \/ ~ FreeRun(M, a, n + 1)
    BY <2>1, StuckMeans, Zenon
  <2>3. FreeRun(M, a, n + 1)
    BY <2>1, <2>2
  <2> QED BY <1>1, <2>3 DEF FreeRun
<1>3. /\ NofPrb \in Nat /\ End \in SUBSET (0 .. NofPrb)
      /\ B \in [0 .. NofPrb -> Nat] /\ to \in [0 .. NofPrb -> Int] /\ Step \in [0 .. NofPrb -> [Nat -> Nat]]
  BY <1>1
<1>4. PICK f : Searches(f, NofPrb, Nat, End, B, to, Step)
  <2> HIDE DEF End, B, to, Step
  <2> QED BY <1>2, <1>3, SearchExists, Zenon
<1>5. f \in [0 .. NofPrb -> Nat]
  BY <1>4, Zenon DEF Searches
<1>6. ASSUME NEW n \in 0 .. NofPrb PROVE f[n] = IF Stuck(M, run, n) THEN n ELSE f[n + 1]
  <2>1. f[n] = IF n \in End THEN B[n] ELSE Step[n][f[to[n]]]
    BY <1>4, Zenon DEF Searches
  <2>2. CASE n \in End
    BY <2>1, <2>2
  <2>3. CASE n \notin End
    <3>1. to[n] = n + 1 /\ n + 1 \in 0 .. NofPrb
      BY <1>1, <1>2, <2>3
    <3>2. f[n + 1] \in Nat
      BY <1>5, <3>1
    <3> QED BY <2>1, <2>3, <3>1, <3>2
  <2> QED BY <2>2, <2>3
<1> DEFINE fit == CHOOSE g : g = [n \in 0 .. NofPrb |-> IF Stuck(M, run, n) THEN n ELSE g[n + 1]]
<1> HIDE DEF run
<1>7. f = [n \in 0 .. NofPrb |-> IF Stuck(M, run, n) THEN n ELSE f[n + 1]]
  BY <1>5, <1>6
<1>8. fit = [n \in 0 .. NofPrb |-> IF Stuck(M, run, n) THEN n ELSE fit[n + 1]]
  BY <1>7, Zenon
<1>9. FindContiguousUlPrbs(s, M) = UlPrbs(run, fit[Cardinality(run)])
  BY Zenon DEF FindContiguousUlPrbs, UlPrbs, Stuck, run
<1>10. run = a .. a + k - 1 /\ Cardinality(run) = k
  <2>1. a \in Nat /\ k \in Nat
    BY <1>1
  <2> QED BY <2>1, SizeOfInterval DEF run
<1> HIDE DEF fit
<1>11. \A n \in 0 .. NofPrb : fit[n] = IF Stuck(M, run, n) THEN n ELSE fit[n + 1]
  BY <1>8
<1> QED BY <1>9, <1>10, <1>11

\* From k PRBs to g: nothing in between was a valid size, and g is one or the end of the free PRBs.
Grown(M, a, k, g) ==
    /\ g \in k .. NofPrb /\ FreeRun(M, a, g)
    /\ g \in ValidSizes \/ ~ FreeRun(M, a, g + 1)
    /\ g # k => k \notin ValidSizes /\ FreeRun(M, a, k + 1)

LEMMA FitGrows ==
    ASSUME NEW M, NEW a \in 0 .. NofPrb - 1, NEW k \in 1 .. NofPrb, FreeRun(M, a, k),
           NEW f, \A n \in 0 .. NofPrb : f[n] = IF Stuck(M, a .. a + k - 1, n) THEN n ELSE f[n + 1]
    PROVE  Grown(M, a, k, f[k])
<1>1. NofPrb \in Nat \ {0} /\ a + k <= NofPrb
  BY PrbAssumption DEF FreeRun
<1> DEFINE S == {n \in 0 .. NofPrb : FreeRun(M, a, n) => Grown(M, a, n, f[n])}
<1>2. ASSUME NEW n \in 0 .. NofPrb, \A m \in 0 .. NofPrb : n < m => m \in S PROVE n \in S
  <2> SUFFICES ASSUME FreeRun(M, a, n) PROVE Grown(M, a, n, f[n])
    OBVIOUS
  <2>1. n \in Nat /\ (Stuck(M, a .. a + k - 1, n) <=> n \in ValidSizes \/ ~ FreeRun(M, a, n + 1))
    <3>1. n \in Nat
      BY <1>1
    <3> QED BY <1>1, <3>1, StuckMeans, Zenon
  <2>2. CASE Stuck(M, a .. a + k - 1, n)
    BY <1>1, <2>1, <2>2 DEF Grown
  <2>3. CASE ~ Stuck(M, a .. a + k - 1, n)
    <3>1. n \notin ValidSizes /\ FreeRun(M, a, n + 1)
      BY <2>1, <2>3
    <3>2. n + 1 \in 0 .. NofPrb /\ n < n + 1
      BY <1>1, <3>1 DEF FreeRun
    <3>3. Grown(M, a, n + 1, f[n + 1])
      BY <1>2, <3>1, <3>2
    <3>4. f[n] = f[n + 1]
      BY <2>3
    <3> QED BY <1>1, <3>1, <3>3, <3>4 DEF Grown
  <2> QED BY <2>2, <2>3
<1> HIDE DEF S
<1>3. S = 0 .. NofPrb
  <2>1. S \in SUBSET (0 .. NofPrb)
    BY DEF S
  <2> QED BY <1>1, <1>2, <2>1, DownInduction
<1> QED BY <1>1, <1>3 DEF S

(***************************************************************************)
(* What find_contiguous_ul_prbs gives a UE for its data.                   *)
(***************************************************************************)
UsableData(data) ==
    \E a \in 0 .. NofPrb - 1, m \in 1 .. NofPrb :
        /\ data = a .. a + m - 1 /\ FreeRun(mask, a, m) /\ m \in ValidSizes
        /\ m > size => size \notin ValidSizes
        /\ m < ValidSizeBelow(size) => Longest < ValidSizeBelow(size)

LEMMA DataRight ==
    ASSUME TypeInv
    PROVE  \/ mask = Prbs /\ FindContiguousUlPrbs(size, mask) = {}
           \/ mask # Prbs /\ UsableData(FindContiguousUlPrbs(size, mask))
<1> DEFINE data == FindContiguousUlPrbs(size, mask)
<1>1. NofPrb \in Nat \ {0} /\ size \in 1 .. NofPrb
  BY PrbAssumption DEF TypeInv
<1>2. CASE mask = Prbs /\ FindContiguousInterval(mask, size) = {}
  BY <1>2, Zenon DEF FindContiguousUlPrbs
<1>3. ASSUME NEW a \in Nat, NEW k \in Nat, mask # Prbs,
             FindContiguousInterval(mask, size) = a .. a + k - 1,
             BestRun(mask, size, 0, a, k), k = Smaller(size, Longest)
      PROVE  UsableData(data)
  <2>1. /\ a \in 0 .. NofPrb - 1 /\ k \in 1 .. NofPrb /\ k <= size /\ FreeRun(mask, a, k)
        /\ a + k <= NofPrb /\ (k < size => ~ FreeRun(mask, a, k + 1))
    BY <1>3 DEF BestRun, FreeRun
  <2>2. PICK f : /\ data = UlPrbs(a .. a + k - 1, f[k])
                 /\ \A n \in 0 .. NofPrb : f[n] = IF Stuck(mask, a .. a + k - 1, n) THEN n ELSE f[n + 1]
    <3> HIDE DEF data
    <3>1. \E f : /\ FindContiguousUlPrbs(size, mask) = UlPrbs(a .. a + k - 1, f[k])
                 /\ \A n \in 0 .. NofPrb : f[n] = IF Stuck(mask, a .. a + k - 1, n) THEN n ELSE f[n + 1]
      BY <1>3, <2>1, FitUnfolds
    <3> QED BY <3>1, Zenon DEF data
  <2> HIDE DEF data
  <2> DEFINE g == f[k]
             m == IF g \in ValidSizes THEN g ELSE ValidSizeBelow(k)
  <2>3. Grown(mask, a, k, g)
    BY <2>1, <2>2, FitGrows, Zenon
  <2> HIDE DEF g
  <2>4. g \in k .. NofPrb /\ FreeRun(mask, a, g) /\ (g # k => k \notin ValidSizes /\ FreeRun(mask, a, k + 1))
    BY <2>3 DEF Grown
  <2>5. /\ ValidSizeBelow(k) \in ValidSizes /\ ValidSizeBelow(k) \in 0 .. k
        /\ \A j \in ValidSizes : j <= k => j <= ValidSizeBelow(k)
    BY <1>3, ValidBelow
  <2>6. /\ ValidSizeBelow(size) \in ValidSizes /\ ValidSizeBelow(size) \in 0 .. size
    <3>1. size \in Nat
      BY <1>1
    <3> QED BY <3>1, ValidBelow
  <2>7. 1 \in ValidSizes
    BY DEF ValidSizes
  <2> HIDE DEF m
  <2>8. m \in ValidSizes /\ m \in 1 .. NofPrb /\ FreeRun(mask, a, m)
    <3>1. CASE g \in ValidSizes
      BY <1>1, <2>1, <2>4, <3>1 DEF m
    <3>2. CASE g \notin ValidSizes
      <4>1. m = ValidSizeBelow(k)
        BY <3>2 DEF m
      <4>2. m \in 1 .. k
        BY <2>1, <2>5, <2>7, <4>1
      <4>3. FreeRun(mask, a, m)
        BY <1>3, <2>1, <4>2, ShorterIsFree
      <4> QED BY <1>1, <2>1, <2>5, <4>1, <4>2, <4>3
    <3> QED BY <3>1, <3>2
  <2>9. data = a .. a + m - 1
    <3> DEFINE run == a .. a + k - 1
    <3>1. a \in run /\ Cardinality(run) = k
      BY <1>3, <2>1, SizeOfInterval
    <3>2. m \in Nat /\ Resized(run, m) = a .. a + m - 1
      <4>1. m \in Nat
        BY <1>1, <2>8
      <4> QED BY <2>1, <4>1, ResizedRight
    <3> HIDE DEF run
    <3>3. data = UlPrbs(run, g)
      BY <2>2 DEF run, g
    <3> QED BY <3>1, <3>2, <3>3, Zenon DEF UlPrbs, m
  <2>10. m > size => size \notin ValidSizes
    <3> SUFFICES ASSUME m > size PROVE size \notin ValidSizes
      OBVIOUS
    <3>1. m = g /\ g # k
      BY <1>1, <1>3, <2>1, <2>4, <2>5 DEF m
    <3>2. k = size
      BY <1>1, <2>1, <2>4, <3>1
    <3> QED BY <2>4, <3>1, <3>2
  <2>11. m < ValidSizeBelow(size) => Longest < ValidSizeBelow(size)
    <3> SUFFICES ASSUME m < ValidSizeBelow(size), ~(Longest < ValidSizeBelow(size)) PROVE FALSE
      OBVIOUS
    <3>1. Longest \in 1 .. NofPrb
      BY <1>3, LongestRight
    <3>2. ValidSizeBelow(size) <= k
      BY <1>1, <1>3, <2>6, <3>1 DEF Smaller
    <3>3. ValidSizeBelow(size) <= ValidSizeBelow(k)
      BY <2>5, <2>6, <3>2
    <3> QED BY <1>1, <1>3, <2>4, <2>5, <2>6, <3>2, <3>3 DEF m
  <2> QED BY <2>1, <2>8, <2>9, <2>10, <2>11 DEF UsableData
<1> QED BY <1>1, <1>2, <1>3, IntervalRight

(***************************************************************************)
(* The parts of find_ul_alloc: the PRB a free run ends at, the run, and    *)
(* whether the run is passed over for its place at the edge.               *)
(***************************************************************************)
UciStop(M, n) == FindLowest(M, Pos(M, n) + 1, NofPrb, TRUE)
UciRun(M, n)  == Pos(M, n) .. (IF UciStop(M, n) < 0 THEN NofPrb ELSE UciStop(M, n)) - 1
AtEdge(M, s, n) == UciStop(M, n) >= 0 /\ UciStop(M, n) < 3 /\ Cardinality(UciRun(M, n)) < s
CutTo(run, s) == Resized(run, ValidSizeBelow(IF Cardinality(run) < s THEN Cardinality(run) ELSE s))

UciTurn(M, s, n, f) ==
    IF Pos(M, n) < 0 THEN {}
    ELSE IF AtEdge(M, s, n) THEN f[UciStop(M, n) + 1] ELSE CutTo(UciRun(M, n), s)

LEMMA UciRunIs ==
    ASSUME NEW M, NEW n \in 0 .. NofPrb, ~(Pos(M, n) < 0)
    PROVE  \E a, k \in Nat :
              /\ RunFrom(M, n, NofPrb, a, k)
              /\ UciRun(M, n) = a .. a + k - 1 /\ Cardinality(UciRun(M, n)) = k
              /\ UciStop(M, n) = -1 \/ (UciStop(M, n) = a + k /\ a + k < NofPrb)
<1> DEFINE a    == Pos(M, n)
           pos2 == UciStop(M, n)
           last == IF pos2 < 0 THEN NofPrb ELSE pos2
           k    == last - a
<1>1. NofPrb \in Nat \ {0}
  BY PrbAssumption
<1>2. a = NextFree(M, n, NofPrb) /\ pos2 = NextTaken(M, a + 1, NofPrb)
  BY Zenon DEF NextFree, NextTaken, Pos, UciStop
<1>3. UciRun(M, n) = a .. last - 1
  BY Zenon DEF UciRun
<1>4. ~(a < 0)
  OBVIOUS
<1> HIDE DEF a, pos2
<1>5. a \in n .. NofPrb - 1 /\ a \in Nat /\ NofPrb \in a + 1 .. NofPrb
  <2>1. n \in Nat /\ NofPrb \in Int
    BY <1>1
  <2>2. a = -1 \/ a \in n .. NofPrb - 1
    BY <1>2, <2>1, FirstFree
  <2> QED BY <1>1, <1>4, <2>1, <2>2
<1>6. /\ last \in Nat /\ k \in 1 .. NofPrb /\ RunFrom(M, n, NofPrb, a, k)
      /\ Cardinality(a .. last - 1) = k
      /\ pos2 < 0 \/ (pos2 \in Nat /\ pos2 = last /\ last < NofPrb)
  BY <1>2, <1>5, RunFound
<1> HIDE DEF last
<1>7. a + k = last /\ a + k - 1 = last - 1 /\ k \in Nat
  BY <1>1, <1>5, <1>6
<1> HIDE DEF k
<1>8. UciRun(M, n) = a .. a + k - 1 /\ Cardinality(UciRun(M, n)) = k
  BY <1>3, <1>6, <1>7, Zenon
<1>9. pos2 = -1 \/ (pos2 = a + k /\ a + k < NofPrb)
  <2>1. a + 1 \in Nat /\ NofPrb \in Int
    BY <1>1, <1>5
  <2>2. pos2 = -1 \/ pos2 \in a + 1 .. NofPrb - 1
    BY <1>2, <2>1, FirstTaken
  <2> QED BY <1>5, <1>6, <1>7, <2>2
<1> QED BY <1>5, <1>6, <1>7, <1>8, <1>9 DEF pos2

LEMMA CutRight ==
    ASSUME NEW M, NEW a \in 0 .. NofPrb - 1, NEW k \in 1 .. NofPrb, FreeRun(M, a, k),
           NEW s \in 1 .. NofPrb
    PROVE  \E m \in 1 .. NofPrb : /\ CutTo(a .. a + k - 1, s) = a .. a + m - 1
                                  /\ FreeRun(M, a, m) /\ m \in ValidSizes /\ m <= s
<1> DEFINE run  == a .. a + k - 1
           most == IF k < s THEN k ELSE s
           m    == ValidSizeBelow(most)
<1>1. NofPrb \in Nat \ {0} /\ a \in Nat /\ k \in Nat /\ a + k <= NofPrb
  BY PrbAssumption DEF FreeRun
<1>2. most \in 1 .. NofPrb /\ most <= s /\ most <= k /\ most \in Nat
  BY <1>1
<1>3. 1 \in ValidSizes
  BY DEF ValidSizes
<1> HIDE DEF most
<1>4. m \in ValidSizes /\ m \in 1 .. most
  BY <1>2, <1>3, ValidBelow
<1> HIDE DEF m
<1>5. m \in 1 .. NofPrb /\ m <= s /\ m \in 1 .. k /\ m \in Nat
  BY <1>1, <1>2, <1>4
<1>6. FreeRun(M, a, m)
  BY <1>1, <1>5, ShorterIsFree
<1>7. Cardinality(run) = k /\ Resized(run, m) = a .. a + m - 1
  BY <1>1, <1>5, SizeOfInterval, ResizedRight
<1> HIDE DEF run
<1>8. CutTo(run, s) = a .. a + m - 1
  BY <1>7, Zenon DEF CutTo, m, most
<1> QED BY <1>4, <1>5, <1>6, <1>8 DEF run

LEMMA UciUnfolds ==
    ASSUME NEW M, NEW s \in 1 .. NofPrb
    PROVE  \E f : /\ FindUlAlloc(s, M) = f[0]
                  /\ \A n \in 0 .. NofPrb : f[n] = UciTurn(M, s, n, f)
<1> DEFINE S    == SUBSET Int
           End  == {n \in 0 .. NofPrb : Pos(M, n) < 0 \/ ~ AtEdge(M, s, n)}
           B    == [n \in 0 .. NofPrb |-> IF Pos(M, n) < 0 THEN {} ELSE CutTo(UciRun(M, n), s)]
           to   == [n \in 0 .. NofPrb |-> IF n \in End THEN 0 ELSE UciStop(M, n) + 1]
           Step == [n \in 0 .. NofPrb |-> [rest \in S |-> rest]]
<1>1. NofPrb \in Nat \ {0}
  BY PrbAssumption
<1>2. ASSUME NEW n \in (0 .. NofPrb) \ End
      PROVE  UciStop(M, n) + 1 \in n + 1 .. NofPrb
  <2>1. ~(Pos(M, n) < 0) /\ UciStop(M, n) >= 0
    BY DEF AtEdge
  <2>2. PICK a, k \in Nat : /\ RunFrom(M, n, NofPrb, a, k)
                            /\ UciStop(M, n) = -1 \/ (UciStop(M, n) = a + k /\ a + k < NofPrb)
    BY <2>1, UciRunIs
  <2>3. UciStop(M, n) = a + k /\ n < a + k + 1
    BY <1>1, <2>1, <2>2 DEF RunFrom
  <2> QED BY <1>1, <2>2, <2>3
<1>3. ASSUME NEW n \in 0 .. NofPrb, ~(Pos(M, n) < 0) PROVE CutTo(UciRun(M, n), s) \in S
  <2>1. PICK a, k \in Nat : RunFrom(M, n, NofPrb, a, k) /\ UciRun(M, n) = a .. a + k - 1
    BY <1>3, UciRunIs
  <2>2. a \in 0 .. NofPrb - 1 /\ k \in 1 .. NofPrb /\ FreeRun(M, a, k)
    BY <1>1, <2>1 DEF RunFrom
  <2>3. PICK m \in 1 .. NofPrb : /\ CutTo(a .. a + k - 1, s) = a .. a + m - 1
                                 /\ FreeRun(M, a, m) /\ m \in ValidSizes /\ m <= s
    BY <2>2, CutRight
  <2> QED BY <1>1, <2>1, <2>3
<1> HIDE DEF End
<1>4. /\ B \in [0 .. NofPrb -> S] /\ to \in [0 .. NofPrb -> Int] /\ Step \in [0 .. NofPrb -> [S -> S]]
      /\ \A n \in (0 .. NofPrb) \ End : to[n] \in n + 1 .. NofPrb
  <2>1. B \in [0 .. NofPrb -> S]
    BY <1>3
  <2>2. to \in [0 .. NofPrb -> Int] /\ \A n \in (0 .. NofPrb) \ End : to[n] \in n + 1 .. NofPrb
    BY <1>1, <1>2
  <2>3. Step \in [0 .. NofPrb -> [S -> S]]
    OBVIOUS
  <2> QED BY <2>1, <2>2, <2>3
<1>5. PICK f : Searches(f, NofPrb, S, End, B, to, Step)
  <2>1. NofPrb \in Nat /\ End \in SUBSET (0 .. NofPrb)
    BY <1>1 DEF End
  <2> HIDE DEF S, B, to, Step
  <2> QED BY <1>4, <2>1, SearchExists, Zenon
<1>6. ASSUME NEW n \in 0 .. NofPrb PROVE f[n] = UciTurn(M, s, n, f)
  <2>1. f[n] = IF n \in End THEN B[n] ELSE Step[n][f[to[n]]]
    BY <1>5 DEF Searches
  <2>2. CASE n \in End
    <3>1. f[n] = IF Pos(M, n) < 0 THEN {} ELSE CutTo(UciRun(M, n), s)
      BY <2>1, <2>2
    <3> QED BY <2>2, <3>1 DEF UciTurn, End
  <2>3. CASE n \notin End
    <3>1. to[n] = UciStop(M, n) + 1 /\ UciStop(M, n) + 1 \in 0 .. NofPrb
      BY <1>1, <1>2, <2>3
    <3>2. f[UciStop(M, n) + 1] \in S
      BY <1>5, <3>1, Zenon DEF Searches
    <3>3. f[n] = f[UciStop(M, n) + 1]
      BY <2>1, <2>3, <3>1, <3>2
    <3> QED BY <2>3, <3>3 DEF UciTurn, End
  <2> QED BY <2>2, <2>3
<1>7. f = [n \in 0 .. NofPrb |-> UciTurn(M, s, n, f)]
  <2>1. f \in [0 .. NofPrb -> S]
    BY <1>5, Zenon DEF Searches
  <2> HIDE DEF S
  <2> QED BY <1>6, <2>1
<1> DEFINE scan == CHOOSE g : g = [n \in 0 .. NofPrb |-> UciTurn(M, s, n, g)]
<1>8. scan = [n \in 0 .. NofPrb |-> UciTurn(M, s, n, scan)]
  BY <1>7, Zenon
<1>9. FindUlAlloc(s, M) = scan[0]
  BY Zenon DEF FindUlAlloc, UciTurn, AtEdge, CutTo, UciRun, UciStop, Pos
<1> HIDE DEF scan
<1>10. \A n \in 0 .. NofPrb : scan[n] = UciTurn(M, s, n, scan)
  BY <1>8
<1> QED BY <1>9, <1>10

(***************************************************************************)
(* What find_ul_alloc finds from n on: PRBs of a usable size, or nothing   *)
(* because all that is free is at the edge.                                *)
(***************************************************************************)
UsableUci(M, s, n, uci) ==
    \/ uci = {} /\ \A x \in n .. NofPrb - 1 : x \notin M => x \in {0, 1}
    \/ \E a \in 0 .. NofPrb - 1, m \in 1 .. NofPrb :
          uci = a .. a + m - 1 /\ FreeRun(M, a, m) /\ m \in ValidSizes /\ m <= s

LEMMA UciRight ==
    ASSUME NEW M, NEW s \in 1 .. NofPrb
    PROVE  UsableUci(M, s, 0, FindUlAlloc(s, M))
<1>1. NofPrb \in Nat \ {0}
  BY PrbAssumption
<1>2. PICK f : /\ FindUlAlloc(s, M) = f[0]
               /\ \A n \in 0 .. NofPrb : f[n] = UciTurn(M, s, n, f)
  BY UciUnfolds
<1> DEFINE S == {n \in 0 .. NofPrb : UsableUci(M, s, n, f[n])}
<1>3. ASSUME NEW n \in 0 .. NofPrb, \A m \in 0 .. NofPrb : n < m => m \in S
      PROVE  n \in S
  <2>1. CASE Pos(M, n) < 0
    <3>1. f[n] = {}
      BY <1>2, <2>1 DEF UciTurn
    <3> DEFINE p == NextFree(M, n, NofPrb)
    <3>2. p < 0
      BY <2>1, Zenon DEF Pos, NextFree
    <3>3. n \in Nat /\ NofPrb \in Int
      BY <1>1
    <3> HIDE DEF p
    <3>4. \/ p = -1 /\ \A x \in n .. NofPrb - 1 : x \in M
          \/ p \in n .. NofPrb - 1
      BY <3>3, FirstFree DEF p
    <3>5. \A x \in n .. NofPrb - 1 : x \in M
      BY <3>2, <3>3, <3>4
    <3> QED BY <3>1, <3>5 DEF UsableUci
  <2>2. CASE ~(Pos(M, n) < 0)
    <3>1. PICK a, k \in Nat :
              /\ RunFrom(M, n, NofPrb, a, k)
              /\ UciRun(M, n) = a .. a + k - 1
              /\ UciStop(M, n) = -1 \/ (UciStop(M, n) = a + k /\ a + k < NofPrb)
      BY <2>2, UciRunIs
    <3>2. CASE AtEdge(M, s, n)
      <4>1. f[n] = f[a + k + 1] /\ a + k < 3 /\ a + k < NofPrb
        <5>1. UciStop(M, n) = a + k /\ a + k < 3 /\ a + k < NofPrb
          BY <3>1, <3>2 DEF AtEdge
        <5> QED BY <1>2, <2>2, <3>2, <5>1 DEF UciTurn
      <4>2. a + k + 1 \in 0 .. NofPrb /\ n < a + k + 1
        BY <1>1, <3>1, <4>1 DEF RunFrom
      <4> DEFINE rest == f[a + k + 1]
      <4>3. UsableUci(M, s, a + k + 1, rest)
        <5> HIDE DEF UsableUci
        <5> QED BY <1>3, <4>2
      <4> HIDE DEF rest
      <4>4. CASE rest = {} /\ \A x \in a + k + 1 .. NofPrb - 1 : x \notin M => x \in {0, 1}
        <5>1. ASSUME NEW x \in n .. NofPrb - 1, x \notin M PROVE x \in {0, 1}
          <6>1. a <= x /\ x # a + k
            BY <1>1, <3>1, <4>1, <5>1 DEF RunFrom
          <6>2. CASE x < a + k
            BY <1>1, <3>1, <4>1, <6>1, <6>2
          <6>3. CASE a + k < x
            BY <1>1, <3>1, <4>4, <5>1, <6>3
          <6> QED BY <1>1, <3>1, <6>1, <6>2, <6>3
        <5>2. f[n] = {}
          BY <4>1, <4>4 DEF rest
        <5> QED BY <5>1, <5>2 DEF UsableUci
      <4> QED BY <4>1, <4>3, <4>4 DEF UsableUci, rest
    <3>3. CASE ~ AtEdge(M, s, n)
      <4>1. f[n] = CutTo(a .. a + k - 1, s)
        BY <1>2, <2>2, <3>1, <3>3 DEF UciTurn
      <4>2. a \in 0 .. NofPrb - 1 /\ k \in 1 .. NofPrb /\ FreeRun(M, a, k)
        BY <1>1, <3>1 DEF RunFrom
      <4>3. PICK m \in 1 .. NofPrb : /\ CutTo(a .. a + k - 1, s) = a .. a + m - 1
                                     /\ FreeRun(M, a, m) /\ m \in ValidSizes /\ m <= s
        BY <4>2, CutRight
      <4> QED BY <4>1, <4>2, <4>3 DEF UsableUci
    <3> QED BY <3>2, <3>3
  <2> QED BY <2>1, <2>2
<1> HIDE DEF S
<1>4. S = 0 .. NofPrb
  <2>1. S \in SUBSET (0 .. NofPrb)
    BY DEF S
  <2> QED BY <1>1, <1>3, <2>1, DownInduction
<1> QED BY <1>1, <1>2, <1>4 DEF S

\* A free run is a free interval of its own size, and not empty.
LEMMA RunIsInterval ==
    ASSUME NEW a \in 0 .. NofPrb - 1, NEW m \in 1 .. NofPrb, FreeRun(mask, a, m)
    PROVE  /\ Cardinality(a .. a + m - 1) = m /\ a .. a + m - 1 # {}
           /\ a .. a + m - 1 \in FreeIntervals(Cardinality(a .. a + m - 1))
<1> DEFINE iv == a .. a + m - 1
<1>1. a \in Nat /\ m \in Nat \ {0} /\ a \in iv
  BY PrbAssumption
<1>2. Cardinality(iv) = m
  BY <1>1, SizeOfInterval
<1>3. iv \in FreeIntervals(m)
  BY <1>1, FreeIntervalsAre
<1> HIDE DEF iv
<1>4. iv # {} /\ iv \in FreeIntervals(Cardinality(iv))
  BY <1>1, <1>2, <1>3
<1> QED BY <1>2, <1>4 DEF iv

(***************************************************************************)
(* find_contiguous_ul_prbs and find_ul_alloc, on any mask and for any      *)
(* size, give free PRBs of a size a DFT exists for: the first never more   *)
(* than asked for where that size is valid, nor less than the mask has     *)
(* room for, the second never more than asked for, nor nothing where a     *)
(* PRB off the edge is free.                                               *)
(***************************************************************************)
THEOREM PrbsAreUsable == Spec => []UlPrbsUsable
<1>1. TypeInv => UlPrbsUsable
  <2> SUFFICES ASSUME TypeInv PROVE UlPrbsUsable
    OBVIOUS
  <2> DEFINE data == FindContiguousUlPrbs(size, mask)
             uci  == FindUlAlloc(size, mask)
             Sound(found) == /\ found \in FreeIntervals(Cardinality(found)) \/ found = {}
                             /\ Cardinality(found) \in ValidSizes
  <2>1. size \in 1 .. NofPrb /\ NofPrb \in Nat \ {0} /\ mask \subseteq Prbs
    BY PrbAssumption DEF TypeInv
  <2>2. Cardinality({}) = 0 /\ 0 \in ValidSizes
    BY FS_EmptySet DEF ValidSizes
  <2>3. ValidSizeBelow(size) \in 1 .. size
    <3>1. size \in Nat /\ 1 <= size
      BY <2>1
    <3>2. 1 \in ValidSizes
      BY DEF ValidSizes
    <3> QED BY <3>1, <3>2, ValidBelow
  <2>4. /\ Sound(data) /\ (data = {} <=> mask = Prbs)
        /\ Cardinality(data) > size => size \notin ValidSizes
        /\ Cardinality(data) < ValidSizeBelow(size) => Longest < ValidSizeBelow(size)
    <3>1. CASE mask = Prbs /\ data = {}
      <4>1. Longest = 0
        BY <3>1, LongestOfNone
      <4> QED BY <2>1, <2>2, <2>3, <3>1, <4>1
    <3>2. CASE mask # Prbs /\ UsableData(data)
      <4> HIDE DEF data
      <4>1. PICK a \in 0 .. NofPrb - 1, m \in 1 .. NofPrb :
              /\ data = a .. a + m - 1 /\ FreeRun(mask, a, m) /\ m \in ValidSizes
              /\ m > size => size \notin ValidSizes
              /\ m < ValidSizeBelow(size) => Longest < ValidSizeBelow(size)
        BY <3>2 DEF UsableData
      <4>2. Cardinality(data) = m /\ data # {} /\ data \in FreeIntervals(Cardinality(data))
        BY <4>1, RunIsInterval
      <4> QED BY <3>2, <4>1, <4>2
    <3> QED BY <3>1, <3>2, DataRight
  <2>5. Sound(uci) /\ Cardinality(uci) <= size /\ (uci = {} => Prbs \ mask \subseteq {0, 1})
    <3>1. UsableUci(mask, size, 0, uci)
      BY <2>1, UciRight
    <3> HIDE DEF uci
    <3>2. CASE uci = {} /\ \A x \in 0 .. NofPrb - 1 : x \notin mask => x \in {0, 1}
      <4>1. Prbs \ mask \subseteq {0, 1}
        BY <3>2 DEF Prbs
      <4> QED BY <2>1, <2>2, <3>2, <4>1
    <3>3. ASSUME NEW a \in 0 .. NofPrb - 1, NEW m \in 1 .. NofPrb, uci = a .. a + m - 1,
                 FreeRun(mask, a, m), m \in ValidSizes, m <= size
          PROVE  Sound(uci) /\ Cardinality(uci) <= size /\ uci # {}
      <4>1. Cardinality(uci) = m /\ uci # {} /\ uci \in FreeIntervals(Cardinality(uci))
        BY <3>3, RunIsInterval
      <4> QED BY <3>3, <4>1
    <3> QED BY <3>1, <3>2, <3>3 DEF UsableUci
  <2> HIDE DEF data, uci
  <2>6. \A found \in {data, uci} : Sound(found)
    BY <2>4, <2>5
  <2> QED BY <2>4, <2>5, <2>6, Zenon DEF UlPrbsUsable, data, uci
<1> QED BY <1>1, Stays, PTL
=============================================================================
