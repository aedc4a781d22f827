----------------------------- MODULE BookLemmas -----------------------------
(***************************************************************************)
(* The lemmas the proofs of the markets' modules rest on: laws of natural  *)
(* numbers and of the totals of module Sums, then of the order book's      *)
(* arrays and cursors, then of the depth of the exchange's book.           *)
(*                                                                         *)
(* Induction is used in the form of a set of numbers that has 0 and is     *)
(* closed under successor, which first-order provers can apply; it rests   *)
(* on the library's theorem that < is well-founded on Nat.                 *)
(***************************************************************************)
EXTENDS BookVsExchange, WellFoundedInduction, TLAPS

Less == {pair \in Nat \X Nat : pair[1] < pair[2]}

\* The order of the natural numbers, as a relation, is well-founded.
LEMMA LessWellFounded == IsWellFoundedOn(Less, Nat)
<1>1. Less = OpToRel(<, Nat)
  BY Zenon DEF OpToRel, Less
<1> QED
  BY <1>1, NatLessThanWellFounded, Zenon

\* Less is the order, pair by pair.
LEMMA LessPair ==
  ASSUME NEW x \in Nat, NEW y \in Nat, x < y
  PROVE  <<x, y>> \in Less
<1> DEFINE pair == <<x, y>>
<1>1. pair \in Nat \X Nat /\ pair[1] = x /\ pair[2] = y
  OBVIOUS
<1> HIDE DEF pair
<1>2. pair \in Less
  BY <1>1 DEF Less
<1> QED
  BY <1>2 DEF pair

\* A non-empty set of natural numbers has a least element.
LEMMA MinExists ==
  ASSUME NEW T \in SUBSET Nat, T # {}
  PROVE  \E x \in T : \A y \in T : x <= y
<1>1. PICK x \in T : \A y \in T : ~ (<<y, x>> \in Less)
  BY LessWellFounded, WFMin, Zenon
<1>2. ASSUME NEW y \in T, y < x PROVE FALSE
  <2>1. <<y, x>> \in Less
    BY <1>2, LessPair
  <2> QED
    BY <1>1, <2>1, Zenon
<1> QED
  BY <1>2

\* A set of numbers within bounds that is not empty has a greatest element.
LEMMA MaxExists ==
  ASSUME NEW N \in Nat, NEW T \in SUBSET (0 .. N), T # {}
  PROVE  \E x \in T : \A y \in T : y <= x
<1> DEFINE U == {u \in Nat : N - u \in T}
<1>1. U \in SUBSET Nat /\ U # {}
  <2>1. PICK x \in T : x \in 0 .. N
    OBVIOUS
  <2>2. N - x \in U
    BY <2>1
  <2> QED
    BY <2>2
<1>2. PICK u \in U : \A v \in U : u <= v
  BY <1>1, MinExists
<1>3. ASSUME NEW y \in T PROVE y <= N - u
  <2>1. y \in 0 .. N /\ N - y \in U
    OBVIOUS
  <2> HIDE DEF U
  <2>2. u <= N - y
    BY <1>2, <2>1
  <2>3. u \in Nat
    BY <1>1, <1>2
  <2> QED
    BY <2>1, <2>2, <2>3
<1> QED
  BY <1>2, <1>3

\* Induction: a set of numbers with 0 and every successor is Nat.
LEMMA Induction ==
  ASSUME NEW P \in SUBSET Nat, 0 \in P, \A n \in P : n + 1 \in P
  PROVE  P = Nat
<1>1. SUFFICES ASSUME Nat \ P # {} PROVE FALSE
  OBVIOUS
<1>2. PICK m \in Nat \ P : \A y \in Nat \ P : m <= y
  BY <1>1, MinExists
<1>3. m - 1 \in P
  BY <1>2
<1> QED
  BY <1>2, <1>3

-----------------------------------------------------------------------------
\* What the recursive definition says of a function g of 0..n.
Totals(f, n, g) ==
  g = [k \in 0 .. n |-> IF k = 0 THEN 0 ELSE g[k - 1] + f[k]]

\* There is such a function for every n.
LEMMA TotalsExist ==
  ASSUME NEW f
  PROVE  \A n \in Nat : \E g : Totals(f, n, g)
<1> DEFINE P == {n \in Nat : \E g : Totals(f, n, g)}
<1>1. 0 \in P
  <2> DEFINE g == [k \in 0 .. 0 |-> 0]
  <2>1. Totals(f, 0, g)
    BY DEF Totals
  <2> QED
    BY <2>1
<1>2. ASSUME NEW n \in P PROVE n + 1 \in P
  <2>1. PICK g : Totals(f, n, g)
    OBVIOUS
  <2> DEFINE h == [k \in 0 .. n + 1 |->
                     IF k = n + 1 THEN g[n] + f[n + 1] ELSE g[k]]
  <2>2. n \in Nat
    OBVIOUS
  <2>3. ASSUME NEW k \in 0 .. n + 1
        PROVE  h[k] = IF k = 0 THEN 0 ELSE h[k - 1] + f[k]
    <3>1. CASE k = n + 1
      BY <2>2, <3>1
    <3>2. CASE k # n + 1
      <4>1. k \in 0 .. n /\ h[k] = g[k]
        BY <2>2, <3>2
      <4>2. g[k] = IF k = 0 THEN 0 ELSE g[k - 1] + f[k]
        BY <2>1, <4>1 DEF Totals
      <4>3. k # 0 => h[k - 1] = g[k - 1]
        BY <2>2, <4>1
      <4> QED
        BY <4>1, <4>2, <4>3
    <3> QED
      BY <3>1, <3>2
  <2>4. h = [k \in 0 .. n + 1 |-> IF k = 0 THEN 0 ELSE h[k - 1] + f[k]]
    <3>1. h = [k \in 0 .. n + 1 |-> h[k]]
      OBVIOUS
    <3> HIDE DEF h
    <3> QED
      BY <2>3, <3>1
  <2>5. Totals(f, n + 1, h)
    BY <2>4 DEF Totals
  <2> QED
    BY <2>2, <2>5
<1>3. P = Nat
  <2> HIDE DEF P
  <2>1. P \in SUBSET Nat
    BY DEF P
  <2> QED
    BY <1>1, <1>2, <2>1, Induction
<1> QED
  BY <1>3

\* The recursive equation of PrefixSum.
LEMMA PrefixSumEq ==
  ASSUME NEW f, NEW N \in Nat
  PROVE  /\ PrefixSum(f, N)[0] = 0
         /\ \A k \in 1 .. N : PrefixSum(f, N)[k] = PrefixSum(f, N)[k - 1] + f[k]
<1> DEFINE S == PrefixSum(f, N)
<1>1. PICK g : Totals(f, N, g)
  BY TotalsExist
<1>2. Totals(f, N, S)
  BY <1>1 DEF Totals, PrefixSum
<1> HIDE DEF S
<1>3. \A k \in 0 .. N : S[k] = IF k = 0 THEN 0 ELSE S[k - 1] + f[k]
  BY <1>2 DEF Totals
<1>4. S[0] = 0 /\ \A k \in 1 .. N : S[k] = S[k - 1] + f[k]
  BY <1>3
<1> QED
  BY <1>4 DEF S

-----------------------------------------------------------------------------
\* A property of 0 that passes from k - 1 to k up to N holds of N: induction
\* over the summands, for properties given as a set.
LEMMA BoundedInduction ==
  ASSUME NEW N \in Nat, NEW P \in SUBSET (0 .. N), 0 \in P,
         \A k \in 1 .. N : k - 1 \in P => k \in P
  PROVE  P = 0 .. N
<1> DEFINE Q == {n \in Nat : n <= N => n \in P}
<1>1. 0 \in Q
  OBVIOUS
<1>2. ASSUME NEW n \in Q PROVE n + 1 \in Q
  OBVIOUS
<1>3. Q = Nat
  <2>1. Q \in SUBSET Nat
    OBVIOUS
  <2> HIDE DEF Q
  <2> QED
    BY <1>1, <1>2, <2>1, Induction
<1>4. ASSUME NEW k \in 0 .. N PROVE k \in P
  <2>1. k \in Q
    BY <1>3
  <2> QED
    BY <2>1
<1> QED
  BY <1>4

\* A total of integers is an integer, and a total of natural numbers is a
\* natural number that no summand exceeds.
LEMMA SumInt ==
  ASSUME NEW N \in Nat, NEW f \in [1 .. N -> Int]
  PROVE  \A k \in 0 .. N : PrefixSum(f, N)[k] \in Int
<1> DEFINE S == PrefixSum(f, N)
           P == {k \in 0 .. N : S[k] \in Int}
<1>1. S[0] = 0 /\ \A k \in 1 .. N : S[k] = S[k - 1] + f[k]
  BY PrefixSumEq
<1> HIDE DEF S
<1>2. P = 0 .. N
  <2>1. 0 \in P
    BY <1>1
  <2>2. ASSUME NEW k \in 1 .. N, k - 1 \in P PROVE k \in P
    BY <1>1, <2>2
  <2> QED
    BY <2>1, <2>2, BoundedInduction
<1> QED
  BY <1>2 DEF S

LEMMA SumNat ==
  ASSUME NEW N \in Nat, NEW f \in [1 .. N -> Nat]
  PROVE  /\ SumTo(f, N) \in Nat
         /\ \A i \in 1 .. N : f[i] <= SumTo(f, N)
<1> DEFINE S == PrefixSum(f, N)
           P == {k \in 0 .. N : /\ S[k] \in Nat
                                /\ \A i \in 1 .. k : f[i] <= S[k]}
<1>1. S[0] = 0 /\ \A k \in 1 .. N : S[k] = S[k - 1] + f[k]
  BY PrefixSumEq
<1> HIDE DEF S
<1>2. P = 0 .. N
  <2>1. 0 \in P
    BY <1>1
  <2>2. ASSUME NEW k \in 1 .. N, k - 1 \in P PROVE k \in P
    <3>1. S[k] = S[k - 1] + f[k] /\ S[k - 1] \in Nat /\ f[k] \in Nat
      BY <1>1, <2>2
    <3>2. ASSUME NEW i \in 1 .. k PROVE f[i] <= S[k]
      <4>1. CASE i = k
        BY <3>1, <4>1
      <4>2. CASE i # k
        <5>1. i \in 1 .. k - 1 /\ f[i] \in Nat
          BY <4>2
        <5> QED
          BY <2>2, <3>1, <5>1
      <4> QED
        BY <4>1, <4>2
    <3> QED
      BY <3>1, <3>2
  <2> QED
    BY <2>1, <2>2, BoundedInduction
<1>3. N \in P
  BY <1>2
<1> QED
  BY <1>3 DEF S, SumTo

\* Zeros add up to zero.
LEMMA SumZero ==
  ASSUME NEW N \in Nat, NEW f, \A i \in 1 .. N : f[i] = 0
  PROVE  SumTo(f, N) = 0
<1> DEFINE S == PrefixSum(f, N)
           P == {k \in 0 .. N : S[k] = 0}
<1>1. S[0] = 0 /\ \A k \in 1 .. N : S[k] = S[k - 1] + f[k]
  BY PrefixSumEq
<1> HIDE DEF S
<1>2. P = 0 .. N
  <2>1. 0 \in P
    BY <1>1
  <2>2. ASSUME NEW k \in 1 .. N, k - 1 \in P PROVE k \in P
    BY <1>1, <2>2
  <2> QED
    BY <2>1, <2>2, BoundedInduction
<1>3. N \in P
  BY <1>2
<1> QED
  BY <1>3 DEF S, SumTo

\* Greater summands have no smaller total.
LEMMA SumMonotone ==
  ASSUME NEW N \in Nat, NEW f \in [1 .. N -> Int], NEW g \in [1 .. N -> Int],
         \A k \in 1 .. N : f[k] <= g[k]
  PROVE  SumTo(f, N) <= SumTo(g, N)
<1> DEFINE S == PrefixSum(f, N)
           T == PrefixSum(g, N)
           P == {k \in 0 .. N : S[k] <= T[k]}
<1>1. /\ S[0] = 0 /\ \A k \in 1 .. N : S[k] = S[k - 1] + f[k]
      /\ T[0] = 0 /\ \A k \in 1 .. N : T[k] = T[k - 1] + g[k]
  BY PrefixSumEq
<1>2. \A k \in 0 .. N : S[k] \in Int /\ T[k] \in Int
  BY SumInt
<1> HIDE DEF S, T
<1>3. P = 0 .. N
  <2>1. 0 \in P
    BY <1>1
  <2>2. ASSUME NEW k \in 1 .. N, k - 1 \in P PROVE k \in P
    <3>1. /\ S[k] = S[k - 1] + f[k] /\ T[k] = T[k - 1] + g[k]
          /\ S[k - 1] \in Int /\ T[k - 1] \in Int
          /\ f[k] \in Int /\ g[k] \in Int /\ f[k] <= g[k]
      BY <1>1, <1>2
    <3>2. S[k - 1] <= T[k - 1]
      BY <2>2
    <3> QED
      BY <3>1, <3>2
  <2> HIDE DEF P
  <2>3. P \in SUBSET (0 .. N)
    BY DEF P
  <2> QED
    BY <2>1, <2>2, <2>3, BoundedInduction
<1>4. N \in P
  BY <1>3
<1> QED
  BY <1>4 DEF S, T, SumTo

\* Changing one summand changes the total by the difference.
LEMMA SumUpdate ==
  ASSUME NEW N \in Nat, NEW f \in [1 .. N -> Int], NEW g \in [1 .. N -> Int],
         NEW i \in 1 .. N, \A k \in 1 .. N : k # i => g[k] = f[k]
  PROVE  SumTo(g, N) = SumTo(f, N) + (g[i] - f[i])
<1> DEFINE S == PrefixSum(f, N)
           T == PrefixSum(g, N)
           P == {k \in 0 .. N : T[k] = S[k] + (IF k < i THEN 0 ELSE g[i] - f[i])}
<1>1. S[0] = 0 /\ \A k \in 1 .. N : S[k] = S[k - 1] + f[k]
  BY PrefixSumEq
<1>2. T[0] = 0 /\ \A k \in 1 .. N : T[k] = T[k - 1] + g[k]
  BY PrefixSumEq
<1>3. \A k \in 0 .. N : S[k] \in Int /\ T[k] \in Int
  BY SumInt
<1> HIDE DEF S, T
<1>4. P = 0 .. N
  <2>1. 0 \in P
    BY <1>1, <1>2
  <2>2. ASSUME NEW k \in 1 .. N, k - 1 \in P PROVE k \in P
    <3>1. /\ S[k] = S[k - 1] + f[k] /\ T[k] = T[k - 1] + g[k]
          /\ S[k - 1] \in Int /\ T[k - 1] \in Int
          /\ f[k] \in Int /\ g[k] \in Int /\ f[i] \in Int /\ g[i] \in Int
      BY <1>1, <1>2, <1>3
    <3>2. T[k - 1] = S[k - 1] + (IF k - 1 < i THEN 0 ELSE g[i] - f[i])
      BY <2>2
    <3>3. CASE k = i
      BY <3>1, <3>2, <3>3
    <3>4. CASE k # i
      <4>1. g[k] = f[k]
        BY <3>4
      <4> QED
        BY <3>1, <3>2, <3>4, <4>1
    <3> QED
      BY <3>3, <3>4
  <2> HIDE DEF P
  <2>3. P \in SUBSET (0 .. N)
    BY DEF P
  <2> QED
    BY <2>1, <2>2, <2>3, BoundedInduction
<1>5. N \in P
  BY <1>4
<1> QED
  BY <1>5 DEF S, T, SumTo

\* One summand more adds its value to the total, at either end.
LEMMA SumAppend ==
  ASSUME NEW N \in Nat, NEW f \in [1 .. N -> Int],
         NEW g \in [1 .. N + 1 -> Int], \A k \in 1 .. N : g[k] = f[k]
  PROVE  SumTo(g, N + 1) = SumTo(f, N) + g[N + 1]
<1> DEFINE S == PrefixSum(f, N)
           T == PrefixSum(g, N + 1)
           P == {k \in 0 .. N : T[k] = S[k]}
<1>1. /\ S[0] = 0 /\ \A k \in 1 .. N : S[k] = S[k - 1] + f[k]
      /\ T[0] = 0 /\ \A k \in 1 .. N + 1 : T[k] = T[k - 1] + g[k]
  <2>1. N + 1 \in Nat
    OBVIOUS
  <2>2. S[0] = 0 /\ \A k \in 1 .. N : S[k] = S[k - 1] + f[k]
    BY PrefixSumEq
  <2>3. T[0] = 0 /\ \A k \in 1 .. N + 1 : T[k] = T[k - 1] + g[k]
    BY <2>1, PrefixSumEq
  <2> QED
    BY <2>2, <2>3
<1> HIDE DEF S, T
<1>2. P = 0 .. N
  <2>1. 0 \in P
    BY <1>1
  <2>2. ASSUME NEW k \in 1 .. N, k - 1 \in P PROVE k \in P
    BY <1>1, <2>2
  <2> QED
    BY <2>1, <2>2, BoundedInduction
<1>3. T[N] = S[N] /\ T[N + 1] = T[N] + g[N + 1]
  <2>1. N \in P
    BY <1>2
  <2> QED
    BY <1>1, <2>1
<1> QED
  BY <1>3 DEF S, T, SumTo

LEMMA SumTail ==
  ASSUME NEW N \in Nat, NEW f \in [1 .. N + 1 -> Int],
         NEW g \in [1 .. N -> Int], \A k \in 1 .. N : g[k] = f[k + 1]
  PROVE  SumTo(f, N + 1) = f[1] + SumTo(g, N)
<1> DEFINE S == PrefixSum(f, N + 1)
           T == PrefixSum(g, N)
           P == {k \in 0 .. N : S[k + 1] = f[1] + T[k]}
<1>1. /\ S[0] = 0 /\ \A k \in 1 .. N + 1 : S[k] = S[k - 1] + f[k]
      /\ T[0] = 0 /\ \A k \in 1 .. N : T[k] = T[k - 1] + g[k]
  <2>1. N + 1 \in Nat
    OBVIOUS
  <2>2. S[0] = 0 /\ \A k \in 1 .. N + 1 : S[k] = S[k - 1] + f[k]
    BY <2>1, PrefixSumEq
  <2>3. T[0] = 0 /\ \A k \in 1 .. N : T[k] = T[k - 1] + g[k]
    BY PrefixSumEq
  <2> QED
    BY <2>2, <2>3
<1>2. \A k \in 0 .. N : T[k] \in Int
  BY SumInt
<1> HIDE DEF S, T
<1>3. P = 0 .. N
  <2>1. 0 \in P
    <3>1. S[1] = S[0] + f[1] /\ f[1] \in Int
      BY <1>1
    <3> QED
      BY <1>1, <3>1
  <2>2. ASSUME NEW k \in 1 .. N, k - 1 \in P PROVE k \in P
    <3>1. /\ S[k + 1] = S[k] + f[k + 1] /\ T[k] = T[k - 1] + g[k]
          /\ g[k] = f[k + 1] /\ f[k + 1] \in Int /\ f[1] \in Int
          /\ T[k - 1] \in Int
      BY <1>1, <1>2
    <3>2. S[k] = f[1] + T[k - 1]
      BY <2>2
    <3> QED
      BY <3>1, <3>2
  <2> QED
    BY <2>1, <2>2, BoundedInduction
<1>4. N \in P
  BY <1>3
<1> QED
  BY <1>4 DEF S, T, SumTo

-----------------------------------------------------------------------------

\* The cursor c is where a bid (ask) cursor should be over the quantities q.
Top(q, c) ==
  IF Filled(q) = {} THEN c = Nil
                    ELSE c \in Filled(q) /\ \A k \in Filled(q) : k <= c
Bottom(q, c) ==
  IF Filled(q) = {} THEN c = Nil
                    ELSE c \in Filled(q) /\ \A k \in Filled(q) : k >= c

Quantities == [Levels -> Int]

-----------------------------------------------------------------------------
\* Levels are numbers, and none of them is Nil.
LEMMA LevelsInt ==
  ASSUME NEW q
  PROVE  /\ Levels \in SUBSET Int /\ Filled(q) \in SUBSET Levels
         /\ Filled(q) \in SUBSET Int /\ Nil \notin Levels
  BY SpanAssumption DEF Filled, Levels, Nil

\* The searches find the nearest filled level, if there is one.
LEMMA ScanDownFinds ==
  ASSUME NEW q \in Quantities, NEW l \in Int
  PROVE  LET c == ScanDown(q, l)
             S == {k \in Filled(q) : k <= l}
         IN  IF S = {} THEN c = Nil ELSE c \in S /\ \A k \in S : k <= c
<1> DEFINE S == {k \in Filled(q) : k <= l}
<1>1. CASE S = {}
  BY <1>1 DEF ScanDown
<1>2. CASE S # {}
  <2>1. Span - 1 \in Nat /\ S \in SUBSET (0 .. Span - 1)
    BY SpanAssumption DEF Filled, Levels
  <2> HIDE DEF S
  <2>2. \E x \in S : \A y \in S : y <= x
    BY <1>2, <2>1, MaxExists
  <2>3. \E x \in S : \A y \in S : x >= y
    BY <2>1, <2>2
  <2>4. Max(S) \in S /\ \A y \in S : Max(S) >= y
    BY <2>3 DEF Max
  <2>5. \A y \in S : y <= Max(S)
    BY <2>1, <2>4
  <2>6. ScanDown(q, l) = Max(S)
    BY <1>2 DEF ScanDown, S
  <2> QED
    BY <1>2, <2>4, <2>5, <2>6 DEF S
<1> QED
  BY <1>1, <1>2

LEMMA ScanUpFinds ==
  ASSUME NEW q \in Quantities, NEW l \in Int
  PROVE  LET c == ScanUp(q, l)
             S == {k \in Filled(q) : k >= l}
         IN  IF S = {} THEN c = Nil ELSE c \in S /\ \A k \in S : k >= c
<1> DEFINE S == {k \in Filled(q) : k >= l}
<1>1. CASE S = {}
  BY <1>1 DEF ScanUp
<1>2. CASE S # {}
  <2>1. S \in SUBSET Nat
    BY SpanAssumption DEF Filled, Levels
  <2> HIDE DEF S
  <2>2. \E x \in S : \A y \in S : x <= y
    BY <1>2, <2>1, MinExists
  <2>3. Min(S) \in S /\ \A y \in S : Min(S) <= y
    BY <2>2 DEF Min
  <2>4. \A y \in S : y >= Min(S)
    BY <2>1, <2>3
  <2>5. ScanUp(q, l) = Min(S)
    BY <1>2 DEF ScanUp, S
  <2> QED
    BY <1>2, <2>3, <2>4, <2>5 DEF S
<1> QED
  BY <1>1, <1>2

\* A search that leaves no filled level behind puts the cursor right.
LEMMA ScanDownTop ==
  ASSUME NEW q \in Quantities, NEW l \in Int, \A k \in Filled(q) : k <= l
  PROVE  Top(q, ScanDown(q, l))
<1>1. {k \in Filled(q) : k <= l} = Filled(q)
  OBVIOUS
<1> QED
  BY <1>1, ScanDownFinds, Zenon DEF Top

LEMMA ScanUpBottom ==
  ASSUME NEW q \in Quantities, NEW l \in Int, \A k \in Filled(q) : k >= l
  PROVE  Bottom(q, ScanUp(q, l))
<1>1. {k \in Filled(q) : k >= l} = Filled(q)
  OBVIOUS
<1> QED
  BY <1>1, ScanUpFinds, Zenon DEF Bottom

-----------------------------------------------------------------------------
\* Adding a quantity and moving the cursor to a better level keeps it right.
LEMMA TopAdd ==
  ASSUME NEW q \in [Levels -> Nat], NEW c, Top(q, c),
         NEW p \in Levels, NEW x \in Nat, x > 0
  PROVE  Top([q EXCEPT ![p] = @ + x], RaiseTo(p, c))
<1> DEFINE r == [q EXCEPT ![p] = @ + x]
<1>1. Filled(r) = Filled(q) \cup {p}
  BY DEF Filled, Levels
<1>2. Filled(q) \in SUBSET Int /\ p \in Int
  BY SpanAssumption DEF Filled, Levels
<1> HIDE DEF r
<1>3. Top(r, RaiseTo(p, c))
  <2>1. CASE Filled(q) = {}
    BY <1>1, <1>2, <2>1 DEF Top, RaiseTo
  <2>2. CASE Filled(q) # {}
    <3>1. c \in Int /\ c \in Filled(q) /\ \A k \in Filled(q) : k <= c
      BY <1>2, <2>2 DEF Top
    <3>2. c # Nil
      BY <3>1, SpanAssumption DEF Filled, Levels, Nil
    <3> QED
      BY <1>1, <1>2, <3>1, <3>2 DEF Top, RaiseTo
  <2> QED
    BY <2>1, <2>2
<1> QED
  BY <1>3 DEF r

LEMMA BottomAdd ==
  ASSUME NEW q \in [Levels -> Nat], NEW c, Bottom(q, c),
         NEW p \in Levels, NEW x \in Nat, x > 0
  PROVE  Bottom([q EXCEPT ![p] = @ + x], LowerTo(p, c))
<1> DEFINE r == [q EXCEPT ![p] = @ + x]
<1>1. Filled(r) = Filled(q) \cup {p}
  BY DEF Filled, Levels
<1>2. Filled(q) \in SUBSET Int /\ p \in Int
  BY SpanAssumption DEF Filled, Levels
<1> HIDE DEF r
<1>3. Bottom(r, LowerTo(p, c))
  <2>1. CASE Filled(q) = {}
    BY <1>1, <1>2, <2>1 DEF Bottom, LowerTo
  <2>2. CASE Filled(q) # {}
    <3>1. c \in Int /\ c \in Filled(q) /\ \A k \in Filled(q) : k >= c
      BY <1>2, <2>2 DEF Bottom
    <3>2. c # Nil
      BY <3>1, SpanAssumption DEF Filled, Levels, Nil
    <3> QED
      BY <1>1, <1>2, <3>1, <3>2 DEF Bottom, LowerTo
  <2> QED
    BY <2>1, <2>2
<1> QED
  BY <1>3 DEF r

\* The quantities r are q with something taken from level l.
Taken(q, r, l) ==
  /\ r[l] < q[l]
  /\ \A k \in Levels : k # l => r[k] = q[k]

\* That level was filled, and it is the only one that may be empty now.
LEMMA FilledTaken ==
  ASSUME NEW q \in [Levels -> Nat], NEW r \in [Levels -> Nat],
         NEW l \in Levels, Taken(q, r, l)
  PROVE  /\ l \in Filled(q) /\ r[l] \in Nat
         /\ Filled(r) = IF r[l] > 0 THEN Filled(q) ELSE Filled(q) \ {l}
<1>1. r[l] \in Nat /\ q[l] \in Nat /\ q[l] > 0
  BY DEF Taken
<1>2. \A k \in Levels : k # l => (k \in Filled(r) <=> k \in Filled(q))
  BY DEF Filled, Taken
<1>3. l \in Filled(r) <=> r[l] > 0
  BY DEF Filled
<1> QED
  BY <1>1, <1>2, <1>3 DEF Filled

\* A deletion searches from the next level when it emptied the cursor's.
LEMMA TopDel ==
  ASSUME NEW q \in [Levels -> Nat], NEW r \in [Levels -> Nat],
         NEW l \in Levels, Taken(q, r, l), NEW c, Top(q, c)
  PROVE  Top(r, IF c = l /\ r[l] <= 0 THEN ScanDown(r, l - 1) ELSE c)
<1>1. /\ l \in Filled(q) /\ r[l] \in Nat
      /\ Filled(r) = IF r[l] > 0 THEN Filled(q) ELSE Filled(q) \ {l}
  BY FilledTaken
<1>2. /\ c \in Filled(q) /\ \A k \in Filled(q) : k <= c
      /\ Filled(q) \in SUBSET Int /\ l \in Int
  BY <1>1, LevelsInt DEF Top
<1>3. CASE r[l] > 0 \/ c # l
  <2>1. Top(r, c)
    BY <1>1, <1>2, <1>3 DEF Top
  <2>2. ~ (c = l /\ r[l] <= 0)
    BY <1>1, <1>3
  <2> QED
    BY <2>1, <2>2
<1>4. CASE ~ (r[l] > 0) /\ c = l
  <2>1. \A k \in Filled(r) : k <= l - 1
    BY <1>1, <1>2, <1>4
  <2>2. r \in Quantities /\ l - 1 \in Int /\ r[l] <= 0
    BY <1>1, <1>2, <1>4 DEF Quantities
  <2>3. Top(r, ScanDown(r, l - 1))
    BY <2>1, <2>2, ScanDownTop
  <2> QED
    BY <1>4, <2>2, <2>3
<1> QED
  BY <1>3, <1>4

LEMMA BottomDel ==
  ASSUME NEW q \in [Levels -> Nat], NEW r \in [Levels -> Nat],
         NEW l \in Levels, Taken(q, r, l), NEW c, Bottom(q, c)
  PROVE  Bottom(r, IF c = l /\ r[l] <= 0 THEN ScanUp(r, l + 1) ELSE c)
<1>1. /\ l \in Filled(q) /\ r[l] \in Nat
      /\ Filled(r) = IF r[l] > 0 THEN Filled(q) ELSE Filled(q) \ {l}
  BY FilledTaken
<1>2. /\ c \in Filled(q) /\ \A k \in Filled(q) : k >= c
      /\ Filled(q) \in SUBSET Int /\ l \in Int
  BY <1>1, LevelsInt DEF Bottom
<1>3. CASE r[l] > 0 \/ c # l
  <2>1. Bottom(r, c)
    BY <1>1, <1>2, <1>3 DEF Bottom
  <2>2. ~ (c = l /\ r[l] <= 0)
    BY <1>1, <1>3
  <2> QED
    BY <2>1, <2>2
<1>4. CASE ~ (r[l] > 0) /\ c = l
  <2>1. \A k \in Filled(r) : k >= l + 1
    BY <1>1, <1>2, <1>4
  <2>2. r \in Quantities /\ l + 1 \in Int /\ r[l] <= 0
    BY <1>1, <1>2, <1>4 DEF Quantities
  <2>3. Bottom(r, ScanUp(r, l + 1))
    BY <2>1, <2>2, ScanUpBottom
  <2> QED
    BY <1>4, <2>2, <2>3
<1> QED
  BY <1>3, <1>4

\* A trade at the cursor's level searches from that level when it emptied it.
LEMMA TopTake ==
  ASSUME NEW q \in [Levels -> Nat], NEW r \in [Levels -> Nat],
         NEW l \in Levels, Taken(q, r, l), Top(q, l)
  PROVE  Top(r, IF r[l] <= 0 THEN ScanDown(r, l) ELSE l)
<1>1. /\ l \in Filled(q) /\ r[l] \in Nat
      /\ Filled(r) = IF r[l] > 0 THEN Filled(q) ELSE Filled(q) \ {l}
  BY FilledTaken
<1>2. /\ \A k \in Filled(q) : k <= l
      /\ Filled(q) \in SUBSET Int /\ l \in Int
  BY <1>1, LevelsInt DEF Top
<1>3. CASE r[l] > 0
  <2>1. Top(r, l) /\ ~ (r[l] <= 0)
    BY <1>1, <1>2, <1>3 DEF Top
  <2> QED
    BY <2>1
<1>4. CASE ~ (r[l] > 0)
  <2>1. (\A k \in Filled(r) : k <= l) /\ r[l] <= 0
    BY <1>1, <1>2, <1>4
  <2>2. r \in Quantities
    BY DEF Quantities
  <2>3. Top(r, ScanDown(r, l))
    BY <1>2, <2>1, <2>2, ScanDownTop
  <2> QED
    BY <2>1, <2>3
<1> QED
  BY <1>3, <1>4

LEMMA BottomTake ==
  ASSUME NEW q \in [Levels -> Nat], NEW r \in [Levels -> Nat],
         NEW l \in Levels, Taken(q, r, l), Bottom(q, l)
  PROVE  Bottom(r, IF r[l] <= 0 THEN ScanUp(r, l) ELSE l)
<1>1. /\ l \in Filled(q) /\ r[l] \in Nat
      /\ Filled(r) = IF r[l] > 0 THEN Filled(q) ELSE Filled(q) \ {l}
  BY FilledTaken
<1>2. /\ \A k \in Filled(q) : k >= l
      /\ Filled(q) \in SUBSET Int /\ l \in Int
  BY <1>1, LevelsInt DEF Bottom
<1>3. CASE r[l] > 0
  <2>1. Bottom(r, l) /\ ~ (r[l] <= 0)
    BY <1>1, <1>2, <1>3 DEF Bottom
  <2> QED
    BY <2>1
<1>4. CASE ~ (r[l] > 0)
  <2>1. (\A k \in Filled(r) : k >= l) /\ r[l] <= 0
    BY <1>1, <1>2, <1>4
  <2>2. r \in Quantities
    BY DEF Quantities
  <2>3. Bottom(r, ScanUp(r, l))
    BY <1>2, <2>1, <2>2, ScanUpBottom
  <2> QED
    BY <2>1, <2>3
<1> QED
  BY <1>3, <1>4

-----------------------------------------------------------------------------
\* What each order contributes to a level is a natural number.
LEMMA ShareType ==
  ASSUME ExchangeTypeOK, NEW s, NEW p
  PROVE  Share(s, p) \in [1 .. MaxOrders -> Nat]
BY DEF Share, ExchangeTypeOK, OrderNo

\* A level's depth is a natural number, no less than any of its orders, and it
\* is positive only if an order rests there.
LEMMA DepthLaws ==
  ASSUME ExchangeTypeOK, NEW s, NEW p
  PROVE  /\ Depth(s, p) \in Nat
         /\ \A n \in OrderNo : order[n].side = s /\ order[n].px = p
               => order[n].qty <= Depth(s, p)
         /\ Depth(s, p) > 0 => \E n \in Resting(s) : order[n].px = p
<1> DEFINE f == Share(s, p)
<1>1. MaxOrders \in Nat /\ OrderNo = 1 .. MaxOrders
  BY MaxOrdersAssumption DEF OrderNo
<1>2. f \in [1 .. MaxOrders -> Nat]
  BY ShareType
<1>3. \A n \in OrderNo : f[n] =
        IF order[n].side = s /\ order[n].px = p THEN order[n].qty ELSE 0
  BY DEF Share
<1> HIDE DEF f
<1>4. /\ SumTo(f, MaxOrders) \in Nat
      /\ \A i \in 1 .. MaxOrders : f[i] <= SumTo(f, MaxOrders)
  BY <1>1, <1>2, SumNat
<1>5. Depth(s, p) = SumTo(f, MaxOrders)
  BY DEF Depth, f
<1>6. ASSUME \A n \in Resting(s) : order[n].px # p
      PROVE  Depth(s, p) = 0
  <2>1. \A n \in OrderNo : order[n].qty \in Nat
    BY DEF ExchangeTypeOK
  <2>2. \A n \in 1 .. MaxOrders : f[n] = 0
    BY <1>1, <1>3, <1>6, <2>1 DEF Resting
  <2> QED
    BY <1>1, <1>5, <2>2, SumZero
<1>7. \A n \in OrderNo : order[n].side = s /\ order[n].px = p
        => order[n].qty <= Depth(s, p)
  BY <1>1, <1>3, <1>4, <1>5
<1> QED
  BY <1>4, <1>5, <1>6, <1>7

\* Entering an order that had no quantity adds its quantity to its level.
LEMMA EnterDepth ==
  ASSUME ExchangeTypeOK, ExchangeTypeOK',
         NEW s, NEW p, NEW q \in Nat, Enter(s, p, q), order[nextNo].qty = 0
  PROVE  \A t, l : Depth(t, l)' =
           Depth(t, l) + (IF t = s /\ l = p THEN q ELSE 0)
<1> SUFFICES ASSUME NEW t, NEW l
             PROVE  Depth(t, l)' =
                      Depth(t, l) + (IF t = s /\ l = p THEN q ELSE 0)
  OBVIOUS
<1> DEFINE f == Share(t, l)
           g == Share(t, l)'
<1>1. MaxOrders \in Nat /\ OrderNo = 1 .. MaxOrders /\ nextNo \in OrderNo
  BY MaxOrdersAssumption DEF OrderNo, Enter
<1>2. f \in [1 .. MaxOrders -> Nat]
  BY ShareType
<1>3. g \in [1 .. MaxOrders -> Nat]
  BY DEF Share, ExchangeTypeOK, OrderNo
<1>4. \A k \in OrderNo : k # nextNo => g[k] = f[k]
  BY DEF Share, Enter, ExchangeTypeOK
<1>5. f[nextNo] = 0
  BY <1>1 DEF Share
<1>6. g[nextNo] = IF t = s /\ l = p THEN q ELSE 0
  BY <1>1 DEF Share, Enter, ExchangeTypeOK
<1>7. Depth(t, l) = SumTo(f, MaxOrders) /\ Depth(t, l)' = SumTo(g, MaxOrders)
  BY DEF Depth
<1> HIDE DEF f, g
<1>8. f \in [1 .. MaxOrders -> Int] /\ g \in [1 .. MaxOrders -> Int]
  BY <1>2, <1>3
<1>9. SumTo(g, MaxOrders) = SumTo(f, MaxOrders) + (g[nextNo] - f[nextNo])
  BY <1>1, <1>4, <1>8, SumUpdate
<1>10. SumTo(f, MaxOrders) \in Nat
  BY <1>1, <1>2, SumNat
<1> QED
  BY <1>5, <1>6, <1>7, <1>9, <1>10

\* Reducing one order takes the quantity from its level.
LEMMA ReduceDepth ==
  ASSUME ExchangeTypeOK, ExchangeTypeOK',
         NEW n \in OrderNo, NEW q \in Nat, Reduce({n}, q)
  PROVE  \A t, l : Depth(t, l)' =
           Depth(t, l) - (IF t = order[n].side /\ l = order[n].px THEN q ELSE 0)
<1> SUFFICES ASSUME NEW t, NEW l
             PROVE  Depth(t, l)' = Depth(t, l) -
                      (IF t = order[n].side /\ l = order[n].px THEN q ELSE 0)
  OBVIOUS
<1> DEFINE f == Share(t, l)
           g == Share(t, l)'
<1>1. MaxOrders \in Nat /\ OrderNo = 1 .. MaxOrders
  BY MaxOrdersAssumption DEF OrderNo
<1>2. f \in [1 .. MaxOrders -> Nat]
  BY ShareType
<1>3. g \in [1 .. MaxOrders -> Nat]
  BY DEF Share, ExchangeTypeOK, OrderNo
<1>4. \A k \in OrderNo : k # n => g[k] = f[k]
  BY DEF Share, Reduce, ExchangeTypeOK
<1>5. /\ order'[n].side = order[n].side /\ order'[n].px = order[n].px
      /\ order'[n].qty = order[n].qty - q
      /\ order[n].qty \in Nat
  BY DEF Reduce, ExchangeTypeOK
<1>6. f[n] = IF t = order[n].side /\ l = order[n].px THEN order[n].qty ELSE 0
  BY DEF Share
<1>7. g[n] = IF t = order[n].side /\ l = order[n].px
             THEN order[n].qty - q ELSE 0
  BY <1>5 DEF Share
<1>8. Depth(t, l) = SumTo(f, MaxOrders) /\ Depth(t, l)' = SumTo(g, MaxOrders)
  BY DEF Depth
<1> HIDE DEF f, g
<1>9. f \in [1 .. MaxOrders -> Int] /\ g \in [1 .. MaxOrders -> Int]
  BY <1>2, <1>3
<1>10. SumTo(g, MaxOrders) = SumTo(f, MaxOrders) + (g[n] - f[n])
  BY <1>1, <1>4, <1>9, SumUpdate
<1>11. SumTo(f, MaxOrders) \in Nat
  BY <1>1, <1>2, SumNat
<1> QED
  BY <1>5, <1>6, <1>7, <1>8, <1>10, <1>11

\* The depth of one side when at most one of its orders, n, loses something,
\* whatever happens to the quantities of the other side.
LEMMA SideDepth ==
  ASSUME ExchangeTypeOK, ExchangeTypeOK', NEW t, NEW n \in OrderNo, NEW q \in Nat,
         \A k \in OrderNo :
           order'[k].side = order[k].side /\ order'[k].px = order[k].px,
         \A k \in OrderNo :
           order[k].side = t
             => order'[k].qty = order[k].qty - (IF k = n THEN q ELSE 0)
  PROVE  \A l : Depth(t, l)' = Depth(t, l) -
           (IF order[n].side = t /\ l = order[n].px THEN q ELSE 0)
<1> SUFFICES ASSUME NEW l
             PROVE  Depth(t, l)' = Depth(t, l) -
                      (IF order[n].side = t /\ l = order[n].px THEN q ELSE 0)
  OBVIOUS
<1> DEFINE f == Share(t, l)
           g == Share(t, l)'
<1>1. MaxOrders \in Nat /\ OrderNo = 1 .. MaxOrders
  BY MaxOrdersAssumption DEF OrderNo
<1>2. f \in [1 .. MaxOrders -> Nat]
  BY ShareType
<1>3. g \in [1 .. MaxOrders -> Nat]
  BY DEF Share, ExchangeTypeOK, OrderNo
<1>4. \A k \in OrderNo : k # n => g[k] = f[k]
  BY DEF Share, ExchangeTypeOK
<1>5. g[n] = f[n] - (IF order[n].side = t /\ l = order[n].px THEN q ELSE 0)
  BY DEF Share, ExchangeTypeOK
<1>6. Depth(t, l) = SumTo(f, MaxOrders) /\ Depth(t, l)' = SumTo(g, MaxOrders)
  BY DEF Depth
<1> HIDE DEF f, g
<1>7. f \in [1 .. MaxOrders -> Int] /\ g \in [1 .. MaxOrders -> Int]
  BY <1>2, <1>3
<1>8. SumTo(g, MaxOrders) = SumTo(f, MaxOrders) + (g[n] - f[n])
  BY <1>1, <1>4, <1>7, SumUpdate
<1>9. SumTo(f, MaxOrders) \in Nat /\ f[n] \in Nat /\ g[n] \in Nat
  BY <1>1, <1>2, <1>3, SumNat
<1> QED
  BY <1>5, <1>6, <1>8, <1>9

\* The depth of a level when one order changes, whatever it changes to.
LEMMA OneDepth ==
  ASSUME ExchangeTypeOK, ExchangeTypeOK', NEW n \in OrderNo,
         \A k \in OrderNo : k # n =>
           /\ order'[k].side = order[k].side /\ order'[k].px = order[k].px
           /\ order'[k].qty = order[k].qty
  PROVE  \A t, l : Depth(t, l)' = Depth(t, l)
           + (IF order'[n].side = t /\ order'[n].px = l THEN order'[n].qty ELSE 0)
           - (IF order[n].side = t /\ order[n].px = l THEN order[n].qty ELSE 0)
<1> SUFFICES ASSUME NEW t, NEW l
             PROVE  Depth(t, l)' = Depth(t, l)
               + (IF order'[n].side = t /\ order'[n].px = l
                  THEN order'[n].qty ELSE 0)
               - (IF order[n].side = t /\ order[n].px = l
                  THEN order[n].qty ELSE 0)
  OBVIOUS
<1> DEFINE f == Share(t, l)
           g == Share(t, l)'
           new == IF order'[n].side = t /\ order'[n].px = l
                  THEN order'[n].qty ELSE 0
           old == IF order[n].side = t /\ order[n].px = l
                  THEN order[n].qty ELSE 0
<1>1. MaxOrders \in Nat /\ OrderNo = 1 .. MaxOrders
  BY MaxOrdersAssumption DEF OrderNo
<1>2. f \in [1 .. MaxOrders -> Nat]
  BY ShareType
<1>3. g \in [1 .. MaxOrders -> Nat]
  BY DEF Share, ExchangeTypeOK, OrderNo
<1>4. \A k \in OrderNo : k # n => g[k] = f[k]
  BY DEF Share
<1>5. f[n] = old /\ g[n] = new
  BY DEF Share
<1>6. Depth(t, l) = SumTo(f, MaxOrders) /\ Depth(t, l)' = SumTo(g, MaxOrders)
  BY DEF Depth
<1> HIDE DEF f, g, new, old
<1>7. f \in [1 .. MaxOrders -> Int] /\ g \in [1 .. MaxOrders -> Int]
  BY <1>2, <1>3
<1>8. SumTo(g, MaxOrders) = SumTo(f, MaxOrders) + (g[n] - f[n])
  BY <1>1, <1>4, <1>7, SumUpdate
<1>9. SumTo(f, MaxOrders) \in Nat /\ f[n] \in Int /\ g[n] \in Int
  BY <1>1, <1>2, <1>3, SumNat
<1>10. Depth(t, l)' = Depth(t, l) + new - old
  BY <1>5, <1>6, <1>8, <1>9
<1> QED
  BY <1>10 DEF new, old

\* The depths depend only on what is left of the orders, and on where that is.
LEMMA SameShares ==
  ASSUME \A k \in OrderNo :
           /\ order'[k].qty = order[k].qty
           /\ order[k].qty # 0 => /\ order'[k].side = order[k].side
                                  /\ order'[k].px = order[k].px
  PROVE  \A t, l : Depth(t, l)' = Depth(t, l)
<1>1. \A t, l : Share(t, l)' = Share(t, l)
  <2>1. SUFFICES ASSUME NEW t, NEW l PROVE Share(t, l)' = Share(t, l)
    OBVIOUS
  <2>2. ASSUME NEW k \in OrderNo
        PROVE  (IF order'[k].side = t /\ order'[k].px = l
                THEN order'[k].qty ELSE 0)
               = (IF order[k].side = t /\ order[k].px = l
                  THEN order[k].qty ELSE 0)
    BY <2>2
  <2> QED
    BY <2>2 DEF Share
<1> QED
  BY <1>1 DEF Depth

-----------------------------------------------------------------------------
\* The orders after a new one came to rest.
LEMMA EnterOrders ==
  ASSUME ExchangeTypeOK, NEW s \in Side, NEW p \in Prices, NEW q \in Nat,
         Enter(s, p, q)
  PROVE  /\ ExchangeTypeOK' /\ nextNo \in OrderNo /\ nextNo' = nextNo + 1
         /\ \A n \in OrderNo : order'[n] =
              IF n = nextNo THEN [side |-> s, px |-> p, qty |-> q] ELSE order[n]
<1>1. /\ nextNo \in OrderNo /\ nextNo' = nextNo + 1
      /\ order' = [order EXCEPT ![nextNo] = [side |-> s, px |-> p, qty |-> q]]
  BY DEF Enter
<1>2. [side |-> s, px |-> p, qty |-> q] \in [side: Side, px: Prices, qty: Nat]
  OBVIOUS
<1>3. nextNo' \in 1 .. MaxOrders + 1
  BY <1>1, MaxOrdersAssumption DEF OrderNo
<1>4. ExchangeTypeOK'
  BY <1>1, <1>2, <1>3 DEF ExchangeTypeOK
<1>5. \A n \in OrderNo : order'[n] =
        IF n = nextNo THEN [side |-> s, px |-> p, qty |-> q] ELSE order[n]
  BY <1>1 DEF ExchangeTypeOK
<1> QED
  BY <1>1, <1>4, <1>5

\* The orders after q was taken of each of T.
LEMMA ReduceOrders ==
  ASSUME ExchangeTypeOK, NEW T \in SUBSET OrderNo, NEW q \in Nat, Reduce(T, q),
         \A k \in T : q <= order[k].qty
  PROVE  /\ ExchangeTypeOK' /\ nextNo' = nextNo
         /\ \A k \in OrderNo :
              /\ order'[k].side = order[k].side /\ order'[k].px = order[k].px
              /\ order'[k].qty = order[k].qty - (IF k \in T THEN q ELSE 0)
<1>1. ASSUME NEW k \in OrderNo
      PROVE  /\ order'[k].side = order[k].side /\ order'[k].px = order[k].px
             /\ order'[k].qty = order[k].qty - (IF k \in T THEN q ELSE 0)
             /\ order'[k] \in [side: Side, px: Prices, qty: Nat]
  <2>1. order[k] \in [side: Side, px: Prices, qty: Nat]
    BY DEF ExchangeTypeOK
  <2>2. CASE k \in T
    <3>1. order'[k] = [order[k] EXCEPT !.qty = @ - q] /\ q <= order[k].qty
      BY <2>2 DEF Reduce
    <3>2. order'[k] = [side |-> order[k].side, px |-> order[k].px,
                       qty |-> order[k].qty - q]
      BY <2>1, <3>1
    <3>3. order[k].qty - q \in Nat
      BY <2>1, <3>1
    <3> QED
      BY <2>1, <2>2, <3>2, <3>3
  <2>3. CASE k \notin T
    BY <2>1, <2>3 DEF Reduce
  <2> QED
    BY <2>2, <2>3
<1>2. order' \in [OrderNo -> [side: Side, px: Prices, qty: Nat]]
  BY <1>1 DEF Reduce
<1>3. nextNo' = nextNo
  BY DEF Reduce
<1> QED
  BY <1>1, <1>2, <1>3 DEF ExchangeTypeOK
=============================================================================
