----------------------------- MODULE DataInduction -----------------------------
(***************************************************************************)
(* Induction over numbers, for what a recursive function computes.  The    *)
(* induction theorems of the library are about predicates; these are about *)
(* sets, so that they can be cited, and follow from every nonempty set of  *)
(* naturals having a least element.                                        *)
(***************************************************************************)
EXTENDS Integers, Sequences, WellFoundedInduction, TLAPS

(* A set of numbers has a least one.                                          *)
LEMMA LeastElement ==
  ASSUME NEW S \in SUBSET Nat, S # {}
  PROVE  \E i \in S : \A j \in S : i <= j
<1> DEFINE R == {p \in Nat \X Nat : p[1] < p[2]}
<1>1. R = OpToRel(<, Nat)
  BY Zenon DEF OpToRel
<1>2. PICK i \in S : \A j \in S : ~(<<j, i>> \in R)
  <2> HIDE DEF R
  <2>1. IsWellFoundedOn(R, Nat)
    BY <1>1, NatLessThanWellFounded
  <2> QED BY <2>1, WFMin
<1>3. ASSUME NEW j \in S PROVE i <= j
  <2>1. <<j, i>> \notin R
    BY <1>2
  <2>2. <<j, i>> \in Nat \X Nat /\ <<j, i>>[1] = j /\ <<j, i>>[2] = i
    OBVIOUS
  <2>3. ~(j < i)
    BY <2>1, <2>2
  <2> QED BY <2>3
<1> QED BY <1>3

(* Induction, for a set of numbers instead of a predicate.                    *)
LEMMA SetInduction ==
  ASSUME NEW S \in SUBSET Nat, 0 \in S, \A n \in S : n + 1 \in S
  PROVE  S = Nat
<1> DEFINE T == Nat \ S
<1> SUFFICES ASSUME T # {} PROVE FALSE
  OBVIOUS
<1>1. PICK x \in T : \A y \in T : x <= y
  <2>1. T \in SUBSET Nat
    OBVIOUS
  <2> HIDE DEF T
  <2> QED BY <2>1, LeastElement
<1>2. x \in Nat /\ x # 0 /\ x - 1 \in Nat /\ x - 1 + 1 = x
  OBVIOUS
<1>3. x - 1 \notin T
  <2>1. ~(x <= x - 1)
    BY <1>2
  <2> QED BY <1>1, <2>1
<1>4. x - 1 + 1 \in S
  BY <1>2, <1>3
<1> QED BY <1>2, <1>4

(* The same from a to b.                                                      *)
LEMMA IntervalInduction ==
  ASSUME NEW a \in Int, NEW b \in Int, NEW S, a \in S,
         \A i \in a .. b - 1 : i \in S => i + 1 \in S
  PROVE  \A i \in a .. b : i \in S
<1> DEFINE T == {n \in Nat : a + n <= b => a + n \in S}
<1>1. T \in SUBSET Nat /\ 0 \in T
  OBVIOUS
<1>2. ASSUME NEW n \in T PROVE n + 1 \in T
  <2>1. n \in Nat /\ n + 1 \in Nat /\ a + (n + 1) = (a + n) + 1
    OBVIOUS
  <2>2. CASE a + (n + 1) <= b
    <3>1. a + n \in a .. b - 1 /\ a + n <= b
      BY <2>1, <2>2
    <3>2. a + n \in S
      BY <3>1
    <3>3. (a + n) + 1 \in S
      BY <3>1, <3>2
    <3> QED BY <2>1, <3>3
  <2> QED BY <2>1, <2>2
<1>3. T = Nat
  <2> HIDE DEF T
  <2> QED BY <1>1, <1>2, SetInduction
<1>4. ASSUME NEW i \in a .. b PROVE i \in S
  <2>1. i - a \in Nat /\ a + (i - a) = i
    OBVIOUS
  <2>2. i - a \in T
    BY <1>3, <2>1
  <2> QED BY <2>1, <2>2
<1> QED BY <1>4

(* Each step leads from a set of values to the next, all of them in X.        *)
Leads(step, T, X, a, b) ==
  /\ \A i \in a .. b : T[i] \subseteq X
  /\ \A i \in a + 1 .. b : \A t \in T[i - 1] : step[i][t] \in T[i]

(* g is what the steps make of x, and stays in these sets.                    *)
Computed(g, x, step, T, X, a, b) ==
  /\ g \in [a .. b -> X]
  /\ g[a] = x
  /\ \A i \in a + 1 .. b : g[i] = step[i][g[i - 1]]
  /\ \A i \in a .. b : g[i] \in T[i]

(* A function that is computed from each value to the next exists, and its    *)
(* values are in the sets the steps stay in.                                  *)
LEMMA RecursionExists ==
  ASSUME NEW a \in Int, NEW b \in Int, a <= b, NEW X, NEW T, NEW step, NEW x \in T[a],
         Leads(step, T, X, a, b)
  PROVE  \E g : Computed(g, x, step, T, X, a, b)
<1> DEFINE Fits(g, n) == /\ g = [i \in a .. n |-> IF i = a THEN x ELSE step[i][g[i - 1]]]
                         /\ \A i \in a .. n : g[i] \in T[i]
           S == {n \in a .. b : \E g : Fits(g, n)}
<1>1. a \in S
  <2> DEFINE g == [i \in a .. a |-> x]
  <2>1. \A i \in a .. a : i = a
    OBVIOUS
  <2>2. g = [i \in a .. a |-> IF i = a THEN x ELSE step[i][g[i - 1]]]
    BY <2>1
  <2>3. \A i \in a .. a : g[i] \in T[i]
    BY <2>1
  <2>4. Fits(g, a) /\ a \in a .. b
    BY <2>2, <2>3
  <2> HIDE DEF Fits, g
  <2> QED BY <2>4
<1>2. ASSUME NEW n \in a .. b - 1, n \in S PROVE n + 1 \in S
  <2>1. PICK g : Fits(g, n)
    BY <1>2
  <2> DEFINE h == [i \in a .. n + 1 |-> IF i = n + 1 THEN step[n + 1][g[n]] ELSE g[i]]
             f == [i \in a .. n + 1 |-> IF i = a THEN x ELSE step[i][h[i - 1]]]
  <2>2. n + 1 \in a + 1 .. b /\ n + 1 # a /\ (n + 1) - 1 = n /\ n \in a .. n /\ n # n + 1
        /\ n \in a .. n + 1
    OBVIOUS
  <2>3. /\ h[n + 1] = step[n + 1][g[n]]
        /\ \A i \in a .. n : h[i] = g[i]
        /\ h = [i \in a .. n + 1 |-> h[i]]
    BY <2>2
  <2> HIDE DEF h
  <2>4. ASSUME NEW i \in a .. n + 1 PROVE h[i] = f[i] /\ h[i] \in T[i]
    <3>1. CASE i = n + 1
      <4>1. g[n] \in T[n]
        BY <2>1, <2>2
      <4>2. step[n + 1][g[n]] \in T[n + 1]
        BY <2>2, <4>1 DEF Leads
      <4>3. f[n + 1] = step[n + 1][h[n]]
        BY <2>2
      <4> QED BY <2>2, <2>3, <3>1, <4>2, <4>3
    <3>2. CASE i # n + 1
      <4>1. i \in a .. n
        BY <3>2
      <4>2. h[i] = g[i] /\ g[i] = IF i = a THEN x ELSE step[i][g[i - 1]]
        BY <2>1, <2>3, <4>1
      <4>3. i # a => i - 1 \in a .. n
        BY <4>1
      <4>4. i # a => h[i - 1] = g[i - 1]
        BY <2>3, <4>3
      <4>5. f[i] = IF i = a THEN x ELSE step[i][h[i - 1]]
        OBVIOUS
      <4> QED BY <2>1, <4>1, <4>2, <4>4, <4>5
    <3> QED BY <3>1, <3>2
  <2>5. h = f
    <3>1. f = [i \in a .. n + 1 |-> f[i]]
      OBVIOUS
    <3> HIDE DEF f
    <3> QED BY <2>3, <2>4, <3>1
  <2>6. Fits(h, n + 1)
    BY <2>4, <2>5
  <2>7. n + 1 \in a .. b
    OBVIOUS
  <2> HIDE DEF Fits
  <2> QED BY <2>6, <2>7
<1>3. b \in S
  <2> HIDE DEF S
  <2>1. \A i \in a .. b : i \in S
    BY <1>1, <1>2, IntervalInduction
  <2> QED BY <2>1
<1>4. PICK g : Fits(g, b)
  BY <1>3
<1>5. g \in [a .. b -> X]
  BY <1>4 DEF Leads
<1>6. g[a] = x
  BY <1>4
<1>7. ASSUME NEW i \in a + 1 .. b PROVE g[i] = step[i][g[i - 1]]
  <2>1. i \in a .. b /\ i # a
    OBVIOUS
  <2> QED BY <1>4, <2>1
<1> QED BY <1>4, <1>5, <1>6, <1>7 DEF Computed

(* f gathers, up to each n, the e[i] of the i in K, in order.                 *)
Gathers(f, K, e, b) ==
  f = [n \in 0 .. b |-> IF n = 0 THEN << >>
                        ELSE IF n \in K THEN Append(f[n - 1], e[n]) ELSE f[n - 1]]

(* Sequences of n elements at most.                                           *)
UpToLong(S, n) == {q \in Seq(S) : Len(q) <= n}

(* What such a function consists of.                                          *)
LEMMA GatherShape ==
  ASSUME NEW b \in Nat, NEW K, NEW S, NEW e \in [1 .. b -> S], NEW f, Gathers(f, K, e, b)
  PROVE  /\ f[0] = << >>
         /\ \A n \in 1 .. b : f[n] = IF n \in K THEN Append(f[n - 1], e[n]) ELSE f[n - 1]
         /\ \A n \in 0 .. b : f[n] \in UpToLong(S, n)
<1>1. /\ f[0] = << >>
      /\ \A n \in 1 .. b : f[n] = IF n \in K THEN Append(f[n - 1], e[n]) ELSE f[n - 1]
  <2>1. 0 \in 0 .. b /\ \A n \in 1 .. b : n \in 0 .. b /\ n # 0
    OBVIOUS
  <2> QED BY <2>1, Zenon DEF Gathers
<1> DEFINE G == {n \in 0 .. b : f[n] \in UpToLong(S, n)}
<1>2. 0 \in G
  <2>1. << >> \in UpToLong(S, 0) /\ 0 \in 0 .. b
    BY DEF UpToLong
  <2> QED BY <1>1, <2>1
<1>3. ASSUME NEW n \in 0 .. b - 1, n \in G PROVE n + 1 \in G
  <2>1. n + 1 \in 0 .. b /\ (n + 1) - 1 = n /\ n + 1 \in 1 .. b
    OBVIOUS
  <2>2. f[n] \in Seq(S) /\ Len(f[n]) \in Nat /\ Len(f[n]) <= n /\ e[n + 1] \in S
    BY <1>3, <2>1 DEF UpToLong
  <2>3. Append(f[n], e[n + 1]) \in UpToLong(S, n + 1) /\ f[n] \in UpToLong(S, n + 1)
    BY <2>2 DEF UpToLong
  <2>4. f[n + 1] \in {Append(f[n], e[n + 1]), f[n]}
    BY <1>1, <2>1
  <2> QED BY <2>1, <2>3, <2>4
<1>4. 0 \in Int /\ b \in Int /\ \A n \in 0 .. b - 1 : n \in G => n + 1 \in G
  BY <1>3
<1>5. \A n \in 0 .. b : n \in G
  <2> HIDE DEF G
  <2> QED BY <1>2, <1>4, IntervalInduction
<1> QED BY <1>1, <1>5

(* There is one.                                                              *)
LEMMA GatherExists ==
  ASSUME NEW b \in Nat, NEW K, NEW S, NEW e \in [1 .. b -> S]
  PROVE  \E f : Gathers(f, K, e, b)
<1> DEFINE T == [n \in 0 .. b |-> Seq(S)]
           Longer(q, n) == IF n \in K THEN Append(q, e[n]) ELSE q
           step == [n \in 1 .. b |-> [q \in Seq(S) |-> Longer(q, n)]]
<1>1. ASSUME NEW n \in 1 .. b, NEW q \in Seq(S) PROVE Longer(q, n) \in Seq(S)
  OBVIOUS
<1> HIDE DEF Longer
<1>2. PICK h : Computed(h, << >>, step, T, Seq(S), 0, b)
  <2>1. \A n \in 0 .. b : T[n] \subseteq Seq(S)
    OBVIOUS
  <2>2. \A n \in 1 .. b : \A q \in T[n - 1] : step[n][q] \in T[n]
    <3>1. \A n \in 1 .. b : n \in 0 .. b /\ n - 1 \in 0 .. b
      OBVIOUS
    <3> QED BY <1>1, <3>1
  <2>3. << >> \in T[0] /\ 0 \in Int /\ b \in Int /\ 0 <= b /\ 0 + 1 = 1
    OBVIOUS
  <2> HIDE DEF T, step
  <2>4. Leads(step, T, Seq(S), 0, b)
    BY <2>1, <2>2, <2>3 DEF Leads
  <2> QED BY <2>3, <2>4, RecursionExists
<1>3. ASSUME NEW n \in 0 .. b, n # 0 PROVE h[n] = Longer(h[n - 1], n)
  <2>1. n \in 0 + 1 .. b /\ n - 1 \in 0 .. b /\ n \in 1 .. b
    BY <1>3
  <2>2. h[n - 1] \in Seq(S)
    BY <1>2, <2>1 DEF Computed
  <2>3. h[n] = step[n][h[n - 1]]
    BY <1>2, <2>1, Zenon DEF Computed
  <2> QED BY <2>1, <2>2, <2>3
<1>4. h \in [0 .. b -> Seq(S)] /\ h[0] = << >>
  BY <1>2 DEF Computed
<1>5. Gathers(h, K, e, b)
  <2> HIDE DEF T, step
  <2> QED BY <1>3, <1>4 DEF Longer, Gathers
<1> QED BY <1>5
================================================================================
