------------------------------- MODULE Folding -------------------------------
(***************************************************************************)
(* Induction along a fold, for every operator: a module that folds with    *)
(* Op takes an instance.  Op folds the elements of a sequence; a and b are *)
(* what it takes beside them, c is what Good takes.  Good(c, i, u) says    *)
(* what u is after i elements.                                             *)
(***************************************************************************)
EXTENDS Integers, Sequences, WellFoundedInduction, TLAPS

CONSTANTS Op(_, _, _, _), Good(_, _, _)

\* The recursion that FoldLeft is made of: from the greatest index down.
Greatest(s) == CHOOSE x \in s : \A y \in s : x >= y
Value(g, a, b, t, ss, s) == IF s = {} THEN t ELSE Op(a, b, g[s \ {Greatest(s)}], ss[Greatest(s)])
Rule(g, S, a, b, t, ss) == g = [s \in S |-> Value(g, a, b, t, ss, s)]

Folded(a, b, t, ss) == (CHOOSE g : Rule(g, SUBSET DOMAIN ss, a, b, t, ss))[DOMAIN ss]

(* A set of numbers has a least one. *)
LEMMA LeastNumber ==
  ASSUME NEW T, T \subseteq Nat, T # {}
  PROVE  \E k \in T : \A n \in T : k <= n
<1>1. PICK k \in T : \A n \in T : <<n, k>> \notin OpToRel(<, Nat)
  BY NatLessThanWellFounded, WFMin
<1>2. \A n \in T : ~ (n < k)
  BY <1>1 DEF OpToRel
<1>3. QED
  BY <1>2

(* Induction up to n, for a set of numbers. *)
LEMMA Upwards ==
  ASSUME NEW n \in Nat, NEW T, 0 \in T, \A i \in 1 .. n : i - 1 \in T => i \in T
  PROVE  \A i \in 0 .. n : i \in T
<1> DEFINE U == {i \in 0 .. n : i \notin T}
<1> SUFFICES ASSUME U # {} PROVE FALSE
  OBVIOUS
<1>1. PICK k \in U : \A i \in U : k <= i
  <2>1. U \subseteq Nat
    OBVIOUS
  <2> HIDE DEF U
  <2>2. QED
    BY <2>1, LeastNumber
<1>2. k # 0 /\ k \in 0 .. n
  BY <1>1
<1>3. k - 1 \in 0 .. n /\ k - 1 \notin U /\ k \in 1 .. n
  BY <1>1, <1>2
<1>4. QED
  BY <1>1, <1>3

(* The greatest of some numbers up to n. *)
LEMMA GreatestUpTo ==
  ASSUME NEW n \in Nat, NEW s \in SUBSET (1 .. n), s # {}
  PROVE  Greatest(s) \in s /\ \A k \in s : k <= Greatest(s)
<1> DEFINE T == {n - k : k \in s}
<1>0. \A k \in s : k \in Nat /\ n - k \in Nat
  <2>1. \A k \in 1 .. n : k \in Nat /\ n - k \in Nat
    OBVIOUS
  <2>2. QED
    BY <2>1
<1>1. T \subseteq Nat /\ T # {}
  BY <1>0
<1>2. PICK l \in T : \A i \in T : l <= i
  <2> HIDE DEF T
  <2>1. QED
    BY <1>1, LeastNumber
<1>3. PICK k \in s : l = n - k
  BY <1>2
<1>4. \A i \in s : k >= i
  <2>1. ASSUME NEW i \in s PROVE k >= i
    <3>1. n - i \in T
      OBVIOUS
    <3> HIDE DEF T
    <3>2. n - k <= n - i /\ k \in Nat /\ i \in Nat
      BY <1>0, <1>2, <1>3, <3>1
    <3>3. QED
      BY <3>2
  <2>2. QED
    BY <2>1
<1>5. QED
  BY <1>3, <1>4 DEF Greatest

LEMMA RuleExists ==
  ASSUME NEW a, NEW b, NEW t, NEW ss, NEW n \in Nat
  PROVE  \E g : Rule(g, SUBSET (1 .. n), a, b, t, ss)
<1> DEFINE T == {k \in 0 .. n : \E g : Rule(g, SUBSET (1 .. k), a, b, t, ss)}
<1>1. 0 \in T
  <2> DEFINE g == [s \in SUBSET (1 .. 0) |-> t]
  <2>1. Rule(g, SUBSET (1 .. 0), a, b, t, ss)
    BY DEF Rule, Value
  <2> HIDE DEF g
  <2>2. QED
    BY <2>1
<1>2. ASSUME NEW k \in 1 .. n, k - 1 \in T PROVE k \in T
  <2>1. PICK f : Rule(f, SUBSET (1 .. k - 1), a, b, t, ss)
    BY <1>2
  <2> DEFINE S == SUBSET (1 .. k)
             R == SUBSET (1 .. k - 1)
             g == [s \in S |-> IF s \in R THEN f[s] ELSE Op(a, b, f[s \ {k}], ss[k])]
  <2>2. ASSUME NEW s \in S PROVE g[s] = Value(g, a, b, t, ss, s)
    <3>1. CASE s \in R
      <4>1. g[s] = f[s] /\ f[s] = Value(f, a, b, t, ss, s)
        BY <2>1, <3>1 DEF Rule
      <4>2. s \ {Greatest(s)} \in R /\ s \ {Greatest(s)} \in S
        BY <3>1
      <4>3. g[s \ {Greatest(s)}] = f[s \ {Greatest(s)}]
        BY <4>2
      <4> HIDE DEF g, S, R
      <4>4. QED
        BY <4>1, <4>3 DEF Value
    <3>2. CASE s \notin R
      <4>1. s # {} /\ k \in s
        BY <3>2
      <4>2. Greatest(s) = k
        <5>1. k \in Nat /\ s \subseteq 1 .. k
          OBVIOUS
        <5>2. Greatest(s) \in s /\ \A i \in s : i <= Greatest(s)
          BY <4>1, <5>1, GreatestUpTo
        <5>3. k <= Greatest(s) /\ Greatest(s) \in 1 .. k
          BY <4>1, <5>1, <5>2
        <5>4. QED
          BY <5>3
      <4>3. s \ {k} \in R /\ s \ {k} \in S
        OBVIOUS
      <4>4. g[s \ {k}] = f[s \ {k}]
        BY <4>3
      <4>5. g[s] = Op(a, b, f[s \ {k}], ss[k])
        BY <3>2
      <4> HIDE DEF g, S, R
      <4>6. QED
        BY <4>1, <4>2, <4>4, <4>5 DEF Value
    <3>3. QED
      BY <3>1, <3>2
  <2>3. Rule(g, S, a, b, t, ss)
    <3>1. g = [s \in S |-> g[s]]
      OBVIOUS
    <3> HIDE DEF g, S
    <3>2. QED
      BY <2>2, <3>1 DEF Rule
  <2> HIDE DEF g
  <2>4. QED
    BY <2>3
<1>3. n \in T
  <2>1. n \in 0 .. n
    OBVIOUS
  <2> HIDE DEF T
  <2>2. QED
    BY <1>1, <1>2, <2>1, Upwards
<1>4. QED
  BY <1>3

(* What holds before the first element, and is kept by each, holds at the end. *)
LEMMA FoldKeeps ==
  ASSUME NEW a, NEW b, NEW c, NEW t, NEW ss, NEW n \in Nat, DOMAIN ss = 1 .. n,
         Good(c, 0, t),
         \A i \in 1 .. n : \A u : Good(c, i - 1, u) => Good(c, i, Op(a, b, u, ss[i]))
  PROVE  Good(c, n, Folded(a, b, t, ss))
<1> DEFINE g == CHOOSE g : Rule(g, SUBSET (1 .. n), a, b, t, ss)
           T == {k \in 0 .. n : Good(c, k, g[1 .. k])}
<1>1. Rule(g, SUBSET (1 .. n), a, b, t, ss)
  BY RuleExists
<1>2. Folded(a, b, t, ss) = g[1 .. n]
  BY DEF Folded
<1> HIDE DEF g
<1>3. 0 \in T
  <2>1. 1 .. 0 = {} /\ 1 .. 0 \in SUBSET (1 .. n) /\ 0 \in 0 .. n
    OBVIOUS
  <2>2. g[1 .. 0] = t
    BY <1>1, <2>1 DEF Rule, Value
  <2>3. QED
    BY <2>1, <2>2
<1>4. ASSUME NEW k \in 1 .. n, k - 1 \in T PROVE k \in T
  <2>1. k \in Nat /\ k \in 0 .. n /\ 1 .. k \in SUBSET (1 .. n) /\ 1 .. k # {}
    OBVIOUS
  <2>2. Greatest(1 .. k) = k
    <3>1. Greatest(1 .. k) \in 1 .. k /\ \A i \in 1 .. k : i <= Greatest(1 .. k)
      BY <2>1, GreatestUpTo
    <3>2. QED
      BY <2>1, <3>1
  <2>3. (1 .. k) \ {k} = 1 .. k - 1
    BY <2>1
  <2>4. g[1 .. k] = Op(a, b, g[1 .. k - 1], ss[k])
    BY <1>1, <2>1, <2>2, <2>3 DEF Rule, Value
  <2>5. Good(c, k - 1, g[1 .. k - 1])
    BY <1>4
  <2>6. QED
    BY <2>1, <2>4, <2>5
<1>5. n \in T
  <2>1. n \in 0 .. n
    OBVIOUS
  <2> HIDE DEF T
  <2>2. QED
    BY <1>3, <1>4, <2>1, Upwards
<1>6. QED
  BY <1>2, <1>5
-----------------------------------------------------------------------------
(* The same for a recursive function over the first elements. *)
Chain(a, b, t, ss) ==
  LET first[i \in 0 .. Len(ss)] == IF i = 0 THEN t ELSE Op(a, b, first[i - 1], ss[i])
  IN first[Len(ss)]

Link(g, n, a, b, t, ss) ==
  g = [i \in 0 .. n |-> IF i = 0 THEN t ELSE Op(a, b, g[i - 1], ss[i])]

LEMMA LinkExists ==
  ASSUME NEW a, NEW b, NEW t, NEW ss, NEW n \in Nat
  PROVE  \E g : Link(g, n, a, b, t, ss)
<1> DEFINE T == {k \in 0 .. n : \E g : Link(g, k, a, b, t, ss)}
<1>1. 0 \in T
  <2> DEFINE g == [i \in 0 .. 0 |-> t]
  <2>1. Link(g, 0, a, b, t, ss)
    BY DEF Link
  <2> HIDE DEF g
  <2>2. QED
    BY <2>1
<1>2. ASSUME NEW k \in 1 .. n, k - 1 \in T PROVE k \in T
  <2>1. PICK f : Link(f, k - 1, a, b, t, ss)
    BY <1>2
  <2> DEFINE g == [i \in 0 .. k |-> IF i = k THEN Op(a, b, f[k - 1], ss[k]) ELSE f[i]]
  <2>2. ASSUME NEW i \in 0 .. k
        PROVE  g[i] = IF i = 0 THEN t ELSE Op(a, b, g[i - 1], ss[i])
    <3>1. CASE i = k
      <4>1. k - 1 \in 0 .. k /\ k - 1 # k /\ k # 0
        OBVIOUS
      <4>2. g[k] = Op(a, b, f[k - 1], ss[k]) /\ g[k - 1] = f[k - 1]
        BY <4>1
      <4> HIDE DEF g
      <4>3. QED
        BY <3>1, <4>1, <4>2
    <3>2. CASE i # k
      <4>1. i \in 0 .. k - 1 /\ i \in Int
        BY <3>2
      <4>2. f[i] = IF i = 0 THEN t ELSE Op(a, b, f[i - 1], ss[i])
        BY <2>1, <4>1, Zenon DEF Link
      <4>3. g[i] = f[i]
        BY <3>2
      <4>4. i # 0 => g[i - 1] = f[i - 1]
        <5>1. i # 0 => i - 1 \in 0 .. k /\ i - 1 # k
          BY <4>1
        <5>2. QED
          BY <5>1
      <4> HIDE DEF g
      <4>5. QED
        BY <4>2, <4>3, <4>4
    <3>3. QED
      BY <3>1, <3>2
  <2>3. Link(g, k, a, b, t, ss)
    <3>1. g = [i \in 0 .. k |-> g[i]]
      OBVIOUS
    <3> HIDE DEF g
    <3>2. QED
      BY <2>2, <3>1 DEF Link
  <2> HIDE DEF g
  <2>4. QED
    BY <2>3
<1>3. n \in T
  <2>1. n \in 0 .. n
    OBVIOUS
  <2> HIDE DEF T
  <2>2. QED
    BY <1>1, <1>2, <2>1, Upwards
<1>4. QED
  BY <1>3

(* What holds at first, and is kept by each element, holds at the end of the *)
(* recursive function.                                                      *)
LEMMA ChainKeeps ==
  ASSUME NEW a, NEW b, NEW c, NEW t, NEW ss, NEW n \in Nat, Len(ss) = n,
         Good(c, 0, t),
         \A i \in 1 .. n : \A u : Good(c, i - 1, u) => Good(c, i, Op(a, b, u, ss[i]))
  PROVE  Good(c, n, Chain(a, b, t, ss))
<1> DEFINE g == CHOOSE g : Link(g, n, a, b, t, ss)
           T == {k \in 0 .. n : Good(c, k, g[k])}
<1>1. Link(g, n, a, b, t, ss)
  BY LinkExists
<1>2. Chain(a, b, t, ss) = g[n]
  BY DEF Chain, Link
<1> HIDE DEF g
<1>3. 0 \in T
  <2>1. 0 \in 0 .. n
    OBVIOUS
  <2>2. g[0] = t
    BY <1>1, <2>1 DEF Link
  <2>3. QED
    BY <2>1, <2>2
<1>4. ASSUME NEW k \in 1 .. n, k - 1 \in T PROVE k \in T
  <2>1. k \in 0 .. n /\ k # 0
    OBVIOUS
  <2>2. g[k] = IF k = 0 THEN t ELSE Op(a, b, g[k - 1], ss[k])
    BY <1>1, <2>1, Zenon DEF Link
  <2>3. Good(c, k - 1, g[k - 1])
    BY <1>4
  <2>4. QED
    BY <2>1, <2>2, <2>3
<1>5. n \in T
  <2>1. n \in 0 .. n
    OBVIOUS
  <2> HIDE DEF T
  <2>2. QED
    BY <1>3, <1>4, <2>1, Upwards
<1>6. QED
  BY <1>2, <1>5
=============================================================================
