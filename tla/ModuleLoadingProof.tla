------------------------- MODULE ModuleLoadingProof -------------------------
(***************************************************************************)
(* What strings and functions mean, for any modules, any files that are    *)
(* well formed, any words and any saves.                                   *)
(*                                                                         *)
(* The invariant says of the environment that table, names, functions and  *)
(* modules fit together (EnvOK).  Reading a file keeps that and only adds  *)
(* strings and names (Grew), chunk by chunk; so what words mean is kept    *)
(* (WordsKeep).  The steps that take something away are the others: a      *)
(* module is reset, strings are collected, a save is loaded, the program   *)
(* ends.                                                                   *)
(***************************************************************************)
EXTENDS ModuleLoading, FiniteSetTheorems, TLAPS
-----------------------------------------------------------------------------
(* String tables. *)

(* What is in a table has one index, by which it is found. *)
LEMMA InTable ==
  ASSUME NEW t, TabOK(t), NEW s \in Live(t)
  PROVE  /\ IdxOf(t, s) \in Nat /\ IdxOf(t, s) + 1 \in DOMAIN t.byIdx
         /\ t.byIdx[IdxOf(t, s) + 1] = s /\ At(t, IdxOf(t, s)) = s
         /\ WordOf(t, s) < 0 /\ WordOf(t, s) \in Int /\ GetString(t, WordOf(t, s)) = s
         /\ s \in String
<1>1. t.byIdx \in Seq(String \cup {NoString})
  BY DEF TabOK
<1>2. PICK i \in DOMAIN t.byIdx : t.byIdx[i] = s
  BY DEF Live, ToSet
<1>3. s # NoString
  BY DEF Live
<1>4. t.byIdx[IdxOf(t, s) + 1] = s /\ IdxOf(t, s) + 1 \in DOMAIN t.byIdx
  <2> DEFINE k == CHOOSE k \in DOMAIN t.byIdx : t.byIdx[k] = s
  <2>1. k \in DOMAIN t.byIdx /\ t.byIdx[k] = s
    BY <1>2
  <2>2. k \in Int
    BY <1>1, <2>1
  <2>3. IdxOf(t, s) = k - 1
    BY DEF IdxOf
  <2> HIDE DEF k
  <2>4. QED
    BY <2>1, <2>2, <2>3
<1>5. IdxOf(t, s) \in Nat
  <2>1. DOMAIN t.byIdx = 1 .. Len(t.byIdx) /\ Len(t.byIdx) \in Nat
    BY <1>1
  <2>2. IdxOf(t, s) = (CHOOSE k \in DOMAIN t.byIdx : t.byIdx[k] = s) - 1
    BY DEF IdxOf
  <2>3. (CHOOSE k \in DOMAIN t.byIdx : t.byIdx[k] = s) \in DOMAIN t.byIdx
    BY <1>2
  <2>4. QED
    BY <2>1, <2>2, <2>3
<1>6. WordOf(t, s) = -1 - IdxOf(t, s) /\ -1 - WordOf(t, s) = IdxOf(t, s)
  BY <1>5 DEF WordOf
<1>7. s \in String
  BY <1>1, <1>2, <1>3
<1>8. At(t, IdxOf(t, s)) = s
  BY <1>4 DEF At
<1>9. GetString(t, WordOf(t, s)) = s
  BY <1>6, <1>8 DEF GetString
<1>10. QED
  BY <1>4, <1>5, <1>6, <1>7, <1>8, <1>9

(* What an index gives is in the table, or no string. *)
LEMMA AtIsLive ==
  ASSUME NEW t, TabOK(t), NEW i
  PROVE  /\ At(t, i) \in Live(t) \cup {NoString}
         /\ At(t, i) # NoString => i + 1 \in DOMAIN t.byIdx /\ t.byIdx[i + 1] = At(t, i)
<1>1. t.byIdx \in Seq(String \cup {NoString})
  BY DEF TabOK
<1>2. CASE i + 1 \in DOMAIN t.byIdx
  <2>1. At(t, i) = t.byIdx[i + 1]
    BY <1>2 DEF At
  <2>2. QED
    BY <1>1, <1>2, <2>1 DEF Live, ToSet
<1>3. CASE i + 1 \notin DOMAIN t.byIdx
  BY <1>3 DEF At
<1>4. QED
  BY <1>2, <1>3

(* Only words below 0 are strings. *)
LEMMA StringWord ==
  ASSUME NEW t, TabOK(t), NEW w \in Int, w >= 0
  PROVE  GetString(t, w) = NoString
<1>1. DOMAIN t.byIdx = 1 .. Len(t.byIdx) /\ Len(t.byIdx) \in Nat
  BY DEF TabOK
<1>2. (-1 - w) + 1 \notin DOMAIN t.byIdx
  BY <1>1
<1>3. QED
  BY <1>2 DEF GetString, At

(* What is in a table are finitely many strings. *)
LEMMA LiveStrings ==
  ASSUME NEW t, TabOK(t)
  PROVE  Live(t) \subseteq String /\ NoString \notin Live(t) /\ IsFiniteSet(Live(t))
<1>1. t.byIdx \in Seq(String \cup {NoString})
  BY DEF TabOK
<1>2. Live(t) \subseteq String /\ NoString \notin Live(t)
  BY <1>1 DEF Live, ToSet
<1>3. IsFiniteSet(Live(t))
  <2> DEFINE n == Len(t.byIdx)
             f == t.byIdx
             T == ToSet(t.byIdx)
  <2>1. n \in Nat /\ DOMAIN f = 1 .. n
    BY <1>1
  <2>2. f \in Surjection(1 .. n, T)
    <3>1. f \in [1 .. n -> T]
      BY <1>1, <2>1 DEF ToSet
    <3>2. \A x \in T : \E i \in 1 .. n : f[i] = x
      BY <2>1 DEF ToSet
    <3> HIDE DEF f, n, T
    <3>3. QED
      BY <3>1, <3>2 DEF Surjection
  <2>3. IsFiniteSet(1 .. n)
    BY <2>1, FS_Interval
  <2> HIDE DEF f, n, T
  <2>4. IsFiniteSet(T)
    BY <2>2, <2>3, FS_Surjection
  <2>5. Live(t) \in SUBSET T
    BY DEF Live, T
  <2>6. QED
    BY <2>4, <2>5, FS_Subset
<1>4. QED
  BY <1>2, <1>3

(* The sequence of a finite set has every element of it once. *)
LEMMA InOrder ==
  ASSUME NEW S, IsFiniteSet(S)
  PROVE  /\ SetToSeq(S) \in [1 .. Cardinality(S) -> S] /\ Cardinality(S) \in Nat
         /\ \A i, j \in 1 .. Cardinality(S) : SetToSeq(S)[i] = SetToSeq(S)[j] => i = j
         /\ ToSet(SetToSeq(S)) = S
         /\ SetToSeq(S) \in Seq(S) /\ Len(SetToSeq(S)) = Cardinality(S)
<1> DEFINE n == Cardinality(S)
           q == SetToSeq(S)
<1>1. n \in Nat /\ ExistsBijection(1 .. n, S)
  BY FS_CardinalityType
<1>2. \E f \in [1 .. n -> S] : IsInjective(f)
  BY <1>1 DEF ExistsBijection, Bijection, Injection, IsInjective
<1>3. q \in [1 .. n -> S] /\ IsInjective(q)
  <2> DEFINE P(f) == IsInjective(f)
  <2> HIDE DEF P, n
  <2>1. \E f \in [1 .. n -> S] : P(f)
    BY <1>2 DEF P
  <2>2. (CHOOSE f \in [1 .. n -> S] : P(f)) \in [1 .. n -> S] /\ P(CHOOSE f \in [1 .. n -> S] : P(f))
    BY <2>1
  <2>3. q = CHOOSE f \in [1 .. n -> S] : P(f)
    BY DEF SetToSeq, n, P
  <2>4. QED
    BY <2>2, <2>3 DEF P
<1> HIDE DEF q
<1>4. q \in Injection(1 .. n, S)
  BY <1>3 DEF Injection
<1>5. q \in Surjection(1 .. n, S)
  <2>1. IsFiniteSet(1 .. n) /\ Cardinality(1 .. n) = n
    BY <1>1, FS_Interval
  <2> HIDE DEF n
  <2>2. Cardinality(1 .. n) = Cardinality(S) <=> q \in Surjection(1 .. n, S)
    BY <1>4, FS_Injection
  <2>3. QED
    BY <2>1, <2>2 DEF n
<1>6. DOMAIN q = 1 .. n
  BY <1>3
<1>7. ToSet(q) = S
  <2> HIDE DEF n
  <2>1. \A x \in S : \E i \in 1 .. n : q[i] = x
    BY <1>5 DEF Surjection
  <2>2. QED
    BY <1>3, <1>6, <2>1 DEF ToSet
<1>8. q \in Seq(S) /\ Len(q) = n
  BY <1>1, <1>3
<1>9. \A i, j \in 1 .. n : q[i] = q[j] => i = j
  BY <1>3, <1>6 DEF IsInjective
<1>10. QED
  BY <1>1, <1>3, <1>7, <1>8, <1>9 DEF q
-----------------------------------------------------------------------------
(* Tables that grow. *)

(* A table that has grown has all strings where they were. *)
LEMMA GrownLive ==
  ASSUME NEW t, NEW u, Grown(t, u), TabOK(t), TabOK(u)
  PROVE  /\ Live(t) \subseteq Live(u)
         /\ \A i : At(t, i) # NoString => At(u, i) = At(t, i)
         /\ \A w : GetString(t, w) # NoString => GetString(u, w) = GetString(t, w)
<1>1. Live(t) \subseteq Live(u)
  BY DEF Live, Grown, ToSet
<1>2. ASSUME NEW i, At(t, i) # NoString PROVE At(u, i) = At(t, i)
  <2>1. i + 1 \in DOMAIN t.byIdx /\ t.byIdx[i + 1] = At(t, i)
    BY <1>2, AtIsLive
  <2>2. i + 1 \in DOMAIN u.byIdx /\ u.byIdx[i + 1] = At(t, i)
    BY <1>2, <2>1 DEF Grown
  <2>3. QED
    BY <2>2 DEF At
<1>3. ASSUME NEW w, GetString(t, w) # NoString PROVE GetString(u, w) = GetString(t, w)
  BY <1>2, <1>3 DEF GetString
<1>4. QED
  BY <1>1, <1>2, <1>3

(* A table may grow twice. *)
LEMMA GrownTrans ==
  ASSUME NEW t, NEW u, NEW v, Grown(t, u), Grown(u, v)
  PROVE  Grown(t, v)
BY DEF Grown

(* A table that is left alone has grown. *)
LEMMA GrownSelf ==
  ASSUME NEW t
  PROVE  Grown(t, t)
BY DEF Grown

(* A string that is looked up is in the table then. *)
LEMMA InternKeeps ==
  ASSUME NEW t, TabOK(t), NEW s \in String
  PROVE  TabOK(Intern(t, s)) /\ Grown(t, Intern(t, s)) /\ s \in Live(Intern(t, s))
<1> DEFINE u == Intern(t, s)
<1>0. /\ DOMAIN t = {"byIdx", "free", "lock"}
      /\ t.byIdx \in Seq(String \cup {NoString}) /\ t.free \in Seq(Nat) /\ t.lock \in [String -> Int]
  BY DEF TabOK, Empty
<1>1. s # NoString
  BY StringAssumption
<1>2. CASE s \in Live(t)
  <2>1. Intern(t, s) = t
    BY <1>2 DEF Intern
  <2>2. QED
    BY <1>2, <2>1, GrownSelf
<1>3. CASE s \notin Live(t) /\ t.free = <<>>
  <2>1. Intern(t, s) = [t EXCEPT !.byIdx = Append(@, s)]
    BY <1>3 DEF Intern
  <2>2. u.byIdx = Append(t.byIdx, s) /\ u.free = t.free /\ u.lock = t.lock /\ DOMAIN u = DOMAIN t
    BY <1>0, <2>1
  <2> HIDE DEF u
  <2> DEFINE n == Len(t.byIdx)
  <2>3. n \in Nat /\ DOMAIN t.byIdx = 1 .. n /\ DOMAIN u.byIdx = 1 .. n + 1
    BY <1>0, <2>2
  <2>4. u.byIdx[n + 1] = s /\ \A i \in 1 .. n : u.byIdx[i] = t.byIdx[i]
    BY <1>0, <2>2
  <2>5. u.byIdx \in Seq(String \cup {NoString})
    BY <1>0, <2>2
  <2> HIDE DEF n
  <2>6. \A i \in 1 .. n : t.byIdx[i] # s
    BY <1>1, <1>3, <2>3 DEF Live, ToSet
  <2>7. \A i, j \in 1 .. n + 1 : u.byIdx[i] = u.byIdx[j] /\ u.byIdx[i] # NoString => i = j
    <3>1. \A i \in 1 .. n + 1 : i # n + 1 => i \in 1 .. n
      BY <2>3
    <3>2. \A i, j \in 1 .. n : t.byIdx[i] = t.byIdx[j] /\ t.byIdx[i] # NoString => i = j
      BY <2>3 DEF TabOK
    <3>3. QED
      BY <2>4, <2>6, <3>1, <3>2
  <2>8. TabOK(u)
    BY <1>0, <1>3, <2>2, <2>3, <2>5, <2>7 DEF TabOK, Empty
  <2>9. Grown(t, u)
    BY <2>2, <2>3, <2>4 DEF Grown
  <2>10. s \in Live(u)
    <3>1. n + 1 \in DOMAIN u.byIdx
      BY <2>3
    <3>2. QED
      BY <1>1, <2>4, <3>1 DEF Live, ToSet
  <2>11. QED
    BY <2>8, <2>9, <2>10 DEF u
<1>4. CASE s \notin Live(t) /\ t.free # <<>>
  <2> DEFINE f == Last(t.free)
             n == Len(t.free)
             v == [t EXCEPT !.byIdx[f + 1] = s]
  <2>1. u = [v EXCEPT !.free = Front(@)]
    BY <1>0, <1>4 DEF Intern
  <2>2. v.byIdx = [t.byIdx EXCEPT ![f + 1] = s] /\ v.free = t.free /\ v.lock = t.lock /\ DOMAIN v = DOMAIN t
    BY <1>0
  <2> HIDE DEF v
  <2>3. u.byIdx = v.byIdx /\ u.free = Front(t.free) /\ u.lock = t.lock /\ DOMAIN u = DOMAIN t
    BY <1>0, <2>1, <2>2
  <2> HIDE DEF u
  <2>4. n \in Nat /\ n # 0 /\ DOMAIN t.free = 1 .. n /\ n \in DOMAIN t.free
    BY <1>0, <1>4
  <2>5. /\ Front(t.free) \in Seq(Nat) /\ DOMAIN Front(t.free) = 1 .. n - 1
        /\ \A k \in 1 .. n - 1 : Front(t.free)[k] = t.free[k]
    <3> DEFINE q == t.free
    <3>1. q \in Seq(Nat) /\ Len(q) = n /\ n - 1 \in Nat /\ n - 1 <= Len(q)
      BY <1>0, <2>4
    <3> HIDE DEF q
    <3> DEFINE r == SubSeq(q, 1, n - 1)
    <3>2. Front(t.free) = r
      BY DEF Front, q
    <3> HIDE DEF n
    <3>3. r \in Seq(Nat) /\ Len(r) = n - 1
      BY <3>1
    <3>4. \A k \in 1 .. n - 1 : r[k] = q[k]
      BY <3>1
    <3> HIDE DEF r
    <3>5. DOMAIN r = 1 .. n - 1
      BY <3>3
    <3>6. QED
      BY <3>2, <3>3, <3>4, <3>5 DEF q
  <2>6. f = t.free[n] /\ f + 1 \in DOMAIN t.byIdx /\ t.byIdx[f + 1] = NoString /\ f \in Nat
    <3>1. f = t.free[n]
      BY DEF Last
    <3> HIDE DEF f, n
    <3>2. t.free[n] + 1 \in DOMAIN t.byIdx /\ t.byIdx[t.free[n] + 1] = NoString
      BY <2>4 DEF TabOK
    <3>3. t.free[n] \in Nat
      BY <1>0, <2>4
    <3>4. QED
      BY <3>1, <3>2, <3>3
  <2> HIDE DEF f, n
  <2>7. /\ u.byIdx \in Seq(String \cup {NoString}) /\ DOMAIN u.byIdx = DOMAIN t.byIdx
        /\ u.byIdx[f + 1] = s /\ \A i \in DOMAIN t.byIdx : i # f + 1 => u.byIdx[i] = t.byIdx[i]
    <3>1. u.byIdx = [t.byIdx EXCEPT ![f + 1] = s]
      BY <2>2, <2>3
    <3>2. QED
      BY <1>0, <2>6, <3>1
  <2>8. \A i \in DOMAIN t.byIdx : t.byIdx[i] # s
    BY <1>1, <1>4 DEF Live, ToSet
  <2>9. \A i, j \in DOMAIN u.byIdx : u.byIdx[i] = u.byIdx[j] /\ u.byIdx[i] # NoString => i = j
    BY <2>7, <2>8 DEF TabOK
  <2>10. /\ \A k \in 1 .. n - 1 : t.free[k] + 1 \in DOMAIN t.byIdx /\ u.byIdx[t.free[k] + 1] = NoString
         /\ \A k, l \in 1 .. n - 1 : t.free[k] = t.free[l] => k = l
    <3>1. \A k \in 1 .. n - 1 : k \in DOMAIN t.free /\ k # n
      BY <2>4
    <3>2. \A k \in 1 .. n - 1 : t.free[k] # f /\ t.free[k] \in Nat
      <4>1. \A k \in DOMAIN t.free : t.free[k] = t.free[n] => k = n
        BY <2>4 DEF TabOK
      <4>2. \A k \in DOMAIN t.free : t.free[k] \in Nat
        BY <1>0
      <4>3. QED
        BY <2>6, <3>1, <4>1, <4>2
    <3>3. \A k \in 1 .. n - 1 : t.free[k] + 1 # f + 1
      BY <2>6, <3>2
    <3>4. QED
      BY <2>7, <3>1, <3>3 DEF TabOK
  <2>11. TabOK(u)
    <3>1. DOMAIN u.free = 1 .. n - 1 /\ \A k \in 1 .. n - 1 : u.free[k] = t.free[k]
      BY <2>3, <2>5
    <3>2. u.free \in Seq(Nat) /\ u.lock \in [String -> Int] /\ DOMAIN u = DOMAIN Empty
      BY <1>0, <2>3, <2>5 DEF Empty
    <3>3. \A k \in DOMAIN u.free : u.free[k] + 1 \in DOMAIN u.byIdx /\ u.byIdx[u.free[k] + 1] = NoString
      BY <2>7, <2>10, <3>1
    <3>4. \A k, l \in DOMAIN u.free : u.free[k] = u.free[l] => k = l
      BY <2>10, <3>1
    <3>5. QED
      BY <2>7, <2>9, <3>2, <3>3, <3>4 DEF TabOK
  <2>12. Grown(t, u)
    BY <2>3, <2>6, <2>7 DEF Grown
  <2>13. s \in Live(u)
    BY <1>1, <2>6, <2>7 DEF Live, ToSet
  <2>14. QED
    BY <2>11, <2>12, <2>13 DEF u
<1>5. QED
  BY <1>2, <1>3, <1>4
-----------------------------------------------------------------------------
(* Several strings. *)

InternStep(a, b, u, s) == IF s = NoString THEN u ELSE Intern(u, s)
InternGood(c, i, u) ==
  TabOK(u) /\ Grown(c[1], u) /\ \A k \in 1 .. i : c[2][k] # NoString => c[2][k] \in Live(u)

Interning == INSTANCE Folding WITH Op <- InternStep, Good <- InternGood

(* InternAll is a fold of InternStep. *)
LEMMA InternAllFolds ==
  ASSUME NEW t, NEW ss
  PROVE  InternAll(t, ss) = Interning!Folded(0, 0, t, ss)
BY SMT DEF InternAll, Interning!Folded, InternStep, FoldLeft, MapThenFoldSet,
           Interning!Rule, Interning!Value, Interning!Greatest, Max

(* Strings that are looked up are in the table then. *)
LEMMA InternAllKeeps ==
  ASSUME NEW t, TabOK(t), NEW ss \in Seq(String \cup {NoString})
  PROVE  /\ TabOK(InternAll(t, ss)) /\ Grown(t, InternAll(t, ss))
         /\ ToSet(ss) \subseteq Live(InternAll(t, ss)) \cup {NoString}
<1> DEFINE n == Len(ss)
           c == <<t, ss>>
<1>1. n \in Nat /\ DOMAIN ss = 1 .. n
  OBVIOUS
<1>2. InternGood(c, 0, t)
  BY GrownSelf DEF InternGood
<1>3. ASSUME NEW i \in 1 .. n, NEW u, InternGood(c, i - 1, u)
      PROVE  InternGood(c, i, InternStep(0, 0, u, ss[i]))
  <2> DEFINE v == InternStep(0, 0, u, ss[i])
  <2>0. i \in Nat /\ \A k \in 1 .. i : k = i \/ k \in 1 .. i - 1
    BY <1>1
  <2>1. TabOK(u) /\ Grown(t, u) /\ \A k \in 1 .. i - 1 : ss[k] # NoString => ss[k] \in Live(u)
    BY <1>3 DEF InternGood
  <2>2. TabOK(v) /\ Grown(u, v) /\ (ss[i] # NoString => ss[i] \in Live(v))
    <3>1. CASE ss[i] = NoString
      BY <2>1, <3>1, GrownSelf DEF InternStep
    <3>2. CASE ss[i] # NoString
      <4>1. ss[i] \in String
        BY <1>1, <3>2
      <4>2. v = Intern(u, ss[i])
        BY <3>2 DEF InternStep
      <4> HIDE DEF v
      <4>3. QED
        BY <2>1, <4>1, <4>2, InternKeeps
    <3>3. QED
      BY <3>1, <3>2
  <2> HIDE DEF v
  <2>3. Grown(t, v) /\ Live(u) \subseteq Live(v)
    BY <2>1, <2>2, GrownTrans, GrownLive
  <2>4. \A k \in 1 .. i : ss[k] # NoString => ss[k] \in Live(v)
    BY <2>0, <2>1, <2>2, <2>3
  <2>5. QED
    BY <2>2, <2>3, <2>4 DEF InternGood, v
<1>4. InternGood(c, n, Interning!Folded(0, 0, t, ss))
  <2> HIDE DEF c, n
  <2>1. \A i \in 1 .. n : \A u : InternGood(c, i - 1, u) => InternGood(c, i, InternStep(0, 0, u, ss[i]))
    BY <1>3
  <2>2. QED
    BY <1>1, <1>2, <2>1, Interning!FoldKeeps
<1>5. InternGood(c, n, InternAll(t, ss))
  BY <1>4, InternAllFolds
<1>6. QED
  BY <1>1, <1>5 DEF InternGood, ToSet
-----------------------------------------------------------------------------
(* Locks. *)

LockStep(a, b, u, s) == IF s = NoString THEN u ELSE [u EXCEPT !.lock[s] = @ + a]
LockGood(c, i, u) ==
  /\ DOMAIN u = DOMAIN c[1] /\ u.byIdx = c[1].byIdx /\ u.free = c[1].free /\ u.lock \in [String -> Int]
  /\ \A s \in String : u.lock[s] = c[1].lock[s] + (IF \E k \in 1 .. i : c[2][k] = s THEN c[3] ELSE 0)

Locking == INSTANCE Folding WITH Op <- LockStep, Good <- LockGood

(* AddLocks is a fold of LockStep. *)
LEMMA AddLocksFolds ==
  ASSUME NEW t, NEW ss, NEW n
  PROVE  AddLocks(t, ss, n) = Locking!Folded(n, 0, t, ss)
BY SMT DEF AddLocks, Locking!Folded, LockStep, FoldLeft, MapThenFoldSet,
           Locking!Rule, Locking!Value, Locking!Greatest, Max

(* Every string of a set is locked once more, and nothing else. *)
LEMMA LocksAdded ==
  ASSUME NEW t, TabOK(t), NEW S \in SUBSET String, IsFiniteSet(S), NEW d \in Int
  PROVE  LET u == AddLocks(t, SetToSeq(S), d)
         IN /\ TabOK(u) /\ u.byIdx = t.byIdx /\ u.free = t.free
            /\ \A s \in String : u.lock[s] = t.lock[s] + (IF s \in S THEN d ELSE 0)
<1> DEFINE ss == SetToSeq(S)
           n == Cardinality(S)
           c == <<t, ss, d>>
<1>1. /\ n \in Nat /\ ss \in [1 .. n -> S] /\ DOMAIN ss = 1 .. n
      /\ \A i, j \in 1 .. n : ss[i] = ss[j] => i = j
  BY InOrder
<1>2. ToSet(ss) = S
  BY InOrder
<1> HIDE DEF ss, n
<1>3. t.lock \in [String -> Int] /\ DOMAIN t = {"byIdx", "free", "lock"}
  BY DEF TabOK, Empty
<1>4. LockGood(c, 0, t)
  BY <1>3 DEF LockGood
<1>5. ASSUME NEW i \in 1 .. n, NEW u, LockGood(c, i - 1, u)
      PROVE  LockGood(c, i, LockStep(d, 0, u, ss[i]))
  <2> DEFINE v == [u EXCEPT !.lock[ss[i]] = @ + d]
  <2>0. i \in Nat /\ i \notin 1 .. i - 1 /\ (\A k \in 1 .. i : k = i \/ k \in 1 .. i - 1)
        /\ (\A k \in 1 .. i - 1 : k \in 1 .. i /\ k \in 1 .. n)
    BY <1>1
  <2>1. ss[i] \in String /\ ss[i] # NoString
    BY <1>1, StringAssumption
  <2>2. LockStep(d, 0, u, ss[i]) = v
    BY <2>1 DEF LockStep
  <2>3. /\ DOMAIN u = DOMAIN t /\ u.byIdx = t.byIdx /\ u.free = t.free /\ u.lock \in [String -> Int]
        /\ \A s \in String : u.lock[s] = t.lock[s] + (IF \E k \in 1 .. i - 1 : ss[k] = s THEN d ELSE 0)
    BY <1>5 DEF LockGood
  <2>4. /\ DOMAIN v = DOMAIN u /\ v.byIdx = u.byIdx /\ v.free = u.free
        /\ v.lock = [u.lock EXCEPT ![ss[i]] = @ + d]
    BY <1>3, <2>3
  <2> HIDE DEF v
  <2>5. v.lock \in [String -> Int]
    BY <2>1, <2>3, <2>4
  <2>6. ~ \E k \in 1 .. i - 1 : ss[k] = ss[i]
    BY <1>1, <2>0
  <2>7. ASSUME NEW s \in String
        PROVE  v.lock[s] = t.lock[s] + (IF \E k \in 1 .. i : ss[k] = s THEN d ELSE 0)
    <3>1. CASE s = ss[i]
      <4>1. v.lock[s] = u.lock[s] + d /\ u.lock[s] = t.lock[s] + 0 /\ t.lock[s] \in Int
        BY <1>3, <2>1, <2>3, <2>4, <2>6, <3>1
      <4>2. \E k \in 1 .. i : ss[k] = s
        BY <2>0, <3>1
      <4>3. QED
        BY <4>1, <4>2
    <3>2. CASE s # ss[i]
      <4>1. v.lock[s] = u.lock[s]
        BY <2>3, <2>4, <3>2
      <4>2. (\E k \in 1 .. i : ss[k] = s) <=> (\E k \in 1 .. i - 1 : ss[k] = s)
        BY <2>0, <3>2
      <4>3. QED
        BY <2>3, <4>1, <4>2
    <3>3. QED
      BY <3>1, <3>2
  <2>8. LockGood(c, i, v)
    BY <2>3, <2>4, <2>5, <2>7 DEF LockGood
  <2>9. QED
    BY <2>2, <2>8
<1>6. LockGood(c, n, Locking!Folded(d, 0, t, ss))
  <2> HIDE DEF c
  <2>1. \A i \in 1 .. n : \A u : LockGood(c, i - 1, u) => LockGood(c, i, LockStep(d, 0, u, ss[i]))
    BY <1>5
  <2>2. QED
    BY <1>1, <1>4, <2>1, Locking!FoldKeeps
<1> DEFINE u == AddLocks(t, ss, d)
<1>7. LockGood(c, n, u)
  BY <1>6, AddLocksFolds
<1> HIDE DEF u
<1>8. /\ DOMAIN u = DOMAIN t /\ u.byIdx = t.byIdx /\ u.free = t.free /\ u.lock \in [String -> Int]
      /\ \A s \in String : u.lock[s] = t.lock[s] + (IF \E k \in 1 .. n : ss[k] = s THEN d ELSE 0)
  BY <1>7 DEF LockGood
<1>9. \A s : (\E k \in 1 .. n : ss[k] = s) <=> s \in S
  BY <1>1, <1>2 DEF ToSet
<1>10. TabOK(u)
  BY <1>8 DEF TabOK
<1>11. QED
  BY <1>8, <1>9, <1>10 DEF u, ss
-----------------------------------------------------------------------------
(* Strings that are freed. *)

(* A collection frees the strings of S, and no other word changes its string. *)
LEMMA Collected ==
  ASSUME NEW t, TabOK(t), NEW S \in SUBSET Live(t)
  PROVE  LET u == Collect(t, SetToSeq(S))
         IN /\ TabOK(u) /\ u.lock = t.lock
            /\ Live(t) \ S \subseteq Live(u)
            /\ \A w : GetString(u, w) = IF GetString(t, w) \in S THEN NoString ELSE GetString(t, w)
<1> DEFINE order == SetToSeq(S)
           n == Cardinality(S)
           u == Collect(t, order)
<1>0. /\ DOMAIN t = {"byIdx", "free", "lock"}
      /\ t.byIdx \in Seq(String \cup {NoString}) /\ t.free \in Seq(Nat) /\ t.lock \in [String -> Int]
  BY DEF TabOK, Empty
<1>1. IsFiniteSet(S)
  BY LiveStrings, FS_Subset
<1>2. /\ n \in Nat /\ order \in [1 .. n -> S] /\ DOMAIN order = 1 .. n
      /\ \A i, j \in 1 .. n : order[i] = order[j] => i = j
      /\ ToSet(order) = S
  BY <1>1, InOrder
<1> HIDE DEF order, n
<1> DEFINE ix == [i \in 1 .. n |-> IdxOf(t, order[i])]
           by == [i \in DOMAIN t.byIdx |-> IF t.byIdx[i] \in S THEN NoString ELSE t.byIdx[i]]
<1>3. /\ DOMAIN u = DOMAIN t /\ u.byIdx = by /\ u.lock = t.lock /\ u.free = t.free \o ix
  BY <1>0, <1>2 DEF Collect
<1> HIDE DEF u
<1>4. ASSUME NEW i \in 1 .. n
      PROVE  /\ ix[i] \in Nat /\ ix[i] + 1 \in DOMAIN t.byIdx /\ t.byIdx[ix[i] + 1] = order[i]
             /\ order[i] \in S /\ order[i] # NoString
  <2>1. order[i] \in Live(t) /\ order[i] \in S
    BY <1>2
  <2>2. ix[i] = IdxOf(t, order[i])
    OBVIOUS
  <2> HIDE DEF ix
  <2>3. QED
    BY <2>1, <2>2, InTable, LiveStrings
<1>5. ix \in Seq(Nat) /\ Len(ix) = n
  BY <1>2, <1>4
<1>6. \A i, j \in 1 .. n : ix[i] = ix[j] => i = j
  <2> HIDE DEF ix
  <2>1. QED
    BY <1>2, <1>4
<1> DEFINE m == Len(t.free)
<1>7. /\ m \in Nat /\ DOMAIN t.free = 1 .. m /\ u.free \in Seq(Nat) /\ DOMAIN u.free = 1 .. m + n
      /\ \A k \in 1 .. m + n : \/ k \in 1 .. m /\ u.free[k] = t.free[k]
                               \/ k - m \in 1 .. n /\ u.free[k] = ix[k - m]
  <2> HIDE DEF ix
  <2>1. m \in Nat /\ DOMAIN t.free = 1 .. m
    BY <1>0
  <2>2. u.free \in Seq(Nat) /\ DOMAIN u.free = 1 .. m + n
    <3>1. u.free = t.free \o ix
      BY <1>3
    <3>2. Len(t.free \o ix) = Len(t.free) + Len(ix) /\ t.free \o ix \in Seq(Nat)
      BY <1>0, <1>5
    <3>3. Len(u.free) = m + n /\ u.free \in Seq(Nat)
      BY <1>5, <3>1, <3>2
    <3>4. QED
      BY <3>3
  <2>3. ASSUME NEW k \in 1 .. m + n
        PROVE  \/ k \in 1 .. m /\ u.free[k] = t.free[k]
               \/ k - m \in 1 .. n /\ u.free[k] = ix[k - m]
    BY <1>0, <1>2, <1>3, <1>5, <2>1
  <2>4. QED
    BY <2>1, <2>2, <2>3
<1> HIDE DEF ix, m
<1>8. /\ by \in Seq(String \cup {NoString}) /\ DOMAIN by = DOMAIN t.byIdx
      /\ \A i \in DOMAIN by : by[i] = IF t.byIdx[i] \in S THEN NoString ELSE t.byIdx[i]
  <2>1. /\ DOMAIN by = DOMAIN t.byIdx
        /\ \A i \in DOMAIN by : by[i] = IF t.byIdx[i] \in S THEN NoString ELSE t.byIdx[i]
        /\ by = [i \in DOMAIN by |-> by[i]]
    OBVIOUS
  <2> HIDE DEF by
  <2>2. \A i \in DOMAIN by : by[i] \in String \cup {NoString}
    BY <1>0, <2>1
  <2>3. by \in [1 .. Len(t.byIdx) -> String \cup {NoString}] /\ Len(t.byIdx) \in Nat
    BY <1>0, <2>1, <2>2
  <2>4. QED
    BY <2>1, <2>3
<1> HIDE DEF by
<1>9. \A i, j \in DOMAIN by : by[i] = by[j] /\ by[i] # NoString => i = j
  BY <1>8 DEF TabOK
<1>10. ASSUME NEW k \in 1 .. m + n
       PROVE  u.free[k] + 1 \in DOMAIN by /\ by[u.free[k] + 1] = NoString
  <2>1. CASE k \in 1 .. m /\ u.free[k] = t.free[k]
    <3>1. t.free[k] + 1 \in DOMAIN t.byIdx /\ t.byIdx[t.free[k] + 1] = NoString
      BY <1>7, <2>1 DEF TabOK
    <3>2. QED
      BY <1>8, <2>1, <3>1
  <2>2. CASE k - m \in 1 .. n /\ u.free[k] = ix[k - m]
    <3>1. ix[k - m] + 1 \in DOMAIN t.byIdx /\ t.byIdx[ix[k - m] + 1] \in S
      BY <1>4, <2>2
    <3>2. QED
      BY <1>8, <2>2, <3>1
  <2>3. QED
    BY <1>7, <2>1, <2>2
<1>11. ASSUME NEW k \in 1 .. m + n, NEW l \in 1 .. m + n, u.free[k] = u.free[l]
       PROVE  k = l
  <2>1. ASSUME NEW i \in 1 .. m, NEW j \in 1 .. n PROVE t.free[i] # ix[j]
    <3>1. t.byIdx[t.free[i] + 1] = NoString
      BY <1>7 DEF TabOK
    <3>2. t.byIdx[ix[j] + 1] # NoString
      BY <1>4
    <3>3. QED
      BY <3>1, <3>2
  <2>2. CASE k \in 1 .. m /\ l \in 1 .. m /\ u.free[k] = t.free[k] /\ u.free[l] = t.free[l]
    BY <1>7, <1>11, <2>2 DEF TabOK
  <2>3. CASE k - m \in 1 .. n /\ l - m \in 1 .. n /\ u.free[k] = ix[k - m] /\ u.free[l] = ix[l - m]
    <3>1. k - m = l - m
      BY <1>6, <1>11, <2>3
    <3>2. QED
      BY <1>2, <1>7, <3>1
  <2>4. QED
    BY <1>7, <1>11, <2>1, <2>2, <2>3
<1>12. TabOK(u)
  BY <1>0, <1>3, <1>7, <1>8, <1>9, <1>10, <1>11 DEF TabOK, Empty
<1>13. Live(t) \ S \subseteq Live(u)
  BY <1>3, <1>8 DEF Live, ToSet
<1>14. ASSUME NEW w
       PROVE  GetString(u, w) = IF GetString(t, w) \in S THEN NoString ELSE GetString(t, w)
  <2>1. NoString \notin S
    BY LiveStrings
  <2>2. QED
    BY <1>3, <1>8, <2>1 DEF GetString, At
<1>15. QED
  BY <1>3, <1>12, <1>13, <1>14 DEF u, order
-----------------------------------------------------------------------------
(* Tables that are loaded. *)

FreeStep(a, b, u, s) == IF a[s + 1] = NoString THEN Append(u, s) ELSE u
FreeGood(c, i, u) ==
  /\ u \in Seq(Nat)
  /\ \A k \in DOMAIN u : u[k] \in 0 .. i - 1 /\ c[u[k] + 1] = NoString
  /\ \A k, l \in DOMAIN u : u[k] = u[l] => k = l

Freeing == INSTANCE Folding WITH Op <- FreeStep, Good <- FreeGood

(* The free indexes are chosen by a recursive function. *)
LEMMA FreeInChains ==
  ASSUME NEW byIdx
  PROVE  FreeIn(byIdx) = Freeing!Chain(byIdx, 0, <<>>, [i \in DOMAIN byIdx |-> i - 1])
BY DEF FreeIn, Chosen, Freeing!Chain, FreeStep

(* A table of which strings and locks are known has its free indexes. *)
LEMMA LoadedOK ==
  ASSUME NEW t, TabOK(t)
  PROVE  TabOK(Loaded(Saved(t))) /\ Loaded(Saved(t)).byIdx = t.byIdx /\ Loaded(Saved(t)).lock = t.lock
<1> DEFINE by == t.byIdx
           n == Len(by)
           ss == [i \in DOMAIN by |-> i - 1]
           u == Loaded(Saved(t))
<1>1. by \in Seq(String \cup {NoString}) /\ t.lock \in [String -> Int]
  BY DEF TabOK
<1>2. n \in Nat /\ DOMAIN by = 1 .. n /\ Len(ss) = n
  BY <1>1
<1>3. /\ u.byIdx = by /\ u.lock = t.lock /\ u.free = FreeIn(by)
      /\ DOMAIN u = {"byIdx", "free", "lock"}
  BY DEF Loaded, Saved
<1> HIDE DEF u
<1>4. FreeGood(by, 0, <<>>)
  BY DEF FreeGood
<1>5. ASSUME NEW i \in 1 .. n, NEW f, FreeGood(by, i - 1, f)
      PROVE  FreeGood(by, i, FreeStep(by, 0, f, ss[i]))
  <2> DEFINE g == FreeStep(by, 0, f, ss[i])
  <2>1. ss[i] = i - 1 /\ ss[i] \in Nat /\ ss[i] + 1 = i /\ i \in Nat
    BY <1>2
  <2> HIDE DEF ss
  <2>2. /\ f \in Seq(Nat) /\ \A k \in DOMAIN f : f[k] \in 0 .. i - 2 /\ by[f[k] + 1] = NoString
        /\ \A k, l \in DOMAIN f : f[k] = f[l] => k = l
    BY <1>5, <2>1 DEF FreeGood
  <2>3. CASE by[i] # NoString
    <3>1. FreeStep(by, 0, f, ss[i]) = f
      BY <2>1, <2>3 DEF FreeStep
    <3>2. 0 .. i - 2 \subseteq 0 .. i - 1
      BY <2>1
    <3>3. QED
      BY <2>2, <3>1, <3>2 DEF FreeGood
  <2>4. CASE by[i] = NoString
    <3> DEFINE m == Len(f)
    <3>1. FreeStep(by, 0, f, ss[i]) = Append(f, i - 1)
      BY <2>1, <2>4 DEF FreeStep
    <3>2. m \in Nat /\ DOMAIN f = 1 .. m /\ DOMAIN Append(f, i - 1) = 1 .. m + 1 /\ Append(f, i - 1) \in Seq(Nat)
      BY <2>1, <2>2
    <3>3. Append(f, i - 1)[m + 1] = i - 1 /\ \A k \in 1 .. m : Append(f, i - 1)[k] = f[k]
      BY <2>1, <2>2
    <3> DEFINE h == Append(f, i - 1)
    <3> HIDE DEF h, m
    <3>4. \A k \in 1 .. m + 1 : k = m + 1 \/ k \in 1 .. m
      BY <3>2
    <3>5. \A k \in 1 .. m : f[k] \in 0 .. i - 1 /\ f[k] # i - 1
      <4>1. \A x \in 0 .. i - 2 : x \in 0 .. i - 1 /\ x # i - 1
        BY <2>1
      <4>2. QED
        BY <2>2, <3>2, <4>1
    <3>6. ASSUME NEW k \in 1 .. m + 1 PROVE h[k] \in 0 .. i - 1 /\ by[h[k] + 1] = NoString
      <4>1. CASE k \in 1 .. m
        BY <2>2, <3>2, <3>3, <3>5, <4>1 DEF h
      <4>2. CASE k = m + 1
        <5>1. h[k] = i - 1
          BY <3>3, <4>2 DEF h
        <5>2. i - 1 \in 0 .. i - 1 /\ (i - 1) + 1 = i
          BY <2>1
        <5>3. QED
          BY <2>4, <5>1, <5>2
      <4>3. QED
        BY <3>4, <4>1, <4>2
    <3>7. \A k, l \in 1 .. m + 1 : h[k] = h[l] => k = l
      BY <2>2, <3>2, <3>3, <3>4, <3>5 DEF h
    <3>8. FreeGood(by, i, h)
      BY <3>2, <3>6, <3>7 DEF FreeGood, h
    <3>9. QED
      BY <3>1, <3>8 DEF h
  <2>5. QED
    BY <2>3, <2>4
<1>6. FreeGood(by, n, Freeing!Chain(by, 0, <<>>, ss))
  <2> HIDE DEF by, n, ss
  <2>1. \A i \in 1 .. n : \A f : FreeGood(by, i - 1, f) => FreeGood(by, i, FreeStep(by, 0, f, ss[i]))
    BY <1>5
  <2>2. QED
    BY <1>2, <1>4, <2>1, Freeing!ChainKeeps
<1>7. FreeGood(by, n, u.free)
  BY <1>3, <1>6, FreeInChains
<1>8. \A k \in DOMAIN u.free : u.free[k] + 1 \in DOMAIN by
  <2>1. \A x \in 0 .. n - 1 : x + 1 \in DOMAIN by
    BY <1>2
  <2> HIDE DEF by, n
  <2>2. QED
    BY <1>7, <2>1 DEF FreeGood
<1>9. TabOK(u)
  BY <1>1, <1>3, <1>7, <1>8 DEF TabOK, FreeGood, Empty
<1>10. QED
  BY <1>3, <1>9 DEF u
-----------------------------------------------------------------------------
(* Environments while the module m is read: strings and names are added, and *)
(* no other module changes.                                                  *)
Grew(e, g, m) ==
  /\ Grown(e.tab, g.tab)
  /\ \A k \in DOMAIN e.byName : k \in DOMAIN g.byName /\ g.byName[k] = e.byName[k]
  /\ DOMAIN g.mods = DOMAIN e.mods
  /\ \A n \in DOMAIN e.mods : n # m => g.mods[n] = e.mods[n]

(* What grew while m was read may grow again. *)
LEMMA GrewTrans ==
  ASSUME NEW e, NEW g, NEW h, NEW m, Grew(e, g, m), Grew(g, h, m)
  PROVE  Grew(e, h, m)
<1>1. Grown(e.tab, h.tab)
  BY GrownTrans DEF Grew
<1>2. \A k \in DOMAIN e.byName : k \in DOMAIN h.byName /\ h.byName[k] = e.byName[k]
  BY DEF Grew
<1>3. DOMAIN h.mods = DOMAIN e.mods
  BY DEF Grew
<1>4. \A n \in DOMAIN e.mods : n # m => h.mods[n] = e.mods[n]
  BY DEF Grew
<1>5. QED
  BY <1>1, <1>2, <1>3, <1>4 DEF Grew

(* Nothing has to grow. *)
LEMMA GrewSelf ==
  ASSUME NEW e, NEW m
  PROVE  Grew(e, e, m)
BY GrownSelf DEF Grew

(* g is e with another table, another module m, or after a failure. *)
Updated(e, g, m) ==
  /\ DOMAIN g = DOMAIN e /\ g.failed \in BOOLEAN
  /\ g.byName = e.byName /\ g.byIdx = e.byIdx /\ g.func = e.func
  /\ DOMAIN g.mods = DOMAIN e.mods
  /\ \A n \in DOMAIN e.mods : n # m => g.mods[n] = e.mods[n]

(* Names may be those of more strings. *)
LEMMA NamesGrow ==
  ASSUME NEW L, NEW K, L \subseteq K, NEW v, Among(v, L)
  PROVE  Among(v, K)
BY DEF Among

(* A module is right with more strings, functions and modules. *)
LEMMA ModGrows ==
  ASSUME NEW md, NEW L, NEW K, NEW F, NEW G, NEW M, NEW N,
         L \subseteq K, F \subseteq G, M \subseteq N, ModOK(md, L, F, M)
  PROVE  ModOK(md, K, G, N)
<1>1. \A field \in NameFields : Among(md[field], K)
  BY NamesGrow DEF ModOK
<1>2. md.functionV \in Seq(G \cup {NoFunc}) /\ md.importV \in Seq(N \cup {NoModule})
  <2>1. md.functionV \in Seq(F \cup {NoFunc}) /\ F \cup {NoFunc} \subseteq G \cup {NoFunc}
    BY DEF ModOK
  <2>2. md.importV \in Seq(M \cup {NoModule}) /\ M \cup {NoModule} \subseteq N \cup {NoModule}
    BY DEF ModOK
  <2>3. QED
    BY <2>1, <2>2
<1>3. /\ DOMAIN md = DOMAIN Blank /\ md.loaded \in BOOLEAN /\ ToSet(md.stringV) \subseteq K
      /\ \A i \in DOMAIN md.scriptV :
           "name" \in DOMAIN md.scriptV[i] /\ md.scriptV[i].name \in K \cup {NoString}
  BY DEF ModOK
<1>4. QED
  BY <1>1, <1>2, <1>3 DEF ModOK

(* The indexes of names are right with more strings. *)
LEMMA NamesOKGrow ==
  ASSUME NEW byName, NEW n, NEW L, NEW K, L \subseteq K, NamesOK(byName, n, L)
  PROVE  NamesOK(byName, n, K)
<1>1. DOMAIN byName \subseteq K \X K
  BY DEF NamesOK
<1>2. QED
  BY <1>1 DEF NamesOK

(* If the module that is read is right, the environment is. *)
LEMMA UpdatedOK ==
  ASSUME NEW e, NEW g, NEW R, NEW m \in R, EnvOK(e, R), m \in DOMAIN e.mods, Updated(e, g, m),
         TabOK(g.tab), Grown(e.tab, g.tab),
         ModOK(g.mods[m], Live(g.tab), DOMAIN e.func, DOMAIN e.mods),
         ToSet(e.mods[m].functionV) \ {NoFunc} \subseteq ToSet(g.mods[m].functionV)
  PROVE  EnvOK(g, R) /\ Grew(e, g, m)
<1>0. TabOK(e.tab)
  BY DEF EnvOK
<1>1. Live(e.tab) \subseteq Live(g.tab)
  BY <1>0, GrownLive
<1>2. NamesOK(g.byName, Len(g.byIdx), Live(g.tab))
  BY <1>1, NamesOKGrow DEF EnvOK, Updated
<1>3. FuncOK(g, R)
  <2>1. FuncOK(e, R) /\ g.byName = e.byName /\ g.byIdx = e.byIdx /\ g.func = e.func /\ DOMAIN g.mods = DOMAIN e.mods
    BY DEF EnvOK, Updated
  <2>2. DOMAIN g.func \subseteq Module \X (Live(g.tab) \cup Nat)
    BY <1>1, <2>1 DEF FuncOK
  <2>3. g.byIdx \in Seq(DOMAIN g.func \cup {NoFunc}) /\ g.byIdx # <<>>
    BY <2>1 DEF FuncOK
  <2>4. \A i \in DOMAIN g.byIdx : g.byIdx[i] # NoFunc => g.func[g.byIdx[i]].idx = i - 1
    BY <2>1 DEF FuncOK
  <2>5. ASSUME NEW f \in DOMAIN g.func
        PROVE  /\ "idx" \in DOMAIN g.func[f] /\ g.func[f].idx \in Nat
               /\ g.func[f].idx # 0 =>
                    /\ f \in DOMAIN g.byName /\ g.byName[f] = g.func[f].idx
                    /\ g.byIdx[g.func[f].idx + 1] = f
               /\ f[1] \in DOMAIN g.mods /\ f \in ToSet(g.mods[f[1]].functionV)
               /\ f[2] \in String /\ (f[1] \in R \/ ~g.mods[f[1]].loaded) => g.func[f].idx # 0
    <3>1. /\ "idx" \in DOMAIN g.func[f] /\ g.func[f].idx \in Nat
          /\ g.func[f].idx # 0 =>
               /\ f \in DOMAIN g.byName /\ g.byName[f] = g.func[f].idx
               /\ g.byIdx[g.func[f].idx + 1] = f
      BY <2>1 DEF FuncOK
    <3>2. /\ f[1] \in DOMAIN e.mods /\ f \in ToSet(e.mods[f[1]].functionV)
          /\ f[2] \in String /\ (f[1] \in R \/ ~e.mods[f[1]].loaded) => e.func[f].idx # 0
      BY <2>1 DEF FuncOK
    <3>3. f # NoFunc
      <4>1. f \in Module \X (Live(e.tab) \cup Nat)
        BY <2>1 DEF FuncOK
      <4>2. Module \subseteq String /\ Live(e.tab) \subseteq String
        BY <1>0, LiveStrings, ModuleAssumption
      <4>3. QED
        BY <4>1, <4>2, NamesAssumption
    <3>4. CASE f[1] = m
      BY <2>1, <3>1, <3>2, <3>3, <3>4
    <3>5. CASE f[1] # m
      <4>1. g.mods[f[1]] = e.mods[f[1]]
        BY <3>2, <3>5 DEF Updated
      <4>2. QED
        BY <2>1, <3>1, <3>2, <4>1
    <3>6. QED
      BY <3>4, <3>5
  <2>6. QED
    BY <2>2, <2>3, <2>4, <2>5 DEF FuncOK
<1>4. ASSUME NEW n \in DOMAIN g.mods
      PROVE  ModOK(g.mods[n], Live(g.tab), DOMAIN g.func, DOMAIN g.mods)
  <2>1. CASE n = m
    BY <2>1 DEF Updated
  <2>2. CASE n # m
    <3>1. g.mods[n] = e.mods[n] /\ n \in DOMAIN e.mods
      BY <1>4, <2>2 DEF Updated
    <3>2. ModOK(e.mods[n], Live(e.tab), DOMAIN e.func, DOMAIN e.mods)
      BY <3>1 DEF EnvOK
    <3>3. ModOK(e.mods[n], Live(g.tab), DOMAIN e.func, DOMAIN e.mods)
      BY <1>1, <3>2, ModGrows
    <3>4. QED
      BY <3>1, <3>3 DEF Updated
  <2>3. QED
    BY <2>1, <2>2
<1>5. DOMAIN g.mods \subseteq Module \cap Live(g.tab)
  BY <1>1 DEF EnvOK, Updated
<1>6. EnvOK(g, R)
  BY <1>2, <1>3, <1>4, <1>5 DEF EnvOK, Updated
<1>7. Grew(e, g, m)
  BY DEF Grew, Updated
<1>8. QED
  BY <1>6, <1>7
-----------------------------------------------------------------------------
(* A module that is right may take the place of m, if it has its functions. *)
LEMMA UpdateModule ==
  ASSUME NEW e, NEW R, NEW m \in R, EnvOK(e, R), m \in DOMAIN e.mods, NEW md,
         ModOK(md, Live(e.tab), DOMAIN e.func, DOMAIN e.mods),
         ToSet(e.mods[m].functionV) \ {NoFunc} \subseteq ToSet(md.functionV)
  PROVE  LET g == [e EXCEPT !.mods[m] = md] IN EnvOK(g, R) /\ Grew(e, g, m)
<1> DEFINE g == [e EXCEPT !.mods[m] = md]
<1>0. DOMAIN e = {"tab", "byName", "byIdx", "func", "mods", "failed"} /\ TabOK(e.tab) /\ e.failed \in BOOLEAN
  BY DEF EnvOK, NewEnvironment
<1>1. DOMAIN g = DOMAIN e /\ g.failed = e.failed /\ g.byName = e.byName /\ g.byIdx = e.byIdx
      /\ g.func = e.func /\ g.tab = e.tab /\ g.mods = [e.mods EXCEPT ![m] = md]
  BY <1>0
<1> HIDE DEF g
<1>2. DOMAIN g.mods = DOMAIN e.mods /\ g.mods[m] = md /\ \A n \in DOMAIN e.mods : n # m => g.mods[n] = e.mods[n]
  BY <1>1
<1>3. Updated(e, g, m)
  BY <1>0, <1>1, <1>2 DEF Updated
<1>4. TabOK(g.tab) /\ Grown(e.tab, g.tab)
  BY <1>0, <1>1, GrownSelf
<1>5. EnvOK(g, R) /\ Grew(e, g, m)
  BY <1>1, <1>2, <1>3, <1>4, UpdatedOK
<1>6. QED
  BY <1>5 DEF g

(* A failure is noted, and changes nothing else. *)
LEMMA FailOK ==
  ASSUME NEW e, NEW R, EnvOK(e, R)
  PROVE  EnvOK(Fail(e), R) /\ (\A m : Grew(e, Fail(e), m)) /\ Fail(e).failed /\ Fail(e).mods = e.mods
<1> DEFINE g == Fail(e)
<1>0. DOMAIN e = {"tab", "byName", "byIdx", "func", "mods", "failed"}
  BY DEF EnvOK, NewEnvironment
<1>1. DOMAIN g = DOMAIN e /\ g.failed = TRUE /\ g.byName = e.byName /\ g.byIdx = e.byIdx
      /\ g.func = e.func /\ g.tab = e.tab /\ g.mods = e.mods
  BY <1>0 DEF Fail
<1> HIDE DEF g
<1>2. EnvOK(g, R)
  <2>1. FuncOK(g, R)
    BY <1>1 DEF EnvOK, FuncOK
  <2>2. g.failed \in BOOLEAN
    BY <1>1
  <2>3. QED
    BY <1>1, <2>1, <2>2 DEF EnvOK
<1>3. \A m : Grew(e, g, m)
  BY <1>1, GrownSelf DEF Grew
<1>4. QED
  BY <1>1, <1>2, <1>3 DEF g

OtherFields == {"arrInitV", "arrSizeV", "jumpV", "regInitV", "isACS0"}

(* The fields without strings and functions may have any value. *)
LEMMA OtherField ==
  ASSUME NEW md, NEW L, NEW F, NEW M, ModOK(md, L, F, M), NEW nd, DOMAIN nd = DOMAIN md,
         \A x \in DOMAIN md \ OtherFields : nd[x] = md[x]
  PROVE  ModOK(nd, L, F, M) /\ nd.functionV = md.functionV
<1>0. DOMAIN md = DOMAIN Blank
  BY DEF ModOK
<1>1. \A field \in NameFields : nd[field] = md[field]
  BY <1>0 DEF Blank, NameFields, OtherFields
<1>2. nd.loaded = md.loaded /\ nd.stringV = md.stringV /\ nd.scriptV = md.scriptV
      /\ nd.functionV = md.functionV /\ nd.importV = md.importV
  BY <1>0 DEF Blank, OtherFields
<1>3. QED
  BY <1>1, <1>2 DEF ModOK

(* A field of names may have other names that are strings. *)
LEMMA NameField ==
  ASSUME NEW md, NEW L, NEW F, NEW M, ModOK(md, L, F, M), NEW field \in NameFields, NEW v, Among(v, L)
  PROVE  LET nd == [md EXCEPT ![field] = v] IN ModOK(nd, L, F, M) /\ nd.functionV = md.functionV
<1> DEFINE nd == [md EXCEPT ![field] = v]
<1>0. DOMAIN md = DOMAIN Blank
  BY DEF ModOK
<1>1. \A f \in NameFields : nd[f] = IF f = field THEN v ELSE md[f]
  BY <1>0 DEF Blank, NameFields
<1>2. nd.loaded = md.loaded /\ nd.stringV = md.stringV /\ nd.scriptV = md.scriptV
      /\ nd.functionV = md.functionV /\ nd.importV = md.importV /\ DOMAIN nd = DOMAIN md
  BY <1>0 DEF Blank, NameFields
<1> HIDE DEF nd
<1>3. \A f \in NameFields : Among(nd[f], L)
  BY <1>1 DEF ModOK
<1>4. ModOK(nd, L, F, M)
  BY <1>2, <1>3 DEF ModOK
<1>5. QED
  BY <1>2, <1>4 DEF nd
-----------------------------------------------------------------------------
(* The chunks with strings. *)

(* MEXP, FNAM, SNAM, STRE and STRL. *)
LEMMA StringsKeep ==
  ASSUME NEW e, NEW R, NEW m \in R, EnvOK(e, R), m \in DOMAIN e.mods, NEW ss \in Seq(String),
         NEW field \in NameFields \cup {"stringV"}
  PROVE  LET g == Strings(e, m, field, ss) IN EnvOK(g, R) /\ Grew(e, g, m) /\ g.failed = e.failed
<1> DEFINE t == InternAll(e.tab, ss)
           h == [e EXCEPT !.tab = t]
           g == Strings(e, m, field, ss)
           md == e.mods[m]
           nd == [md EXCEPT ![field] = ss]
<1>0. /\ DOMAIN e = {"tab", "byName", "byIdx", "func", "mods", "failed"} /\ TabOK(e.tab)
      /\ e.failed \in BOOLEAN /\ ModOK(md, Live(e.tab), DOMAIN e.func, DOMAIN e.mods)
  BY DEF EnvOK, NewEnvironment
<1>1. TabOK(t) /\ Grown(e.tab, t) /\ ToSet(ss) \subseteq Live(t)
  <2>1. ss \in Seq(String \cup {NoString})
    OBVIOUS
  <2>2. NoString \notin ToSet(ss)
    BY StringAssumption DEF ToSet
  <2>3. QED
    BY <1>0, <2>1, <2>2, InternAllKeeps
<1> HIDE DEF t
<1>2. h.failed = e.failed /\ h.byName = e.byName /\ h.byIdx = e.byIdx /\ DOMAIN h = DOMAIN e
      /\ h.func = e.func /\ h.tab = t /\ h.mods = e.mods
  BY <1>0
<1>3. g = [h EXCEPT !.mods[m] = nd]
  BY <1>0 DEF Strings, t
<1> HIDE DEF h
<1>4. g.failed = e.failed /\ g.byName = e.byName /\ g.byIdx = e.byIdx /\ DOMAIN g = DOMAIN e
      /\ g.func = e.func /\ g.tab = t /\ g.mods = [e.mods EXCEPT ![m] = nd]
  BY <1>0, <1>2, <1>3
<1> HIDE DEF g
<1>5. DOMAIN g.mods = DOMAIN e.mods /\ g.mods[m] = nd /\ \A n \in DOMAIN e.mods : n # m => g.mods[n] = e.mods[n]
  BY <1>4
<1>6. Updated(e, g, m)
  BY <1>0, <1>4, <1>5 DEF Updated
<1>7. ModOK(md, Live(t), DOMAIN e.func, DOMAIN e.mods)
  BY <1>0, <1>1, GrownLive, ModGrows
<1>8. ModOK(nd, Live(t), DOMAIN e.func, DOMAIN e.mods) /\ nd.functionV = md.functionV
  <2>1. CASE field \in NameFields
    <3>1. Among(ss, Live(t))
      BY <1>1 DEF Among, ToSet
    <3> HIDE DEF md
    <3>2. QED
      BY <1>7, <2>1, <3>1, NameField
  <2>2. CASE field = "stringV"
    <3>0. DOMAIN md = DOMAIN Blank
      BY <1>7 DEF ModOK
    <3>1. /\ \A f \in NameFields : nd[f] = md[f]
          /\ nd.loaded = md.loaded /\ nd.stringV = ss /\ nd.scriptV = md.scriptV
          /\ nd.functionV = md.functionV /\ nd.importV = md.importV /\ DOMAIN nd = DOMAIN md
      BY <2>2, <3>0 DEF Blank, NameFields
    <3> HIDE DEF nd, md
    <3>2. QED
      BY <1>1, <1>7, <3>1 DEF ModOK
  <2>3. QED
    BY <2>1, <2>2
<1> HIDE DEF nd, md
<1>9. EnvOK(g, R) /\ Grew(e, g, m)
  <2>1. ModOK(g.mods[m], Live(g.tab), DOMAIN e.func, DOMAIN e.mods)
    BY <1>4, <1>5, <1>8
  <2>2. ToSet(e.mods[m].functionV) \ {NoFunc} \subseteq ToSet(g.mods[m].functionV)
    BY <1>5, <1>8 DEF md
  <2>3. TabOK(g.tab) /\ Grown(e.tab, g.tab)
    BY <1>1, <1>4
  <2>4. QED
    BY <1>6, <2>1, <2>2, <2>3, UpdatedOK
<1>10. QED
  BY <1>4, <1>9 DEF g
-----------------------------------------------------------------------------
(* The chunks that change the module alone. *)

(* ARAY makes registers arrays, and their names names of arrays. *)
LEMMA ArraysKeep ==
  ASSUME NEW md, NEW L, NEW F, NEW M, ModOK(md, L, F, M), NEW d
  PROVE  LET nd == Arrays(md, d) IN ModOK(nd, L, F, M) /\ nd.functionV = md.functionV
<1> DEFINE sizes == Place(d, 0)
           inits == [i \in DOMAIN sizes |-> [j \in 1 .. sizes[i] |-> Zero]]
           names == [i \in DOMAIN sizes |->
                       IF Cardinality(Listed(d, i)) = 1 /\ i \in DOMAIN md.regNameV
                       THEN md.regNameV[i] ELSE NoString]
           regs  == [i \in DOMAIN md.regNameV |-> IF Listed(d, i) = {} THEN md.regNameV[i] ELSE NoString]
           s == [md EXCEPT !.arrSizeV = sizes]
           t == [s EXCEPT !.arrInitV = inits]
           u == [t EXCEPT !.arrNameV = names]
           nd == [u EXCEPT !.regNameV = regs]
<1>0. DOMAIN md = DOMAIN Blank
  BY DEF ModOK
<1>1. Arrays(md, d) = nd
  BY <1>0 DEF Arrays, Blank
<1>2. Among(names, L) /\ Among(regs, L)
  <2>1. Among(md.regNameV, L)
    BY DEF ModOK, NameFields
  <2>2. QED
    BY <2>1 DEF Among
<1> HIDE DEF sizes, inits, names, regs
<1>3. ModOK(t, L, F, M) /\ t.functionV = md.functionV
  <2>1. DOMAIN t = DOMAIN md /\ \A x \in DOMAIN md \ OtherFields : t[x] = md[x]
    BY <1>0 DEF Blank, OtherFields
  <2> HIDE DEF t
  <2>2. QED
    BY <2>1, OtherField
<1> HIDE DEF t
<1>4. ModOK(u, L, F, M) /\ u.functionV = t.functionV
  <2>1. "arrNameV" \in NameFields
    BY DEF NameFields
  <2>2. QED
    BY <1>2, <1>3, <2>1, NameField
<1> HIDE DEF u
<1>5. ModOK(nd, L, F, M) /\ nd.functionV = u.functionV
  <2>1. "regNameV" \in NameFields
    BY DEF NameFields
  <2>2. QED
    BY <1>2, <1>4, <2>1, NameField
<1> HIDE DEF nd
<1>6. QED
  BY <1>1, <1>3, <1>4, <1>5

(* Only sizes and initial values, of the arrays or of the variables, or jumps. *)
Same(md, nd) == DOMAIN nd = DOMAIN md /\ \A x \in DOMAIN md \ OtherFields : nd[x] = md[x]

(* Initial values of arrays may change. *)
LEMMA OnArraySame ==
  ASSUME NEW md, DOMAIN md = DOMAIN Blank, NEW i, NEW v
  PROVE  Same(md, [md EXCEPT !.arrInitV[i] = v])
BY DEF Same, Blank, OtherFields

ArrayStep(a, b, u, s) ==
  OnArray(u, s, LAMBDA v : SetTags(v, [j \in 1 .. u.arrSizeV[s + 1] |-> "String"]))
ArrayGood(c, i, u) == Same(c, u)

Tagging == INSTANCE Folding WITH Op <- ArrayStep, Good <- ArrayGood

(* ASTR is a fold of ArrayStep. *)
LEMMA StringArraysFold ==
  ASSUME NEW md, NEW d
  PROVE  StringArrays(md, d) = Tagging!Folded(0, 0, md, d)
BY SMT DEF StringArrays, Tagging!Folded, ArrayStep, FoldLeft, MapThenFoldSet,
           Tagging!Rule, Tagging!Value, Tagging!Greatest, Max

(* AINI, ATAG, JUMP, MINI, MSTR and ASTR change fields without strings. *)
LEMMA InitialValues ==
  ASSUME NEW md, DOMAIN md = DOMAIN Blank, NEW d
  PROVE  /\ Same(md, InitArray(md, d)) /\ Same(md, TagArray(md, d))
         /\ Same(md, [md EXCEPT !.jumpV = d])
         /\ Same(md, Registers(md, d[1], d[2])) /\ Same(md, RegisterStrings(md, d))
         /\ d \in Seq(ToSet(d)) => Same(md, StringArrays(md, d))
<1>0. Same(md, md)
  BY DEF Same
<1>1. Same(md, InitArray(md, d)) /\ Same(md, TagArray(md, d))
  BY <1>0, OnArraySame DEF InitArray, TagArray, OnArray
<1>2. \A v : Same(md, [md EXCEPT !.jumpV = v]) /\ Same(md, [md EXCEPT !.regInitV = v])
  BY DEF Same, Blank, OtherFields
<1>3. Same(md, Registers(md, d[1], d[2])) /\ Same(md, RegisterStrings(md, d))
  BY <1>2 DEF Registers, RegisterStrings
<1>4. ASSUME d \in Seq(ToSet(d)) PROVE Same(md, StringArrays(md, d))
  <2> DEFINE n == Len(d)
  <2>1. n \in Nat /\ DOMAIN d = 1 .. n
    BY <1>4
  <2>2. ArrayGood(md, 0, md)
    BY <1>0 DEF ArrayGood
  <2>3. ASSUME NEW i \in 1 .. n, NEW u, ArrayGood(md, i - 1, u)
        PROVE  ArrayGood(md, i, ArrayStep(0, 0, u, d[i]))
    <3>1. Same(md, u) /\ DOMAIN u = DOMAIN Blank
      BY <2>3 DEF ArrayGood, Same
    <3>2. Same(u, ArrayStep(0, 0, u, d[i]))
      <4>1. Same(u, u)
        BY DEF Same
      <4>2. QED
        BY <3>1, <4>1, OnArraySame DEF ArrayStep, OnArray
    <3>3. QED
      BY <3>1, <3>2 DEF ArrayGood, Same
  <2> HIDE DEF n
  <2>4. \A i \in 1 .. n : \A u : ArrayGood(md, i - 1, u) => ArrayGood(md, i, ArrayStep(0, 0, u, d[i]))
    BY <2>3
  <2>5. ArrayGood(md, n, Tagging!Folded(0, 0, md, d))
    BY <2>1, <2>2, <2>4, Tagging!FoldKeeps
  <2>6. QED
    BY <2>5, StringArraysFold DEF ArrayGood
<1>5. QED
  BY <1>1, <1>2, <1>3, <1>4

(* A module that differs in other fields only is right. *)
LEMMA SameKeeps ==
  ASSUME NEW md, NEW L, NEW F, NEW M, ModOK(md, L, F, M), NEW nd, Same(md, nd)
  PROVE  ModOK(nd, L, F, M) /\ nd.functionV = md.functionV
BY OtherField DEF Same
-----------------------------------------------------------------------------
(* The scripts. *)

(* A module may have other scripts with names that are strings. *)
LEMMA ScriptsKeep ==
  ASSUME NEW md, NEW L, NEW F, NEW M, ModOK(md, L, F, M), NEW v,
         \A i \in DOMAIN v : "name" \in DOMAIN v[i] /\ v[i].name \in L \cup {NoString}
  PROVE  LET nd == [md EXCEPT !.scriptV = v] IN ModOK(nd, L, F, M) /\ nd.functionV = md.functionV
<1> DEFINE nd == [md EXCEPT !.scriptV = v]
<1>0. DOMAIN md = DOMAIN Blank
  BY DEF ModOK
<1>1. /\ \A f \in NameFields : nd[f] = md[f]
      /\ nd.loaded = md.loaded /\ nd.stringV = md.stringV /\ nd.scriptV = v
      /\ nd.functionV = md.functionV /\ nd.importV = md.importV /\ DOMAIN nd = DOMAIN md
  BY <1>0 DEF Blank, NameFields
<1> HIDE DEF nd
<1>2. ModOK(nd, L, F, M)
  BY <1>1 DEF ModOK
<1>3. QED
  BY <1>1, <1>2 DEF nd

(* The name of a script is one of SNAM. *)
LEMMA ScriptNames ==
  ASSUME NEW md, NEW L, Among(md.scrNameV, L), NEW s
  PROVE  "name" \in DOMAIN Script(md, s) /\ Script(md, s).name \in L \cup {NoString}
BY DEF Among, Script

ScriptStep(a, b, u, s) ==
  [u EXCEPT !.scriptV = [i \in DOMAIN @ |-> IF @[i].num = s[1] THEN [@[i] EXCEPT ![a] = s[2]] ELSE @[i]]]
ScriptGood(c, i, u) == ModOK(u, c[1], c[2], c[3]) /\ u.functionV = c[4]

Setting == INSTANCE Folding WITH Op <- ScriptStep, Good <- ScriptGood

(* SARY, SFLG and SVCT are folds of ScriptStep. *)
LEMMA SetScriptsFold ==
  ASSUME NEW md, NEW field, NEW d
  PROVE  SetScripts(md, field, d) = Setting!Folded(field, 0, md, d)
BY SMT DEF SetScripts, Setting!Folded, ScriptStep, FoldLeft, MapThenFoldSet,
           Setting!Rule, Setting!Value, Setting!Greatest, Max

(* SARY, SFLG and SVCT leave the names of scripts. *)
LEMMA SetScriptsKeep ==
  ASSUME NEW md, NEW L, NEW F, NEW M, ModOK(md, L, F, M), NEW field, field # "name",
         NEW d, NEW n \in Nat, DOMAIN d = 1 .. n
  PROVE  LET nd == SetScripts(md, field, d) IN ModOK(nd, L, F, M) /\ nd.functionV = md.functionV
<1> DEFINE c == <<L, F, M, md.functionV>>
<1>1. ScriptGood(c, 0, md)
  BY DEF ScriptGood
<1>2. ASSUME NEW i \in 1 .. n, NEW u, ScriptGood(c, i - 1, u)
      PROVE  ScriptGood(c, i, ScriptStep(field, 0, u, d[i]))
  <2> DEFINE s == u.scriptV
             p == d[i]
             v == [k \in DOMAIN s |-> IF s[k].num = p[1] THEN [s[k] EXCEPT ![field] = p[2]] ELSE s[k]]
  <2>1. ModOK(u, L, F, M) /\ u.functionV = md.functionV
    BY <1>2 DEF ScriptGood
  <2>2. ScriptStep(field, 0, u, p) = [u EXCEPT !.scriptV = v]
    BY <2>1 DEF ScriptStep, ModOK, Blank
  <2>3. ASSUME NEW k \in DOMAIN v PROVE "name" \in DOMAIN v[k] /\ v[k].name \in L \cup {NoString}
    <3>1. "name" \in DOMAIN s[k] /\ s[k].name \in L \cup {NoString}
      BY <2>1 DEF ModOK
    <3>2. QED
      BY <3>1
  <2> HIDE DEF v, p
  <2>4. ModOK([u EXCEPT !.scriptV = v], L, F, M) /\ [u EXCEPT !.scriptV = v].functionV = u.functionV
    BY <2>1, <2>3, ScriptsKeep
  <2>5. QED
    BY <2>1, <2>2, <2>4 DEF ScriptGood, p
<1> HIDE DEF c
<1>3. \A i \in 1 .. n : \A u : ScriptGood(c, i - 1, u) => ScriptGood(c, i, ScriptStep(field, 0, u, d[i]))
  BY <1>2
<1>4. ScriptGood(c, n, Setting!Folded(field, 0, md, d))
  BY <1>1, <1>3, Setting!FoldKeeps
<1>5. QED
  BY <1>4, SetScriptsFold DEF ScriptGood, c
-----------------------------------------------------------------------------
(* Names of imports. *)

(* The element for an index is the last that an entry has for it. *)
LEMMA Placed ==
  ASSUME NEW K, NEW x, NEW d \in Seq(Nat \X K)
  PROVE  \A i \in DOMAIN Place(d, x) : Place(d, x)[i] \in K \cup {x}
<1> DEFINE n == Len(d)
<1>1. n \in Nat /\ DOMAIN d = 1 .. n /\ \A k \in 1 .. n : d[k][2] \in K
  OBVIOUS
<1>2. ASSUME NEW i \in DOMAIN Place(d, x) PROVE Place(d, x)[i] \in K \cup {x}
  <2> DEFINE mine == Listed(d, i)
  <2>1. Place(d, x)[i] = IF mine = {} THEN x ELSE d[Max(mine)][2]
    BY DEF Place
  <2>2. mine \in SUBSET (1 .. n)
    BY <1>1 DEF Listed
  <2> HIDE DEF mine, n
  <2>3. CASE mine # {}
    <3>1. Interning!Greatest(mine) \in mine
      BY <1>1, <2>2, <2>3, Interning!GreatestUpTo
    <3>2. Max(mine) = Interning!Greatest(mine)
      BY DEF Max, Interning!Greatest
    <3>3. QED
      BY <1>1, <2>1, <2>2, <2>3, <3>1, <3>2
  <2>4. QED
    BY <2>1, <2>3
<1>3. QED
  BY <1>2

(* AIMP and MIMP intern what they name. *)
LEMMA ImportsKeep ==
  ASSUME NEW e, NEW R, NEW m \in R, EnvOK(e, R), m \in DOMAIN e.mods, NEW d \in Seq(Nat \X String),
         NEW field \in NameFields
  PROVE  LET g == Imports(e, m, field, d) IN EnvOK(g, R) /\ Grew(e, g, m) /\ g.failed = e.failed
<1> DEFINE ss == [i \in DOMAIN d |-> d[i][2]]
           v == Place(d, NoString)
           t == InternAll(e.tab, ss)
           md == e.mods[m]
           nd == [md EXCEPT ![field] = v]
           h == [e EXCEPT !.mods[m] = nd]
           g == Imports(e, m, field, d)
<1>0. /\ DOMAIN e = {"tab", "byName", "byIdx", "func", "mods", "failed"} /\ TabOK(e.tab)
      /\ e.failed \in BOOLEAN /\ ModOK(md, Live(e.tab), DOMAIN e.func, DOMAIN e.mods)
  BY DEF EnvOK, NewEnvironment
<1>1. ss \in Seq(String \cup {NoString}) /\ ss \in Seq(String)
  <2> DEFINE n == Len(d)
  <2>1. n \in Nat /\ DOMAIN d = 1 .. n
    OBVIOUS
  <2>2. \A i \in DOMAIN d : d[i][2] \in String
    OBVIOUS
  <2> HIDE DEF n
  <2>3. ss \in [1 .. n -> String]
    BY <2>1, <2>2
  <2> HIDE DEF ss
  <2>4. QED
    BY <2>1, <2>3
<1>2. TabOK(t) /\ Grown(e.tab, t) /\ ToSet(ss) \subseteq Live(t)
  <2>1. NoString \notin ToSet(ss)
    BY <1>1, StringAssumption DEF ToSet
  <2>2. QED
    BY <1>0, <1>1, <2>1, InternAllKeeps
<1>3. Among(v, Live(t))
  <2> DEFINE K == ToSet(ss)
  <2>1. d \in Seq(Nat \X K)
    <3>1. \A i \in DOMAIN d : d[i][2] \in K /\ d[i] \in Nat \X K
      BY DEF ToSet
    <3> HIDE DEF K
    <3>2. QED
      BY <3>1
  <2> HIDE DEF K
  <2>2. \A i \in DOMAIN v : v[i] \in K \cup {NoString}
    BY <2>1, Placed
  <2>3. QED
    BY <1>2, <2>2 DEF Among, K
<1>4. h.failed = e.failed /\ h.byName = e.byName /\ h.byIdx = e.byIdx /\ DOMAIN h = DOMAIN e
      /\ h.func = e.func /\ h.tab = e.tab /\ h.mods = [e.mods EXCEPT ![m] = nd]
  BY <1>0
<1>5. g = [h EXCEPT !.tab = t]
  BY <1>0 DEF Imports
<1> HIDE DEF h, t, v, ss
<1>6. g.failed = e.failed /\ g.byName = e.byName /\ g.byIdx = e.byIdx /\ DOMAIN g = DOMAIN e
      /\ g.func = e.func /\ g.tab = t /\ g.mods = [e.mods EXCEPT ![m] = nd]
  BY <1>0, <1>4, <1>5
<1> HIDE DEF g
<1>7. DOMAIN g.mods = DOMAIN e.mods /\ g.mods[m] = nd /\ \A n \in DOMAIN e.mods : n # m => g.mods[n] = e.mods[n]
  BY <1>6
<1>8. Updated(e, g, m)
  BY <1>0, <1>6, <1>7 DEF Updated
<1>9. ModOK(md, Live(t), DOMAIN e.func, DOMAIN e.mods)
  BY <1>0, <1>2, GrownLive, ModGrows
<1> HIDE DEF md
<1>10. ModOK(nd, Live(t), DOMAIN e.func, DOMAIN e.mods) /\ nd.functionV = md.functionV
  BY <1>3, <1>9, NameField
<1> HIDE DEF nd
<1>11. EnvOK(g, R) /\ Grew(e, g, m)
  <2>1. ModOK(g.mods[m], Live(g.tab), DOMAIN e.func, DOMAIN e.mods)
    BY <1>6, <1>7, <1>10
  <2>2. ToSet(e.mods[m].functionV) \ {NoFunc} \subseteq ToSet(g.mods[m].functionV)
    BY <1>7, <1>10 DEF md
  <2>3. TabOK(g.tab) /\ Grown(e.tab, g.tab)
    BY <1>2, <1>6
  <2>4. QED
    BY <1>8, <2>1, <2>2, <2>3, UpdatedOK
<1>12. QED
  BY <1>6, <1>11 DEF g
-----------------------------------------------------------------------------
(* Functions. *)

(* Another number of array, or the like, of functions. *)
LEMMA FuncUpdated ==
  ASSUME NEW e, NEW R, EnvOK(e, R), NEW f \in DOMAIN e.func, NEW r, "idx" \in DOMAIN r, r.idx = e.func[f].idx
  PROVE  LET g == [e EXCEPT !.func[f] = r] IN EnvOK(g, R) /\ (\A m : Grew(e, g, m)) /\ g.failed = e.failed
<1> DEFINE g == [e EXCEPT !.func[f] = r]
<1>0. DOMAIN e = {"tab", "byName", "byIdx", "func", "mods", "failed"}
  BY DEF EnvOK, NewEnvironment
<1>1. DOMAIN g = DOMAIN e /\ g.failed = e.failed /\ g.byName = e.byName /\ g.byIdx = e.byIdx
      /\ g.mods = e.mods /\ g.tab = e.tab /\ g.func = [e.func EXCEPT ![f] = r]
  BY <1>0
<1> HIDE DEF g
<1>2. FuncOK(g, R)
  <2>1. FuncOK(e, R)
    BY DEF EnvOK
  <2>2. /\ DOMAIN g.func = DOMAIN e.func
        /\ \A h \in DOMAIN e.func : g.func[h].idx = e.func[h].idx /\ "idx" \in DOMAIN g.func[h]
    BY <1>1, <2>1 DEF FuncOK
  <2>3. \A i \in DOMAIN e.byIdx : e.byIdx[i] # NoFunc => e.byIdx[i] \in DOMAIN e.func
    BY <2>1 DEF FuncOK
  <2>4. \A i \in DOMAIN g.byIdx : g.byIdx[i] # NoFunc => g.func[g.byIdx[i]].idx = i - 1
    BY <1>1, <2>1, <2>2, <2>3 DEF FuncOK
  <2>5. QED
    BY <1>1, <2>1, <2>2, <2>4 DEF FuncOK
<1>3. \A n \in DOMAIN e.mods : ModOK(e.mods[n], Live(e.tab), DOMAIN g.func, DOMAIN e.mods)
  BY <1>1 DEF EnvOK
<1>4. EnvOK(g, R)
  BY <1>1, <1>2, <1>3 DEF EnvOK
<1>5. \A m : Grew(e, g, m)
  BY <1>1, GrownSelf DEF Grew
<1>6. QED
  BY <1>1, <1>4, <1>5 DEF g

(* FARY changes the record of a function, but not its index. *)
LEMMA FunctionArraysKeep ==
  ASSUME NEW e, NEW R, NEW m \in R, EnvOK(e, R), m \in DOMAIN e.mods, NEW idx, NEW n
  PROVE  LET g == FunctionArrays(e, m, idx, n) IN EnvOK(g, R) /\ Grew(e, g, m) /\ g.failed = e.failed
<1> DEFINE v == e.mods[m].functionV
<1>1. CASE idx + 1 \in DOMAIN v /\ v[idx + 1] # NoFunc
  <2> DEFINE f == v[idx + 1]
             r == [e.func[f] EXCEPT !.locArrC = n]
  <2>1. f \in DOMAIN e.func
    BY <1>1 DEF EnvOK, ModOK
  <2>2. "idx" \in DOMAIN r /\ r.idx = e.func[f].idx
    BY <2>1 DEF EnvOK, FuncOK
  <2>3. FunctionArrays(e, m, idx, n) = [e EXCEPT !.func[f] = r]
    BY <1>1, <2>1 DEF FunctionArrays, EnvOK, NewEnvironment
  <2> HIDE DEF f, r
  <2>4. QED
    BY <2>1, <2>2, <2>3, FuncUpdated
<1>2. CASE ~(idx + 1 \in DOMAIN v /\ v[idx + 1] # NoFunc)
  <2>1. FunctionArrays(e, m, idx, n) = e
    BY <1>2 DEF FunctionArrays
  <2>2. QED
    BY <2>1, GrewSelf
<1>3. QED
  BY <1>1, <1>2
-----------------------------------------------------------------------------
(* The function f of the module m is read: it is new, or read again. *)
Added(e, g, m, f) ==
  /\ DOMAIN g = DOMAIN e /\ g.tab = e.tab /\ g.failed = e.failed
  /\ g.mods = [e.mods EXCEPT ![m] = [e.mods[m] EXCEPT !.functionV = Append(@, f)]]
  /\ DOMAIN g.func = DOMAIN e.func \cup {f}
  /\ \A h \in DOMAIN e.func : h # f => g.func[h] = e.func[h]
  /\ "idx" \in DOMAIN g.func[f]

Unnamed(e, g, m, f) ==
  /\ f[2] \in Nat /\ g.func[f].idx = 0 /\ g.byIdx = e.byIdx /\ g.byName = e.byName

AddedName(e, g, m, f) ==
  LET idx == g.func[f].idx IN
  /\ f[2] \in Live(e.tab) /\ idx \in Nat \ {0}
  /\ DOMAIN g.byName = DOMAIN e.byName \cup {f} /\ g.byName[f] = idx
  /\ \A k \in DOMAIN e.byName : g.byName[k] = e.byName[k]
  /\ g.byIdx \in Seq(DOMAIN g.func \cup {NoFunc}) /\ Len(g.byIdx) >= Len(e.byIdx)
  /\ idx + 1 \in DOMAIN g.byIdx /\ g.byIdx[idx + 1] = f
  /\ f \in DOMAIN e.byName \/ idx = Len(e.byIdx)
  /\ \A j \in DOMAIN g.byIdx : j # idx + 1 => j \in DOMAIN e.byIdx /\ g.byIdx[j] = e.byIdx[j]
  /\ idx + 1 \in DOMAIN e.byIdx => e.byIdx[idx + 1] \in {NoFunc, f}

(* A function that is read has names and indexes as before, and its own. *)
LEMMA FunctionAdded ==
  ASSUME NEW e, NEW g, NEW R, NEW m \in R, EnvOK(e, R), m \in DOMAIN e.mods, NEW f, f = <<m, f[2]>>,
         Added(e, g, m, f), Unnamed(e, g, m, f) \/ AddedName(e, g, m, f)
  PROVE  EnvOK(g, R) /\ Grew(e, g, m)
<1> DEFINE L == Live(e.tab)
           F == DOMAIN e.func
           G == DOMAIN g.func
           n == Len(e.byIdx)
<1>0. /\ TabOK(e.tab) /\ NamesOK(e.byName, n, L) /\ FuncOK(e, R) /\ DOMAIN e.mods \subseteq Module \cap L
      /\ ModOK(e.mods[m], L, F, DOMAIN e.mods) /\ e.failed \in BOOLEAN
  BY DEF EnvOK
<1>1. G = F \cup {f} /\ g.tab = e.tab /\ m \in L /\ m \in Module /\ f[1] = m
  BY <1>0 DEF Added
<1>2. n \in Nat /\ n # 0 /\ DOMAIN e.byIdx = 1 .. n
  BY <1>0 DEF FuncOK
<1>3. f[2] \in L \cup Nat
  BY DEF Unnamed, AddedName
<1>4. f \in Module \X (L \cup Nat)
  BY <1>1, <1>3
<1>5. L \subseteq String /\ \A s \in String : s \notin Nat
  BY <1>0, LiveStrings, NamesAssumption
<1>6. f # NoFunc
  BY <1>4, <1>5, NamesAssumption, ModuleAssumption
<1> DEFINE v == e.mods[m].functionV
           w == Append(v, f)
<1>7. /\ DOMAIN g.mods = DOMAIN e.mods
      /\ g.mods[m] = [e.mods[m] EXCEPT !.functionV = w]
      /\ \A k \in DOMAIN e.mods : k # m => g.mods[k] = e.mods[k]
  BY DEF Added
<1>8. w \in Seq(G \cup {NoFunc}) /\ ToSet(v) \cup {f} \subseteq ToSet(w)
  <2>1. v \in Seq(F \cup {NoFunc})
    BY <1>0 DEF ModOK
  <2> HIDE DEF v, F, G
  <2>2. v \in Seq(G \cup {NoFunc}) /\ f \in G \cup {NoFunc}
    BY <1>1, <2>1
  <2>3. Len(v) \in Nat /\ DOMAIN v = 1 .. Len(v) /\ DOMAIN w = 1 .. Len(v) + 1
        /\ w[Len(v) + 1] = f /\ \A i \in 1 .. Len(v) : w[i] = v[i]
    BY <2>2
  <2>4. (\A i \in 1 .. Len(v) : i \in DOMAIN w) /\ Len(v) + 1 \in DOMAIN w
    BY <2>3
  <2>5. ToSet(v) \cup {f} \subseteq ToSet(w)
    BY <2>3, <2>4 DEF ToSet
  <2>6. QED
    BY <2>2, <2>5
<1>9. ModOK(g.mods[m], L, G, DOMAIN g.mods) /\ g.mods[m].functionV = w /\ g.mods[m].loaded = e.mods[m].loaded
  <2> DEFINE md == e.mods[m]
             nd == [md EXCEPT !.functionV = w]
  <2>1. ModOK(md, L, F, DOMAIN e.mods) /\ DOMAIN md = DOMAIN Blank
    BY <1>0 DEF ModOK
  <2> HIDE DEF md, w
  <2>2. /\ \A x \in NameFields : nd[x] = md[x]
        /\ nd.loaded = md.loaded /\ nd.stringV = md.stringV /\ nd.scriptV = md.scriptV
        /\ nd.functionV = w /\ nd.importV = md.importV /\ DOMAIN nd = DOMAIN md
    BY <2>1 DEF Blank, NameFields
  <2> HIDE DEF nd
  <2>3. ModOK(nd, L, G, DOMAIN e.mods)
    BY <1>8, <2>1, <2>2 DEF ModOK
  <2>4. QED
    BY <1>7, <2>2, <2>3 DEF md, nd
<1>10. ASSUME NEW k \in DOMAIN g.mods PROVE ModOK(g.mods[k], L, G, DOMAIN g.mods)
  <2>1. CASE k = m
    BY <1>9, <2>1
  <2>2. CASE k # m
    <3>1. g.mods[k] = e.mods[k] /\ ModOK(e.mods[k], L, F, DOMAIN e.mods)
      BY <1>7, <2>2 DEF EnvOK
    <3>2. F \subseteq G /\ L \subseteq L /\ DOMAIN e.mods \subseteq DOMAIN g.mods
      BY <1>1, <1>7
    <3> HIDE DEF F, G, L
    <3>3. QED
      BY <3>1, <3>2, ModGrows
  <2>3. QED
    BY <2>1, <2>2
<1> HIDE DEF v, w
(* Facts about the functions there were. *)
<1>11. /\ F \subseteq Module \X (L \cup Nat)
       /\ e.byIdx \in Seq(F \cup {NoFunc}) /\ e.byIdx # <<>>
       /\ \A i \in DOMAIN e.byIdx : e.byIdx[i] # NoFunc => e.byIdx[i] \in F /\ e.func[e.byIdx[i]].idx = i - 1
  BY <1>0 DEF FuncOK
<1>12. \A h \in F :
         /\ "idx" \in DOMAIN e.func[h] /\ e.func[h].idx \in Nat
         /\ e.func[h].idx # 0 =>
              /\ h \in DOMAIN e.byName /\ e.byName[h] = e.func[h].idx
              /\ e.byIdx[e.func[h].idx + 1] = h
         /\ h[1] \in DOMAIN e.mods /\ h \in ToSet(e.mods[h[1]].functionV)
         /\ h[2] \in String /\ (h[1] \in R \/ ~e.mods[h[1]].loaded) => e.func[h].idx # 0
  BY <1>0 DEF FuncOK
<1>13. \A h \in F : h # f => g.func[h] = e.func[h]
  BY DEF Added
<1> DEFINE idx == g.func[f].idx
<1>14. NamesOK(g.byName, Len(g.byIdx), L)
  <2>1. CASE Unnamed(e, g, m, f)
    BY <1>0, <2>1 DEF Unnamed
  <2>2. CASE AddedName(e, g, m, f)
    <3> DEFINE k == Len(g.byIdx)
    <3>1. /\ f[2] \in L /\ idx \in Nat \ {0} /\ DOMAIN g.byName = DOMAIN e.byName \cup {f} /\ g.byName[f] = idx
          /\ \A x \in DOMAIN e.byName : g.byName[x] = e.byName[x]
          /\ k >= n /\ idx + 1 \in 1 .. k /\ k \in Nat
          /\ f \in DOMAIN e.byName \/ idx = n
      BY <2>2 DEF AddedName
    <3> HIDE DEF idx, k
    <3>2. f \in L \X L
      BY <1>1, <3>1
    <3>3. idx \in 1 .. k - 1 /\ \A x \in 1 .. n - 1 : x \in 1 .. k - 1 /\ x # n
      BY <1>2, <3>1
    <3>4. /\ DOMAIN e.byName \subseteq L \X L
          /\ \A x \in DOMAIN e.byName : e.byName[x] \in 1 .. n - 1
          /\ \A x, y \in DOMAIN e.byName : e.byName[x] = e.byName[y] => x = y
      BY <1>0 DEF NamesOK
    <3> HIDE DEF n, L
    <3>5. DOMAIN g.byName \subseteq L \X L
      BY <3>1, <3>2, <3>4
    <3>6. \A x \in DOMAIN g.byName : g.byName[x] \in 1 .. k - 1
      BY <3>1, <3>3, <3>4
    <3>7. \A x, y \in DOMAIN g.byName : g.byName[x] = g.byName[y] => x = y
      BY <3>1, <3>3, <3>4
    <3>8. QED
      BY <3>5, <3>6, <3>7 DEF NamesOK, k
  <2>3. QED
    BY <2>1, <2>2
<1>15. /\ g.byIdx \in Seq(G \cup {NoFunc}) /\ g.byIdx # <<>>
  <2>1. CASE Unnamed(e, g, m, f)
    <3> HIDE DEF F, G
    <3>1. QED
      BY <1>1, <1>11, <2>1 DEF Unnamed
  <2>2. CASE AddedName(e, g, m, f)
    BY <1>2, <2>2 DEF AddedName
  <2>3. QED
    BY <2>1, <2>2
<1>16. idx \in Nat /\ (idx # 0 => f \in DOMAIN g.byName /\ g.byName[f] = idx /\ g.byIdx[idx + 1] = f)
       /\ (f[2] \in String => idx # 0)
  BY <1>5 DEF Unnamed, AddedName
<1>17. ASSUME NEW j \in DOMAIN g.byIdx, g.byIdx[j] # NoFunc PROVE g.func[g.byIdx[j]].idx = j - 1
  <2>1. CASE Unnamed(e, g, m, f)
    <3> DEFINE h == e.byIdx[j]
    <3>1. g.byIdx[j] = h /\ h \in F /\ e.func[h].idx = j - 1
      BY <1>11, <1>17, <2>1 DEF Unnamed
    <3>2. CASE h # f
      BY <1>13, <3>1, <3>2
    <3>3. CASE h = f
      <4>1. f \notin DOMAIN e.byName
        BY <1>0, <1>5, <2>1 DEF Unnamed, NamesOK
      <4>2. e.func[f].idx = 0
        BY <1>12, <3>1, <3>3, <4>1
      <4>3. QED
        BY <2>1, <3>1, <3>3, <4>2 DEF Unnamed
    <3>4. QED
      BY <3>2, <3>3
  <2>2. CASE AddedName(e, g, m, f)
    <3>1. CASE j = idx + 1
      BY <2>2, <3>1 DEF AddedName
    <3>2. CASE j # idx + 1
      <4> DEFINE h == e.byIdx[j]
      <4>1. j \in DOMAIN e.byIdx /\ g.byIdx[j] = h /\ h # NoFunc
        BY <1>17, <2>2, <3>2 DEF AddedName
      <4>2. h \in F /\ e.func[h].idx = j - 1
        BY <1>11, <4>1
      <4>3. h # f
        <5> SUFFICES ASSUME h = f PROVE FALSE
          OBVIOUS
        <5>1. e.func[f].idx # 0
          <6>1. f \in F /\ f[1] \in R /\ f[2] \in String
            BY <1>1, <1>5, <2>2, <4>2 DEF AddedName
          <6>2. QED
            BY <1>12, <6>1
        <5>2. f \in DOMAIN e.byName /\ e.byName[f] = j - 1
          BY <1>12, <4>2, <5>1
        <5>3. j - 1 = idx
          BY <2>2, <5>2 DEF AddedName
        <5>4. QED
          BY <1>2, <3>2, <4>1, <5>3
      <4>4. QED
        BY <1>13, <4>1, <4>2, <4>3
    <3>3. QED
      BY <3>1, <3>2
  <2>3. QED
    BY <2>1, <2>2
<1>18. ASSUME NEW h \in G
       PROVE  /\ "idx" \in DOMAIN g.func[h] /\ g.func[h].idx \in Nat
              /\ g.func[h].idx # 0 =>
                   /\ h \in DOMAIN g.byName /\ g.byName[h] = g.func[h].idx
                   /\ g.byIdx[g.func[h].idx + 1] = h
              /\ h[1] \in DOMAIN g.mods /\ h \in ToSet(g.mods[h[1]].functionV)
              /\ h[2] \in String /\ (h[1] \in R \/ ~g.mods[h[1]].loaded) => g.func[h].idx # 0
  <2>1. CASE h = f
    <3>1. "idx" \in DOMAIN g.func[f] /\ f[1] \in DOMAIN g.mods /\ f \in ToSet(g.mods[f[1]].functionV)
      BY <1>1, <1>7, <1>8, <1>9 DEF Added
    <3>2. QED
      BY <1>16, <2>1, <3>1
  <2>2. CASE h # f
    <3>1. h \in F /\ g.func[h] = e.func[h]
      BY <1>1, <1>13, <2>2
    <3>2. "idx" \in DOMAIN g.func[h] /\ g.func[h].idx \in Nat
      BY <1>12, <3>1
    <3>3. h[1] \in DOMAIN g.mods /\ h \in ToSet(g.mods[h[1]].functionV) /\ g.mods[h[1]].loaded = e.mods[h[1]].loaded
      <4>1. h[1] \in DOMAIN e.mods /\ h \in ToSet(e.mods[h[1]].functionV)
        BY <1>12, <3>1
      <4>2. CASE h[1] = m
        BY <1>7, <1>8, <1>9, <4>1, <4>2 DEF v
      <4>3. CASE h[1] # m
        BY <1>7, <4>1, <4>3
      <4>4. QED
        BY <4>2, <4>3
    <3>4. h[2] \in String /\ (h[1] \in R \/ ~g.mods[h[1]].loaded) => g.func[h].idx # 0
      BY <1>12, <3>1, <3>3
    <3>5. ASSUME g.func[h].idx # 0
          PROVE  h \in DOMAIN g.byName /\ g.byName[h] = g.func[h].idx /\ g.byIdx[g.func[h].idx + 1] = h
      <4> DEFINE k == e.func[h].idx
      <4>1. h \in DOMAIN e.byName /\ e.byName[h] = k /\ e.byIdx[k + 1] = h /\ k \in Nat
        BY <1>12, <3>1, <3>5
      <4>2. k + 1 \in DOMAIN e.byIdx
        <5>1. k \in 1 .. n - 1
          BY <1>0, <4>1 DEF NamesOK
        <5> HIDE DEF n, k
        <5>2. QED
          BY <1>2, <5>1
      <4>3. CASE Unnamed(e, g, m, f)
        BY <3>1, <4>1, <4>3 DEF Unnamed
      <4>4. CASE AddedName(e, g, m, f)
        <5>1. h # NoFunc
          BY <1>5, <1>11, <3>1, NamesAssumption, ModuleAssumption
        <5>2. k # idx
          BY <2>2, <4>1, <4>2, <4>4, <5>1 DEF AddedName
        <5>3. k + 1 # idx + 1
          BY <1>16, <4>1, <5>2
        <5>4. k + 1 \in DOMAIN g.byIdx
          BY <1>2, <4>2, <4>4 DEF AddedName
        <5>5. g.byIdx[k + 1] = h
          BY <4>1, <4>4, <5>3, <5>4 DEF AddedName
        <5>6. h \in DOMAIN g.byName /\ g.byName[h] = k
          BY <4>1, <4>4 DEF AddedName
        <5>7. QED
          BY <3>1, <5>5, <5>6
      <4>5. QED
        BY <4>3, <4>4
    <3>6. QED
      BY <3>2, <3>3, <3>4, <3>5
  <2>3. QED
    BY <2>1, <2>2
<1>19. G \subseteq Module \X (L \cup Nat)
  BY <1>1, <1>4, <1>11
<1>20. FuncOK(g, R)
  BY <1>1, <1>15, <1>17, <1>18, <1>19 DEF FuncOK
<1>21. EnvOK(g, R)
  BY <1>0, <1>1, <1>7, <1>10, <1>14, <1>20 DEF EnvOK, Added
<1>22. Grew(e, g, m)
  BY <1>7, GrownSelf DEF Grew, Added, Unnamed, AddedName
<1>23. QED
  BY <1>21, <1>22
-----------------------------------------------------------------------------
(* getFunction: e after it, without the function and with it. *)
Got(e, g, f, idx) ==
  /\ DOMAIN g = DOMAIN e /\ g.tab = e.tab /\ g.failed = e.failed /\ g.mods = e.mods
  /\ DOMAIN g.func = DOMAIN e.func \cup {f}
  /\ \A h \in DOMAIN e.func : h # f => g.func[h] = e.func[h]
  /\ g.func[f].idx = idx

(* getFunction of a function without a name. *)
LEMMA GotUnnamed ==
  ASSUME NEW e, NEW R, EnvOK(e, R), NEW m, NEW i
  PROVE  LET g == GetFunction(e, m, NoString, i) IN
         Got(e, g, <<m, i>>, 0) /\ g.byName = e.byName /\ g.byIdx = e.byIdx
<1> DEFINE f == <<m, i>>
           g == GetFunction(e, m, NoString, i)
<1>0. DOMAIN e = {"tab", "byName", "byIdx", "func", "mods", "failed"}
  BY DEF EnvOK, NewEnvironment
<1>1. g = [e EXCEPT !.func = Put(@, f, [idx |-> 0])]
  BY DEF GetFunction
<1>2. DOMAIN g = DOMAIN e /\ g.failed = e.failed /\ g.byName = e.byName /\ g.byIdx = e.byIdx
      /\ g.mods = e.mods /\ g.tab = e.tab /\ g.func = Put(e.func, f, [idx |-> 0])
  BY <1>0, <1>1
<1> HIDE DEF g, f
<1>3. Got(e, g, f, 0)
  BY <1>2 DEF Got, Put
<1>4. QED
  BY <1>2, <1>3 DEF g, f

(* The names and the table of functions, after getFunction. *)
Placing(e, g, f, idx) ==
  /\ idx \in Nat \ {0}
  /\ DOMAIN g.byName = DOMAIN e.byName \cup {f} /\ g.byName[f] = idx
  /\ \A k \in DOMAIN e.byName : g.byName[k] = e.byName[k]
  /\ g.byIdx \in Seq(DOMAIN g.func \cup {NoFunc}) /\ Len(g.byIdx) >= Len(e.byIdx)
  /\ idx + 1 \in DOMAIN g.byIdx /\ g.byIdx[idx + 1] = f
  /\ f \in DOMAIN e.byName \/ idx = Len(e.byIdx)
  /\ \A j \in DOMAIN g.byIdx : j # idx + 1 => j \in DOMAIN e.byIdx /\ g.byIdx[j] = e.byIdx[j]
  /\ idx + 1 \in DOMAIN e.byIdx => e.byIdx[idx + 1] \in {NoFunc, f}

(* getFunction of a function with a name gives it the index of the name. *)
LEMMA GotNamed ==
  ASSUME NEW e, NEW R, EnvOK(e, R), NEW m, NEW name, name # NoString, NEW i
  PROVE  \E idx : Got(e, GetFunction(e, m, name, i), <<m, name>>, idx)
                  /\ Placing(e, GetFunction(e, m, name, i), <<m, name>>, idx)
<1> DEFINE f == <<m, name>>
           g == GetFunction(e, m, name, i)
           n == Len(e.byIdx)
           F == DOMAIN e.func
<1>0. DOMAIN e = {"tab", "byName", "byIdx", "func", "mods", "failed"} /\ FuncOK(e, R)
      /\ NamesOK(e.byName, n, Live(e.tab))
  BY DEF EnvOK, NewEnvironment
<1>1. /\ e.byIdx \in Seq(F \cup {NoFunc}) /\ n \in Nat /\ n # 0 /\ DOMAIN e.byIdx = 1 .. n
      /\ \A j \in DOMAIN e.byIdx : e.byIdx[j] # NoFunc => e.byIdx[j] \in F /\ e.func[e.byIdx[j]].idx = j - 1
  BY <1>0 DEF FuncOK
<1>2. \A x \in 1 .. n - 1 : x \in Nat \ {0} /\ x + 1 \in 1 .. n
  BY <1>1
<1>3. CASE f \in DOMAIN e.byName
  <2> DEFINE idx == e.byName[f]
  <2>1. idx \in Nat \ {0} /\ idx + 1 \in DOMAIN e.byIdx
    <3>1. idx \in 1 .. n - 1
      BY <1>0, <1>3 DEF NamesOK
    <3> HIDE DEF idx, n
    <3>2. QED
      BY <1>1, <1>2, <3>1
  <2>2. CASE e.byIdx[idx + 1] # NoFunc
    <3> DEFINE h == e.byIdx[idx + 1]
    <3>1. g = e
      BY <1>3, <2>2 DEF GetFunction
    <3>2. h \in F /\ e.func[h].idx = idx
      <4>1. h \in F /\ e.func[h].idx = (idx + 1) - 1
        BY <1>1, <2>1, <2>2
      <4> HIDE DEF idx, h
      <4>2. QED
        BY <2>1, <4>1
    <3>3. h \in DOMAIN e.byName /\ e.byName[h] = idx
      BY <1>0, <2>1, <3>2 DEF FuncOK
    <3>4. h = f
      BY <1>0, <1>3, <3>3 DEF NamesOK
    <3> HIDE DEF g, f
    <3>5. Got(e, g, f, idx)
      BY <3>1, <3>2, <3>4 DEF Got
    <3>6. Placing(e, g, f, idx)
      BY <1>1, <1>3, <2>1, <3>1, <3>2, <3>4 DEF Placing
    <3>7. QED
      BY <3>5, <3>6 DEF f, g
  <2>3. CASE e.byIdx[idx + 1] = NoFunc
    <3> DEFINE s == [e EXCEPT !.byIdx[idx + 1] = f]
    <3>1. g = [s EXCEPT !.func = Put(@, f, [idx |-> idx])]
      BY <1>0, <1>3, <2>3 DEF GetFunction
    <3>2. DOMAIN s = DOMAIN e /\ s.failed = e.failed /\ s.byName = e.byName /\ s.func = e.func
          /\ s.mods = e.mods /\ s.tab = e.tab /\ s.byIdx = [e.byIdx EXCEPT ![idx + 1] = f]
      BY <1>0
    <3> HIDE DEF s, g, f, idx
    <3>3. DOMAIN g = DOMAIN e /\ g.failed = e.failed /\ g.byName = e.byName
          /\ g.func = Put(e.func, f, [idx |-> idx])
          /\ g.mods = e.mods /\ g.tab = e.tab /\ g.byIdx = [e.byIdx EXCEPT ![idx + 1] = f]
      BY <1>0, <3>1, <3>2
    <3>4. Got(e, g, f, idx)
      BY <3>3 DEF Got, Put
    <3>5. g.byIdx \in Seq(DOMAIN g.func \cup {NoFunc}) /\ Len(g.byIdx) = n /\ DOMAIN g.byIdx = DOMAIN e.byIdx
          /\ g.byIdx[idx + 1] = f /\ \A j \in DOMAIN e.byIdx : j # idx + 1 => g.byIdx[j] = e.byIdx[j]
      <4>1. DOMAIN g.func = F \cup {f}
        BY <3>4 DEF Got
      <4> HIDE DEF F
      <4>2. QED
        BY <1>1, <2>1, <3>3, <4>1
    <3>6. Placing(e, g, f, idx)
      BY <1>1, <1>3, <2>1, <2>3, <3>3, <3>5 DEF Placing, idx
    <3>7. QED
      BY <3>4, <3>6 DEF f, g
  <2>4. QED
    BY <2>2, <2>3
<1>4. CASE f \notin DOMAIN e.byName
  <2> DEFINE r == [e EXCEPT !.byName = Put(@, f, n)]
             q == [r EXCEPT !.byIdx = Append(@, NoFunc)]
             s == [q EXCEPT !.byIdx[n + 1] = f]
             b == Append(e.byIdx, NoFunc)
             c == [b EXCEPT ![n + 1] = f]
  <2>0. b[n + 1] = NoFunc /\ b \in Seq(F \cup {NoFunc}) /\ DOMAIN b = 1 .. n + 1 /\ \A j \in 1 .. n : b[j] = e.byIdx[j]
    <3> HIDE DEF F
    <3>1. QED
      BY <1>1
  <2>1. q = [e EXCEPT !.byName = Put(@, f, n), !.byIdx = Append(@, NoFunc)]
    BY <1>0
  <2>2. DOMAIN q = DOMAIN e /\ q.failed = e.failed /\ q.byName = Put(e.byName, f, n) /\ q.func = e.func
        /\ q.mods = e.mods /\ q.tab = e.tab /\ q.byIdx = b
    <3>1. DOMAIN r = DOMAIN e /\ r.failed = e.failed /\ r.byName = Put(e.byName, f, n) /\ r.func = e.func
          /\ r.mods = e.mods /\ r.tab = e.tab /\ r.byIdx = e.byIdx
      BY <1>0
    <3> HIDE DEF r
    <3>2. QED
      BY <1>0, <3>1
  <2>3. g = [s EXCEPT !.func = Put(@, f, [idx |-> n])]
    <3> HIDE DEF b, n
    <3>1. g = [q EXCEPT !.byIdx[n + 1] = f, !.func = Put(@, f, [idx |-> n])]
      <4>1. q.byIdx[n + 1] = NoFunc
        BY <2>0, <2>2
      <4> HIDE DEF q
      <4>2. QED
        BY <1>4, <2>1, <4>1 DEF GetFunction, n
    <3> HIDE DEF q
    <3>2. QED
      BY <1>0, <2>2, <3>1
  <2> HIDE DEF q
  <2>4. DOMAIN s = DOMAIN e /\ s.failed = e.failed /\ s.byName = Put(e.byName, f, n) /\ s.func = e.func
        /\ s.mods = e.mods /\ s.tab = e.tab /\ s.byIdx = c
    <3> HIDE DEF b, n
    <3>1. QED
      BY <1>0, <2>2
  <2> HIDE DEF s, g, f
  <2>5. DOMAIN g = DOMAIN e /\ g.failed = e.failed /\ g.byName = Put(e.byName, f, n)
        /\ g.func = Put(e.func, f, [idx |-> n]) /\ g.mods = e.mods /\ g.tab = e.tab /\ g.byIdx = c
    <3> HIDE DEF c, n
    <3>1. QED
      BY <1>0, <2>3, <2>4
  <2>6. Got(e, g, f, n)
    <3> HIDE DEF n
    <3>1. QED
      BY <2>5 DEF Got, Put
  <2>7. DOMAIN g.func = F \cup {f}
    BY <2>6 DEF Got
  <2> HIDE DEF b, n, F
  <2>8. c \in Seq(DOMAIN g.func \cup {NoFunc}) /\ Len(c) = n + 1 /\ DOMAIN c = 1 .. n + 1
        /\ c[n + 1] = f /\ \A j \in 1 .. n + 1 : j # n + 1 => j \in 1 .. n /\ c[j] = e.byIdx[j]
    <3>1. n + 1 \in 1 .. n + 1 /\ \A j \in 1 .. n + 1 : j # n + 1 => j \in 1 .. n
      BY <1>1
    <3>2. QED
      BY <1>1, <2>0, <2>7, <3>1
  <2> HIDE DEF c
  <2>9. DOMAIN g.byName = DOMAIN e.byName \cup {f} /\ g.byName[f] = n
        /\ \A k \in DOMAIN e.byName : g.byName[k] = e.byName[k]
    BY <1>4, <2>5 DEF Put
  <2>10. n + 1 \notin DOMAIN e.byIdx /\ n + 1 >= n /\ n + 1 \in 1 .. n + 1
    BY <1>1
  <2>11. Placing(e, g, f, n)
    BY <1>1, <2>5, <2>8, <2>9, <2>10 DEF Placing, n
  <2>12. QED
    BY <2>6, <2>11 DEF f, g
<1>5. QED
  BY <1>3, <1>4
-----------------------------------------------------------------------------
(* An entry of FUNC. *)
LEMMA ReadFunctionKeeps ==
  ASSUME NEW e, NEW R, NEW m \in R, EnvOK(e, R), m \in DOMAIN e.mods, NEW d, NEW i \in Nat
  PROVE  LET g == ReadFunction(m, d, e, i) IN EnvOK(g, R) /\ Grew(e, g, m) /\ g.failed = e.failed
<1> DEFINE md == e.mods[m]
           L == Live(e.tab)
           F == DOMAIN e.func
           M == DOMAIN e.mods
           names == md.funcNameV
           name == IF i \in DOMAIN names THEN names[i] ELSE NoString
           got == GetFunction(e, m, name, i)
           f == FunctionOf(got, m, name, i)
           g == ReadFunction(m, d, e, i)
<1>0. /\ DOMAIN e = {"tab", "byName", "byIdx", "func", "mods", "failed"} /\ ModOK(md, L, F, M) /\ TabOK(e.tab)
  BY DEF EnvOK, NewEnvironment
<1>1. name \in L \cup {NoString}
  BY <1>0 DEF ModOK, NameFields, Among
<1>2. CASE d[i].codeIdx = 0
  <2> DEFINE w == Append(md.functionV, NoFunc)
             nd == [md EXCEPT !.functionV = w]
  <2>1. g = [e EXCEPT !.mods[m] = nd]
    BY <1>0, <1>2 DEF ReadFunction
  <2>2. w \in Seq(F \cup {NoFunc}) /\ ToSet(md.functionV) \subseteq ToSet(w)
    <3> DEFINE v == md.functionV
    <3>1. v \in Seq(F \cup {NoFunc})
      BY <1>0 DEF ModOK
    <3> HIDE DEF v, F
    <3>2. w \in Seq(F \cup {NoFunc})
      BY <3>1 DEF v
    <3>3. \A x \in DOMAIN v : x \in DOMAIN Append(v, NoFunc) /\ Append(v, NoFunc)[x] = v[x]
      BY <3>1
    <3>4. ToSet(v) \subseteq ToSet(Append(v, NoFunc))
      BY <3>3 DEF ToSet
    <3>5. QED
      BY <3>2, <3>4 DEF v
  <2>3. ModOK(nd, L, F, M) /\ nd.functionV = w
    <3>1. DOMAIN md = DOMAIN Blank
      BY <1>0 DEF ModOK
    <3> HIDE DEF w, md
    <3>2. /\ \A x \in NameFields : nd[x] = md[x]
          /\ nd.loaded = md.loaded /\ nd.stringV = md.stringV /\ nd.scriptV = md.scriptV
          /\ nd.functionV = w /\ nd.importV = md.importV /\ DOMAIN nd = DOMAIN md
      BY <3>1 DEF Blank, NameFields
    <3> HIDE DEF nd
    <3>3. QED
      BY <1>0, <2>2, <3>2 DEF ModOK
  <2> HIDE DEF nd, g, w
  <2>4. EnvOK([e EXCEPT !.mods[m] = nd], R) /\ Grew(e, [e EXCEPT !.mods[m] = nd], m)
    BY <1>0, <2>2, <2>3, UpdateModule
  <2>5. [e EXCEPT !.mods[m] = nd].failed = e.failed
    BY <1>0
  <2>6. QED
    BY <2>1, <2>4, <2>5 DEF g
<1>3. CASE d[i].codeIdx # 0
  <2> DEFINE x == IF name = NoString THEN i ELSE name
             h == <<m, x>>
             r == [idx |-> got.func[h].idx, locArrC |-> 0, argC |-> d[i].argC, codeIdx |-> d[i].codeIdx]
             nd == [md EXCEPT !.functionV = Append(@, h)]
             s == [got EXCEPT !.mods[m] = nd]
  <2>1. /\ f = h
        /\ \E idx : Got(e, got, h, idx)
             /\ \/ name = NoString /\ idx = 0 /\ got.byName = e.byName /\ got.byIdx = e.byIdx
                \/ name # NoString /\ Placing(e, got, h, idx)
    <3>1. CASE name = NoString
      <4>1. f = h
        BY <3>1 DEF FunctionOf
      <4>2. got = GetFunction(e, m, NoString, i) /\ h = <<m, i>>
        BY <3>1
      <4> HIDE DEF got, h, f
      <4>3. Got(e, got, h, 0) /\ got.byName = e.byName /\ got.byIdx = e.byIdx
        BY <4>2, GotUnnamed
      <4>4. QED
        BY <3>1, <4>1, <4>3
    <3>2. CASE name # NoString
      <4>1. h = <<m, name>>
        BY <3>2
      <4> HIDE DEF h, name
      <4>2. PICK idx : Got(e, got, h, idx) /\ Placing(e, got, h, idx)
        BY <3>2, <4>1, GotNamed
      <4>3. f = h
        BY <3>2, <4>1, <4>2 DEF FunctionOf, Placing
      <4>4. QED
        BY <3>2, <4>2, <4>3
    <3>3. QED
      BY <3>1, <3>2
  <2>2. g = [got EXCEPT !.mods[m].functionV = Append(@, f),
                        !.func[f] = [idx |-> @.idx, locArrC |-> 0, argC |-> d[i].argC, codeIdx |-> d[i].codeIdx]]
    BY <1>3 DEF ReadFunction
  <2> HIDE DEF got, f, name, g
  <2>3. PICK idx : Got(e, got, h, idx)
             /\ \/ name = NoString /\ idx = 0 /\ got.byName = e.byName /\ got.byIdx = e.byIdx
                \/ name # NoString /\ Placing(e, got, h, idx)
    BY <2>1
  <2>4. /\ DOMAIN got = DOMAIN e /\ got.tab = e.tab /\ got.failed = e.failed /\ got.mods = e.mods
        /\ DOMAIN got.func = DOMAIN e.func \cup {h} /\ got.func[h].idx = idx
        /\ \A k \in DOMAIN e.func : k # h => got.func[k] = e.func[k]
    BY <2>3 DEF Got
  <2>5. g = [s EXCEPT !.func[h] = r]
    <3> HIDE DEF h
    <3>1. s = [got EXCEPT !.mods[m].functionV = Append(@, h)]
      BY <1>0, <2>4
    <3>2. DOMAIN s = DOMAIN got /\ s.func = got.func
      BY <1>0, <2>4
    <3> HIDE DEF s
    <3>3. g = [s EXCEPT !.func[h] = [idx |-> @.idx, locArrC |-> 0, argC |-> d[i].argC, codeIdx |-> d[i].codeIdx]]
      BY <2>1, <2>2, <3>1
    <3>4. QED
      BY <3>2, <3>3
  <2>6. DOMAIN s = DOMAIN e /\ s.tab = e.tab /\ s.failed = e.failed /\ s.mods = [e.mods EXCEPT ![m] = nd]
        /\ s.func = got.func /\ s.byName = got.byName /\ s.byIdx = got.byIdx
    <3> HIDE DEF nd
    <3>1. QED
      BY <1>0, <2>4
  <2> HIDE DEF s, r
  <2>7. DOMAIN g = DOMAIN e /\ g.tab = e.tab /\ g.failed = e.failed /\ g.mods = [e.mods EXCEPT ![m] = nd]
        /\ g.func = [got.func EXCEPT ![h] = r] /\ g.byName = got.byName /\ g.byIdx = got.byIdx
    <3> HIDE DEF nd, h
    <3>1. QED
      BY <1>0, <2>5, <2>6
  <2>8. r.idx = idx /\ "idx" \in DOMAIN r
    BY <2>4 DEF r
  <2>9. /\ DOMAIN g.func = DOMAIN e.func \cup {h} /\ g.func[h] = r
        /\ \A k \in DOMAIN e.func : k # h => g.func[k] = e.func[k]
    <3> HIDE DEF h
    <3>1. QED
      BY <2>4, <2>7
  <2>10. Added(e, g, m, h)
    <3> HIDE DEF h
    <3>1. QED
      BY <2>7, <2>8, <2>9 DEF Added
  <2>11. h = <<m, h[2]>> /\ h[2] = x
    OBVIOUS
  <2>12. Unnamed(e, g, m, h) \/ AddedName(e, g, m, h)
    <3>1. CASE name = NoString /\ idx = 0 /\ got.byName = e.byName /\ got.byIdx = e.byIdx
      <4>1. h[2] \in Nat
        BY <3>1
      <4> HIDE DEF h, x
      <4>2. QED
        BY <2>7, <2>8, <2>9, <3>1, <4>1 DEF Unnamed
    <3>2. CASE name # NoString /\ Placing(e, got, h, idx)
      <4>1. h[2] \in L
        BY <1>1, <3>2
      <4>2. DOMAIN got.func = DOMAIN g.func
        BY <2>4, <2>9
      <4> HIDE DEF h, x
      <4>3. QED
        BY <2>7, <2>8, <2>9, <3>2, <4>1, <4>2 DEF AddedName, Placing
    <3>3. QED
      BY <2>3, <3>1, <3>2
  <2> HIDE DEF h, x
  <2>13. EnvOK(g, R) /\ Grew(e, g, m)
    BY <2>10, <2>11, <2>12, FunctionAdded
  <2>14. QED
    BY <2>7, <2>13 DEF g
<1>4. QED
  BY <1>2, <1>3
-----------------------------------------------------------------------------
StepGood(c, i, u) == EnvOK(u, c[2]) /\ Grew(c[1], u, c[3]) /\ u.failed = c[1].failed

Reads == INSTANCE Folding WITH Op <- ReadFunction, Good <- StepGood

(* FUNC is a fold of ReadFunction. *)
LEMMA FunctionsFold ==
  ASSUME NEW e, NEW m, NEW d
  PROVE  Functions(e, m, d) = Reads!Folded(m, d, e, Indexes(d))
BY SMT DEF Functions, Reads!Folded, FoldLeft, MapThenFoldSet,
           Reads!Rule, Reads!Value, Reads!Greatest, Max

(* FUNC. *)
LEMMA FunctionsKeep ==
  ASSUME NEW e, NEW R, NEW m \in R, EnvOK(e, R), m \in DOMAIN e.mods, NEW d, d \in Seq(ToSet(d))
  PROVE  LET g == Functions(e, m, d) IN EnvOK(g, R) /\ Grew(e, g, m) /\ g.failed = e.failed
<1> DEFINE n == Len(d)
           ss == Indexes(d)
           c == <<e, R, m>>
<1>1. n \in Nat /\ DOMAIN ss = 1 .. n /\ \A i \in 1 .. n : ss[i] = i /\ i \in Nat
  BY DEF Indexes
<1>2. StepGood(c, 0, e)
  BY GrewSelf DEF StepGood
<1> HIDE DEF ss, n
<1>3. ASSUME NEW i \in 1 .. n, NEW u, StepGood(c, i - 1, u)
      PROVE  StepGood(c, i, ReadFunction(m, d, u, ss[i]))
  <2> DEFINE v == ReadFunction(m, d, u, ss[i])
  <2>1. EnvOK(u, R) /\ Grew(e, u, m) /\ u.failed = e.failed /\ m \in DOMAIN u.mods /\ ss[i] \in Nat
    BY <1>1, <1>3 DEF StepGood, Grew
  <2>2. EnvOK(v, R) /\ Grew(u, v, m) /\ v.failed = u.failed
    BY <2>1, ReadFunctionKeeps
  <2> HIDE DEF v
  <2>3. Grew(e, v, m)
    BY <2>1, <2>2, GrewTrans
  <2>4. QED
    BY <2>1, <2>2, <2>3 DEF StepGood, v
<1> HIDE DEF c
<1>4. \A i \in 1 .. n : \A u : StepGood(c, i - 1, u) => StepGood(c, i, ReadFunction(m, d, u, ss[i]))
  BY <1>3
<1>5. StepGood(c, n, Reads!Folded(m, d, e, ss))
  BY <1>1, <1>2, <1>4, Reads!FoldKeeps
<1>6. QED
  BY <1>5, FunctionsFold DEF StepGood, c, ss
-----------------------------------------------------------------------------
(* Imports. *)

(* A set of numbers has its minimum. *)
LEMMA MinIn ==
  ASSUME NEW S, S \subseteq Nat, S # {}
  PROVE  Min(S) \in S
<1>1. \E k \in S : \A i \in S : k <= i
  BY Interning!LeastNumber
<1>2. QED
  BY <1>1 DEF Min

(* An imported function is one that there is. *)
LEMMA ImportedOK ==
  ASSUME NEW e, NEW R, NEW m, EnvOK(e, R), m \in DOMAIN e.mods, NEW name
  PROVE  Imported(e, m, name) \in DOMAIN e.func \cup {NoFunc}
<1> DEFINE imports == e.mods[m].importV
           Fit(v) == {j \in DOMAIN v : v[j] # NoFunc /\ v[j][2] = name}
           with == {i \in DOMAIN imports :
                      imports[i] # NoModule /\ Fit(e.mods[imports[i]].functionV) # {}}
<1>1. Imported(e, m, name) = IF with = {} THEN NoFunc
        ELSE LET v == e.mods[imports[Min(with)]].functionV IN v[Min(Fit(v))]
  BY DEF Imported
<1>2. imports \in Seq(DOMAIN e.mods \cup {NoModule})
  BY DEF EnvOK, ModOK
<1>3. with \subseteq Nat /\ \A i \in with : imports[i] \in DOMAIN e.mods /\ Fit(e.mods[imports[i]].functionV) # {}
  <2> HIDE DEF imports, Fit
  <2>1. DOMAIN imports \subseteq Nat /\ \A i \in DOMAIN imports : imports[i] # NoModule => imports[i] \in DOMAIN e.mods
    BY <1>2
  <2>2. QED
    BY <2>1
<1> HIDE DEF with, imports
<1>4. CASE with # {}
  <2> DEFINE n == imports[Min(with)]
             v == e.mods[n].functionV
  <2>1. Min(with) \in with
    BY <1>3, <1>4, MinIn
  <2>2. n \in DOMAIN e.mods /\ Fit(v) # {}
    BY <1>3, <2>1
  <2>3. v \in Seq(DOMAIN e.func \cup {NoFunc})
    BY <2>2 DEF EnvOK, ModOK
  <2> HIDE DEF n, v
  <2>4. Fit(v) \subseteq DOMAIN v /\ Fit(v) \subseteq Nat
    BY <2>3
  <2>5. Min(Fit(v)) \in DOMAIN v
    <3> HIDE DEF Fit
    <3>1. Min(Fit(v)) \in Fit(v)
      BY <2>2, <2>4, MinIn
    <3>2. QED
      BY <2>4, <3>1
  <2>6. v[Min(Fit(v))] \in DOMAIN e.func \cup {NoFunc}
    BY <2>3, <2>5
  <2>7. QED
    BY <1>1, <1>4, <2>6 DEF n, v
<1>5. QED
  BY <1>1, <1>4

(* The import of a function. *)
LEMMA ImportFunctionKeeps ==
  ASSUME NEW e, NEW R, NEW m \in R, EnvOK(e, R), m \in DOMAIN e.mods, NEW names, NEW i
  PROVE  LET g == ImportFunction(m, names, e, i) IN EnvOK(g, R) /\ Grew(e, g, m) /\ g.failed = e.failed
<1> DEFINE md == e.mods[m]
           v == md.functionV
           L == Live(e.tab)
           F == DOMAIN e.func
           x == Imported(e, m, names[i])
           g == ImportFunction(m, names, e, i)
<1>0. /\ DOMAIN e = {"tab", "byName", "byIdx", "func", "mods", "failed"} /\ ModOK(md, L, F, DOMAIN e.mods)
  BY DEF EnvOK, NewEnvironment
<1>1. CASE v[i] = NoFunc /\ i \in DOMAIN names /\ names[i] # NoString
  <2> DEFINE w == [v EXCEPT ![i] = x]
             nd == [md EXCEPT !.functionV = w]
  <2>1. x \in F \cup {NoFunc}
    BY ImportedOK
  <2>2. g = [e EXCEPT !.mods[m] = nd]
    BY <1>0, <1>1 DEF ImportFunction
  <2> HIDE DEF x, g
  <2>3. w \in Seq(F \cup {NoFunc}) /\ ToSet(v) \ {NoFunc} \subseteq ToSet(w)
    <3>1. v \in Seq(F \cup {NoFunc})
      BY <1>0 DEF ModOK
    <3> HIDE DEF v, F
    <3>2. w \in Seq(F \cup {NoFunc})
      <4> DEFINE S == F \cup {NoFunc}
                 n == Len(v)
      <4>1. n \in Nat /\ v \in [1 .. n -> S] /\ x \in S
        BY <2>1, <3>1
      <4> HIDE DEF S, n
      <4>2. w \in [1 .. n -> S]
        BY <4>1
      <4> HIDE DEF w
      <4>3. w \in Seq(S)
        BY <4>1, <4>2
      <4>4. QED
        BY <4>3 DEF S
    <3>3. ToSet(v) \ {NoFunc} \subseteq ToSet(w)
      BY <1>1 DEF ToSet
    <3>4. QED
      BY <3>2, <3>3
  <2>4. ModOK(nd, L, F, DOMAIN e.mods) /\ nd.functionV = w
    <3>1. DOMAIN md = DOMAIN Blank
      BY <1>0 DEF ModOK
    <3> HIDE DEF w, md, v
    <3>2. /\ \A f \in NameFields : nd[f] = md[f]
          /\ nd.loaded = md.loaded /\ nd.stringV = md.stringV /\ nd.scriptV = md.scriptV
          /\ nd.functionV = w /\ nd.importV = md.importV /\ DOMAIN nd = DOMAIN md
      BY <3>1 DEF Blank, NameFields
    <3> HIDE DEF nd
    <3>3. QED
      BY <1>0, <2>3, <3>2 DEF ModOK
  <2>5. ToSet(e.mods[m].functionV) \ {NoFunc} \subseteq ToSet(nd.functionV)
    BY <2>3, <2>4
  <2> HIDE DEF nd
  <2>6. EnvOK([e EXCEPT !.mods[m] = nd], R) /\ Grew(e, [e EXCEPT !.mods[m] = nd], m)
    BY <2>4, <2>5, UpdateModule
  <2>7. [e EXCEPT !.mods[m] = nd].failed = e.failed
    BY <1>0
  <2>8. QED
    BY <2>2, <2>6, <2>7 DEF g
<1>2. CASE ~(v[i] = NoFunc /\ i \in DOMAIN names /\ names[i] # NoString)
  <2>1. g = e
    BY <1>2 DEF ImportFunction
  <2>2. QED
    BY <2>1, GrewSelf
<1>3. QED
  BY <1>1, <1>2

Importings == INSTANCE Folding WITH Op <- ImportFunction, Good <- StepGood

(* The imports of functions are a fold of ImportFunction. *)
LEMMA ImportFunctionsFold ==
  ASSUME NEW e, NEW m
  PROVE  ImportFunctions(e, m)
           = Importings!Folded(m, e.mods[m].funcNameV, e, Indexes(e.mods[m].functionV))
BY SMT DEF ImportFunctions, Importings!Folded, FoldLeft, MapThenFoldSet,
           Importings!Rule, Importings!Value, Importings!Greatest, Max

(* The imports of all functions of a module. *)
LEMMA ImportFunctionsKeep ==
  ASSUME NEW e, NEW R, NEW m \in R, EnvOK(e, R), m \in DOMAIN e.mods
  PROVE  LET g == ImportFunctions(e, m) IN EnvOK(g, R) /\ Grew(e, g, m) /\ g.failed = e.failed
<1> DEFINE names == e.mods[m].funcNameV
           n == Len(e.mods[m].functionV)
           ss == Indexes(e.mods[m].functionV)
           c == <<e, R, m>>
<1>1. n \in Nat /\ DOMAIN ss = 1 .. n
  BY DEF EnvOK, ModOK, Indexes
<1>2. StepGood(c, 0, e)
  BY GrewSelf DEF StepGood
<1> HIDE DEF ss, n, names
<1>3. ASSUME NEW i \in 1 .. n, NEW u, StepGood(c, i - 1, u)
      PROVE  StepGood(c, i, ImportFunction(m, names, u, ss[i]))
  <2> DEFINE v == ImportFunction(m, names, u, ss[i])
  <2>1. EnvOK(u, R) /\ Grew(e, u, m) /\ u.failed = e.failed /\ m \in DOMAIN u.mods
    BY <1>3 DEF StepGood, Grew
  <2>2. EnvOK(v, R) /\ Grew(u, v, m) /\ v.failed = u.failed
    BY <2>1, ImportFunctionKeeps
  <2> HIDE DEF v
  <2>3. Grew(e, v, m)
    BY <2>1, <2>2, GrewTrans
  <2>4. QED
    BY <2>1, <2>2, <2>3 DEF StepGood, v
<1> HIDE DEF c
<1>4. \A i \in 1 .. n : \A u : StepGood(c, i - 1, u) => StepGood(c, i, ImportFunction(m, names, u, ss[i]))
  BY <1>3
<1>5. StepGood(c, n, Importings!Folded(m, names, e, ss))
  BY <1>1, <1>2, <1>4, Importings!FoldKeeps
<1>6. QED
  BY <1>5, ImportFunctionsFold DEF StepGood, c, ss, names
-----------------------------------------------------------------------------
(* Chunks. *)

ChunkNames ==
  {"MEXP", "FNAM", "SNAM", "STRE", "STRL", "ARAY", "AINI", "ATAG", "ASTR", "FUNC", "FARY",
   "JUMP", "MINI", "MSTR", "SPTR", "SARY", "SFLG", "SVCT", "AIMP", "MIMP"}

(* Every chunk that its reader takes keeps the environment right. *)
LEMMA ChunkKeeps ==
  ASSUME NEW e, NEW R, NEW m \in R, EnvOK(e, R), m \in DOMAIN e.mods,
         NEW c, c.id \in ChunkNames, ChunkOK(c)
  PROVE  EnvOK(Chunk(e, m, c), R) /\ Grew(e, Chunk(e, m, c), m)
<1> DEFINE d == c.data
           md == e.mods[m]
           With(nd) == [e EXCEPT !.mods[m] = nd]
           L == Live(e.tab)
           F == DOMAIN e.func
           M == DOMAIN e.mods
           Fine(nd) == ModOK(nd, L, F, M) /\ nd.functionV = md.functionV
<1>0. ModOK(md, L, F, M) /\ DOMAIN md = DOMAIN Blank
  BY DEF EnvOK, ModOK
<1>1. ASSUME NEW nd, Fine(nd) PROVE EnvOK(With(nd), R) /\ Grew(e, With(nd), m)
  <2>1. ToSet(e.mods[m].functionV) \ {NoFunc} \subseteq ToSet(nd.functionV)
    BY <1>1
  <2>2. ModOK(nd, Live(e.tab), DOMAIN e.func, DOMAIN e.mods)
    BY <1>1
  <2>3. QED
    BY <2>1, <2>2, UpdateModule
<1>2. \A nd : Same(md, nd) => Fine(nd)
  BY <1>0, SameKeeps
<1> HIDE DEF Fine
<1>3. CASE c.id \in {"MEXP", "FNAM", "SNAM", "STRE", "STRL"}
  <2>1. d \in Seq(String)
    BY <1>3 DEF ChunkOK
  <2>2. PICK field \in NameFields \cup {"stringV"} : Chunk(e, m, c) = Strings(e, m, field, d)
    <3>1. /\ c.id = "MEXP" => Chunk(e, m, c) = Strings(e, m, "regNameV", d)
          /\ c.id = "FNAM" => Chunk(e, m, c) = Strings(e, m, "funcNameV", d)
          /\ c.id = "SNAM" => Chunk(e, m, c) = Strings(e, m, "scrNameV", d)
          /\ c.id \in {"STRE", "STRL"} => Chunk(e, m, c) = Strings(e, m, "stringV", d)
      BY DEF Chunk
    <3>2. {"regNameV", "funcNameV", "scrNameV", "stringV"} \subseteq NameFields \cup {"stringV"}
      BY DEF NameFields
    <3> HIDE DEF d
    <3>3. QED
      BY <1>3, <3>1, <3>2
  <2> HIDE DEF d
  <2>3. QED
    BY <2>1, <2>2, StringsKeep
<1>4. CASE c.id \in {"AIMP", "MIMP"}
  <2>1. d \in Seq(Nat \X String)
    BY <1>4 DEF ChunkOK
  <2>2. PICK field \in NameFields : Chunk(e, m, c) = Imports(e, m, field, d)
    <3>1. /\ c.id = "AIMP" => Chunk(e, m, c) = Imports(e, m, "arrImpV", d)
          /\ c.id = "MIMP" => Chunk(e, m, c) = Imports(e, m, "regImpV", d)
      BY DEF Chunk
    <3>2. {"arrImpV", "regImpV"} \subseteq NameFields
      BY DEF NameFields
    <3> HIDE DEF d
    <3>3. QED
      BY <1>4, <3>1, <3>2
  <2> HIDE DEF d
  <2>3. QED
    BY <2>1, <2>2, ImportsKeep
<1>5. CASE c.id = "ARAY"
  <2>1. Chunk(e, m, c) = With(Arrays(md, d))
    BY <1>5 DEF Chunk
  <2>2. Fine(Arrays(md, d))
    BY <1>0, ArraysKeep DEF Fine
  <2> HIDE DEF With, d, md
  <2>3. QED
    BY <1>1, <2>1, <2>2
<1>6. CASE c.id \in {"AINI", "ATAG", "ASTR", "JUMP", "MINI", "MSTR"}
  <2>1. PICK nd : Same(md, nd) /\ Chunk(e, m, c) = With(nd)
    <3>1. /\ c.id = "AINI" => Chunk(e, m, c) = With(InitArray(md, d))
          /\ c.id = "ATAG" => Chunk(e, m, c) = With(TagArray(md, d))
          /\ c.id = "ASTR" => Chunk(e, m, c) = With(StringArrays(md, d))
          /\ c.id = "JUMP" => Chunk(e, m, c) = With([md EXCEPT !.jumpV = d])
          /\ c.id = "MINI" => Chunk(e, m, c) = With(Registers(md, d[1], d[2]))
          /\ c.id = "MSTR" => Chunk(e, m, c) = With(RegisterStrings(md, d))
      BY DEF Chunk
    <3>2. c.id = "ASTR" => d \in Seq(ToSet(d))
      BY DEF ChunkOK
    <3> HIDE DEF d, md, With
    <3>3. /\ Same(md, InitArray(md, d)) /\ Same(md, TagArray(md, d))
          /\ Same(md, [md EXCEPT !.jumpV = d])
          /\ Same(md, Registers(md, d[1], d[2])) /\ Same(md, RegisterStrings(md, d))
          /\ d \in Seq(ToSet(d)) => Same(md, StringArrays(md, d))
      BY <1>0, InitialValues
    <3>4. QED
      BY <1>6, <3>1, <3>2, <3>3
  <2> HIDE DEF With, md
  <2>2. QED
    BY <1>1, <1>2, <2>1
<1>7. CASE c.id = "FUNC"
  <2>1. Chunk(e, m, c) = Functions(e, m, d) /\ d \in Seq(ToSet(d))
    BY <1>7 DEF Chunk, ChunkOK
  <2> HIDE DEF d
  <2>2. QED
    BY <2>1, FunctionsKeep
<1>8. CASE c.id = "FARY"
  <2>1. Chunk(e, m, c) = FunctionArrays(e, m, d[1], d[2])
    BY <1>8 DEF Chunk
  <2> HIDE DEF d
  <2>2. QED
    BY <2>1, FunctionArraysKeep
<1>9. CASE c.id = "SPTR"
  <2> DEFINE v == [i \in DOMAIN d |-> Script(md, d[i])]
  <2>1. Chunk(e, m, c) = With([md EXCEPT !.scriptV = v])
    BY <1>9 DEF Chunk
  <2>2. Among(md.scrNameV, L)
    BY <1>0 DEF ModOK, NameFields
  <2>3. \A i \in DOMAIN v : "name" \in DOMAIN v[i] /\ v[i].name \in L \cup {NoString}
    BY <2>2, ScriptNames
  <2> HIDE DEF v, d, md, L, F, M
  <2>4. Fine([md EXCEPT !.scriptV = v])
    BY <1>0, <2>3, ScriptsKeep DEF Fine
  <2> HIDE DEF With
  <2>5. QED
    BY <1>1, <2>1, <2>4
<1>10. CASE c.id \in {"SARY", "SFLG", "SVCT"}
  <2>1. PICK field, p, n : /\ Chunk(e, m, c) = With(SetScripts(md, field, p))
                           /\ field # "name" /\ n \in Nat /\ DOMAIN p = 1 .. n
    <3>1. /\ c.id = "SARY" => Chunk(e, m, c) = With(SetScripts(md, "locArrC", <<d>>))
          /\ c.id = "SFLG" => Chunk(e, m, c) = With(SetScripts(md, "flags", d))
          /\ c.id = "SVCT" => Chunk(e, m, c) = With(SetScripts(md, "locRegC", d))
      BY DEF Chunk
    <3>2. DOMAIN <<d>> = 1 .. 1
      OBVIOUS
    <3>3. c.id \in {"SFLG", "SVCT"} => d \in Seq(ToSet(d))
      BY DEF ChunkOK
    <3> HIDE DEF d, md, With
    <3>4. d \in Seq(ToSet(d)) => Len(d) \in Nat /\ DOMAIN d = 1 .. Len(d)
      OBVIOUS
    <3>5. QED
      BY <1>10, <3>1, <3>2, <3>3, <3>4
  <2> HIDE DEF With, md
  <2>2. Fine(SetScripts(md, field, p))
    BY <1>0, <2>1, SetScriptsKeep DEF Fine
  <2>3. QED
    BY <1>1, <2>1, <2>2
<1>11. QED
  BY <1>3, <1>4, <1>5, <1>6, <1>7, <1>8, <1>9, <1>10 DEF ChunkNames
-----------------------------------------------------------------------------
(* The chunks of a name. *)

ChosenStep(a, b, u, s) == IF s.id = a THEN Append(u, s) ELSE u
ChosenGood(c, i, u) == u \in Seq(c[1]) /\ \A k \in DOMAIN u : u[k].id = c[2]

Choosing == INSTANCE Folding WITH Op <- ChosenStep, Good <- ChosenGood

(* The chunks found are chunks of the file, and have the name. *)
LEMMA FoundOK ==
  ASSUME NEW file, file.chunks \in Seq(ToSet(file.chunks)), NEW id
  PROVE  /\ Found(file, id) \in Seq(ToSet(file.chunks))
         /\ \A k \in DOMAIN Found(file, id) : Found(file, id)[k].id = id
<1> DEFINE ss == file.chunks
           C == ToSet(ss)
           n == Len(ss)
           c == <<C, id>>
           all == Choosing!Chain(id, 0, <<>>, ss)
<1>0. Chosen(file.chunks, LAMBDA x : x.id = id) = all
  BY DEF Chosen, Choosing!Chain, ChosenStep
<1>1. n \in Nat /\ \A i \in 1 .. n : ss[i] \in C
  OBVIOUS
<1>2. ChosenGood(c, 0, <<>>)
  BY DEF ChosenGood
<1> HIDE DEF C
<1>3. ASSUME NEW i \in 1 .. n, NEW u, ChosenGood(c, i - 1, u)
      PROVE  ChosenGood(c, i, ChosenStep(id, 0, u, ss[i]))
  <2>1. u \in Seq(C) /\ \A k \in DOMAIN u : u[k].id = id
    BY <1>3 DEF ChosenGood
  <2>2. CASE ss[i].id = id
    <3> DEFINE w == Append(u, ss[i])
    <3>1. ChosenStep(id, 0, u, ss[i]) = w
      BY <2>2 DEF ChosenStep
    <3>2. w \in Seq(C) /\ Len(u) \in Nat /\ DOMAIN w = 1 .. Len(u) + 1 /\ DOMAIN u = 1 .. Len(u)
          /\ w[Len(u) + 1] = ss[i] /\ \A k \in 1 .. Len(u) : w[k] = u[k]
      BY <1>1, <2>1
    <3> HIDE DEF w
    <3>3. \A k \in DOMAIN w : k = Len(u) + 1 \/ k \in 1 .. Len(u)
      BY <3>2
    <3>4. \A k \in DOMAIN w : w[k].id = id
      BY <2>1, <2>2, <3>2, <3>3
    <3>5. QED
      BY <3>1, <3>2, <3>4 DEF ChosenGood
  <2>3. CASE ss[i].id # id
    BY <1>3, <2>1, <2>3 DEF ChosenStep, ChosenGood
  <2>4. QED
    BY <2>2, <2>3
<1>4. ChosenGood(c, n, all)
  <2> HIDE DEF c, n, ss
  <2>1. \A i \in 1 .. n : \A u : ChosenGood(c, i - 1, u) => ChosenGood(c, i, ChosenStep(id, 0, u, ss[i]))
    BY <1>3
  <2>2. QED
    BY <1>1, <1>2, <2>1, Choosing!ChainKeeps DEF n
<1> HIDE DEF all
<1>5. all \in Seq(C) /\ \A k \in DOMAIN all : all[k].id = id
  BY <1>4 DEF ChosenGood
<1>6. Found(file, id) = IF id \in Once /\ all # <<>> THEN <<all[1]>> ELSE all
  BY <1>0 DEF Found
<1>7. CASE id \in Once /\ all # <<>>
  <2>1. all[1] \in C /\ all[1].id = id
    BY <1>5, <1>7
  <2>2. Found(file, id) = <<all[1]>>
    BY <1>6, <1>7
  <2>3. QED
    BY <2>1, <2>2 DEF C
<1>8. QED
  BY <1>5, <1>6, <1>7 DEF C
-----------------------------------------------------------------------------
(* One search through the chunks, and all of them. *)

PassStep(a, b, u, s) == IF u.failed THEN u ELSE IF s.ok THEN Chunk(u, a, s) ELSE Fail(u)
PassGood(c, i, u) == EnvOK(u, c[2]) /\ Grew(c[1], u, c[3])

Passing == INSTANCE Folding WITH Op <- PassStep, Good <- PassGood

(* A search through the chunks is a fold of PassStep, up to a failure. *)
LEMMA PassFolds ==
  ASSUME NEW e, NEW m, NEW file, NEW id
  PROVE  Pass(e, m, file, id)
           = LET read == Passing!Folded(m, 0, e, Found(file, id))
             IN IF file.cut /\ ~(id \in Once /\ Found(file, id) # <<>>) THEN Fail(read) ELSE read
BY SMT DEF Pass, Passing!Folded, PassStep, FoldLeft, MapThenFoldSet,
           Passing!Rule, Passing!Value, Passing!Greatest, Max

Chunked(file) ==
  file.chunks \in Seq(ToSet(file.chunks)) /\ \A c \in ToSet(file.chunks) : c.ok => ChunkOK(c)

(* A search through the chunks. *)
LEMMA PassKeeps ==
  ASSUME NEW e, NEW R, NEW m \in R, EnvOK(e, R), m \in DOMAIN e.mods,
         NEW file, Chunked(file), NEW id \in ChunkNames
  PROVE  EnvOK(Pass(e, m, file, id), R) /\ Grew(e, Pass(e, m, file, id), m)
<1> DEFINE ss == Found(file, id)
           n == Len(ss)
           c == <<e, R, m>>
           read == Passing!Folded(m, 0, e, ss)
<1>1. /\ ss \in Seq(ToSet(file.chunks)) /\ \A k \in DOMAIN ss : ss[k].id = id
  BY FoundOK DEF Chunked
<1>2. n \in Nat /\ DOMAIN ss = 1 .. n /\ \A i \in 1 .. n : ss[i].id \in ChunkNames /\ (ss[i].ok => ChunkOK(ss[i]))
  <2> HIDE DEF ss
  <2>1. n \in Nat /\ DOMAIN ss = 1 .. n /\ \A i \in 1 .. n : ss[i] \in ToSet(file.chunks)
    BY <1>1
  <2>2. QED
    BY <1>1, <2>1 DEF Chunked
<1>3. PassGood(c, 0, e)
  BY GrewSelf DEF PassGood
<1> HIDE DEF ss, n
<1>4. ASSUME NEW i \in 1 .. n, NEW u, PassGood(c, i - 1, u)
      PROVE  PassGood(c, i, PassStep(m, 0, u, ss[i]))
  <2>1. EnvOK(u, R) /\ Grew(e, u, m) /\ m \in DOMAIN u.mods
    BY <1>4 DEF PassGood, Grew
  <2>2. EnvOK(PassStep(m, 0, u, ss[i]), R) /\ Grew(u, PassStep(m, 0, u, ss[i]), m)
    <3>1. CASE u.failed
      BY <2>1, <3>1, GrewSelf DEF PassStep
    <3>2. CASE ~u.failed /\ ss[i].ok
      <4>1. PassStep(m, 0, u, ss[i]) = Chunk(u, m, ss[i])
        BY <3>2 DEF PassStep
      <4>2. QED
        BY <1>2, <2>1, <3>2, <4>1, ChunkKeeps
    <3>3. CASE ~u.failed /\ ~ss[i].ok
      <4>1. PassStep(m, 0, u, ss[i]) = Fail(u)
        BY <3>3 DEF PassStep
      <4>2. QED
        BY <2>1, <4>1, FailOK
    <3>4. QED
      BY <3>1, <3>2, <3>3
  <2> DEFINE v == PassStep(m, 0, u, ss[i])
  <2> HIDE DEF v
  <2>3. EnvOK(v, R) /\ Grew(u, v, m)
    BY <2>2 DEF v
  <2>4. Grew(e, v, m)
    BY <2>1, <2>3, GrewTrans
  <2>5. QED
    BY <2>3, <2>4 DEF PassGood, v
<1> HIDE DEF c
<1>5. \A i \in 1 .. n : \A u : PassGood(c, i - 1, u) => PassGood(c, i, PassStep(m, 0, u, ss[i]))
  BY <1>4
<1>6. PassGood(c, n, read)
  BY <1>2, <1>3, <1>5, Passing!FoldKeeps
<1>7. EnvOK(read, R) /\ Grew(e, read, m)
  BY <1>6 DEF PassGood, c
<1>8. Pass(e, m, file, id) \in {read, Fail(read)}
  BY PassFolds DEF ss
<1> HIDE DEF read
<1>9. EnvOK(Fail(read), R) /\ Grew(e, Fail(read), m)
  <2>1. EnvOK(Fail(read), R) /\ Grew(read, Fail(read), m)
    BY <1>7, FailOK
  <2>2. QED
    BY <1>7, <2>1, GrewTrans
<1>10. QED
  BY <1>7, <1>8, <1>9

PassesStep(a, b, u, s) == IF u.failed THEN u ELSE Pass(u, a, b, s)

AllPassing == INSTANCE Folding WITH Op <- PassesStep, Good <- PassGood

(* The searches are a fold of PassesStep. *)
LEMMA PassesFold ==
  ASSUME NEW e, NEW m, NEW file, NEW ids
  PROVE  Passes(e, m, file, ids) = AllPassing!Folded(m, file, e, ids)
BY SMT DEF Passes, AllPassing!Folded, PassesStep, FoldLeft, MapThenFoldSet,
           AllPassing!Rule, AllPassing!Value, AllPassing!Greatest, Max

(* All searches. *)
LEMMA PassesKeep ==
  ASSUME NEW e, NEW R, NEW m \in R, EnvOK(e, R), m \in DOMAIN e.mods,
         NEW file, Chunked(file), NEW ids \in Seq(ChunkNames)
  PROVE  EnvOK(Passes(e, m, file, ids), R) /\ Grew(e, Passes(e, m, file, ids), m)
<1> DEFINE n == Len(ids)
           c == <<e, R, m>>
<1>1. n \in Nat /\ DOMAIN ids = 1 .. n /\ \A i \in 1 .. n : ids[i] \in ChunkNames
  <2> HIDE DEF ChunkNames
  <2>1. QED
    OBVIOUS
<1>2. PassGood(c, 0, e)
  BY GrewSelf DEF PassGood
<1> HIDE DEF n
<1>3. ASSUME NEW i \in 1 .. n, NEW u, PassGood(c, i - 1, u)
      PROVE  PassGood(c, i, PassesStep(m, file, u, ids[i]))
  <2> DEFINE v == PassesStep(m, file, u, ids[i])
  <2>1. EnvOK(u, R) /\ Grew(e, u, m) /\ m \in DOMAIN u.mods
    BY <1>3 DEF PassGood, Grew
  <2>2. EnvOK(v, R) /\ Grew(u, v, m)
    <3>1. CASE u.failed
      BY <2>1, <3>1, GrewSelf DEF PassesStep
    <3>2. CASE ~u.failed
      <4>1. v = Pass(u, m, file, ids[i])
        BY <3>2 DEF PassesStep
      <4> HIDE DEF v
      <4>2. QED
        BY <1>1, <2>1, <4>1, PassKeeps
    <3>3. QED
      BY <3>1, <3>2
  <2> HIDE DEF v
  <2>3. Grew(e, v, m)
    BY <2>1, <2>2, GrewTrans
  <2>4. QED
    BY <2>2, <2>3 DEF PassGood, v
<1> HIDE DEF c
<1>4. \A i \in 1 .. n : \A u : PassGood(c, i - 1, u) => PassGood(c, i, PassesStep(m, file, u, ids[i]))
  BY <1>3
<1>5. PassGood(c, n, AllPassing!Folded(m, file, e, ids))
  BY <1>1, <1>2, <1>4, AllPassing!FoldKeeps
<1>6. QED
  BY <1>5, PassesFold DEF PassGood, c

(* The searches look for chunks that have a reader. *)
LEMMA ChunkLists ==
  ASSUME NEW file
  PROVE  BeforeLoad(file) \in Seq(ChunkNames) /\ AfterLoad \in Seq(ChunkNames)
<1>1. AfterLoad \in Seq(ChunkNames)
  BY DEF AfterLoad, ChunkNames
<1>2. <<"MEXP", "ARAY", "AINI", "FNAM", "FUNC", "FARY", "JUMP", "MINI", "SNAM", "SPTR",
        "SARY", "SFLG", "SVCT">> \in Seq(ChunkNames)
  BY DEF ChunkNames
<1>3. <<"STRE">> \in Seq(ChunkNames) /\ <<"STRE", "STRL">> \in Seq(ChunkNames)
  BY DEF ChunkNames
<1>4. BeforeLoad(file) \in Seq(ChunkNames)
  BY <1>2, <1>3 DEF BeforeLoad
<1>5. QED
  BY <1>1, <1>4
-----------------------------------------------------------------------------
(* readBytecode. *)

(* Every file is well formed. *)
LEMMA FileKinds ==
  ASSUME NEW m \in Module, NEW file \in FilesOf[m]
  PROVE  /\ file.head \in ACSE => Chunked(file)
                                  /\ \A c \in ToSet(file.chunks) : c.id = "LOAD" => c.data \in Seq(Module)
         /\ file.head = "ACS0" => file.strings \in Seq(String)
         /\ file.head \in ACSE \cup {"ACS0", "short", "unknown"}
<1>1. WellFormed(file, Module)
  BY FileAssumption
<1>2. CASE file.head \in {"ACSE", "ACSe"}
  BY <1>1, <1>2 DEF WellFormed, Chunked, ACSE
<1>3. CASE file.head = "ACS0"
  BY <1>1, <1>3 DEF WellFormed, ACSE
<1>4. CASE file.head \notin {"ACSE", "ACSe"} /\ file.head # "ACS0"
  BY <1>1, <1>4 DEF WellFormed, ACSE
<1>5. QED
  BY <1>2, <1>3, <1>4

(* A module may be marked as loaded. *)
LEMMA LoadedModule ==
  ASSUME NEW md, NEW L, NEW F, NEW M, ModOK(md, L, F, M)
  PROVE  LET nd == [md EXCEPT !.loaded = TRUE] IN
         ModOK(nd, L, F, M) /\ nd.functionV = md.functionV /\ nd.loaded
<1> DEFINE nd == [md EXCEPT !.loaded = TRUE]
<1>0. DOMAIN md = DOMAIN Blank
  BY DEF ModOK
<1>1. /\ \A f \in NameFields : nd[f] = md[f]
      /\ nd.loaded = TRUE /\ nd.stringV = md.stringV /\ nd.scriptV = md.scriptV
      /\ nd.functionV = md.functionV /\ nd.importV = md.importV /\ DOMAIN nd = DOMAIN md
  BY <1>0 DEF Blank, NameFields
<1> HIDE DEF nd
<1>2. nd.loaded
  BY <1>1
<1>3. nd.loaded \in BOOLEAN
  BY <1>1
<1>4. ModOK(nd, L, F, M)
  BY <1>1, <1>3 DEF ModOK
<1>5. QED
  BY <1>1, <1>2, <1>4 DEF nd
-----------------------------------------------------------------------------
(* The setting of a module in an environment. *)
LEMMA SetModule ==
  ASSUME NEW e, NEW R, EnvOK(e, R), NEW m \in DOMAIN e.mods, NEW md
  PROVE  LET g == [e EXCEPT !.mods[m] = md] IN
         /\ g.mods[m] = md /\ g.failed = e.failed /\ g.tab = e.tab /\ g.byName = e.byName
         /\ g.byIdx = e.byIdx /\ g.func = e.func /\ DOMAIN g.mods = DOMAIN e.mods
         /\ g.mods = [e.mods EXCEPT ![m] = md]
         /\ \A n \in DOMAIN e.mods : n # m => g.mods[n] = e.mods[n]
<1> DEFINE g == [e EXCEPT !.mods[m] = md]
<1>0. DOMAIN e = {"tab", "byName", "byIdx", "func", "mods", "failed"}
  BY DEF EnvOK, NewEnvironment
<1>1. g.failed = e.failed /\ g.byName = e.byName /\ g.byIdx = e.byIdx
      /\ g.func = e.func /\ g.tab = e.tab /\ g.mods = [e.mods EXCEPT ![m] = md]
  BY <1>0
<1> HIDE DEF g
<1>2. DOMAIN g.mods = DOMAIN e.mods /\ g.mods[m] = md
      /\ \A n \in DOMAIN e.mods : n # m => g.mods[n] = e.mods[n]
  BY <1>1
<1>3. QED
  BY <1>1, <1>2 DEF g

(* A module is loaded. *)
LEMMA SetLoaded ==
  ASSUME NEW e, NEW R, NEW m \in R, EnvOK(e, R), m \in DOMAIN e.mods
  PROVE  LET g == [e EXCEPT !.mods[m].loaded = TRUE]
         IN EnvOK(g, R) /\ Grew(e, g, m) /\ g.mods[m].loaded /\ g.failed = e.failed
<1> DEFINE md == e.mods[m]
           nd == [md EXCEPT !.loaded = TRUE]
           g == [e EXCEPT !.mods[m] = nd]
<1>1. ModOK(md, Live(e.tab), DOMAIN e.func, DOMAIN e.mods)
  BY DEF EnvOK
<1>2. ModOK(nd, Live(e.tab), DOMAIN e.func, DOMAIN e.mods) /\ nd.functionV = md.functionV /\ nd.loaded
  BY <1>1, LoadedModule
<1> HIDE DEF nd
<1>3. ToSet(e.mods[m].functionV) \ {NoFunc} \subseteq ToSet(nd.functionV)
  BY <1>2
<1>4. EnvOK(g, R) /\ Grew(e, g, m)
  BY <1>2, <1>3, UpdateModule
<1>5. g.mods[m] = nd /\ g.failed = e.failed
  BY SetModule
<1>6. [e EXCEPT !.mods[m].loaded = TRUE] = g
  BY DEF nd
<1> HIDE DEF g
<1>7. QED
  BY <1>2, <1>4, <1>5, <1>6

ACS0File(e, m, file) ==
  LET h == Strings(e, m, "stringV", file.strings)
      scripts == [i \in DOMAIN file.scripts |-> Script(Blank, file.scripts[i])]
  IN [h EXCEPT !.mods[m] = [[@ EXCEPT !.scriptV = scripts] EXCEPT !.isACS0 = TRUE]]

(* A file of the format ACS0. *)
LEMMA ACS0Keeps ==
  ASSUME NEW e, NEW R, NEW m \in R, EnvOK(e, R), m \in DOMAIN e.mods,
         NEW file, file.strings \in Seq(String)
  PROVE  LET g == ACS0File(e, m, file)
         IN EnvOK(g, R) /\ Grew(e, g, m) /\ g.failed = e.failed
<1> DEFINE h == Strings(e, m, "stringV", file.strings)
           md == h.mods[m]
           scripts == [i \in DOMAIN file.scripts |-> Script(Blank, file.scripts[i])]
           nd == [md EXCEPT !.scriptV = scripts]
           xd == [nd EXCEPT !.isACS0 = TRUE]
           g == [h EXCEPT !.mods[m] = xd]
<1>1. EnvOK(h, R) /\ Grew(e, h, m) /\ h.failed = e.failed
  BY StringsKeep
<1>2. m \in DOMAIN h.mods
  BY <1>1 DEF Grew
<1>3. ACS0File(e, m, file) = g
  BY <1>2 DEF ACS0File
<1> HIDE DEF h
<1>4. ModOK(md, Live(h.tab), DOMAIN h.func, DOMAIN h.mods)
  BY <1>1, <1>2 DEF EnvOK
<1>5. \A i \in DOMAIN scripts : "name" \in DOMAIN scripts[i]
                                /\ scripts[i].name \in Live(h.tab) \cup {NoString}
  <2>1. Among(Blank.scrNameV, Live(h.tab))
    BY DEF Among, Blank
  <2>2. \A i \in DOMAIN scripts : scripts[i] = Script(Blank, file.scripts[i])
    OBVIOUS
  <2>3. QED
    BY <2>1, <2>2, ScriptNames
<1> HIDE DEF scripts, md
<1>6. ModOK(nd, Live(h.tab), DOMAIN h.func, DOMAIN h.mods) /\ nd.functionV = md.functionV
  BY <1>4, <1>5, ScriptsKeep
<1> HIDE DEF nd
<1>7. DOMAIN xd = DOMAIN nd /\ \A x \in DOMAIN nd \ OtherFields : xd[x] = nd[x]
  BY DEF OtherFields
<1> HIDE DEF xd
<1>8. ModOK(xd, Live(h.tab), DOMAIN h.func, DOMAIN h.mods) /\ xd.functionV = nd.functionV
  BY <1>6, <1>7, OtherField
<1>9. ToSet(h.mods[m].functionV) \ {NoFunc} \subseteq ToSet(xd.functionV)
  BY <1>6, <1>8 DEF md
<1>10. EnvOK(g, R) /\ Grew(h, g, m)
  BY <1>1, <1>2, <1>8, <1>9, UpdateModule
<1>11. g.failed = e.failed
  BY <1>1, <1>2, SetModule
<1> HIDE DEF g
<1>12. Grew(e, g, m)
  BY <1>1, <1>10, GrewTrans
<1>13. QED
  BY <1>3, <1>10, <1>11, <1>12

(* The first part of readBytecode. *)
LEMMA ReadBytecodeKeeps ==
  ASSUME NEW e, NEW R, NEW m \in R, EnvOK(e, R), m \in DOMAIN e.mods,
         m \in Module, NEW file \in FilesOf[m]
  PROVE  LET g == ReadBytecode(e, m, file) IN
         /\ EnvOK(g, R) /\ Grew(e, g, m)
         /\ file.head \in ACSE \/ g.failed \/ g.mods[m].loaded \/ g = e
<1> DEFINE g == ReadBytecode(e, m, file)
<1>1. CASE file.head = "short"
  <2>1. g = Fail(e)
    BY <1>1 DEF ReadBytecode
  <2>2. QED
    BY <2>1, FailOK
<1>2. CASE file.head = "unknown"
  <2>1. g = e
    BY <1>2 DEF ReadBytecode
  <2>2. QED
    BY <2>1, GrewSelf
<1>3. CASE file.head = "ACS0"
  <2> DEFINE h == ACS0File(e, m, file)
  <2>1. file.strings \in Seq(String)
    BY <1>3, FileKinds
  <2>2. EnvOK(h, R) /\ Grew(e, h, m)
    BY <2>1, ACS0Keeps
  <2>3. m \in DOMAIN h.mods
    BY <2>2 DEF Grew
  <2>4. g = IF file.badCode THEN Fail(h) ELSE [h EXCEPT !.mods[m].loaded = TRUE]
    <3> DEFINE k == Strings(e, m, "stringV", file.strings)
               scripts == [i \in DOMAIN file.scripts |-> Script(Blank, file.scripts[i])]
               u == [k EXCEPT !.mods[m].scriptV = scripts, !.mods[m].isACS0 = TRUE]
    <3>1. g = IF file.badCode THEN Fail(u) ELSE [u EXCEPT !.mods[m].loaded = TRUE]
      BY <1>3 DEF ReadBytecode
    <3>2. EnvOK(k, R) /\ Grew(e, k, m)
      BY <2>1, StringsKeep
    <3>3. m \in DOMAIN k.mods /\ "mods" \in DOMAIN k
      BY <3>2 DEF Grew, EnvOK, NewEnvironment
    <3>4. h = [k EXCEPT !.mods[m] = [[@ EXCEPT !.scriptV = scripts] EXCEPT !.isACS0 = TRUE]]
      BY DEF ACS0File
    <3> HIDE DEF k, scripts, h
    <3>5. u = h
      BY <3>3, <3>4
    <3> HIDE DEF u
    <3>6. QED
      BY <3>1, <3>5
  <2> HIDE DEF h, g
  <2>5. CASE file.badCode
    <3>1. g = Fail(h) /\ EnvOK(Fail(h), R) /\ Grew(h, Fail(h), m) /\ Fail(h).failed
      BY <2>2, <2>4, <2>5, FailOK
    <3>2. QED
      BY <2>2, <3>1, GrewTrans DEF g
  <2>6. CASE ~file.badCode
    <3>1. g = [h EXCEPT !.mods[m].loaded = TRUE]
      BY <2>4, <2>6
    <3>2. EnvOK(g, R) /\ Grew(h, g, m) /\ g.mods[m].loaded
      BY <2>2, <2>3, <3>1, SetLoaded
    <3>3. QED
      BY <2>2, <3>2, GrewTrans DEF g
  <2>7. QED
    BY <2>5, <2>6
<1>4. CASE file.head \in ACSE
  <2>1. g = Passes(e, m, file, BeforeLoad(file))
    BY <1>4 DEF ReadBytecode, ACSE
  <2>2. Chunked(file)
    BY <1>4, FileKinds
  <2>3. QED
    BY <1>4, <2>1, <2>2, ChunkLists, PassesKeep
<1>5. QED
  BY <1>1, <1>2, <1>3, <1>4, FileKinds

(* The rest of readBytecode, behind the imports. *)
LEMMA ReadRestKeeps ==
  ASSUME NEW e, NEW R, NEW m \in R, EnvOK(e, R), m \in DOMAIN e.mods,
         NEW own \in Module, NEW file \in FilesOf[own], file.head \in ACSE
  PROVE  LET g == ReadRest(e, m, file) IN
         /\ EnvOK(g, R) /\ Grew(e, g, m)
         /\ g.failed \/ g.mods[m].loaded
<1> DEFINE h == ImportFunctions(e, m)
           k == Passes(h, m, file, AfterLoad)
           g == ReadRest(e, m, file)
<1>1. EnvOK(h, R) /\ Grew(e, h, m)
  BY ImportFunctionsKeep
<1> HIDE DEF h
<1>2. m \in DOMAIN h.mods
  BY <1>1 DEF Grew
<1>3. EnvOK(k, R) /\ Grew(h, k, m)
  BY <1>1, <1>2, FileKinds, ChunkLists, PassesKeep
<1>4. CASE k.failed \/ file.badCode
  <2>1. g = Fail(k)
    BY <1>4 DEF ReadRest, h
  <2> HIDE DEF k, g
  <2>2. EnvOK(g, R) /\ Grew(k, g, m) /\ g.failed
    BY <1>3, <2>1, FailOK
  <2>3. QED
    BY <1>1, <1>3, <2>2, GrewTrans DEF g
<1>5. CASE ~(k.failed \/ file.badCode)
  <2> DEFINE md == k.mods[m]
             init == [i \in DOMAIN md.arrInitV |-> Finish(md.arrInitV[i])]
             nd == [md EXCEPT !.arrInitV = init]
             u == [k EXCEPT !.mods[m] = nd]
  <2>1. g = [k EXCEPT !.mods[m].arrInitV = [i \in DOMAIN @ |-> Finish(@[i])], !.mods[m].loaded = TRUE]
    BY <1>5 DEF ReadRest, h
  <2> HIDE DEF k
  <2>2. m \in DOMAIN k.mods /\ "mods" \in DOMAIN k
    BY <1>2, <1>3 DEF Grew, EnvOK, NewEnvironment
  <2>3. ModOK(md, Live(k.tab), DOMAIN k.func, DOMAIN k.mods)
    BY <1>3, <2>2 DEF EnvOK
  <2>4. "arrInitV" \in DOMAIN md
    BY <2>3 DEF ModOK, Blank
  <2>5. u = [k EXCEPT !.mods[m].arrInitV = [i \in DOMAIN @ |-> Finish(@[i])]]
    BY <2>2, <2>4
  <2>6. g = [u EXCEPT !.mods[m].loaded = TRUE]
    BY <2>1, <2>5
  <2>7. DOMAIN nd = DOMAIN md /\ \A x \in DOMAIN md \ OtherFields : nd[x] = md[x]
    <3> HIDE DEF init
    <3>1. QED
      BY DEF OtherFields
  <2> HIDE DEF nd
  <2>8. ModOK(nd, Live(k.tab), DOMAIN k.func, DOMAIN k.mods) /\ nd.functionV = md.functionV
    <3> HIDE DEF md
    <3>1. QED
      BY <2>3, <2>7, OtherField
  <2>9. ToSet(k.mods[m].functionV) \ {NoFunc} \subseteq ToSet(nd.functionV)
    BY <2>8
  <2>10. EnvOK(u, R) /\ Grew(k, u, m)
    BY <1>3, <2>2, <2>8, <2>9, UpdateModule
  <2> HIDE DEF u, g
  <2>11. m \in DOMAIN u.mods
    BY <2>2, <2>10 DEF Grew
  <2>12. EnvOK(g, R) /\ Grew(u, g, m) /\ g.mods[m].loaded
    BY <2>6, <2>10, <2>11, SetLoaded
  <2>13. Grew(e, k, m)
    BY <1>1, <1>3, GrewTrans
  <2>14. Grew(e, u, m)
    BY <2>10, <2>13, GrewTrans
  <2>15. QED
    BY <2>12, <2>14, GrewTrans DEF g
<1>6. QED
  BY <1>4, <1>5
-----------------------------------------------------------------------------
(* What words mean is kept when strings and names are added. *)

Extended(names, more) == \A k \in DOMAIN names : k \in DOMAIN more /\ more[k] = names[k]

Later(e, g) == Grown(e.tab, g.tab) /\ Extended(e.byName, g.byName)

Positive(names) == \A k \in DOMAIN names : names[k] \in Nat \ {0}

(* Names have indexes above 0. *)
LEMMA NamesPositive ==
  ASSUME NEW names, NEW n \in Nat, NEW L, NamesOK(names, n, L)
  PROVE  Positive(names)
BY DEF NamesOK, Positive

(* So have those of an environment. *)
LEMMA EnvNames ==
  ASSUME NEW e, NEW R, EnvOK(e, R)
  PROVE  Positive(e.byName) /\ Len(e.byIdx) \in Nat
<1>1. Len(e.byIdx) \in Nat
  BY DEF EnvOK, FuncOK
<1>2. QED
  BY <1>1, NamesPositive DEF EnvOK

(* Words keep their meaning and their string when strings and names are added. *)
LEMMA WordsKeep ==
  ASSUME NEW t, NEW u, TabOK(t), TabOK(u), Grown(t, u), NEW names, NEW more, Extended(names, more),
         Positive(names), NEW words, NEW meanings, Means(t, names, words, meanings)
  PROVE  /\ Means(u, more, words, meanings)
         /\ \A c \in Cell : GetString(u, words[c]) = GetString(t, words[c])
<1>1. ASSUME NEW c \in Cell
      PROVE  /\ GetString(u, words[c]) = GetString(t, words[c])
             /\ \/ meanings[c] \in String /\ GetString(u, words[c]) = meanings[c]
                \/ meanings[c] = NoMeaning /\ words[c] >= 0
                \/ meanings[c] \in DOMAIN more /\ more[meanings[c]] = words[c]
  <2>0. words[c] \in Int
    BY DEF Means
  <2>1. CASE meanings[c] \in String /\ GetString(t, words[c]) = meanings[c]
    <3>1. GetString(t, words[c]) # NoString
      BY <2>1, StringAssumption
    <3>2. GetString(u, words[c]) = GetString(t, words[c])
      BY <3>1, GrownLive
    <3>3. QED
      BY <2>1, <3>2
  <2>2. CASE words[c] >= 0
    <3>1. GetString(u, words[c]) = NoString /\ GetString(t, words[c]) = NoString
      BY <2>0, <2>2, StringWord
    <3>2. CASE meanings[c] = NoMeaning
      BY <2>2, <3>1, <3>2
    <3>3. CASE meanings[c] \in DOMAIN names /\ names[meanings[c]] = words[c]
      BY <3>1, <3>3 DEF Extended
    <3>4. CASE meanings[c] \in String /\ GetString(t, words[c]) = meanings[c]
      BY <2>1, <3>4
    <3>5. QED
      BY <3>2, <3>3, <3>4 DEF Means
  <2>3. meanings[c] \in DOMAIN names /\ names[meanings[c]] = words[c] => words[c] >= 0
    <3>1. ASSUME meanings[c] \in DOMAIN names, names[meanings[c]] = words[c]
          PROVE  words[c] >= 0
      <4>1. words[c] \in Nat \ {0}
        BY <3>1 DEF Positive
      <4>2. QED
        BY <4>1
    <3>2. QED
      BY <3>1
  <2>4. QED
    BY <2>1, <2>2, <2>3 DEF Means
<1>2. QED
  BY <1>1 DEF Means

(* So do locks. *)
LEMMA LocksKeep ==
  ASSUME NEW t, NEW u, Grown(t, u), NEW words,
         \A c \in Cell : GetString(u, words[c]) = GetString(t, words[c])
  PROVE  LocksOf(t, words) => LocksOf(u, words)
<1>1. u.lock = t.lock
  BY DEF Grown
<1>2. {GetString(u, words[c]) : c \in Cell} = {GetString(t, words[c]) : c \in Cell}
  OBVIOUS
<1>3. QED
  BY <1>1, <1>2 DEF LocksOf

(* LocksMatch, of the table and the words. *)
LEMMA LocksAre == LocksMatch <=> LocksOf(env.tab, kept)
<1>1. \A s \in String : s # NoString
  BY StringAssumption
<1>2. QED
  BY <1>1 DEF LocksMatch, LocksOf, WordsOf

(* LocksMatch after a step. *)
LEMMA LocksWillBe == LocksMatch' <=> LocksOf(env'.tab, kept')
<1>1. \A s \in String : s # NoString
  BY StringAssumption
<1>2. QED
  BY <1>1 DEF LocksMatch, LocksOf, WordsOf

(* The parts of the invariant that a step keeps if it only adds to the *)
(* environment and leaves the scripts alone.                           *)
WordsOK ==
  /\ LocksMatch
  /\ Means(env.tab, env.byName, memory, means)
  /\ Means(env.tab, env.byName, kept, keptMeans)
  /\ saved # NoSave => SavedOK(saved)

(* The words are right behind a step that leaves them and only adds strings and names. *)
LEMMA WordsStay ==
  ASSUME IInv, NEW R, EnvOK(env', R), Later(env, env'),
         UNCHANGED <<memory, kept, means, keptMeans, saved>>
  PROVE  WordsOK'
<1>0. TabOK(env.tab) /\ TabOK(env'.tab) /\ EnvOK(env, Reading)
  BY DEF IInv, EnvOK
<1>1. Positive(env.byName)
  BY <1>0, EnvNames
<1>2. Grown(env.tab, env'.tab) /\ Extended(env.byName, env'.byName)
  BY DEF Later
<1>3. Means(env.tab, env.byName, memory, means) /\ Means(env.tab, env.byName, kept, keptMeans)
  BY DEF IInv
<1>4. Means(env'.tab, env'.byName, memory, means)
  BY <1>0, <1>1, <1>2, <1>3, WordsKeep
<1>5. /\ Means(env'.tab, env'.byName, kept, keptMeans)
      /\ \A c \in Cell : GetString(env'.tab, kept[c]) = GetString(env.tab, kept[c])
  BY <1>0, <1>1, <1>2, <1>3, WordsKeep
<1>6. LocksOf(env.tab, kept)
  BY LocksAre DEF IInv
<1>7. LocksOf(env'.tab, kept')
  BY <1>2, <1>5, <1>6, LocksKeep
<1>8. LocksMatch'
  BY <1>7, LocksWillBe
<1>9. saved' # NoSave => SavedOK(saved')
  BY DEF IInv
<1>10. QED
  BY <1>4, <1>5, <1>8, <1>9 DEF WordsOK

(* Modules that are read while a save is loaded leave the save readable. *)
LEMMA RestoringStays ==
  ASSUME IInv, Later(env, env'), saved' = saved,
         restoring' \in {restoring, Tail(restoring), <<>>}, restoring' = Tail(restoring) => restoring # <<>>
  PROVE  RestoringOK'
<1>1. restoring' \in Seq(Module \cup {NoModule}) /\ (restoring' # <<>> => restoring # <<>>)
  <2> DEFINE S == Module \cup {NoModule}
  <2>1. restoring \in Seq(S)
    BY DEF IInv, RestoringOK
  <2> HIDE DEF S
  <2>2. restoring # <<>> => Tail(restoring) \in Seq(S)
    BY <2>1
  <2>3. <<>> \in Seq(S)
    OBVIOUS
  <2>4. QED
    BY <2>1, <2>2, <2>3 DEF S
<1>2. ASSUME restoring # <<>>
      PROVE  /\ saved' # NoSave /\ Grown(Loaded(saved'.tab), env'.tab)
             /\ \A k \in DOMAIN NamesOf(saved') :
                  k \in DOMAIN env'.byName /\ env'.byName[k] = NamesOf(saved')[k]
  <2>1. /\ saved # NoSave /\ Grown(Loaded(saved.tab), env.tab)
        /\ \A k \in DOMAIN NamesOf(saved) :
             k \in DOMAIN env.byName /\ env.byName[k] = NamesOf(saved)[k]
    BY <1>2 DEF IInv, RestoringOK
  <2>2. Grown(Loaded(saved.tab), env'.tab)
    BY <2>1, GrownTrans DEF Later
  <2>3. QED
    BY <2>1, <2>2 DEF Later, Extended
<1>3. QED
  BY <1>1, <1>2 DEF RestoringOK
-----------------------------------------------------------------------------
(* Steps of getModule. *)

(* A blank module is right. *)
LEMMA BlankOK ==
  ASSUME NEW L, NEW F, NEW M
  PROVE  ModOK(Blank, L, F, M)
<1>1. /\ \A f \in NameFields : DOMAIN Blank[f] = {}
      /\ DOMAIN Blank.scriptV = {} /\ ToSet(Blank.stringV) = {} /\ Blank.loaded = FALSE
      /\ Blank.functionV = <<>> /\ Blank.importV = <<>>
  BY DEF Blank, NameFields, ToSet
<1>2. Blank.functionV \in Seq(F \cup {NoFunc}) /\ Blank.importV \in Seq(M \cup {NoModule})
  BY <1>1
<1>3. Blank.loaded \in BOOLEAN
  BY <1>1
<1>4. \A f \in NameFields : Among(Blank[f], L)
  BY <1>1 DEF Among
<1>5. QED
  BY <1>1, <1>2, <1>3, <1>4 DEF ModOK

(* Strings and blank modules are added; a module that is not loaded may be *)
(* read, and none has to be.                                               *)
LEMMA EnvLater ==
  ASSUME NEW e, NEW R, EnvOK(e, R), NEW g, NEW Q,
         DOMAIN g = DOMAIN e, g.failed \in BOOLEAN, TabOK(g.tab), Live(e.tab) \subseteq Live(g.tab),
         g.byName = e.byName, g.byIdx = e.byIdx, g.func = e.func,
         DOMAIN g.mods \subseteq Module \cap Live(g.tab), DOMAIN e.mods \subseteq DOMAIN g.mods,
         \A n \in DOMAIN e.mods : g.mods[n] = e.mods[n],
         \A n \in DOMAIN g.mods : n \notin DOMAIN e.mods => g.mods[n] = Blank,
         \A n \in Q : n \in R \/ (n \in DOMAIN e.mods => ~e.mods[n].loaded)
  PROVE  EnvOK(g, Q)
<1>1. NamesOK(g.byName, Len(g.byIdx), Live(g.tab))
  BY NamesOKGrow DEF EnvOK
<1>2. FuncOK(g, Q)
  <2>1. FuncOK(e, R)
    BY DEF EnvOK
  <2>2. DOMAIN g.func \subseteq Module \X (Live(g.tab) \cup Nat)
    BY <2>1 DEF FuncOK
  <2>3. g.byIdx \in Seq(DOMAIN g.func \cup {NoFunc}) /\ g.byIdx # <<>>
    BY <2>1 DEF FuncOK
  <2>4. \A i \in DOMAIN g.byIdx : g.byIdx[i] # NoFunc => g.func[g.byIdx[i]].idx = i - 1
    BY <2>1 DEF FuncOK
  <2>5. ASSUME NEW f \in DOMAIN g.func
        PROVE  /\ "idx" \in DOMAIN g.func[f] /\ g.func[f].idx \in Nat
               /\ g.func[f].idx # 0 =>
                    /\ f \in DOMAIN g.byName /\ g.byName[f] = g.func[f].idx
                    /\ g.byIdx[g.func[f].idx + 1] = f
               /\ f[1] \in DOMAIN g.mods /\ f \in ToSet(g.mods[f[1]].functionV)
               /\ f[2] \in String /\ (f[1] \in Q \/ ~g.mods[f[1]].loaded) => g.func[f].idx # 0
    <3>1. /\ "idx" \in DOMAIN g.func[f] /\ g.func[f].idx \in Nat
          /\ g.func[f].idx # 0 =>
               /\ f \in DOMAIN g.byName /\ g.byName[f] = g.func[f].idx
               /\ g.byIdx[g.func[f].idx + 1] = f
      BY <2>1 DEF FuncOK
    <3>2. /\ f[1] \in DOMAIN e.mods /\ f \in ToSet(e.mods[f[1]].functionV)
          /\ f[2] \in String /\ (f[1] \in R \/ ~e.mods[f[1]].loaded) => e.func[f].idx # 0
      BY <2>1 DEF FuncOK
    <3>3. g.mods[f[1]] = e.mods[f[1]] /\ f[1] \in DOMAIN g.mods
      BY <3>2
    <3>4. f[1] \in Q => f[1] \in R \/ ~e.mods[f[1]].loaded
      BY <3>2
    <3>5. QED
      BY <3>1, <3>2, <3>3, <3>4
  <2>6. QED
    BY <2>2, <2>3, <2>4, <2>5 DEF FuncOK
<1>3. ASSUME NEW n \in DOMAIN g.mods
      PROVE  ModOK(g.mods[n], Live(g.tab), DOMAIN g.func, DOMAIN g.mods)
  <2>1. CASE n \in DOMAIN e.mods
    <3>1. ModOK(e.mods[n], Live(e.tab), DOMAIN e.func, DOMAIN e.mods)
      BY <2>1 DEF EnvOK
    <3>2. ModOK(e.mods[n], Live(g.tab), DOMAIN e.func, DOMAIN g.mods)
      BY <3>1, ModGrows
    <3>3. QED
      BY <2>1, <3>2
  <2>2. CASE n \notin DOMAIN e.mods
    <3>1. g.mods[n] = Blank
      BY <2>2
    <3>2. ModOK(Blank, Live(g.tab), DOMAIN g.func, DOMAIN g.mods)
      BY BlankOK
    <3>3. QED
      BY <3>1, <3>2
  <2>3. QED
    BY <2>1, <2>2
<1>4. QED
  BY <1>1, <1>2, <1>3 DEF EnvOK

(* A module is created. *)
LEMMA CreatedKeeps ==
  ASSUME NEW e, NEW R, EnvOK(e, R), NEW m \in Module, m \in DOMAIN e.mods => ~e.mods[m].loaded
  PROVE  LET g == Created(e, m) IN
         /\ EnvOK(g, R \cup {m}) /\ Later(e, g) /\ g.failed = e.failed
         /\ DOMAIN g.mods = DOMAIN e.mods \cup {m}
         /\ \A n \in DOMAIN e.mods : g.mods[n] = e.mods[n]
         /\ m \notin DOMAIN e.mods => g.mods[m] = Blank
<1> DEFINE t == Intern(e.tab, m)
           mods == IF m \in DOMAIN e.mods THEN e.mods ELSE Put(e.mods, m, Blank)
           g == Created(e, m)
<1>0. DOMAIN e = {"tab", "byName", "byIdx", "func", "mods", "failed"} /\ TabOK(e.tab)
      /\ e.failed \in BOOLEAN /\ DOMAIN e.mods \subseteq Module \cap Live(e.tab)
  BY DEF EnvOK, NewEnvironment
<1>1. TabOK(t) /\ Grown(e.tab, t) /\ m \in Live(t) /\ Live(e.tab) \subseteq Live(t)
  BY <1>0, ModuleAssumption, InternKeeps, GrownLive
<1>2. DOMAIN mods = DOMAIN e.mods \cup {m} /\ \A n \in DOMAIN e.mods : mods[n] = e.mods[n]
  BY DEF Put
<1>3. m \notin DOMAIN e.mods => mods[m] = Blank
  BY DEF Put
<1> HIDE DEF t, mods
<1>4. DOMAIN g = DOMAIN e /\ g.failed = e.failed /\ g.byName = e.byName /\ g.byIdx = e.byIdx
      /\ g.func = e.func /\ g.tab = t /\ g.mods = mods
  BY <1>0 DEF Created, t, mods
<1> HIDE DEF g
<1>5. EnvOK(g, R \cup {m})
  <2>1. DOMAIN g.mods \subseteq Module \cap Live(g.tab)
    BY <1>0, <1>1, <1>2, <1>4
  <2>2. \A n \in R \cup {m} : n \in R \/ (n \in DOMAIN e.mods => ~e.mods[n].loaded)
    OBVIOUS
  <2>3. \A n \in DOMAIN g.mods : n \notin DOMAIN e.mods => g.mods[n] = Blank
    BY <1>2, <1>3, <1>4
  <2>4. TabOK(g.tab) /\ Live(e.tab) \subseteq Live(g.tab)
    BY <1>1, <1>4
  <2>5. DOMAIN e.mods \subseteq DOMAIN g.mods /\ \A n \in DOMAIN e.mods : g.mods[n] = e.mods[n]
    BY <1>2, <1>4
  <2>6. g.failed \in BOOLEAN
    BY <1>0, <1>4
  <2>7. QED
    BY <1>4, <2>1, <2>2, <2>3, <2>4, <2>5, <2>6, EnvLater
<1>6. Later(e, g)
  BY <1>1, <1>4 DEF Later, Extended
<1>7. QED
  BY <1>2, <1>3, <1>4, <1>5, <1>6 DEF g

(* The modules that a module imports. *)
LEMMA ImportsSet ==
  ASSUME NEW md, NEW L, NEW F, NEW M, ModOK(md, L, F, M), NEW v \in Seq(M \cup {NoModule})
  PROVE  LET nd == [md EXCEPT !.importV = v] IN
         ModOK(nd, L, F, M) /\ nd.functionV = md.functionV /\ nd.loaded = md.loaded
<1> DEFINE nd == [md EXCEPT !.importV = v]
<1>0. DOMAIN md = DOMAIN Blank
  BY DEF ModOK
<1>1. /\ \A f \in NameFields : nd[f] = md[f]
      /\ nd.loaded = md.loaded /\ nd.stringV = md.stringV /\ nd.scriptV = md.scriptV
      /\ nd.functionV = md.functionV /\ nd.importV = v /\ DOMAIN nd = DOMAIN md
  BY <1>0 DEF Blank, NameFields
<1> HIDE DEF nd
<1>2. ModOK(nd, L, F, M)
  BY <1>1 DEF ModOK
<1>3. QED
  BY <1>1, <1>2 DEF nd

SetOK(e, R, m, v, g) ==
  /\ EnvOK(g, R) /\ Grew(e, g, m) /\ g.failed = e.failed
  /\ g.mods[m] = [e.mods[m] EXCEPT !.importV = v] /\ g.mods[m].loaded = e.mods[m].loaded

(* The imports of a module may be set to modules that there are. *)
LEMMA ImportsSetIn ==
  ASSUME NEW e, NEW R, NEW m \in R, EnvOK(e, R), m \in DOMAIN e.mods,
         NEW v \in Seq(DOMAIN e.mods \cup {NoModule})
  PROVE  SetOK(e, R, m, v, [e EXCEPT !.mods[m].importV = v])
<1> DEFINE md == e.mods[m]
           nd == [md EXCEPT !.importV = v]
           g == [e EXCEPT !.mods[m] = nd]
<1>1. ModOK(md, Live(e.tab), DOMAIN e.func, DOMAIN e.mods)
  BY DEF EnvOK
<1>2. ModOK(nd, Live(e.tab), DOMAIN e.func, DOMAIN e.mods) /\ nd.functionV = md.functionV
      /\ nd.loaded = md.loaded
  BY <1>1, ImportsSet
<1> HIDE DEF nd
<1>3. ToSet(e.mods[m].functionV) \ {NoFunc} \subseteq ToSet(nd.functionV)
  BY <1>2
<1>4. EnvOK(g, R) /\ Grew(e, g, m)
  BY <1>2, <1>3, UpdateModule
<1>5. g.mods[m] = nd /\ g.failed = e.failed
  BY SetModule
<1>6. [e EXCEPT !.mods[m].importV = v] = g
  BY DEF nd
<1> HIDE DEF g
<1>7. g.mods[m] = [e.mods[m] EXCEPT !.importV = v]
  BY <1>5 DEF nd
<1>8. QED
  BY <1>2, <1>4, <1>5, <1>6, <1>7 DEF SetOK

(* LOAD has names of modules. *)
LEMMA LoadOfOK ==
  ASSUME NEW m \in Module, NEW file \in FilesOf[m]
  PROVE  LoadOf(file) \in Seq(Module) /\ (file.head \notin ACSE => LoadOf(file) = <<>>)
<1>1. CASE file.head \in {"ACSE", "ACSe"} /\ Found(file, "LOAD") # <<>>
  <2>1. Chunked(file) /\ \A c \in ToSet(file.chunks) : c.id = "LOAD" => c.data \in Seq(Module)
    BY <1>1, FileKinds DEF ACSE
  <2> DEFINE ss == Found(file, "LOAD")
  <2>2. ss \in Seq(ToSet(file.chunks)) /\ \A k \in DOMAIN ss : ss[k].id = "LOAD"
    BY <2>1, FoundOK DEF Chunked
  <2>3. LoadOf(file) = ss[1].data
    BY <1>1 DEF LoadOf
  <2>4. ss # <<>>
    BY <1>1
  <2> HIDE DEF ss
  <2>5. 1 \in DOMAIN ss /\ ss[1] \in ToSet(file.chunks)
    BY <2>2, <2>4
  <2>6. QED
    BY <1>1, <2>1, <2>2, <2>3, <2>5 DEF ACSE
<1>2. CASE ~(file.head \in {"ACSE", "ACSe"} /\ Found(file, "LOAD") # <<>>)
  BY <1>2 DEF LoadOf
<1>3. QED
  BY <1>1, <1>2 DEF LoadOf, ACSE
-----------------------------------------------------------------------------
Call == [mod : Module, file : UNION {FilesOf[m] : m \in Module}, next : Nat \ {0}]

(* The parts of the invariant after a step, one by one. *)
LEMMA Parts ==
  EnvOK(env', Reading') /\ StackOK' /\ LoadedOrBlank' /\ WordsOK' /\ RestoringOK' => IInv'
BY DEF IInv, WordsOK

(* The environment after the first part of readBytecode. *)
Entered(e, m, file) ==
  LET h == ReadBytecode(Created(e, m), m, file)
  IN IF h.failed \/ BadLoad(file) THEN Fail(h)
     ELSE [h EXCEPT !.mods[m].importV = [i \in DOMAIN LoadOf(file) |-> NoModule]]

EnteredOK(e, R, m, file, g) ==
  /\ EnvOK(g, R \cup {m}) /\ Later(e, g)
  /\ DOMAIN g.mods = DOMAIN e.mods \cup {m}
  /\ \A n \in DOMAIN e.mods : n # m => g.mods[n] = e.mods[n]
  /\ ~g.failed /\ file.head \notin ACSE =>
       \/ g.mods[m].loaded \/ g.mods[m] = Blank
       \/ m \in DOMAIN e.mods /\ e.mods[m] # Blank

(* A file is opened, and the first part of it read. *)
LEMMA EnteredKeeps ==
  ASSUME NEW e, NEW R, EnvOK(e, R), NEW m \in Module, m \in DOMAIN e.mods => ~e.mods[m].loaded,
         NEW file \in FilesOf[m]
  PROVE  EnteredOK(e, R, m, file, Entered(e, m, file))
<1> DEFINE c == Created(e, m)
           h == ReadBytecode(c, m, file)
           Q == R \cup {m}
           g == Entered(e, m, file)
<1>1. /\ EnvOK(c, Q) /\ Later(e, c)
      /\ DOMAIN c.mods = DOMAIN e.mods \cup {m}
      /\ \A n \in DOMAIN e.mods : c.mods[n] = e.mods[n]
      /\ m \notin DOMAIN e.mods => c.mods[m] = Blank
  BY CreatedKeeps
<1> HIDE DEF c
<1>2. m \in Q /\ m \in DOMAIN c.mods
  BY <1>1
<1> HIDE DEF Q
<1>3. /\ EnvOK(h, Q) /\ Grew(c, h, m)
      /\ file.head \in ACSE \/ h.failed \/ h.mods[m].loaded \/ h = c
  BY <1>1, <1>2, ReadBytecodeKeeps
<1>4. g = IF h.failed \/ BadLoad(file) THEN Fail(h)
          ELSE [h EXCEPT !.mods[m].importV = [i \in DOMAIN LoadOf(file) |-> NoModule]]
  BY DEF c, Entered
<1> HIDE DEF h, g
<1>5. m \in DOMAIN h.mods
  BY <1>2, <1>3 DEF Grew
<1>6. /\ EnvOK(g, Q) /\ Grew(h, g, m)
      /\ ~g.failed /\ file.head \notin ACSE =>
           \/ g.mods[m].loaded \/ g.mods[m] = Blank
           \/ m \in DOMAIN e.mods /\ e.mods[m] # Blank
  <2>1. CASE h.failed \/ BadLoad(file)
    <3>1. g = Fail(h)
      BY <1>4, <2>1
    <3>2. EnvOK(Fail(h), Q) /\ Grew(h, Fail(h), m) /\ Fail(h).failed
      BY <1>3, FailOK
    <3>3. QED
      BY <3>1, <3>2
  <2>2. CASE ~(h.failed \/ BadLoad(file))
    <3> DEFINE v == [i \in DOMAIN LoadOf(file) |-> NoModule]
    <3>1. g = [h EXCEPT !.mods[m].importV = v]
      BY <1>4, <2>2
    <3>2. v \in Seq(DOMAIN h.mods \cup {NoModule})
      <4>1. LoadOf(file) \in Seq(Module)
        BY LoadOfOK
      <4>2. QED
        BY <4>1
    <3> HIDE DEF v
    <3>3. /\ EnvOK(g, Q) /\ Grew(h, g, m) /\ g.failed = h.failed
          /\ g.mods[m] = [h.mods[m] EXCEPT !.importV = v] /\ g.mods[m].loaded = h.mods[m].loaded
      <4> DEFINE u == [h EXCEPT !.mods[m].importV = v]
      <4>1. SetOK(h, Q, m, v, u)
        BY <1>2, <1>3, <1>5, <3>2, ImportsSetIn
      <4>2. QED
        BY <3>1, <4>1 DEF SetOK
    <3>4. ASSUME file.head \notin ACSE
          PROVE  \/ g.mods[m].loaded \/ g.mods[m] = Blank
                 \/ m \in DOMAIN e.mods /\ e.mods[m] # Blank
      <4>1. CASE h.mods[m].loaded
        BY <3>3, <4>1
      <4>2. CASE h = c
        <5>1. c.mods[m] = Blank \/ (m \in DOMAIN e.mods /\ e.mods[m] # Blank)
          BY <1>1
        <5>2. v = <<>>
          BY <3>4, LoadOfOK DEF v
        <5>3. [Blank EXCEPT !.importV = <<>>] = Blank
          BY DEF Blank
        <5>4. QED
          BY <3>3, <4>2, <5>1, <5>2, <5>3
      <4>3. QED
        BY <1>3, <2>2, <3>4, <4>1, <4>2
    <3>5. QED
      BY <3>3, <3>4
  <2>3. QED
    BY <2>1, <2>2
<1>7. Grew(c, g, m)
  BY <1>3, <1>6, GrewTrans
<1>8. Later(e, g)
  <2>1. Grown(e.tab, g.tab)
    BY <1>1, <1>7, GrownTrans DEF Later, Grew
  <2>2. QED
    BY <1>1, <1>7, <2>1 DEF Later, Grew, Extended
<1>9. DOMAIN g.mods = DOMAIN e.mods \cup {m} /\ \A n \in DOMAIN e.mods : n # m => g.mods[n] = e.mods[n]
  BY <1>1, <1>7 DEF Grew
<1>10. QED
  BY <1>6, <1>8, <1>9 DEF Q, g, EnteredOK

(* Enter keeps all but the words. *)
LEMMA EnterKeeps ==
  ASSUME IInv, NEW m \in Module, ~IsLoaded(m), ~env.failed,
         NEW onto \in Seq(Call), Len(onto) = Len(stack),
         \A i \in 1 .. Len(stack) : /\ onto[i].mod = stack[i].mod
                                    /\ onto[i].file.head \in ACSE,
         Enter(m, onto)
  PROVE  EnvOK(env', Reading') /\ Later(env, env') /\ StackOK' /\ LoadedOrBlank'
<1>0. EnvOK(env, Reading) /\ StackOK /\ LoadedOrBlank /\ stack \in Seq(Call)
  BY DEF IInv, StackOK, Call
<1>1. PICK file \in FilesOf[m] :
        /\ env' = Entered(env, m, file)
        /\ stack' = Append(onto, [mod |-> m, file |-> file, next |-> 1])
  BY DEF Enter, Entered
<1>2. /\ EnvOK(env', Reading \cup {m}) /\ Later(env, env')
      /\ DOMAIN env'.mods = DOMAIN env.mods \cup {m}
      /\ \A n \in DOMAIN env.mods : n # m => env'.mods[n] = env.mods[n]
      /\ ~env'.failed /\ file.head \notin ACSE =>
           \/ env'.mods[m].loaded \/ env'.mods[m] = Blank
           \/ m \in DOMAIN env.mods /\ env.mods[m] # Blank
  <2>1. m \in DOMAIN env.mods => ~env.mods[m].loaded
    BY DEF IsLoaded
  <2>2. QED
    <3>1. EnteredOK(env, Reading, m, file, Entered(env, m, file))
      BY <1>0, <2>1, EnteredKeeps
    <3>2. EnteredOK(env, Reading, m, file, env')
      BY <1>1, <3>1
    <3>3. QED
      BY <3>2 DEF EnteredOK
<1> DEFINE n == Len(stack)
           call == [mod |-> m, file |-> file, next |-> 1]
<1>3. call \in Call /\ call.mod = m /\ call.file = file
  BY DEF Call
<1> HIDE DEF call
<1>4. /\ n \in Nat /\ DOMAIN stack = 1 .. n
      /\ stack' \in Seq(Call) /\ Len(stack') = n + 1 /\ DOMAIN stack' = 1 .. n + 1
      /\ stack'[n + 1] = call /\ \A i \in 1 .. n : stack'[i] = onto[i]
  BY <1>0, <1>1, <1>3 DEF call
<1>5. \A i \in 1 .. n + 1 : i \in 1 .. n \/ i = n + 1
  BY <1>4
<1>6. \A i \in 1 .. n : /\ stack'[i].mod = stack[i].mod /\ stack'[i].file.head \in ACSE
                        /\ i \in 1 .. n + 1
  BY <1>4
<1>61. n + 1 \in 1 .. n + 1 /\ 1 .. (n + 1) - 1 = 1 .. n
  BY <1>4
<1> HIDE DEF n
<1>7. Reading' = Reading \cup {m}
  BY <1>3, <1>4, <1>5, <1>6, <1>61 DEF Reading
<1>8. LoadedOrBlank'
  <2>1. \A k \in Reading \cup {m} : k \in {stack'[i].mod : i \in DOMAIN stack'}
    BY <1>7 DEF Reading
  <2>2. ASSUME NEW k \in DOMAIN env'.mods, k \notin Reading \cup {m}
        PROVE  env'.mods[k].loaded \/ env'.mods[k] = Blank
    <3>1. k \in DOMAIN env.mods /\ env'.mods[k] = env.mods[k]
      BY <1>2, <2>2
    <3>2. QED
      BY <1>0, <2>2, <3>1 DEF LoadedOrBlank, Reading
  <2>3. QED
    BY <2>1, <2>2 DEF LoadedOrBlank
<1>9. StackOK'
  <2>1. Reading' \subseteq DOMAIN env'.mods
    BY <1>0, <1>2, <1>7 DEF StackOK
  <2>2. stack' # <<>>
    BY <1>4
  <2>3. \A i \in 1 .. Len(stack') - 1 : stack'[i].file.head \in ACSE
    BY <1>4, <1>6, <1>61
  <2>4. Top' = call
    BY <1>4 DEF Top, Last
  <2>5. ASSUME ~env'.failed, Top'.file.head \notin ACSE
        PROVE  \/ env'.mods[Top'.mod].loaded \/ env'.mods[Top'.mod] = Blank
               \/ \E i \in 1 .. Len(stack') - 1 : stack'[i].mod = Top'.mod
    <3>1. Top'.mod = m /\ Top'.file = file
      BY <1>3, <2>4
    <3>2. CASE m \in DOMAIN env.mods /\ env.mods[m] # Blank
      <4>1. m \in Reading
        BY <1>0, <3>2 DEF LoadedOrBlank, IsLoaded, Reading
      <4>2. PICK i \in 1 .. n : stack[i].mod = m
        BY <1>4, <4>1 DEF Reading
      <4>3. QED
        BY <1>4, <1>6, <1>61, <3>1, <4>2
    <3>3. QED
      BY <1>2, <2>5, <3>1, <3>2
  <2>6. QED
    BY <1>4, <2>1, <2>2, <2>3, <2>5 DEF StackOK, Call
<1>10. QED
  BY <1>2, <1>7, <1>8, <1>9
-----------------------------------------------------------------------------
(* The calls of getModule. *)

(* Less is asked when fewer modules are being read. *)
LEMMA Shrunk ==
  ASSUME NEW e, NEW R, NEW Q, Q \subseteq R, EnvOK(e, R)
  PROVE  EnvOK(e, Q)
<1>1. FuncOK(e, R) => FuncOK(e, Q)
  BY DEF FuncOK
<1>2. QED
  BY <1>1 DEF EnvOK

(* The innermost call has a module and a file. *)
LEMMA TopOK ==
  ASSUME IInv, stack # <<>>
  PROVE  /\ Len(stack) \in Nat \ {0} /\ DOMAIN stack = 1 .. Len(stack) /\ Top = stack[Len(stack)]
         /\ Top \in Call /\ Top.mod \in Reading /\ Top.mod \in DOMAIN env.mods /\ Top.mod \in Module
         /\ Top.next \in Nat \ {0} /\ \E m \in Module : Top.file \in FilesOf[m]
<1>1. stack \in Seq(Call) /\ Reading \subseteq DOMAIN env.mods
  BY DEF IInv, StackOK, Call
<1>2. Len(stack) \in Nat \ {0} /\ DOMAIN stack = 1 .. Len(stack)
  BY <1>1
<1>3. Top = stack[Len(stack)]
  BY DEF Top, Last
<1>4. Top \in Call /\ Top.mod \in Reading
  BY <1>1, <1>2, <1>3 DEF Reading
<1>5. Top.mod \in Module /\ Top.next \in Nat \ {0} /\ \E m \in Module : Top.file \in FilesOf[m]
  BY <1>4 DEF Call
<1>6. QED
  BY <1>1, <1>2, <1>3, <1>4, <1>5

(* The next name in LOAD is that of a module. *)
LEMMA NameOK ==
  ASSUME IInv, Importing
  PROVE  /\ Name \in Module /\ Top.file.head \in ACSE
         /\ \A i \in 1 .. Len(stack) : stack[i].file.head \in ACSE
<1>1. stack # <<>> /\ Top.next <= Len(LoadOf(Top.file))
  BY DEF Importing
<1>2. PICK m \in Module : Top.file \in FilesOf[m]
  BY <1>1, TopOK
<1>3. LoadOf(Top.file) \in Seq(Module) /\ (Top.file.head \notin ACSE => LoadOf(Top.file) = <<>>)
  BY <1>2, LoadOfOK
<1>4. Top.next \in Nat \ {0}
  BY <1>1, TopOK
<1>5. Top.next \in 1 .. Len(LoadOf(Top.file))
  BY <1>1, <1>3, <1>4
<1>6. Name \in Module
  BY <1>3, <1>5 DEF Name
<1>7. LoadOf(Top.file) # <<>>
  BY <1>3, <1>5
<1>8. \A i \in 1 .. Len(stack) - 1 : stack[i].file.head \in ACSE
  BY DEF IInv, StackOK
<1>9. Top = stack[Len(stack)] /\ Len(stack) \in Nat
  BY <1>1, TopOK
<1>10. \A i \in 1 .. Len(stack) : i \in 1 .. Len(stack) - 1 \/ i = Len(stack)
  BY <1>9
<1>11. QED
  BY <1>3, <1>6, <1>7, <1>8, <1>9, <1>10

(* The innermost call has taken a name of LOAD. *)
LEMMA Advanced ==
  ASSUME IInv, stack # <<>>
  PROVE  LET onto == [stack EXCEPT ![Len(stack)].next = @ + 1]
         IN /\ onto \in Seq(Call) /\ Len(onto) = Len(stack)
            /\ \A i \in 1 .. Len(stack) : onto[i].mod = stack[i].mod /\ onto[i].file = stack[i].file
<1> DEFINE n == Len(stack)
           up == [stack[n] EXCEPT !.next = @ + 1]
           onto == [stack EXCEPT ![n] = up]
<1>1. stack \in Seq(Call)
  BY DEF IInv, StackOK, Call
<1>2. n \in Nat \ {0} /\ DOMAIN stack = 1 .. n /\ stack[n] \in Call /\ Top = stack[n]
  BY TopOK
<1>3. up \in Call /\ up.mod = stack[n].mod /\ up.file = stack[n].file
  BY <1>2 DEF Call
<1> HIDE DEF up, Call
<1>4. onto \in Seq(Call) /\ Len(onto) = n
  BY <1>1, <1>2, <1>3
<1>5. \A i \in 1 .. n : onto[i] = IF i = n THEN up ELSE stack[i]
  BY <1>1, <1>2
<1>6. [stack EXCEPT ![Len(stack)].next = @ + 1] = onto
  BY <1>1, <1>2 DEF up
<1> HIDE DEF onto, n
<1>7. \A i \in 1 .. n : onto[i].mod = stack[i].mod /\ onto[i].file = stack[i].file
  BY <1>3, <1>5
<1>8. QED
  BY <1>4, <1>6, <1>7 DEF n

(* The same calls, though their modules change. *)
LEMMA StackSame ==
  ASSUME IInv, stack # <<>>, stack' \in Seq(Call), Len(stack') = Len(stack),
         \A i \in 1 .. Len(stack) : stack'[i].mod = stack[i].mod /\ stack'[i].file = stack[i].file,
         DOMAIN env'.mods = DOMAIN env.mods,
         \A n \in DOMAIN env.mods : n \notin Reading => env'.mods[n] = env.mods[n],
         env'.failed \/ Top.file.head \in ACSE
  PROVE  Reading' = Reading /\ StackOK' /\ LoadedOrBlank'
<1>0. StackOK /\ LoadedOrBlank /\ Len(stack) \in Nat \ {0} /\ DOMAIN stack = 1 .. Len(stack)
      /\ Top = stack[Len(stack)]
  BY TopOK DEF IInv
<1>1. DOMAIN stack' = 1 .. Len(stack)
  OBVIOUS
<1>2. Reading' = Reading
  BY <1>0, <1>1 DEF Reading
<1>3. LoadedOrBlank'
  <2>1. ASSUME NEW k \in DOMAIN env'.mods, k \notin Reading
        PROVE  env'.mods[k].loaded \/ env'.mods[k] = Blank
    BY <1>0, <2>1 DEF LoadedOrBlank, Reading
  <2>2. QED
    BY <1>2, <2>1 DEF LoadedOrBlank, Reading
<1>4. StackOK'
  <2>1. Reading' \subseteq DOMAIN env'.mods
    BY <1>0, <1>2 DEF StackOK
  <2>2. stack' # <<>>
    BY <1>0
  <2>3. \A i \in 1 .. Len(stack') - 1 : stack'[i].file.head \in ACSE
    <3>1. \A i \in 1 .. Len(stack) - 1 : i \in 1 .. Len(stack) /\ stack[i].file.head \in ACSE
      BY <1>0 DEF StackOK
    <3>2. QED
      BY <3>1
  <2>4. Top' = stack'[Len(stack)] /\ Len(stack) \in 1 .. Len(stack)
    BY <1>0 DEF Top, Last
  <2>5. Top'.file = Top.file
    BY <1>0, <2>4
  <2>6. QED
    BY <2>1, <2>2, <2>3, <2>5 DEF StackOK, Call
<1>5. QED
  BY <1>2, <1>3, <1>4

(* The innermost call returns. *)
LEMMA StackPopped ==
  ASSUME IInv, stack # <<>>, stack' = Front(stack), DOMAIN env'.mods = DOMAIN env.mods,
         \A n \in DOMAIN env.mods : n \notin Reading =>
           /\ env.mods[n].loaded => env'.mods[n].loaded
           /\ env.mods[n] = Blank => env'.mods[n] = Blank,
         \/ env'.mods[Top.mod].loaded \/ env'.mods[Top.mod] = Blank
         \/ \E i \in 1 .. Len(stack) - 1 : stack[i].mod = Top.mod,
         Len(stack) = 1 => ~env'.failed
  PROVE  Reading' \subseteq Reading /\ StackOK' /\ LoadedOrBlank'
<1> DEFINE n == Len(stack)
<1>0. StackOK /\ LoadedOrBlank /\ n \in Nat \ {0} /\ DOMAIN stack = 1 .. n /\ Top = stack[n]
      /\ stack \in Seq(Call)
  BY TopOK DEF IInv, StackOK, Call
<1>1. /\ stack' \in Seq(Call) /\ Len(stack') = n - 1 /\ DOMAIN stack' = 1 .. n - 1
      /\ \A i \in 1 .. n - 1 : stack'[i] = stack[i]
  <2> HIDE DEF Call
  <2>1. stack' = SubSeq(stack, 1, n - 1)
    BY DEF Front
  <2>2. QED
    BY <1>0, <2>1
<1> HIDE DEF n
<1>20. n \in Nat \ {0}
  BY <1>0
<1>2. \A i \in 1 .. n : i \in 1 .. n - 1 \/ i = n
  BY <1>20
<1>3. \A i \in 1 .. n - 1 : i \in 1 .. n
  BY <1>0
<1>4. Reading' \subseteq Reading
  BY <1>0, <1>1, <1>3 DEF Reading
<1>5. \A k \in Reading : k \in Reading' \/ k = Top.mod
  BY <1>0, <1>1, <1>2 DEF Reading
<1>6. LoadedOrBlank'
  <2>1. ASSUME NEW k \in DOMAIN env'.mods, k \notin Reading
        PROVE  env'.mods[k].loaded \/ env'.mods[k] = Blank
    BY <1>0, <2>1 DEF LoadedOrBlank, Reading
  <2>2. env'.mods[Top.mod].loaded \/ env'.mods[Top.mod] = Blank \/ Top.mod \in Reading'
    <3>1. \A i \in 1 .. n - 1 : stack[i].mod \in Reading'
      BY <1>1 DEF Reading
    <3>2. QED
      BY <3>1 DEF n
  <2>3. \A k \in DOMAIN env'.mods : env'.mods[k].loaded \/ env'.mods[k] = Blank \/ k \in Reading'
    BY <1>5, <2>1, <2>2
  <2>4. QED
    BY <2>3 DEF LoadedOrBlank, Reading
<1>7. StackOK'
  <2>1. Reading' \subseteq DOMAIN env'.mods
    BY <1>0, <1>4 DEF StackOK
  <2>2. stack' = <<>> => ~env'.failed
    <3>1. stack' = <<>> => n = 1
      BY <1>0, <1>1
    <3>2. QED
      BY <3>1 DEF n
  <2>3. \A i \in 1 .. n - 1 : stack'[i].file.head \in ACSE
    BY <1>0, <1>1 DEF StackOK, n
  <2>4. \A i \in 1 .. Len(stack') - 1 : i \in 1 .. n - 1
    BY <1>0, <1>1
  <2>5. stack' # <<>> => Top'.file.head \in ACSE
    <3>1. stack' # <<>> => Len(stack') \in 1 .. n - 1
      BY <1>0, <1>1
    <3>2. Top' = stack'[Len(stack')]
      BY DEF Top, Last
    <3>3. QED
      BY <2>3, <3>1, <3>2
  <2>6. QED
    BY <1>1, <2>1, <2>2, <2>3, <2>4, <2>5 DEF StackOK, Call
<1>8. QED
  BY <1>4, <1>6, <1>7
-----------------------------------------------------------------------------
(* No time has to pass. *)
LEMMA LaterSelf ==
  ASSUME NEW e
  PROVE  Later(e, e)
BY GrownSelf DEF Later, Extended

(* Reading a module leaves strings and names. *)
LEMMA GrewLater ==
  ASSUME NEW e, NEW g, NEW m, Grew(e, g, m)
  PROVE  Later(e, g)
BY DEF Grew, Later, Extended

(* Steps that add strings and names follow each other. *)
LEMMA LaterTrans ==
  ASSUME NEW e, NEW g, NEW h, Later(e, g), Later(g, h)
  PROVE  Later(e, h)
<1>1. Grown(e.tab, h.tab)
  BY GrownTrans DEF Later
<1>2. QED
  BY <1>1 DEF Later, Extended

(* getModule. *)
LEMMA GetModuleKeeps ==
  ASSUME IInv, GetModule
  PROVE  IInv'
<1>1. stack = <<>> /\ restoring = <<>>
  BY DEF GetModule, Idle
<1>2. PICK m \in Module : ~IsLoaded(m) /\ Enter(m, <<>>)
  BY DEF GetModule
<1>3. ~env.failed
  BY <1>1 DEF IInv, StackOK
<1>4. <<>> \in Seq(Call) /\ Len(<<>>) = Len(stack) /\ 1 .. Len(stack) = {}
  BY <1>1
<1>5. EnvOK(env', Reading') /\ Later(env, env') /\ StackOK' /\ LoadedOrBlank'
  BY <1>2, <1>3, <1>4, EnterKeeps
<1>6. UNCHANGED Scripts
  BY DEF GetModule
<1>7. WordsOK'
  BY <1>5, <1>6, WordsStay DEF Scripts
<1>8. RestoringOK'
  BY <1>1, <1>6 DEF Scripts, RestoringOK
<1>9. QED
  BY <1>5, <1>7, <1>8, Parts

(* getModule within readBytecode. *)
LEMMA ImportNewKeeps ==
  ASSUME IInv, ImportNew
  PROVE  IInv'
<1> DEFINE onto == [stack EXCEPT ![Len(stack)].next = @ + 1]
<1>1. Importing /\ ~IsLoaded(Name) /\ Enter(Name, onto) /\ UNCHANGED Scripts
  BY DEF ImportNew
<1>2. stack # <<>> /\ ~env.failed
  BY <1>1 DEF Importing
<1>3. /\ onto \in Seq(Call) /\ Len(onto) = Len(stack)
      /\ \A i \in 1 .. Len(stack) : onto[i].mod = stack[i].mod /\ onto[i].file = stack[i].file
  BY <1>2, Advanced
<1>4. Name \in Module /\ \A i \in 1 .. Len(stack) : stack[i].file.head \in ACSE
  BY <1>1, NameOK
<1> HIDE DEF onto
<1>5. \A i \in 1 .. Len(stack) : onto[i].mod = stack[i].mod /\ onto[i].file.head \in ACSE
  BY <1>3, <1>4
<1>6. EnvOK(env', Reading') /\ Later(env, env') /\ StackOK' /\ LoadedOrBlank'
  BY <1>1, <1>2, <1>3, <1>4, <1>5, EnterKeeps
<1>7. WordsOK'
  BY <1>1, <1>6, WordsStay DEF Scripts
<1>8. RestoringOK'
  <2>1. restoring' = Tail(restoring) => restoring' = restoring
    BY <1>1 DEF Scripts
  <2>2. CASE restoring # <<>>
    BY <1>1, <1>6, <2>2, RestoringStays DEF Scripts
  <2>3. CASE restoring = <<>>
    BY <1>1, <2>3 DEF Scripts, RestoringOK
  <2>4. QED
    BY <2>2, <2>3
<1>9. QED
  BY <1>6, <1>7, <1>8, Parts

(* getModule within loadState. *)
LEMMA LoadModuleKeeps ==
  ASSUME IInv, LoadModule
  PROVE  IInv'
<1>1. stack = <<>> /\ restoring # <<>> /\ Head(restoring) # NoModule /\ restoring' = Tail(restoring)
      /\ UNCHANGED <<memory, action, kept, saved, means, keptMeans>>
  BY DEF LoadModule
<1>2. Head(restoring) \in Module
  <2> DEFINE S == Module \cup {NoModule}
  <2>1. restoring \in Seq(S)
    BY DEF IInv, RestoringOK
  <2> HIDE DEF S
  <2>2. Head(restoring) \in S
    BY <1>1, <2>1
  <2>3. QED
    BY <1>1, <2>2 DEF S
<1>3. ~env.failed
  BY <1>1 DEF IInv, StackOK
<1>4. <<>> \in Seq(Call) /\ Len(<<>>) = Len(stack) /\ 1 .. Len(stack) = {}
  BY <1>1
<1>5. EnvOK(env', Reading') /\ Later(env, env') /\ StackOK' /\ LoadedOrBlank'
  <2>1. CASE IsLoaded(Head(restoring))
    <3>1. env' = env /\ stack' = stack
      BY <2>1 DEF LoadModule
    <3>2. EnvOK(env, Reading) /\ StackOK /\ LoadedOrBlank /\ Later(env, env)
      BY LaterSelf DEF IInv
    <3>3. Reading' = Reading
      BY <3>1 DEF Reading
    <3>4. StackOK'
      BY <3>1, <3>2, <3>3 DEF StackOK, Top
    <3>5. LoadedOrBlank'
      BY <3>1, <3>2 DEF LoadedOrBlank
    <3>6. QED
      BY <3>1, <3>2, <3>3, <3>4, <3>5
  <2>2. CASE ~IsLoaded(Head(restoring))
    <3>1. Enter(Head(restoring), <<>>)
      BY <2>2 DEF LoadModule
    <3>2. QED
      BY <1>2, <1>3, <1>4, <2>2, <3>1, EnterKeeps
  <2>3. QED
    BY <2>1, <2>2
<1>6. WordsOK'
  BY <1>1, <1>5, WordsStay
<1>7. RestoringOK'
  BY <1>1, <1>5, RestoringStays
<1>8. QED
  BY <1>5, <1>6, <1>7, Parts

(* A module gets a module it imports. *)
OneOK(e, R, m, g) ==
  EnvOK(g, R) /\ Grew(e, g, m) /\ g.failed = e.failed /\ g.mods[m].loaded = e.mods[m].loaded

(* One import is set. *)
LEMMA ImportOne ==
  ASSUME NEW e, NEW R, NEW m \in R, EnvOK(e, R), m \in DOMAIN e.mods, NEW i, NEW k \in DOMAIN e.mods
  PROVE  OneOK(e, R, m, [e EXCEPT !.mods[m].importV[i] = k])
<1> DEFINE v == [e.mods[m].importV EXCEPT ![i] = k]
           S == DOMAIN e.mods \cup {NoModule}
           g == [e EXCEPT !.mods[m].importV = v]
<1>0. DOMAIN e = {"tab", "byName", "byIdx", "func", "mods", "failed"} /\ DOMAIN e.mods[m] = DOMAIN Blank
  BY DEF EnvOK, ModOK, NewEnvironment
<1>1. e.mods[m].importV \in Seq(S) /\ k \in S
  BY DEF EnvOK, ModOK
<1> HIDE DEF S
<1>2. v \in Seq(S)
  <2> DEFINE w == e.mods[m].importV
             n == Len(w)
  <2>1. w \in Seq(S) /\ n \in Nat /\ DOMAIN w = 1 .. n
    BY <1>1
  <2> HIDE DEF w, n
  <2>2. [w EXCEPT ![i] = k] \in [1 .. n -> S]
    <3>1. w \in [1 .. n -> S]
      BY <2>1
    <3>2. QED
      BY <1>1, <3>1
  <2>3. QED
    BY <2>1, <2>2 DEF w
<1>3. [e EXCEPT !.mods[m].importV[i] = k] = g
  BY <1>0 DEF Blank
<1> HIDE DEF v
<1>4. EnvOK(g, R) /\ Grew(e, g, m) /\ g.failed = e.failed /\ g.mods[m].loaded = e.mods[m].loaded
  <2>1. v \in Seq(DOMAIN e.mods \cup {NoModule})
    BY <1>2 DEF S
  <2>2. SetOK(e, R, m, v, g)
    BY <2>1, ImportsSetIn
  <2>3. QED
    BY <2>2 DEF SetOK
<1> HIDE DEF g
<1>5. QED
  BY <1>3, <1>4 DEF OneOK

(* getModule within readBytecode, of a module that is loaded. *)
LEMMA ImportKnownKeeps ==
  ASSUME IInv, ImportKnown
  PROVE  IInv'
<1> DEFINE onto == [stack EXCEPT ![Len(stack)].next = @ + 1]
           t == Intern(env.tab, Name)
           h == [env EXCEPT !.tab = t]
           m == Top.mod
           g == [h EXCEPT !.mods[m].importV[Top.next] = Name]
<1>1. /\ Importing /\ UNCHANGED Scripts /\ stack' = onto
      /\ Name = m \/ IsLoaded(Name)
      /\ env' = [env EXCEPT !.tab = Intern(@, Name), !.mods[Top.mod].importV[Top.next] = Name]
  BY DEF ImportKnown
<1>2. stack # <<>>
  BY <1>1 DEF Importing
<1>3. /\ onto \in Seq(Call) /\ Len(onto) = Len(stack)
      /\ \A i \in 1 .. Len(stack) : onto[i].mod = stack[i].mod /\ onto[i].file = stack[i].file
  BY <1>2, Advanced
<1> HIDE DEF onto
<1>4. Name \in Module /\ Top.file.head \in ACSE
  BY <1>1, NameOK
<1>5. m \in Reading /\ m \in DOMAIN env.mods
  BY <1>2, TopOK
<1>6. Name \in DOMAIN env.mods
  BY <1>1, <1>5 DEF IsLoaded
<1>7. EnvOK(env, Reading)
  BY DEF IInv
<1>8. DOMAIN env = {"tab", "byName", "byIdx", "func", "mods", "failed"} /\ env.failed \in BOOLEAN
  BY <1>7 DEF EnvOK, NewEnvironment
<1>9. env' = g
  BY <1>1, <1>8
<1> HIDE DEF m
<1>10. TabOK(t) /\ Grown(env.tab, t) /\ Live(env.tab) \subseteq Live(t)
  <2>1. TabOK(env.tab) /\ Name \in String
    BY <1>4, <1>7, ModuleAssumption DEF EnvOK
  <2>2. QED
    BY <2>1, InternKeeps, GrownLive
<1> HIDE DEF t
<1>11. h.failed = env.failed /\ h.byName = env.byName /\ h.byIdx = env.byIdx /\ DOMAIN h = DOMAIN env
      /\ h.func = env.func /\ h.tab = t /\ h.mods = env.mods
  BY <1>8
<1> HIDE DEF h
<1>12. EnvOK(h, Reading)
  <2>1. DOMAIN h.mods \subseteq Module \cap Live(h.tab)
    BY <1>7, <1>10, <1>11 DEF EnvOK
  <2>2. h.failed \in BOOLEAN
    BY <1>8, <1>11
  <2>3. TabOK(h.tab) /\ Live(env.tab) \subseteq Live(h.tab) /\ DOMAIN env.mods \subseteq DOMAIN h.mods
        /\ (\A n \in DOMAIN env.mods : h.mods[n] = env.mods[n])
        /\ (\A n \in DOMAIN h.mods : n \notin DOMAIN env.mods => h.mods[n] = Blank)
        /\ (\A n \in Reading : n \in Reading \/ (n \in DOMAIN env.mods => ~env.mods[n].loaded))
    BY <1>10, <1>11
  <2>4. QED
    BY <1>7, <1>11, <2>1, <2>2, <2>3, EnvLater
<1>13. Later(env, h)
  BY <1>10, <1>11 DEF Later, Extended
<1>14. EnvOK(g, Reading) /\ Grew(h, g, m)
  <2>1. OneOK(h, Reading, m, g)
    BY <1>5, <1>6, <1>11, <1>12, ImportOne
  <2>2. QED
    BY <2>1 DEF OneOK
<1> HIDE DEF g
<1>15. EnvOK(env', Reading) /\ Later(env, env') /\ DOMAIN env'.mods = DOMAIN env.mods
       /\ \A n \in DOMAIN env.mods : n \notin Reading => env'.mods[n] = env.mods[n]
  <2>1. Later(env, g)
    BY <1>13, <1>14, GrewLater, LaterTrans
  <2>2. DOMAIN g.mods = DOMAIN env.mods /\ \A n \in DOMAIN env.mods : n # m => g.mods[n] = env.mods[n]
    BY <1>11, <1>14 DEF Grew
  <2>3. QED
    BY <1>5, <1>9, <1>14, <2>1, <2>2
<1>16. Reading' = Reading /\ StackOK' /\ LoadedOrBlank'
  BY <1>1, <1>2, <1>3, <1>4, <1>15, StackSame
<1>17. WordsOK'
  BY <1>1, <1>15, WordsStay DEF Scripts
<1>18. RestoringOK'
  <2>1. CASE restoring # <<>>
    BY <1>1, <1>15, <2>1, RestoringStays DEF Scripts
  <2>2. CASE restoring = <<>>
    BY <1>1, <2>2 DEF Scripts, RestoringOK
  <2>3. QED
    BY <2>1, <2>2
<1>19. QED
  BY <1>15, <1>16, <1>17, <1>18, Parts
-----------------------------------------------------------------------------
(* The end of readBytecode. *)
LEMMA ReadKeeps ==
  ASSUME IInv, Read
  PROVE  IInv'
<1> DEFINE e == IF Top.file.head \in {"ACSE", "ACSe"} THEN ReadRest(env, Top.mod, Top.file) ELSE env
           m == Top.mod
           n == Len(stack)
<1>1. /\ stack # <<>> /\ ~env.failed /\ ~Importing /\ UNCHANGED Scripts
      /\ IF e.failed THEN env' = e /\ UNCHANGED stack ELSE env' = Returned(e) /\ stack' = Front(stack)
  BY DEF Read
<1>2. n \in Nat \ {0} /\ DOMAIN stack = 1 .. n /\ stack \in Seq(Call) /\ Top = stack[n]
      /\ m \in Reading /\ m \in DOMAIN env.mods /\ m \in Module /\ EnvOK(env, Reading)
      /\ (\E k \in Module : Top.file \in FilesOf[k]) /\ Reading \subseteq DOMAIN env.mods
  BY <1>1, TopOK DEF IInv, StackOK, Call
<1>3. /\ EnvOK(e, Reading) /\ Grew(env, e, m)
      /\ Top.file.head \in ACSE => e.failed \/ e.mods[m].loaded
      /\ Top.file.head \notin ACSE => e = env
  <2>1. CASE Top.file.head \in ACSE
    <3> DEFINE h == ReadRest(env, m, Top.file)
    <3>1. e = h
      BY <2>1 DEF ACSE
    <3>2. EnvOK(h, Reading) /\ Grew(env, h, m) /\ (h.failed \/ h.mods[m].loaded)
      BY <1>2, <2>1, ReadRestKeeps
    <3> HIDE DEF h, e
    <3>3. QED
      BY <2>1, <3>1, <3>2
  <2>2. CASE Top.file.head \notin ACSE
    <3>1. e = env
      BY <2>2 DEF ACSE
    <3>2. Grew(env, env, m)
      BY GrewSelf
    <3> HIDE DEF e
    <3>3. QED
      BY <1>2, <2>2, <3>1, <3>2
  <2>3. QED
    BY <2>1, <2>2
<1> HIDE DEF e, m
<1>4. DOMAIN e.mods = DOMAIN env.mods /\ \A k \in DOMAIN env.mods : k # m => e.mods[k] = env.mods[k]
  BY <1>3 DEF Grew
<1>5. Later(env, e)
  BY <1>3, GrewLater
<1>6. EnvOK(env', Reading') /\ Later(env, env') /\ StackOK' /\ LoadedOrBlank'
  <2>1. CASE e.failed
    <3>1. env' = e /\ stack' = stack
      BY <1>1, <2>1
    <3>2. /\ stack' \in Seq(Call) /\ Len(stack') = Len(stack)
          /\ \A i \in 1 .. Len(stack) : stack'[i].mod = stack[i].mod /\ stack'[i].file = stack[i].file
      BY <1>2, <3>1
    <3>3. \A k \in DOMAIN env.mods : k \notin Reading => env'.mods[k] = env.mods[k]
      BY <1>2, <1>4, <3>1
    <3>4. Reading' = Reading /\ StackOK' /\ LoadedOrBlank'
      BY <1>1, <1>4, <2>1, <3>1, <3>2, <3>3, StackSame
    <3>5. QED
      BY <1>3, <1>5, <3>1, <3>4
  <2>2. CASE ~e.failed
    <3>1. env' = Returned(e) /\ stack' = Front(stack)
      BY <1>1, <2>2
    <3>2. \/ e.mods[m].loaded \/ (e = env /\ env.mods[m] = Blank)
          \/ \E i \in 1 .. Len(stack) - 1 : stack[i].mod = m
      BY <1>1, <1>3, <2>2 DEF IInv, StackOK, m
    <3>3. /\ EnvOK(env', Reading) /\ Later(env, env') /\ env'.failed = e.failed
          /\ DOMAIN env'.mods = DOMAIN env.mods
          /\ \A k \in DOMAIN env.mods : k \notin Reading => env'.mods[k] = env.mods[k]
          /\ \/ env'.mods[m].loaded \/ env'.mods[m] = Blank
             \/ \E i \in 1 .. Len(stack) - 1 : stack[i].mod = m
      <4>1. CASE n = 1
        <5>1. env' = e
          BY <3>1, <4>1 DEF Returned
        <5>2. QED
          BY <1>2, <1>3, <1>4, <1>5, <3>2, <5>1
      <4>2. CASE n # 1
        <5> DEFINE up == stack[n - 1]
                   u == up.mod
                   i == up.next - 1
                   g == [e EXCEPT !.mods[u].importV[i] = m]
        <5>1. env' = g
          BY <3>1, <4>2 DEF Returned, m
        <5>2. n - 1 \in 1 .. n - 1 /\ n - 1 \in 1 .. n
          BY <1>2, <4>2
        <5>3. u \in Reading
          BY <1>2, <5>2 DEF Reading
        <5> HIDE DEF i
        <5>4. u \in DOMAIN e.mods /\ m \in DOMAIN e.mods
          BY <1>2, <1>4, <5>3
        <5> HIDE DEF u
        <5>5. EnvOK(g, Reading) /\ Grew(e, g, u) /\ g.failed = e.failed /\ g.mods[u].loaded = e.mods[u].loaded
          <6>1. OneOK(e, Reading, u, g)
            BY <1>3, <5>3, <5>4, ImportOne
          <6>2. QED
            BY <6>1 DEF OneOK
        <5> HIDE DEF g
        <5>6. Later(env, g)
          BY <1>5, <5>5, GrewLater, LaterTrans
        <5>7. DOMAIN g.mods = DOMAIN env.mods /\ \A k \in DOMAIN env.mods : k # u => g.mods[k] = e.mods[k]
          BY <1>4, <5>5 DEF Grew
        <5>8. \A k \in DOMAIN env.mods : k \notin Reading => g.mods[k] = env.mods[k]
          BY <1>2, <1>4, <5>3, <5>7
        <5>9. \/ g.mods[m].loaded \/ g.mods[m] = Blank
              \/ \E j \in 1 .. Len(stack) - 1 : stack[j].mod = m
          <6>1. CASE u = m
            BY <5>2, <6>1 DEF u
          <6>2. CASE u # m
            BY <1>2, <3>2, <5>7, <6>2
          <6>3. QED
            BY <6>1, <6>2
        <5>10. QED
          BY <5>1, <5>5, <5>6, <5>7, <5>8, <5>9
      <4>3. QED
        BY <4>1, <4>2
    <3>4. Reading' \subseteq Reading /\ StackOK' /\ LoadedOrBlank'
      <4>1. \A k \in DOMAIN env.mods : k \notin Reading =>
              /\ env.mods[k].loaded => env'.mods[k].loaded
              /\ env.mods[k] = Blank => env'.mods[k] = Blank
        BY <3>3
      <4>2. ~env'.failed
        BY <2>2, <3>3
      <4>3. QED
        BY <1>1, <3>1, <3>3, <4>1, <4>2, StackPopped DEF m
    <3>5. EnvOK(env', Reading')
      BY <3>3, <3>4, Shrunk
    <3>6. QED
      BY <3>3, <3>4, <3>5
  <2>3. QED
    BY <2>1, <2>2
<1>7. WordsOK'
  BY <1>1, <1>6, WordsStay DEF Scripts
<1>8. RestoringOK'
  <2>1. CASE restoring # <<>>
    BY <1>1, <1>6, <2>1, RestoringStays DEF Scripts
  <2>2. CASE restoring = <<>>
    BY <1>1, <2>2 DEF Scripts, RestoringOK
  <2>3. QED
    BY <2>1, <2>2
<1>9. QED
  BY <1>6, <1>7, <1>8, Parts
-----------------------------------------------------------------------------
(* A module is reset: its functions are freed. *)
LEMMA ResetKeeps ==
  ASSUME NEW e, NEW R, EnvOK(e, R), NEW m \in DOMAIN e.mods
  PROVE  LET g == Reset(e, m) IN
         /\ EnvOK(g, R) /\ Later(e, g) /\ DOMAIN g.mods = DOMAIN e.mods /\ g.mods[m] = Blank
         /\ \A n \in DOMAIN e.mods : /\ e.mods[n].loaded => n = m \/ g.mods[n].loaded
                                     /\ e.mods[n] = Blank => g.mods[n] = Blank
<1> DEFINE own == {f \in ToSet(e.mods[m].functionV) : f # NoFunc /\ f[1] = m}
           Kept(v) == [i \in DOMAIN v |-> IF v[i] \in own THEN NoFunc ELSE v[i]]
           freed == [n \in DOMAIN e.mods |-> [e.mods[n] EXCEPT !.functionV = Kept(e.mods[n].functionV)]]
           mods == [freed EXCEPT ![m] = Blank]
           byIdx == [i \in DOMAIN e.byIdx |-> IF \E f \in own : e.func[f].idx = i - 1
                                              THEN NoFunc ELSE e.byIdx[i]]
           func == [f \in DOMAIN e.func \ own |-> e.func[f]]
           L == Live(e.tab)
           F == DOMAIN e.func \ own
           M == DOMAIN e.mods
           g == Reset(e, m)
<1>0. /\ DOMAIN e = {"tab", "byName", "byIdx", "func", "mods", "failed"} /\ TabOK(e.tab)
      /\ e.failed \in BOOLEAN /\ M \subseteq Module \cap L /\ FuncOK(e, R)
      /\ NamesOK(e.byName, Len(e.byIdx), L)
      /\ \A n \in M : ModOK(e.mods[n], L, DOMAIN e.func, M)
  BY DEF EnvOK, NewEnvironment
<1>1. \A f \in DOMAIN e.func : f # NoFunc
  <2>1. Module \subseteq String /\ L \subseteq String
    BY <1>0, LiveStrings, ModuleAssumption
  <2>2. DOMAIN e.func \subseteq Module \X (L \cup Nat)
    BY <1>0 DEF FuncOK
  <2> HIDE DEF L
  <2>3. QED
    BY <2>1, <2>2, NamesAssumption
<1>2. g = [[e EXCEPT !.mods = freed, !.byIdx = byIdx, !.func = func] EXCEPT !.mods[m] = Blank]
  <2> HIDE DEF own
  <2>1. FreeFunctions(e, own) = [e EXCEPT !.mods = freed, !.byIdx = byIdx, !.func = func]
    BY DEF FreeFunctions
  <2>2. g = [FreeFunctions(e, own) EXCEPT !.mods[m] = Blank]
    BY DEF Reset, own
  <2>3. QED
    BY <2>1, <2>2
<1>3. \A n \in M : mods[n] = IF n = m THEN Blank
                             ELSE [e.mods[n] EXCEPT !.functionV = Kept(e.mods[n].functionV)]
  OBVIOUS
<1>4. DOMAIN mods = M
  OBVIOUS
<1> HIDE DEF freed, byIdx, func
<1>5. /\ DOMAIN g = DOMAIN e /\ g.failed = e.failed /\ g.byName = e.byName /\ g.byIdx = byIdx
      /\ g.func = func /\ g.tab = e.tab /\ g.mods = mods
  BY <1>0, <1>2
<1> HIDE DEF g, mods
<1>6. ASSUME NEW n \in M, n # m
      PROVE  /\ ModOK(mods[n], L, F, M) /\ mods[n].loaded = e.mods[n].loaded
             /\ mods[n].functionV = Kept(e.mods[n].functionV)
             /\ e.mods[n] = Blank => mods[n] = Blank
  <2> DEFINE md == e.mods[n]
             nd == [md EXCEPT !.functionV = Kept(md.functionV)]
  <2>1. mods[n] = nd
    BY <1>3, <1>6
  <2>2. ModOK(md, L, DOMAIN e.func, M)
    BY <1>0
  <2>3. DOMAIN md = DOMAIN Blank
    BY <2>2 DEF ModOK
  <2> HIDE DEF own
  <2>4. Kept(md.functionV) \in Seq(F \cup {NoFunc})
    <3> DEFINE v == md.functionV
               w == Kept(v)
    <3>1. v \in Seq(DOMAIN e.func \cup {NoFunc})
      BY <2>2 DEF ModOK
    <3> HIDE DEF v
    <3>2. Len(v) \in Nat /\ w \in [1 .. Len(v) -> F \cup {NoFunc}]
      BY <3>1
    <3> HIDE DEF w, F
    <3>3. QED
      BY <3>2 DEF w, v
  <2>5. md = Blank => nd = Blank
    <3>1. Blank.functionV = <<>> /\ "functionV" \in DOMAIN Blank /\ Blank = [Blank EXCEPT !.functionV = <<>>]
      BY DEF Blank
    <3>2. Kept(<<>>) = <<>>
      OBVIOUS
    <3>3. QED
      BY <3>1, <3>2
  <2>6. /\ \A f \in NameFields : nd[f] = md[f]
        /\ nd.loaded = md.loaded /\ nd.stringV = md.stringV /\ nd.scriptV = md.scriptV
        /\ nd.functionV = Kept(md.functionV) /\ nd.importV = md.importV /\ DOMAIN nd = DOMAIN md
    BY <2>3 DEF Blank, NameFields
  <2> HIDE DEF nd, Kept, F, L, M, md
  <2>7. ModOK(nd, L, F, M)
    BY <2>2, <2>4, <2>6 DEF ModOK
  <2>8. QED
    BY <2>1, <2>5, <2>6, <2>7 DEF md
<1>7. mods[m] = Blank
  BY <1>3
<1>8. \A n \in M : ModOK(mods[n], L, F, M)
  <2> HIDE DEF L, F, M
  <2>1. QED
    BY <1>6, <1>7, BlankOK
<1>9. FuncOK(g, R)
  <2>1. DOMAIN g.func = F /\ \A f \in F : g.func[f] = e.func[f] /\ f \in DOMAIN e.func /\ f \notin own
    BY <1>5 DEF func
  <2>2. DOMAIN g.func \subseteq Module \X (Live(g.tab) \cup Nat)
    BY <1>0, <1>5, <2>1 DEF FuncOK
  <2>3. /\ e.byIdx \in Seq(DOMAIN e.func \cup {NoFunc}) /\ e.byIdx # <<>>
        /\ \A i \in DOMAIN e.byIdx : e.byIdx[i] # NoFunc => e.func[e.byIdx[i]].idx = i - 1
    BY <1>0 DEF FuncOK
  <2>4. \A f \in own : f \in DOMAIN e.func
    BY <1>0 DEF ModOK, ToSet
  <2> HIDE DEF own
  <2>5. /\ \A i \in DOMAIN e.byIdx : byIdx[i] = IF \E f \in own : e.func[f].idx = i - 1
                                                THEN NoFunc ELSE e.byIdx[i]
        /\ DOMAIN byIdx = DOMAIN e.byIdx
    BY DEF byIdx
  <2>6. \A i \in DOMAIN e.byIdx : byIdx[i] \in F \cup {NoFunc}
    <3>1. \A i \in DOMAIN e.byIdx : e.byIdx[i] \in DOMAIN e.func \cup {NoFunc}
      BY <2>3
    <3>2. QED
      BY <2>3, <2>5, <3>1
  <2>7. byIdx \in Seq(F \cup {NoFunc}) /\ byIdx # <<>>
    <3>1. Len(e.byIdx) \in Nat /\ DOMAIN e.byIdx = 1 .. Len(e.byIdx) /\ DOMAIN e.byIdx # {}
      BY <2>3
    <3> HIDE DEF F
    <3>2. byIdx \in [1 .. Len(e.byIdx) -> F \cup {NoFunc}]
      BY <2>5, <2>6, <3>1 DEF byIdx
    <3>3. byIdx \in Seq(F \cup {NoFunc})
      BY <3>1, <3>2
    <3>4. QED
      BY <2>5, <3>1, <3>3
  <2>8. \A i \in DOMAIN byIdx : byIdx[i] # NoFunc => g.func[byIdx[i]].idx = i - 1
    BY <2>1, <2>3, <2>5, <2>6
  <2>9. ASSUME NEW f \in F
        PROVE  /\ "idx" \in DOMAIN g.func[f] /\ g.func[f].idx \in Nat
               /\ g.func[f].idx # 0 =>
                    /\ f \in DOMAIN g.byName /\ g.byName[f] = g.func[f].idx
                    /\ g.byIdx[g.func[f].idx + 1] = f
               /\ f[1] \in DOMAIN g.mods /\ f \in ToSet(g.mods[f[1]].functionV)
               /\ f[2] \in String /\ (f[1] \in R \/ ~g.mods[f[1]].loaded) => g.func[f].idx # 0
    <3>1. /\ "idx" \in DOMAIN e.func[f] /\ e.func[f].idx \in Nat
          /\ e.func[f].idx # 0 =>
               /\ f \in DOMAIN e.byName /\ e.byName[f] = e.func[f].idx
               /\ e.byIdx[e.func[f].idx + 1] = f
          /\ f[1] \in DOMAIN e.mods /\ f \in ToSet(e.mods[f[1]].functionV)
          /\ f[2] \in String /\ (f[1] \in R \/ ~e.mods[f[1]].loaded) => e.func[f].idx # 0
      BY <1>0, <2>1 DEF FuncOK
    <3>2. f[1] # m
      BY <1>1, <2>1, <3>1 DEF own
    <3>3. mods[f[1]].loaded = e.mods[f[1]].loaded /\ mods[f[1]].functionV = Kept(e.mods[f[1]].functionV)
      BY <1>6, <3>1, <3>2
    <3>4. f \in ToSet(Kept(e.mods[f[1]].functionV))
      BY <2>1, <3>1 DEF ToSet
    <3> HIDE DEF Kept
    <3>5. e.func[f].idx # 0 => byIdx[e.func[f].idx + 1] = f
      <4>1. SUFFICES ASSUME e.func[f].idx # 0 PROVE byIdx[e.func[f].idx + 1] = f
        OBVIOUS
      <4> DEFINE i == e.func[f].idx + 1
      <4>2. i \in DOMAIN e.byIdx
        <5>1. e.byName[f] \in 1 .. Len(e.byIdx) - 1
          BY <1>0, <3>1, <4>1 DEF NamesOK
        <5>2. Len(e.byIdx) \in Nat /\ DOMAIN e.byIdx = 1 .. Len(e.byIdx)
          BY <2>3
        <5>3. QED
          BY <3>1, <4>1, <5>1, <5>2
      <4>3. ~\E h \in own : e.func[h].idx = i - 1
        <5>1. ASSUME NEW h \in own, e.func[h].idx = i - 1
              PROVE  FALSE
          <6>1. e.func[h].idx = e.func[f].idx
            BY <3>1, <5>1
          <6>2. h \in DOMAIN e.func /\ e.byIdx[e.func[h].idx + 1] = h
            BY <1>0, <2>4, <4>1, <6>1 DEF FuncOK
          <6>3. h = f
            BY <3>1, <4>1, <6>1, <6>2
          <6>4. QED
            BY <2>1, <6>3
        <5>2. QED
          BY <5>1
      <4>4. QED
        BY <2>5, <3>1, <4>1, <4>2, <4>3
    <3>6. QED
      BY <1>4, <1>5, <2>1, <3>1, <3>3, <3>4, <3>5
  <2>10. QED
    BY <1>5, <2>1, <2>2, <2>7, <2>8, <2>9 DEF FuncOK
<1>10. NamesOK(g.byName, Len(g.byIdx), Live(g.tab))
  <2>1. e.byIdx \in Seq(DOMAIN e.func \cup {NoFunc})
    BY <1>0 DEF FuncOK
  <2>2. Len(byIdx) = Len(e.byIdx)
    <3>1. DOMAIN byIdx = 1 .. Len(e.byIdx) /\ Len(e.byIdx) \in Nat
      BY <2>1 DEF byIdx
    <3>2. byIdx \in Seq(DOMAIN g.func \cup {NoFunc})
      BY <1>5, <1>9 DEF FuncOK
    <3>3. QED
      BY <3>1, <3>2
  <2>3. QED
    BY <1>0, <1>5, <2>2
<1>11. EnvOK(g, R)
  <2>1. DOMAIN g.func = F
    BY <1>5 DEF func
  <2>2. g.failed \in BOOLEAN
    BY <1>0, <1>5
  <2> HIDE DEF F
  <2>3. QED
    BY <1>0, <1>4, <1>5, <1>8, <1>9, <1>10, <2>1, <2>2 DEF EnvOK
<1>12. Later(e, g)
  BY <1>5, GrownSelf DEF Later, Extended
<1>13. \A n \in DOMAIN e.mods : /\ e.mods[n].loaded => n = m \/ g.mods[n].loaded
                                /\ e.mods[n] = Blank => g.mods[n] = Blank
  BY <1>5, <1>6, <1>7
<1>14. QED
  BY <1>4, <1>5, <1>7, <1>11, <1>12, <1>13 DEF g
-----------------------------------------------------------------------------
(* A failure is noted or forgotten. *)
LEMMA FailedSet ==
  ASSUME NEW e, NEW R, EnvOK(e, R), NEW b \in BOOLEAN
  PROVE  LET g == [e EXCEPT !.failed = b] IN
         EnvOK(g, R) /\ Later(e, g) /\ g.mods = e.mods /\ g.failed = b
<1> DEFINE g == [e EXCEPT !.failed = b]
<1>0. DOMAIN e = {"tab", "byName", "byIdx", "func", "mods", "failed"}
  BY DEF EnvOK, NewEnvironment
<1>1. DOMAIN g = DOMAIN e /\ g.failed = b /\ g.byName = e.byName /\ g.byIdx = e.byIdx
      /\ g.func = e.func /\ g.tab = e.tab /\ g.mods = e.mods
  BY <1>0
<1> HIDE DEF g
<1>2. EnvOK(g, R)
  <2>1. FuncOK(g, R)
    BY <1>1 DEF EnvOK, FuncOK
  <2>2. g.failed \in BOOLEAN
    BY <1>1
  <2>3. QED
    BY <1>1, <2>1, <2>2 DEF EnvOK
<1>3. Later(e, g)
  BY <1>1, GrownSelf DEF Later, Extended
<1>4. QED
  BY <1>1, <1>2, <1>3 DEF g

(* An exception leaves readBytecode, and the module is reset. *)
LEMMA UnwindKeeps ==
  ASSUME IInv, Unwind
  PROVE  IInv'
<1> DEFINE h == Reset(env, Top.mod)
           b == Len(stack) > 1
           g == [h EXCEPT !.failed = b]
<1>1. /\ stack # <<>> /\ stack' = Front(stack) /\ env' = g
      /\ restoring' = IF Len(stack) > 1 THEN restoring ELSE <<>>
      /\ UNCHANGED <<memory, action, kept, saved, means, keptMeans>>
  BY DEF Unwind
<1>2. Len(stack) \in Nat \ {0} /\ Top.mod \in Reading /\ Top.mod \in DOMAIN env.mods
      /\ EnvOK(env, Reading)
  BY <1>1, TopOK DEF IInv
<1>3. /\ EnvOK(h, Reading) /\ Later(env, h) /\ DOMAIN h.mods = DOMAIN env.mods /\ h.mods[Top.mod] = Blank
      /\ \A n \in DOMAIN env.mods : /\ env.mods[n].loaded => n = Top.mod \/ h.mods[n].loaded
                                    /\ env.mods[n] = Blank => h.mods[n] = Blank
  BY <1>2, ResetKeeps
<1> HIDE DEF h
<1>4. b \in BOOLEAN /\ (Len(stack) = 1 => ~b)
  <2>1. b \in BOOLEAN
    BY <1>2
  <2>2. Len(stack) = 1 => ~(Len(stack) > 1)
    BY <1>2
  <2>3. QED
    BY <2>1, <2>2
<1> HIDE DEF b
<1>5. EnvOK(g, Reading) /\ Later(h, g) /\ g.mods = h.mods /\ g.failed = b
  BY <1>3, <1>4, FailedSet
<1> HIDE DEF g
<1>6. Later(env, g)
  BY <1>3, <1>5, LaterTrans
<1>7. Reading' \subseteq Reading /\ StackOK' /\ LoadedOrBlank'
  <2>1. DOMAIN env'.mods = DOMAIN env.mods /\ env'.mods[Top.mod] = Blank
    BY <1>1, <1>3, <1>5
  <2>2. \A n \in DOMAIN env.mods : n \notin Reading =>
          /\ env.mods[n].loaded => env'.mods[n].loaded
          /\ env.mods[n] = Blank => env'.mods[n] = Blank
    BY <1>1, <1>2, <1>3, <1>5
  <2>3. Len(stack) = 1 => ~env'.failed
    BY <1>1, <1>4, <1>5
  <2>4. QED
    BY <1>1, <2>1, <2>2, <2>3, StackPopped
<1>8. EnvOK(env', Reading') /\ Later(env, env')
  BY <1>1, <1>5, <1>6, <1>7, Shrunk
<1>9. WordsOK'
  BY <1>1, <1>8, WordsStay
<1>10. RestoringOK'
  <2>1. CASE restoring # <<>>
    BY <1>1, <1>8, <2>1, RestoringStays
  <2>2. CASE restoring = <<>>
    BY <1>1, <2>2 DEF RestoringOK
  <2>3. QED
    BY <2>1, <2>2
<1>11. QED
  BY <1>7, <1>8, <1>9, <1>10, Parts
-----------------------------------------------------------------------------
(* Scripts. *)

(* No module is being read, and the modules stay. *)
LEMMA NoneRead ==
  ASSUME IInv, stack = <<>>, stack' = stack, env'.mods = env.mods, env'.failed = env.failed
  PROVE  Reading = {} /\ Reading' = {} /\ StackOK' /\ LoadedOrBlank'
<1>1. stack = <<>> /\ stack' = <<>> /\ ~env.failed
  BY DEF IInv, StackOK
<1>2. Reading = {} /\ Reading' = {}
  BY <1>1 DEF Reading
<1>3. StackOK'
  <2>1. stack' \in Seq([mod : Module, file : UNION {FilesOf[m] : m \in Module}, next : Nat \ {0}])
    BY <1>1
  <2>2. \A i \in 1 .. Len(stack') - 1 : stack'[i].file.head \in ACSE
    BY <1>1
  <2>3. QED
    BY <1>1, <1>2, <2>1, <2>2 DEF StackOK
<1>4. LoadedOrBlank'
  BY <1>1 DEF LoadedOrBlank, IInv
<1>5. QED
  BY <1>2, <1>3, <1>4

(* Steps that leave modules and calls alone. *)
LEMMA IdleStays ==
  ASSUME IInv, Idle, stack' = stack, restoring' = restoring, env'.mods = env.mods, env'.failed = env.failed
  PROVE  Reading = {} /\ Reading' = {} /\ StackOK' /\ LoadedOrBlank' /\ RestoringOK'
<1>1. stack = <<>> /\ restoring' = <<>>
  BY DEF Idle
<1>2. RestoringOK'
  BY <1>1 DEF RestoringOK
<1>3. QED
  BY <1>1, <1>2, NoneRead

(* One word of memory changes, and what it means. *)
LEMMA CellSet ==
  ASSUME NEW t, NEW names, NEW words, NEW meanings, Means(t, names, words, meanings),
         NEW c \in Cell, NEW w \in Int, NEW s,
         \/ s \in String /\ GetString(t, w) = s
         \/ s = NoMeaning /\ w >= 0
         \/ s \in DOMAIN names /\ names[s] = w
  PROVE  Means(t, names, [words EXCEPT ![c] = w], [meanings EXCEPT ![c] = s])
<1> DEFINE v == [words EXCEPT ![c] = w]
           m == [meanings EXCEPT ![c] = s]
<1>1. v \in [Cell -> Int] /\ DOMAIN m = Cell /\ v[c] = w /\ m[c] = s
      /\ \A d \in Cell : d # c => v[d] = words[d] /\ m[d] = meanings[d]
  BY DEF Means
<1> HIDE DEF v, m
<1>2. \A d \in Cell : \/ m[d] \in String /\ GetString(t, v[d]) = m[d]
                      \/ m[d] = NoMeaning /\ v[d] >= 0
                      \/ m[d] \in DOMAIN names /\ names[m[d]] = v[d]
  BY <1>1 DEF Means
<1>3. Means(t, names, v, m)
  BY <1>1, <1>2 DEF Means
<1>4. QED
  BY <1>3 DEF v, m

(* A string of a module. *)
LEMMA PushStringKeeps ==
  ASSUME IInv, PushString
  PROVE  IInv'
<1>1. /\ Idle
      /\ UNCHANGED <<env, stack, action, kept, saved, restoring, keptMeans>>
  BY DEF PushString
<1>2. PICK c \in Cell, m \in DOMAIN env.mods : \E s \in ToSet(env.mods[m].stringV) :
        SetCell(c, WordOf(env.tab, s), s)
  BY DEF PushString
<1>3. PICK s \in ToSet(env.mods[m].stringV) : SetCell(c, WordOf(env.tab, s), s)
  BY <1>2
<1>4. EnvOK(env, Reading) /\ Means(env.tab, env.byName, memory, means)
      /\ Means(env.tab, env.byName, kept, keptMeans) /\ LocksMatch /\ (saved # NoSave => SavedOK(saved))
  BY DEF IInv
<1>5. s \in Live(env.tab) /\ TabOK(env.tab)
  BY <1>4 DEF EnvOK, ModOK
<1>6. WordOf(env.tab, s) \in Int /\ GetString(env.tab, WordOf(env.tab, s)) = s /\ s \in String
  BY <1>5, InTable
<1>7. Means(env.tab, env.byName, memory', means')
  BY <1>3, <1>4, <1>6, CellSet DEF SetCell
<1>8. Reading = {} /\ Reading' = {} /\ StackOK' /\ LoadedOrBlank' /\ RestoringOK'
  BY <1>1, IdleStays
<1>9. LocksMatch'
  BY <1>1, <1>4 DEF LocksMatch, WordsOf
<1>10. WordsOK'
  BY <1>1, <1>4, <1>7, <1>9 DEF WordsOK
<1>11. EnvOK(env', Reading')
  BY <1>1, <1>4, <1>8
<1>12. QED
  BY <1>8, <1>10, <1>11, Parts

(* A function of a module. *)
LEMMA PushFunctionKeeps ==
  ASSUME IInv, PushFunction
  PROVE  IInv'
<1>1. /\ Idle
      /\ UNCHANGED <<env, stack, action, kept, saved, restoring, keptMeans>>
  BY DEF PushFunction
<1>2. PICK c \in Cell, m \in DOMAIN env.mods : \E f \in ToSet(env.mods[m].functionV) \ {NoFunc} :
        SetCell(c, env.func[f].idx, IF env.func[f].idx = 0 THEN NoMeaning ELSE f)
  BY DEF PushFunction
<1>3. PICK f \in ToSet(env.mods[m].functionV) \ {NoFunc} :
        SetCell(c, env.func[f].idx, IF env.func[f].idx = 0 THEN NoMeaning ELSE f)
  BY <1>2
<1> DEFINE w == env.func[f].idx
           s == IF w = 0 THEN NoMeaning ELSE f
<1>4. EnvOK(env, Reading) /\ Means(env.tab, env.byName, memory, means)
      /\ Means(env.tab, env.byName, kept, keptMeans) /\ LocksMatch /\ (saved # NoSave => SavedOK(saved))
  BY DEF IInv
<1>5. f \in DOMAIN env.func
  <2>1. env.mods[m].functionV \in Seq(DOMAIN env.func \cup {NoFunc})
    BY <1>4 DEF EnvOK, ModOK
  <2>2. QED
    BY <1>3, <2>1 DEF ToSet
<1>6. w \in Nat /\ (w # 0 => f \in DOMAIN env.byName /\ env.byName[f] = w)
  BY <1>4, <1>5 DEF EnvOK, FuncOK
<1>7. Means(env.tab, env.byName, memory', means')
  <2>1. memory' = [memory EXCEPT ![c] = w] /\ means' = [means EXCEPT ![c] = s]
    BY <1>3 DEF SetCell
  <2> HIDE DEF w
  <2>2. w \in Int /\ (\/ s = NoMeaning /\ w >= 0
                      \/ s \in DOMAIN env.byName /\ env.byName[s] = w)
    BY <1>6
  <2> HIDE DEF s
  <2>3. QED
    BY <1>4, <2>1, <2>2, CellSet
<1>8. Reading = {} /\ Reading' = {} /\ StackOK' /\ LoadedOrBlank' /\ RestoringOK'
  BY <1>1, IdleStays
<1>9. LocksMatch'
  BY <1>1, <1>4 DEF LocksMatch, WordsOf
<1>10. WordsOK'
  BY <1>1, <1>4, <1>7, <1>9 DEF WordsOK
<1>11. EnvOK(env', Reading')
  BY <1>1, <1>4, <1>8
<1>12. QED
  BY <1>8, <1>10, <1>11, Parts

(* Actions hold names, no words. *)
LEMMA ActionKeeps ==
  ASSUME IInv, Defer \/ Apply
  PROVE  IInv'
<1>1. Idle /\ UNCHANGED <<env, stack, memory, kept, saved, restoring, means, keptMeans>>
  BY DEF Defer, Apply
<1>2. EnvOK(env, Reading) /\ Means(env.tab, env.byName, memory, means)
      /\ Means(env.tab, env.byName, kept, keptMeans) /\ LocksMatch /\ (saved # NoSave => SavedOK(saved))
  BY DEF IInv
<1>3. Reading = {} /\ Reading' = {} /\ StackOK' /\ LoadedOrBlank' /\ RestoringOK'
  BY <1>1, IdleStays
<1>4. LocksMatch'
  BY <1>1, <1>2 DEF LocksMatch, WordsOf
<1>5. WordsOK'
  BY <1>1, <1>2, <1>4 DEF WordsOK
<1>6. EnvOK(env', Reading')
  BY <1>1, <1>2, <1>3
<1>7. QED
  BY <1>3, <1>5, <1>6, Parts
-----------------------------------------------------------------------------
(* Steps that change the string table. *)

(* Strings and words depend on the indexes alone. *)
LEMMA SameIndexes ==
  ASSUME NEW t, NEW u, u.byIdx = t.byIdx
  PROVE  (\A w : GetString(u, w) = GetString(t, w)) /\ Live(u) = Live(t)
BY DEF GetString, At, Live

(* A table of strings takes the place of another one that has less. *)
LEMMA TableSet ==
  ASSUME NEW e, NEW R, EnvOK(e, R), NEW t, TabOK(t), Live(e.tab) \subseteq Live(t)
  PROVE  LET g == [e EXCEPT !.tab = t] IN
         /\ EnvOK(g, R) /\ g.tab = t /\ g.byName = e.byName /\ g.mods = e.mods /\ g.failed = e.failed
<1> DEFINE g == [e EXCEPT !.tab = t]
<1>0. DOMAIN e = {"tab", "byName", "byIdx", "func", "mods", "failed"} /\ e.failed \in BOOLEAN
      /\ DOMAIN e.mods \subseteq Module \cap Live(e.tab)
  BY DEF EnvOK, NewEnvironment
<1>1. DOMAIN g = DOMAIN e /\ g.failed = e.failed /\ g.byName = e.byName /\ g.byIdx = e.byIdx
      /\ g.func = e.func /\ g.tab = t /\ g.mods = e.mods
  BY <1>0
<1> HIDE DEF g
<1>2. /\ g.failed \in BOOLEAN /\ TabOK(g.tab) /\ Live(e.tab) \subseteq Live(g.tab)
      /\ DOMAIN g.mods \subseteq Module \cap Live(g.tab) /\ DOMAIN e.mods \subseteq DOMAIN g.mods
      /\ \A n \in DOMAIN e.mods : g.mods[n] = e.mods[n]
      /\ \A n \in DOMAIN g.mods : n \notin DOMAIN e.mods => g.mods[n] = Blank
      /\ \A n \in R : n \in R \/ (n \in DOMAIN e.mods => ~e.mods[n].loaded)
  BY <1>0, <1>1
<1>3. EnvOK(g, R)
  BY <1>1, <1>2, EnvLater
<1>4. QED
  BY <1>1, <1>3 DEF g

(* The strings that words have are in the table. *)
LEMMA WordsLive ==
  ASSUME NEW t, TabOK(t), NEW words
  PROVE  LET S == {GetString(t, words[c]) : c \in Cell} \ {NoString} IN
         S \subseteq Live(t) /\ S \in SUBSET String /\ IsFiniteSet(S)
<1> DEFINE S == {GetString(t, words[c]) : c \in Cell} \ {NoString}
<1>1. S \subseteq Live(t)
  BY AtIsLive DEF GetString
<1>2. QED
  BY <1>1, LiveStrings, FS_Subset

(* A script makes a string. *)
LEMMA MakeStringKeeps ==
  ASSUME IInv, MakeString
  PROVE  IInv'
<1>1. Idle /\ UNCHANGED <<stack, action, kept, saved, restoring, keptMeans>>
  BY DEF MakeString
<1>2. PICK c \in Cell, s \in Dynamic :
        /\ env' = [env EXCEPT !.tab = Intern(env.tab, s)]
        /\ SetCell(c, WordOf(Intern(env.tab, s), s), s)
  BY DEF MakeString
<1> DEFINE t == Intern(env.tab, s)
<1>3. EnvOK(env, Reading) /\ Means(env.tab, env.byName, memory, means)
      /\ Means(env.tab, env.byName, kept, keptMeans) /\ LocksOf(env.tab, kept)
      /\ (saved # NoSave => SavedOK(saved)) /\ TabOK(env.tab)
  BY LocksAre DEF IInv, EnvOK
<1>4. TabOK(t) /\ Grown(env.tab, t) /\ s \in Live(t) /\ s \in String /\ Live(env.tab) \subseteq Live(t)
  BY <1>3, ModuleAssumption, InternKeeps, GrownLive
<1>5. env' = [env EXCEPT !.tab = t] /\ SetCell(c, WordOf(t, s), s)
  BY <1>2
<1> HIDE DEF t
<1>6. /\ EnvOK(env', Reading) /\ env'.tab = t /\ env'.byName = env.byName /\ env'.mods = env.mods
      /\ env'.failed = env.failed
  <2> DEFINE g == [env EXCEPT !.tab = t]
  <2>1. EnvOK(g, Reading) /\ g.tab = t /\ g.byName = env.byName /\ g.mods = env.mods
        /\ g.failed = env.failed
    BY <1>3, <1>4, TableSet
  <2> HIDE DEF g
  <2>2. env' = g
    BY <1>5 DEF g
  <2>3. QED
    BY <2>1, <2>2
<1>7. Positive(env.byName) /\ Extended(env.byName, env.byName)
  BY <1>3, EnvNames DEF Extended
<1>8. Means(t, env.byName, memory, means)
  BY <1>3, <1>4, <1>7, WordsKeep
<1>9. /\ Means(t, env.byName, kept, keptMeans)
      /\ \A d \in Cell : GetString(t, kept[d]) = GetString(env.tab, kept[d])
  BY <1>3, <1>4, <1>7, WordsKeep
<1>10. LocksOf(t, kept)
  BY <1>3, <1>4, <1>9, LocksKeep
<1>11. WordOf(t, s) \in Int /\ GetString(t, WordOf(t, s)) = s
  BY <1>4, InTable
<1>12. Means(t, env.byName, memory', means')
  BY <1>4, <1>5, <1>8, <1>11, CellSet DEF SetCell
<1>13. Reading = {} /\ Reading' = {} /\ StackOK' /\ LoadedOrBlank' /\ RestoringOK'
  BY <1>1, <1>6, IdleStays
<1>14. LocksMatch'
  BY <1>1, <1>6, <1>10, LocksWillBe
<1>15. WordsOK'
  BY <1>1, <1>3, <1>6, <1>9, <1>12, <1>14 DEF WordsOK
<1>16. EnvOK(env', Reading')
  BY <1>6, <1>13
<1>17. QED
  BY <1>13, <1>15, <1>16, Parts

(* The strings of the words are locked, or unlocked. *)
LEMMA Locked ==
  ASSUME IInv, NEW S \in SUBSET String, IsFiniteSet(S), NEW d \in Int,
         env' = [env EXCEPT !.tab = AddLocks(@, SetToSeq(S), d)]
  PROVE  /\ EnvOK(env', Reading) /\ env'.byName = env.byName /\ env'.mods = env.mods
         /\ env'.failed = env.failed /\ (\A w : GetString(env'.tab, w) = GetString(env.tab, w))
         /\ \A s \in String : env'.tab.lock[s] = env.tab.lock[s] + (IF s \in S THEN d ELSE 0)
<1> DEFINE t == AddLocks(env.tab, SetToSeq(S), d)
           g == [env EXCEPT !.tab = t]
<1>1. EnvOK(env, Reading) /\ TabOK(env.tab)
  BY DEF IInv, EnvOK
<1>2. /\ TabOK(t) /\ t.byIdx = env.tab.byIdx
      /\ \A s \in String : t.lock[s] = env.tab.lock[s] + (IF s \in S THEN d ELSE 0)
  BY <1>1, LocksAdded
<1> HIDE DEF t
<1>3. (\A w : GetString(t, w) = GetString(env.tab, w)) /\ Live(t) = Live(env.tab)
  BY <1>2, SameIndexes
<1>4. EnvOK(g, Reading) /\ g.tab = t /\ g.byName = env.byName /\ g.mods = env.mods /\ g.failed = env.failed
  BY <1>1, <1>2, <1>3, TableSet
<1> HIDE DEF g
<1>5. env' = g
  BY DEF g, t
<1>6. QED
  BY <1>2, <1>3, <1>4, <1>5

(* Words mean the same in tables that have the same strings. *)
LEMMA MeansSame ==
  ASSUME NEW t, NEW u, \A w : GetString(u, w) = GetString(t, w), NEW names, NEW words, NEW meanings,
         Means(t, names, words, meanings)
  PROVE  Means(u, names, words, meanings)
BY DEF Means

(* The host locks strings and puts the words aside. *)
LEMMA KeepKeeps ==
  ASSUME IInv, Keep
  PROVE  IInv'
<1> DEFINE S == WordsOf(memory)
<1>1. /\ Idle /\ kept = Zeros /\ kept' = memory /\ keptMeans' = means
      /\ env' = [env EXCEPT !.tab = AddLocks(@, SetToSeq(S), 1)]
      /\ UNCHANGED <<stack, memory, action, saved, restoring, means>>
  BY DEF Keep
<1>2. Means(env.tab, env.byName, memory, means) /\ LocksOf(env.tab, kept)
      /\ (saved # NoSave => SavedOK(saved)) /\ TabOK(env.tab)
  BY LocksAre DEF IInv, EnvOK
<1>3. S = {GetString(env.tab, memory[c]) : c \in Cell} \ {NoString}
  BY DEF WordsOf
<1>4. S \in SUBSET String /\ IsFiniteSet(S)
  BY <1>2, <1>3, WordsLive
<1> HIDE DEF S
<1>5. /\ EnvOK(env', Reading) /\ env'.byName = env.byName /\ env'.mods = env.mods
      /\ env'.failed = env.failed /\ (\A w : GetString(env'.tab, w) = GetString(env.tab, w))
      /\ \A s \in String : env'.tab.lock[s] = env.tab.lock[s] + (IF s \in S THEN 1 ELSE 0)
  BY <1>1, <1>4, Locked
<1>6. Means(env'.tab, env'.byName, memory, means)
  BY <1>2, <1>5, MeansSame
<1>7. \A s \in String : env.tab.lock[s] = 0
  <2>1. \A c \in Cell : GetString(env.tab, kept[c]) = NoString
    BY <1>1, <1>2, StringWord DEF Zeros
  <2>2. QED
    BY <1>2, <2>1, StringAssumption DEF LocksOf
<1>8. LocksOf(env'.tab, kept')
  <2>1. \A s \in String : s \in S <=> s \in {GetString(env'.tab, memory[c]) : c \in Cell}
    BY <1>3, <1>5, StringAssumption
  <2>2. \A s \in String : env'.tab.lock[s] = IF s \in S THEN 1 ELSE 0
    BY <1>5, <1>7
  <2>3. QED
    BY <1>1, <2>1, <2>2 DEF LocksOf
<1>9. LocksMatch'
  BY <1>8, LocksWillBe
<1>10. Reading = {} /\ Reading' = {} /\ StackOK' /\ LoadedOrBlank' /\ RestoringOK'
  BY <1>1, <1>5, IdleStays
<1>11. WordsOK'
  BY <1>1, <1>2, <1>6, <1>9 DEF WordsOK
<1>12. EnvOK(env', Reading')
  BY <1>5, <1>10
<1>13. QED
  BY <1>10, <1>11, <1>12, Parts

(* Zeros mean nothing. *)
LEMMA ZerosMean ==
  ASSUME NEW t, NEW names
  PROVE  Means(t, names, Zeros, Nothing)
<1>1. Zeros \in [Cell -> Int] /\ DOMAIN Nothing = Cell
      /\ \A c \in Cell : Zeros[c] = 0 /\ Nothing[c] = NoMeaning
  BY DEF Zeros, Nothing
<1> DEFINE z == Zeros
           n == Nothing
<1> HIDE DEF z, n
<1>2. Means(t, names, z, n)
  BY <1>1 DEF Means, z, n
<1>3. QED
  BY <1>2 DEF z, n

(* The host brings the words back, and unlocks their strings. *)
LEMMA ReturnKeeps ==
  ASSUME IInv, Return
  PROVE  IInv'
<1> DEFINE S == WordsOf(kept)
<1>1. /\ Idle /\ memory' = kept /\ means' = keptMeans /\ kept' = Zeros /\ keptMeans' = Nothing
      /\ env' = [env EXCEPT !.tab = AddLocks(@, SetToSeq(S), -1)]
      /\ UNCHANGED <<stack, action, saved, restoring>>
  BY DEF Return
<1>2. Means(env.tab, env.byName, kept, keptMeans) /\ LocksOf(env.tab, kept)
      /\ (saved # NoSave => SavedOK(saved)) /\ TabOK(env.tab)
  BY LocksAre DEF IInv, EnvOK
<1>3. S = {GetString(env.tab, kept[c]) : c \in Cell} \ {NoString}
  BY DEF WordsOf
<1>4. S \in SUBSET String /\ IsFiniteSet(S) /\ -1 \in Int
  BY <1>2, <1>3, WordsLive
<1> HIDE DEF S
<1>5. /\ EnvOK(env', Reading) /\ env'.byName = env.byName /\ env'.mods = env.mods
      /\ env'.failed = env.failed /\ (\A w : GetString(env'.tab, w) = GetString(env.tab, w))
      /\ \A s \in String : env'.tab.lock[s] = env.tab.lock[s] + (IF s \in S THEN -1 ELSE 0)
  BY <1>1, <1>4, Locked
<1>6. Means(env'.tab, env'.byName, kept, keptMeans)
  BY <1>2, <1>5, MeansSame
<1>7. Means(env'.tab, env'.byName, Zeros, Nothing)
  BY ZerosMean
<1>8. LocksOf(env'.tab, Zeros)
  <2>1. TabOK(env'.tab)
    BY <1>5 DEF EnvOK
  <2>2. \A c \in Cell : GetString(env'.tab, Zeros[c]) = NoString
    BY <2>1, StringWord DEF Zeros
  <2>3. \A s \in String : s \in S <=> s \in {GetString(env.tab, kept[c]) : c \in Cell}
    BY <1>3, StringAssumption
  <2>4. \A s \in String : env.tab.lock[s] = IF s \in S THEN 1 ELSE 0
    BY <1>2, <2>3 DEF LocksOf
  <2>5. \A s \in String : env'.tab.lock[s] = 0
    BY <1>5, <2>4
  <2>6. QED
    BY <2>2, <2>5, StringAssumption DEF LocksOf
<1>9. LocksMatch'
  BY <1>1, <1>8, LocksWillBe
<1>10. Reading = {} /\ Reading' = {} /\ StackOK' /\ LoadedOrBlank' /\ RestoringOK'
  BY <1>1, <1>5, IdleStays
<1>11. WordsOK'
  BY <1>1, <1>2, <1>6, <1>7, <1>9 DEF WordsOK
<1>12. EnvOK(env', Reading')
  BY <1>5, <1>10
<1>13. QED
  BY <1>10, <1>11, <1>12, Parts
-----------------------------------------------------------------------------
(* What the environment refers to. *)

(* The strings of a module that is right. *)
LEMMA ModuleStringsIn ==
  ASSUME NEW L, NEW F, NEW m \in DOMAIN env.mods, ModOK(env.mods[m], L, F, DOMAIN env.mods), m \in L,
         F \subseteq Module \X (L \cup Nat), NoString \notin L, L \subseteq String
  PROVE  ModuleStrings(m) \subseteq L
<1> DEFINE md == env.mods[m]
<1>1. DOMAIN md = DOMAIN Blank /\ ToSet(md.stringV) \subseteq L
      /\ md.functionV \in Seq(F \cup {NoFunc})
      /\ \A i \in DOMAIN md.scriptV : md.scriptV[i].name \in L \cup {NoString}
      /\ \A field \in NameFields : Among(md[field], L)
  BY DEF ModOK
<1>2. \A field \in NameFields : Named(md[field]) \subseteq L
  <2>1. ASSUME NEW v, Among(v, L)
        PROVE  Named(v) \subseteq L
    BY <2>1 DEF Among, Named, ToSet
  <2>2. \A field \in NameFields : Among(md[field], L)
    BY DEF ModOK
  <2>3. \A field \in NameFields : Named(md[field]) \subseteq L
    <3> HIDE DEF md
    <3>1. QED
      BY <2>1, <2>2
  <2>4. QED
    BY <2>3
<1>3. /\ Named(md.arrImpV) \subseteq L /\ Named(md.arrNameV) \subseteq L /\ Named(md.funcNameV) \subseteq L
      /\ Named(md.regImpV) \subseteq L /\ Named(md.regNameV) \subseteq L /\ Named(md.scrNameV) \subseteq L
  BY <1>2 DEF NameFields
<1>4. Named(md.stringV) \subseteq L
  BY <1>1 DEF Named
<1>5. Named([i \in DOMAIN md.scriptV |-> md.scriptV[i].name]) \subseteq L
  BY <1>1 DEF Named, ToSet
<1>6. {f[2] : f \in {g \in ToSet(md.functionV) : g # NoFunc /\ g[2] \in String}} \subseteq L
  <2>1. ASSUME NEW g \in ToSet(md.functionV), g # NoFunc, g[2] \in String
        PROVE  g[2] \in L
    <3>1. g \in F
      BY <1>1, <2>1 DEF ToSet
    <3>2. g[2] \in L \cup Nat
      BY <3>1
    <3>3. g[2] \notin Nat
      BY <2>1, NamesAssumption
    <3>4. QED
      BY <3>2, <3>3
  <2>2. QED
    BY <2>1
<1> HIDE DEF md
<1>7. ModuleStrings(m) =
        {m} \cup Named(md.arrImpV) \cup Named(md.arrNameV) \cup Named(md.funcNameV)
          \cup Named(md.regImpV) \cup Named(md.regNameV) \cup Named(md.scrNameV)
          \cup Named(md.stringV) \cup Named([i \in DOMAIN md.scriptV |-> md.scriptV[i].name])
          \cup {f[2] : f \in {g \in ToSet(md.functionV) : g # NoFunc /\ g[2] \in String}}
  BY DEF ModuleStrings, md
<1>8. QED
  BY <1>3, <1>4, <1>5, <1>6, <1>7

(* Nothing dangles in an environment that is right. *)
LEMMA NoneDangles ==
  ASSUME NEW R, EnvOK(env, R)
  PROVE  NothingDangles
<1> DEFINE L == Live(env.tab)
<1>1. TabOK(env.tab) /\ DOMAIN env.mods \subseteq Module \cap L
      /\ DOMAIN env.func \subseteq Module \X (L \cup Nat) /\ DOMAIN env.byName \subseteq L \X L
  BY DEF EnvOK, FuncOK, NamesOK
<1>2. NoString \notin L /\ L \subseteq String
  BY <1>1, LiveStrings
<1>3. \A m \in DOMAIN env.mods : ModOK(env.mods[m], L, DOMAIN env.func, DOMAIN env.mods)
  BY DEF EnvOK
<1> HIDE DEF L
<1>4. KeyStrings \subseteq L
  BY <1>1 DEF KeyStrings
<1>5. ASSUME NEW m \in DOMAIN env.mods
      PROVE  ModuleStrings(m) \subseteq L
             /\ ToSet(env.mods[m].functionV) \subseteq DOMAIN env.func \cup {NoFunc}
  <2>1. ModuleStrings(m) \subseteq L
    BY <1>1, <1>2, <1>3, ModuleStringsIn
  <2>2. env.mods[m].functionV \in Seq(DOMAIN env.func \cup {NoFunc})
    BY <1>3 DEF ModOK
  <2>3. QED
    BY <2>1, <2>2 DEF ToSet
<1>6. QED
  BY <1>4, <1>5 DEF NothingDangles, L

(* A table with the strings that the environment refers to does for it. *)
LEMMA TableOK ==
  ASSUME NEW R, EnvOK(env, R), NEW t, TabOK(t), KeyStrings \subseteq Live(t),
         \A m \in DOMAIN env.mods : ModuleStrings(m) \subseteq Live(t)
  PROVE  LET g == [env EXCEPT !.tab = t] IN
         /\ EnvOK(g, R) /\ g.tab = t /\ g.byName = env.byName /\ g.byIdx = env.byIdx
         /\ g.func = env.func /\ g.mods = env.mods /\ g.failed = env.failed /\ DOMAIN g = DOMAIN env
<1> DEFINE g == [env EXCEPT !.tab = t]
           K == Live(t)
           L == Live(env.tab)
<1>0. /\ DOMAIN env = {"tab", "byName", "byIdx", "func", "mods", "failed"} /\ env.failed \in BOOLEAN
      /\ DOMAIN env.mods \subseteq Module \cap L /\ TabOK(env.tab) /\ FuncOK(env, R)
      /\ NamesOK(env.byName, Len(env.byIdx), L)
      /\ \A n \in DOMAIN env.mods : ModOK(env.mods[n], L, DOMAIN env.func, DOMAIN env.mods)
  BY DEF EnvOK, NewEnvironment
<1>1. DOMAIN g = DOMAIN env /\ g.failed = env.failed /\ g.byName = env.byName /\ g.byIdx = env.byIdx
      /\ g.func = env.func /\ g.tab = t /\ g.mods = env.mods
  BY <1>0
<1> HIDE DEF g
<1>2. L \subseteq String /\ NoString \notin L
  BY <1>0, LiveStrings
<1>3. DOMAIN env.byName \subseteq K \X K
  <2>1. DOMAIN env.byName \subseteq L \X L
    BY <1>0 DEF NamesOK
  <2>2. ASSUME NEW k \in DOMAIN env.byName
        PROVE  k \in K \X K
    <3>1. k[1] \in KeyStrings /\ k[2] \in KeyStrings
      BY DEF KeyStrings
    <3>2. k = <<k[1], k[2]>>
      BY <2>1
    <3>3. QED
      BY <3>1, <3>2
  <2>3. QED
    BY <2>2
<1>4. NamesOK(g.byName, Len(g.byIdx), K)
  BY <1>0, <1>1, <1>3 DEF NamesOK
<1>5. DOMAIN env.func \subseteq Module \X (K \cup Nat)
  <2>1. ASSUME NEW f \in DOMAIN env.func
        PROVE  f \in Module \X (K \cup Nat)
    <3>1. f \in Module \X (L \cup Nat) /\ f[1] \in DOMAIN env.mods /\ f \in ToSet(env.mods[f[1]].functionV)
      BY <1>0 DEF FuncOK
    <3>2. f # NoFunc
      <4>1. Module \subseteq String
        BY ModuleAssumption
      <4>2. QED
        BY <1>2, <3>1, <4>1, NamesAssumption
    <3>3. f[2] \in String => f[2] \in ModuleStrings(f[1])
      BY <3>1, <3>2 DEF ModuleStrings
    <3>4. f[2] \in K \cup Nat
      BY <1>2, <3>1, <3>3
    <3>5. f = <<f[1], f[2]>> /\ f[1] \in Module
      BY <3>1
    <3>6. QED
      BY <3>4, <3>5
  <2>2. QED
    BY <2>1
<1>6. FuncOK(g, R)
  BY <1>0, <1>1, <1>5 DEF FuncOK
<1>7. ASSUME NEW m \in DOMAIN env.mods
      PROVE  ModOK(env.mods[m], K, DOMAIN env.func, DOMAIN env.mods)
  <2> DEFINE md == env.mods[m]
  <2>1. ModOK(md, L, DOMAIN env.func, DOMAIN env.mods) /\ ModuleStrings(m) \subseteq K
    BY <1>0
  <2>2. /\ Named(md.arrImpV) \subseteq K /\ Named(md.arrNameV) \subseteq K /\ Named(md.funcNameV) \subseteq K
        /\ Named(md.regImpV) \subseteq K /\ Named(md.regNameV) \subseteq K /\ Named(md.scrNameV) \subseteq K
        /\ Named(md.stringV) \subseteq K /\ Named([i \in DOMAIN md.scriptV |-> md.scriptV[i].name]) \subseteq K
    BY <2>1 DEF ModuleStrings
  <2> HIDE DEF md
  <2>3. \A field \in NameFields : Named(md[field]) \subseteq K
    BY <2>2 DEF NameFields
  <2>4. \A field \in NameFields : Among(md[field], K)
    BY <2>3 DEF Among, Named, ToSet
  <2>5. ToSet(md.stringV) \subseteq K
    BY <1>2, <2>1, <2>2 DEF ModOK, Named
  <2>6. \A i \in DOMAIN md.scriptV : "name" \in DOMAIN md.scriptV[i] /\ md.scriptV[i].name \in K \cup {NoString}
    <3> DEFINE v == [i \in DOMAIN md.scriptV |-> md.scriptV[i].name]
    <3>1. \A i \in DOMAIN md.scriptV : v[i] = md.scriptV[i].name /\ i \in DOMAIN v
      OBVIOUS
    <3> HIDE DEF v
    <3>2. \A i \in DOMAIN md.scriptV : v[i] \in Named(v) \cup {NoString}
      BY <3>1 DEF Named, ToSet
    <3>3. Named(v) \subseteq K
      BY <2>2 DEF v
    <3>4. QED
      BY <2>1, <3>1, <3>2, <3>3 DEF ModOK
  <2> HIDE DEF K, L
  <2>7. ModOK(md, K, DOMAIN env.func, DOMAIN env.mods)
    BY <2>1, <2>4, <2>5, <2>6 DEF ModOK
  <2>8. QED
    BY <2>7 DEF md
<1>8. DOMAIN env.mods \subseteq Module \cap K
  <2>1. \A m \in DOMAIN env.mods : m \in ModuleStrings(m)
    BY DEF ModuleStrings
  <2>2. QED
    BY <1>0, <2>1
<1>9. EnvOK(g, R)
  <2>1. g.failed \in BOOLEAN
    BY <1>0, <1>1
  <2>2. QED
    BY <1>0, <1>1, <1>4, <1>6, <1>7, <1>8, <2>1 DEF EnvOK
<1>10. QED
  BY <1>1, <1>9 DEF g

(* What refStrings finds. *)
LEMMA Referenced ==
  /\ KeyStrings \subseteq RefStrings /\ WordsOf(memory) \subseteq RefStrings
  /\ \A m \in DOMAIN env.mods : ModuleStrings(m) \subseteq RefStrings
<1> DEFINE all == UNION {ModuleStrings(m) : m \in DOMAIN env.mods}
           of == {action} \ {NoAction}
<1>1. RefStrings = all \cup KeyStrings \cup WordsOf(memory) \cup of
  BY DEF RefStrings
<1>2. \A m \in DOMAIN env.mods : ModuleStrings(m) \subseteq all
  OBVIOUS
<1> HIDE DEF all, of
<1>3. QED
  BY <1>1, <1>2

(* collectStrings frees no string that is named, held or locked. *)
LEMMA CollectStringsKeeps ==
  ASSUME IInv, CollectStrings
  PROVE  IInv'
<1> DEFINE U == Unused(env.tab, RefStrings)
           t == Collect(env.tab, SetToSeq(U))
           L == Live(env.tab)
<1>1. /\ Idle /\ env' = [env EXCEPT !.tab = Collect(@, SetToSeq(Unused(@, RefStrings)))]
      /\ UNCHANGED <<stack, memory, action, kept, saved, restoring, means, keptMeans>>
  BY DEF CollectStrings
<1>2. EnvOK(env, Reading) /\ Means(env.tab, env.byName, memory, means)
      /\ Means(env.tab, env.byName, kept, keptMeans) /\ LocksOf(env.tab, kept)
      /\ (saved # NoSave => SavedOK(saved)) /\ TabOK(env.tab)
  BY LocksAre DEF IInv, EnvOK
<1>3. U \subseteq L /\ (\A s \in RefStrings : s \notin U) /\ \A s \in U : env.tab.lock[s] = 0
  BY DEF Unused
<1>4. env' = [env EXCEPT !.tab = t]
  BY <1>1
<1> HIDE DEF U
<1>5. /\ TabOK(t) /\ t.lock = env.tab.lock /\ L \ U \subseteq Live(t)
      /\ \A w : GetString(t, w) = IF GetString(env.tab, w) \in U THEN NoString ELSE GetString(env.tab, w)
  BY <1>2, <1>3, Collected
<1> HIDE DEF t
<1>6. NothingDangles
  BY <1>2, NoneDangles
<1>7. KeyStrings \subseteq Live(t) /\ \A m \in DOMAIN env.mods : ModuleStrings(m) \subseteq Live(t)
  <2>1. KeyStrings \subseteq RefStrings /\ \A m \in DOMAIN env.mods : ModuleStrings(m) \subseteq RefStrings
    BY Referenced
  <2>2. KeyStrings \subseteq L /\ \A m \in DOMAIN env.mods : ModuleStrings(m) \subseteq L
    BY <1>6 DEF NothingDangles
  <2>3. QED
    BY <1>3, <1>5, <2>1, <2>2
<1>8. /\ EnvOK(env', Reading) /\ env'.tab = t /\ env'.byName = env.byName /\ env'.mods = env.mods
      /\ env'.failed = env.failed
  <2> DEFINE g == [env EXCEPT !.tab = t]
  <2>1. EnvOK(g, Reading) /\ g.tab = t /\ g.byName = env.byName /\ g.mods = env.mods
        /\ g.failed = env.failed
    BY <1>2, <1>5, <1>7, TableOK
  <2> HIDE DEF g
  <2>2. env' = g
    BY <1>4 DEF g
  <2>3. QED
    BY <2>1, <2>2
<1>9. \A c \in Cell : GetString(t, memory[c]) = GetString(env.tab, memory[c])
  <2>1. ASSUME NEW c \in Cell, GetString(env.tab, memory[c]) # NoString
        PROVE  GetString(env.tab, memory[c]) \notin U
    <3>1. GetString(env.tab, memory[c]) \in RefStrings
      <4>1. GetString(env.tab, memory[c]) \in WordsOf(memory)
        BY <2>1 DEF WordsOf
      <4>2. QED
        BY <4>1, Referenced
    <3>2. QED
      BY <1>3, <3>1
  <2>2. QED
    BY <1>5, <2>1
<1>10. \A c \in Cell : GetString(t, kept[c]) = GetString(env.tab, kept[c])
  <2>1. ASSUME NEW c \in Cell, GetString(env.tab, kept[c]) # NoString
        PROVE  GetString(env.tab, kept[c]) \notin U
    <3> DEFINE s == GetString(env.tab, kept[c])
    <3>1. s \in Live(env.tab) \cup {NoString}
      BY <1>2, AtIsLive DEF GetString
    <3>2. s \in String
      BY <1>2, <2>1, <3>1, LiveStrings
    <3>3. s \in {GetString(env.tab, kept[d]) : d \in Cell}
      OBVIOUS
    <3> HIDE DEF s
    <3>4. env.tab.lock[s] = 1
      BY <1>2, <3>2, <3>3 DEF LocksOf
    <3>5. s \notin U
      BY <1>3, <3>4
    <3>6. QED
      BY <3>5 DEF s
  <2>2. QED
    BY <1>5, <2>1
<1>11. Means(t, env.byName, memory, means)
  BY <1>2, <1>9 DEF Means
<1>12. Means(t, env.byName, kept, keptMeans)
  BY <1>2, <1>10 DEF Means
<1>13. LocksOf(t, kept)
  <2>1. {GetString(t, kept[c]) : c \in Cell} = {GetString(env.tab, kept[c]) : c \in Cell}
    BY <1>10
  <2>2. QED
    BY <1>2, <1>5, <2>1 DEF LocksOf
<1>14. LocksMatch'
  BY <1>1, <1>8, <1>13, LocksWillBe
<1>15. Reading = {} /\ Reading' = {} /\ StackOK' /\ LoadedOrBlank' /\ RestoringOK'
  BY <1>1, <1>8, IdleStays
<1>16. WordsOK'
  BY <1>1, <1>2, <1>8, <1>11, <1>12, <1>14 DEF WordsOK
<1>17. EnvOK(env', Reading')
  BY <1>8, <1>15
<1>18. QED
  BY <1>15, <1>16, <1>17, Parts
-----------------------------------------------------------------------------
(* Saves. *)

(* Strings at indexes depend on the indexes alone. *)
LEMMA SameAt ==
  ASSUME NEW t, NEW u, u.byIdx = t.byIdx
  PROVE  \A i : At(u, i) = At(t, i)
BY DEF At

(* The names in a save are those of the environment that was saved. *)
LEMMA NamesSaved ==
  ASSUME EnvOK(env, {}), NEW sv, NEW t, t = Loaded(sv.tab), t.byIdx = env.tab.byIdx,
         sv.byName = {<<IdxOf(env.tab, k[1]), IdxOf(env.tab, k[2]), env.byName[k]>> : k \in DOMAIN env.byName}
  PROVE  DOMAIN NamesOf(sv) = DOMAIN env.byName /\ \A k \in DOMAIN env.byName : NamesOf(sv)[k] = env.byName[k]
<1> DEFINE KeyOf(r) == <<At(t, r[1]), At(t, r[2])>>
           R(k) == <<IdxOf(env.tab, k[1]), IdxOf(env.tab, k[2]), env.byName[k]>>
           B == sv.byName
           D == DOMAIN env.byName
           N == [k \in {KeyOf(r) : r \in B} |-> (CHOOSE r \in B : KeyOf(r) = k)[3]]
<1>1. NamesOf(sv) = N
  BY DEF NamesOf
<1>2. TabOK(env.tab) /\ D \subseteq Live(env.tab) \X Live(env.tab)
  BY DEF EnvOK, NamesOK
<1>3. \A k \in D : KeyOf(R(k)) = k /\ R(k)[3] = env.byName[k]
  <2>1. ASSUME NEW k \in D
        PROVE  KeyOf(R(k)) = k /\ R(k)[3] = env.byName[k]
    <3>1. k[1] \in Live(env.tab) /\ k[2] \in Live(env.tab) /\ k = <<k[1], k[2]>>
      BY <1>2
    <3>2. At(env.tab, IdxOf(env.tab, k[1])) = k[1] /\ At(env.tab, IdxOf(env.tab, k[2])) = k[2]
      BY <1>2, <3>1, InTable
    <3>3. At(t, IdxOf(env.tab, k[1])) = k[1] /\ At(t, IdxOf(env.tab, k[2])) = k[2]
      BY <3>2, SameAt
    <3>4. R(k)[1] = IdxOf(env.tab, k[1]) /\ R(k)[2] = IdxOf(env.tab, k[2]) /\ R(k)[3] = env.byName[k]
      OBVIOUS
    <3>5. QED
      BY <3>1, <3>3, <3>4
  <2>2. QED
    BY <2>1
<1>4. B = {R(k) : k \in D}
  OBVIOUS
<1> HIDE DEF R, KeyOf, B, D
<1>5. {KeyOf(r) : r \in B} = D
  BY <1>3, <1>4
<1>6. ASSUME NEW k \in D
      PROVE  N[k] = env.byName[k]
  <2> DEFINE c == CHOOSE r \in B : KeyOf(r) = k
  <2>1. \E r \in B : KeyOf(r) = k
    BY <1>3, <1>4
  <2>2. c \in B /\ KeyOf(c) = k
    BY <2>1
  <2>3. N[k] = c[3]
    BY <1>5
  <2> HIDE DEF c, N
  <2>4. PICK l \in D : c = R(l)
    BY <1>4, <2>2
  <2>5. l = k
    BY <1>3, <2>2, <2>4
  <2>6. QED
    BY <1>3, <2>3, <2>4, <2>5
<1>7. DOMAIN N = D
  BY <1>5
<1>8. QED
  BY <1>1, <1>6, <1>7 DEF D

(* Names are given by their indexes. *)
LEMMA NamesSame ==
  ASSUME NEW names, NEW more, DOMAIN more = DOMAIN names, \A k \in DOMAIN names : more[k] = names[k]
  PROVE  /\ \A n, L : NamesOK(names, n, L) => NamesOK(more, n, L)
         /\ \A t, w, m : Means(t, names, w, m) => Means(t, more, w, m)
<1>1. ASSUME NEW n, NEW L, NamesOK(names, n, L)
      PROVE  NamesOK(more, n, L)
  BY <1>1 DEF NamesOK
<1>2. ASSUME NEW t, NEW w, NEW m, Means(t, names, w, m)
      PROVE  Means(t, more, w, m)
  BY <1>2 DEF Means
<1>3. QED
  BY <1>1, <1>2

(* saveState: a save is right, as the environment is. *)
LEMMA SaveStateKeeps ==
  ASSUME IInv, SaveState
  PROVE  IInv'
<1>1. Idle /\ UNCHANGED <<env, stack, memory, action, kept, restoring, means, keptMeans>>
  BY DEF SaveState
<1>2. /\ saved'.tab = Saved(env.tab)
      /\ saved'.byName = {<<IdxOf(env.tab, k[1]), IdxOf(env.tab, k[2]), env.byName[k]>> : k \in DOMAIN env.byName}
      /\ saved'.size = Len(env.byIdx)
      /\ saved'.mods = {IdxOf(env.tab, m) : m \in {n \in DOMAIN env.mods : env.mods[n].loaded}}
      /\ saved'.memory = memory /\ saved'.kept = kept
      /\ saved'.means = means /\ saved'.keptMeans = keptMeans
  BY DEF SaveState
<1>3. EnvOK(env, Reading) /\ Means(env.tab, env.byName, memory, means)
      /\ Means(env.tab, env.byName, kept, keptMeans) /\ LocksOf(env.tab, kept) /\ TabOK(env.tab)
  BY LocksAre DEF IInv, EnvOK
<1>4. Reading = {} /\ Reading' = {} /\ StackOK' /\ LoadedOrBlank' /\ RestoringOK'
  BY <1>1, IdleStays
<1> DEFINE t == Loaded(saved'.tab)
<1>5. TabOK(t) /\ t.byIdx = env.tab.byIdx /\ t.lock = env.tab.lock
  BY <1>2, <1>3, LoadedOK
<1>6. EnvOK(env, {})
  BY <1>3, <1>4
<1>7. DOMAIN NamesOf(saved') = DOMAIN env.byName
      /\ \A k \in DOMAIN env.byName : NamesOf(saved')[k] = env.byName[k]
  BY <1>2, <1>5, <1>6, NamesSaved
<1>8. Live(t) = Live(env.tab) /\ \A w : GetString(t, w) = GetString(env.tab, w)
  BY <1>5, SameIndexes
<1>9. \A i : At(t, i) = At(env.tab, i)
  BY <1>5, SameAt
<1>10. SavedOK(saved')
  <2>1. LocksOf(t, saved'.kept)
    <3>1. {GetString(t, kept[c]) : c \in Cell} = {GetString(env.tab, kept[c]) : c \in Cell}
      BY <1>8
    <3>2. QED
      BY <1>2, <1>3, <1>5, <3>1 DEF LocksOf
  <2>2. saved'.size \in Nat \ {0}
    BY <1>2, <1>3 DEF EnvOK, FuncOK
  <2>3. NamesOK(NamesOf(saved'), saved'.size, Live(t))
    <3>1. NamesOK(env.byName, Len(env.byIdx), Live(env.tab))
      BY <1>3 DEF EnvOK
    <3>2. QED
      BY <1>2, <1>7, <1>8, <3>1, NamesSame
  <2>4. \A i \in saved'.mods : At(t, i) \in Module
    <3>1. ASSUME NEW m \in DOMAIN env.mods
          PROVE  At(t, IdxOf(env.tab, m)) \in Module
      <4>1. m \in Module /\ m \in Live(env.tab)
        BY <1>3 DEF EnvOK
      <4>2. At(env.tab, IdxOf(env.tab, m)) = m
        BY <1>3, <4>1, InTable
      <4>3. QED
        BY <1>9, <4>1, <4>2
    <3> HIDE DEF t
    <3>2. QED
      BY <1>2, <3>1
  <2>5. Means(t, env.byName, memory, means) /\ Means(t, env.byName, kept, keptMeans)
    BY <1>3, <1>8, MeansSame
  <2>6. Means(t, NamesOf(saved'), memory, means) /\ Means(t, NamesOf(saved'), kept, keptMeans)
    BY <1>7, <2>5, NamesSame
  <2>7. QED
    BY <1>2, <1>5, <2>1, <2>2, <2>3, <2>4, <2>6 DEF SavedOK
<1>11. LocksMatch'
  BY <1>1, <1>3, LocksWillBe
<1>12. WordsOK'
  BY <1>1, <1>3, <1>10, <1>11 DEF WordsOK
<1>13. EnvOK(env', Reading')
  BY <1>1, <1>3, <1>4
<1>14. QED
  BY <1>4, <1>12, <1>13, Parts
-----------------------------------------------------------------------------
(* Loads. *)

(* The names of a save, with the strings of a table. *)
NamesIn(sv, u) ==
  [k \in {<<At(u, r[1]), At(u, r[2])>> : r \in sv.byName} |->
     (CHOOSE r \in sv.byName : <<At(u, r[1]), At(u, r[2])>> = k)[3]]

(* What LoadFunctions does, when names are the names in the save and n is  *)
(* the size of its table.                                                  *)
NewIdx(names, f) == IF f \in DOMAIN names THEN names[f] ELSE 0
Mine(e, names, i) == {j \in DOMAIN e.byIdx : e.byIdx[j] # NoFunc /\ NewIdx(names, e.byIdx[j]) + 1 = i}

Renumbered(e, names, n) ==
  [e EXCEPT
     !.byName = names,
     !.byIdx = [i \in 1 .. n |-> IF Mine(e, names, i) = {} THEN NoFunc
                                 ELSE e.byIdx[Max(Mine(e, names, i))]],
     !.func = [f \in DOMAIN e.func |->
                 IF f \in ToSet(e.byIdx) \ {NoFunc}
                 THEN [e.func[f] EXCEPT !.idx = NewIdx(names, f)] ELSE e.func[f]]]

(* An index in the save is none, or that of the name. *)
LEMMA NewIdxIs ==
  ASSUME NEW n \in Nat, NEW names, NEW L, NamesOK(names, n, L)
  PROVE  /\ \A f : NewIdx(names, f) \in Nat
         /\ \A f : NewIdx(names, f) # 0 => f \in DOMAIN names /\ names[f] = NewIdx(names, f)
                                            /\ NewIdx(names, f) \in 1 .. n - 1
<1>1. \A f \in DOMAIN names : names[f] \in 1 .. n - 1
  BY DEF NamesOK
<1>2. \A i \in 1 .. n - 1 : i \in Nat
  OBVIOUS
<1>3. QED
  BY <1>1, <1>2 DEF NewIdx

(* The functions that there are get the indexes of the save. *)
LEMMA RenumberedOK ==
  ASSUME NEW e, EnvOK(e, {}), NEW n \in Nat \ {0}, NEW names, NamesOK(names, n, Live(e.tab)),
         \A m \in DOMAIN e.mods : e.mods[m].loaded \/ e.mods[m] = Blank
  PROVE  LET g == Renumbered(e, names, n) IN
         EnvOK(g, {}) /\ g.tab = e.tab /\ g.byName = names /\ g.mods = e.mods /\ g.failed = e.failed
<1> DEFINE old == ToSet(e.byIdx) \ {NoFunc}
           byIdx == [i \in 1 .. n |-> IF Mine(e, names, i) = {} THEN NoFunc
                                      ELSE e.byIdx[Max(Mine(e, names, i))]]
           func == [f \in DOMAIN e.func |-> IF f \in old THEN [e.func[f] EXCEPT !.idx = NewIdx(names, f)]
                                            ELSE e.func[f]]
           g == Renumbered(e, names, n)
           F == DOMAIN e.func
<1>0. /\ DOMAIN e = {"tab", "byName", "byIdx", "func", "mods", "failed"} /\ TabOK(e.tab)
      /\ e.failed \in BOOLEAN /\ FuncOK(e, {})
  BY DEF EnvOK, NewEnvironment
<1>1. g = [e EXCEPT !.byName = names, !.byIdx = byIdx, !.func = func]
  BY DEF Renumbered
<1>2. DOMAIN func = F /\ \A f \in F : func[f] = IF f \in old THEN [e.func[f] EXCEPT !.idx = NewIdx(names, f)]
                                               ELSE e.func[f]
  OBVIOUS
<1>3. DOMAIN byIdx = 1 .. n /\ \A i \in 1 .. n : byIdx[i] = IF Mine(e, names, i) = {} THEN NoFunc ELSE e.byIdx[Max(Mine(e, names, i))]
  OBVIOUS
<1> HIDE DEF func, byIdx
<1>4. /\ DOMAIN g = DOMAIN e /\ g.failed = e.failed /\ g.byName = names /\ g.byIdx = byIdx
      /\ g.func = func /\ g.tab = e.tab /\ g.mods = e.mods
  BY <1>0, <1>1
<1> HIDE DEF g, old
<1>5. /\ e.byIdx \in Seq(F \cup {NoFunc})
      /\ \A i \in DOMAIN e.byIdx : e.byIdx[i] # NoFunc => e.byIdx[i] \in F /\ e.byIdx[i] \in old
  <2>1. e.byIdx \in Seq(F \cup {NoFunc})
    BY <1>0 DEF FuncOK
  <2>2. QED
    BY <2>1 DEF old, ToSet
<1>6. \A f \in F : "idx" \in DOMAIN e.func[f] /\ e.func[f].idx \in Nat
  BY <1>0 DEF FuncOK
<1>7. \A f : NewIdx(names, f) \in Nat
  BY NewIdxIs
<1>72. \A f : NewIdx(names, f) # 0 => f \in DOMAIN names /\ names[f] = NewIdx(names, f)
                                       /\ NewIdx(names, f) \in 1 .. n - 1
  BY NewIdxIs
<1>8. \A f \in F : "idx" \in DOMAIN func[f] /\ func[f].idx = IF f \in old THEN NewIdx(names, f) ELSE e.func[f].idx
  BY <1>2, <1>6
<1>9. ASSUME NEW i \in 1 .. n, Mine(e, names, i) # {}
      PROVE  /\ byIdx[i] \in F /\ byIdx[i] \in old /\ NewIdx(names, byIdx[i]) + 1 = i
  <2>1. Mine(e, names, i) \subseteq 1 .. Len(e.byIdx) /\ Len(e.byIdx) \in Nat
    BY <1>5 DEF Mine
  <2>2. Max(Mine(e, names, i)) \in Mine(e, names, i)
    <3> DEFINE S == Mine(e, names, i)
    <3>1. S # {} /\ S \subseteq 1 .. Len(e.byIdx)
      BY <1>9, <2>1
    <3> HIDE DEF S
    <3>2. Interning!Greatest(S) \in S
      BY <2>1, <3>1, Interning!GreatestUpTo
    <3>3. Max(S) = Interning!Greatest(S)
      BY DEF Max, Interning!Greatest
    <3>4. QED
      BY <3>2, <3>3 DEF S
  <2>3. byIdx[i] = e.byIdx[Max(Mine(e, names, i))]
    BY <1>3, <1>9
  <2>4. QED
    BY <1>5, <2>2, <2>3 DEF Mine
<1>10. \A i \in 1 .. n : byIdx[i] # NoFunc => Mine(e, names, i) # {}
  BY <1>3
<1>11. FuncOK(g, {})
  <2>1. DOMAIN g.func \subseteq Module \X (Live(g.tab) \cup Nat)
    BY <1>0, <1>2, <1>4 DEF FuncOK
  <2>2. g.byIdx \in Seq(DOMAIN g.func \cup {NoFunc}) /\ g.byIdx # <<>>
    <3>1. \A i \in 1 .. n : byIdx[i] \in F \cup {NoFunc}
      BY <1>9, <1>10
    <3> HIDE DEF F
    <3>2. byIdx \in [1 .. n -> F \cup {NoFunc}]
      BY <1>3, <3>1 DEF byIdx
    <3>3. n \in Nat \ {0}
      OBVIOUS
    <3>4. byIdx \in Seq(F \cup {NoFunc}) /\ byIdx # <<>>
      BY <3>2, <3>3
    <3>5. QED
      BY <1>2, <1>4, <3>4
  <2>3. \A i \in DOMAIN g.byIdx : g.byIdx[i] # NoFunc => g.func[g.byIdx[i]].idx = i - 1
    <3>1. ASSUME NEW i \in 1 .. n, byIdx[i] # NoFunc
          PROVE  func[byIdx[i]].idx = i - 1
      <4>1. byIdx[i] \in F /\ byIdx[i] \in old /\ NewIdx(names, byIdx[i]) + 1 = i
        BY <1>9, <1>10, <3>1
      <4>2. func[byIdx[i]].idx = NewIdx(names, byIdx[i]) /\ NewIdx(names, byIdx[i]) \in Nat
        BY <1>7, <1>8, <4>1
      <4> HIDE DEF F
      <4>3. QED
        BY <4>1, <4>2
    <3>2. QED
      BY <1>3, <1>4, <3>1
  <2>4. ASSUME NEW f \in F
        PROVE  /\ func[f].idx \in Nat
               /\ func[f].idx # 0 =>
                    /\ f \in DOMAIN names /\ names[f] = func[f].idx
                    /\ byIdx[func[f].idx + 1] = f
               /\ f[1] \in DOMAIN e.mods /\ f \in ToSet(e.mods[f[1]].functionV)
               /\ f[2] \in String /\ (f[1] \in {} \/ ~e.mods[f[1]].loaded) => func[f].idx # 0
    <3>1. func[f].idx \in Nat
      BY <1>6, <1>7, <1>8
    <3>2. f[1] \in DOMAIN e.mods /\ f \in ToSet(e.mods[f[1]].functionV)
      BY <1>0 DEF FuncOK
    <3>3. e.mods[f[1]].loaded
      <4>1. Blank.functionV = <<>>
        BY DEF Blank
      <4>2. e.mods[f[1]] # Blank
        BY <3>2, <4>1 DEF ToSet
      <4>3. QED
        BY <3>2, <4>2
    <3>4. ASSUME func[f].idx # 0
          PROVE  /\ f \in DOMAIN names /\ names[f] = func[f].idx
                 /\ byIdx[func[f].idx + 1] = f
      <4>1. f \in old
        <5>1. CASE f \notin old
          <6>1. e.func[f].idx # 0
            BY <1>8, <3>4, <5>1
          <6>2. f \in DOMAIN e.byName /\ e.byName[f] = e.func[f].idx /\ e.byIdx[e.func[f].idx + 1] = f
            BY <1>0, <6>1 DEF FuncOK
          <6>3. e.func[f].idx + 1 \in DOMAIN e.byIdx
            <7>1. e.func[f].idx \in 1 .. Len(e.byIdx) - 1
              BY <6>2 DEF EnvOK, NamesOK
            <7>2. Len(e.byIdx) \in Nat /\ DOMAIN e.byIdx = 1 .. Len(e.byIdx)
              BY <1>5
            <7>3. QED
              BY <7>1, <7>2
          <6>4. f # NoFunc
            <7>1. Module \subseteq String /\ Live(e.tab) \subseteq String
              BY <1>0, LiveStrings, ModuleAssumption
            <7>2. f \in Module \X (Live(e.tab) \cup Nat)
              BY <1>0 DEF FuncOK
            <7>3. QED
              BY <7>1, <7>2, NamesAssumption
          <6>5. QED
            BY <1>5, <5>1, <6>2, <6>3, <6>4
        <5>2. QED
          BY <5>1
      <4>2. func[f].idx = NewIdx(names, f)
        BY <1>8, <4>1
      <4>3. f \in DOMAIN names /\ names[f] = NewIdx(names, f) /\ NewIdx(names, f) \in 1 .. n - 1
        BY <1>7, <1>72, <3>4, <4>2
      <4> DEFINE i == NewIdx(names, f) + 1
      <4>4. i \in 1 .. n
        BY <4>3
      <4>5. Mine(e, names, i) # {}
        <5>1. PICK j \in DOMAIN e.byIdx : e.byIdx[j] = f /\ f # NoFunc
          BY <4>1 DEF old, ToSet
        <5>2. j \in Mine(e, names, i)
          BY <5>1 DEF Mine
        <5>3. QED
          BY <5>2
      <4>6. NewIdx(names, byIdx[i]) + 1 = i /\ NewIdx(names, byIdx[i]) \in Nat
        BY <1>7, <1>9, <4>4, <4>5
      <4>7. NewIdx(names, byIdx[i]) = NewIdx(names, f) /\ NewIdx(names, f) # 0
        <5>1. NewIdx(names, f) \in Nat /\ NewIdx(names, f) # 0
          BY <1>7, <1>72, <3>4, <4>2
        <5>2. NewIdx(names, byIdx[i]) + 1 = NewIdx(names, f) + 1 /\ NewIdx(names, byIdx[i]) \in Nat
          BY <4>6
        <5> HIDE DEF i, F
        <5>3. QED
          BY <5>1, <5>2
      <4>8. byIdx[i] \in DOMAIN names /\ names[byIdx[i]] = names[f]
        BY <1>72, <4>3, <4>7
      <4>9. byIdx[i] = f
        BY <4>3, <4>8 DEF NamesOK
      <4>10. QED
        BY <4>2, <4>3, <4>9
    <3>5. QED
      BY <3>1, <3>2, <3>3, <3>4
  <2>5. DOMAIN g.func = F /\ g.func = func /\ g.byName = names /\ g.byIdx = byIdx /\ g.mods = e.mods
    BY <1>2, <1>4
  <2>6. \A f \in F : "idx" \in DOMAIN func[f]
    BY <1>8
  <2> HIDE DEF F
  <2>7. QED
    BY <2>1, <2>2, <2>3, <2>4, <2>5, <2>6 DEF FuncOK
<1>12. NamesOK(g.byName, Len(g.byIdx), Live(g.tab))
  <2>1. Len(g.byIdx) = n
    BY <1>3, <1>4, <1>11 DEF FuncOK
  <2>2. QED
    BY <1>4, <2>1
<1>13. EnvOK(g, {})
  <2>1. DOMAIN g.func = DOMAIN e.func
    BY <1>2, <1>4
  <2>2. g.failed \in BOOLEAN
    BY <1>0, <1>4
  <2>3. QED
    BY <1>0, <1>4, <1>11, <1>12, <2>1, <2>2 DEF EnvOK
<1>14. QED
  BY <1>4, <1>13 DEF g

(* loadFunctions renumbers. *)
LEMMA LoadFunctionsKeeps ==
  ASSUME NEW e, EnvOK(e, {}), NEW sv, sv.size \in Nat \ {0},
         NEW names, names = NamesIn(sv, e.tab),
         NamesOK(names, sv.size, Live(e.tab)),
         \A m \in DOMAIN e.mods : e.mods[m].loaded \/ e.mods[m] = Blank
  PROVE  LET g == LoadFunctions(e, sv) IN
         EnvOK(g, {}) /\ g.tab = e.tab /\ g.byName = names /\ g.mods = e.mods /\ g.failed = e.failed
<1>1. LoadFunctions(e, sv) = Renumbered(e, names, sv.size)
  BY DEF LoadFunctions, NamesIn, Renumbered, Mine, NewIdx
<1>2. QED
  BY <1>1, RenumberedOK
-----------------------------------------------------------------------------
(* The names of a save are the same in a table that has its strings. *)
LEMMA NamesRead ==
  ASSUME NEW sv, NEW t, t = Loaded(sv.tab), NEW u, TabOK(t), TabOK(u), Grown(t, u),
         DOMAIN NamesOf(sv) \subseteq Live(t) \X Live(t)
  PROVE  NamesOf(sv) = NamesIn(sv, u)
<1> DEFINE B == sv.byName
           K(r) == <<At(t, r[1]), At(t, r[2])>>
           J(r) == <<At(u, r[1]), At(u, r[2])>>
           f(k) == CHOOSE r \in B : K(r) = k
           g(k) == CHOOSE r \in B : J(r) = k
<1>1. NamesOf(sv) = [k \in {K(r) : r \in B} |-> f(k)[3]]
  BY DEF NamesOf
<1>2. \A r \in B : K(r) = J(r)
  <2>1. ASSUME NEW r \in B
        PROVE  K(r) = J(r)
    <3>1. K(r) \in Live(t) \X Live(t)
      BY <1>1
    <3>2. At(t, r[1]) # NoString /\ At(t, r[2]) # NoString
      BY <3>1, LiveStrings
    <3>3. At(u, r[1]) = At(t, r[1]) /\ At(u, r[2]) = At(t, r[2])
      BY <3>2, GrownLive
    <3>4. QED
      BY <3>3
  <2>2. QED
    BY <2>1
<1> HIDE DEF K, J
<1>3. \A k : f(k) = g(k)
  BY <1>2
<1>4. {K(r) : r \in B} = {J(r) : r \in B}
  BY <1>2
<1> HIDE DEF f, g
<1>5. NamesOf(sv) = [k \in {J(r) : r \in B} |-> g(k)[3]]
  BY <1>1, <1>3, <1>4
<1>6. QED
  BY <1>5 DEF J, g, B, NamesIn

(* All strings that modules and names of functions have are finitely many. *)
LEMMA ResetOK ==
  ASSUME EnvOK(env, {}), NEW t, TabOK(t)
  PROVE  LET u == ResetStrings(t) IN
         /\ TabOK(u) /\ Grown(t, u)
         /\ KeyStrings \subseteq Live(u) /\ \A m \in DOMAIN env.mods : ModuleStrings(m) \subseteq Live(u)
<1> DEFINE all == UNION {ModuleStrings(m) : m \in DOMAIN env.mods}
           K == KeyStrings \cup all
           ss == SetToSeq(K)
           u == ResetStrings(t)
<1>1. TabOK(env.tab)
  BY DEF EnvOK
<1>2. Live(env.tab) \subseteq String /\ NoString \notin Live(env.tab) /\ IsFiniteSet(Live(env.tab))
  BY <1>1, LiveStrings
<1>3. KeyStrings \subseteq Live(env.tab) /\ \A m \in DOMAIN env.mods : ModuleStrings(m) \subseteq Live(env.tab)
  BY NoneDangles DEF NothingDangles
<1>4. K \subseteq Live(env.tab)
  BY <1>3
<1>5. \A m \in DOMAIN env.mods : ModuleStrings(m) \subseteq K
  OBVIOUS
<1>6. KeyStrings \subseteq K
  OBVIOUS
<1>7. u = InternAll(t, ss)
  BY DEF ResetStrings
<1> HIDE DEF u, K
<1>8. IsFiniteSet(K)
  BY <1>2, <1>4, FS_Subset
<1>9. ToSet(ss) = K /\ ss \in Seq(K)
  BY <1>8, InOrder
<1>10. ss \in Seq(String \cup {NoString})
  <2>1. K \subseteq String \cup {NoString}
    BY <1>2, <1>4
  <2> HIDE DEF ss
  <2>2. QED
    BY <1>9, <2>1
<1> HIDE DEF ss
<1>11. TabOK(u) /\ Grown(t, u) /\ ToSet(ss) \subseteq Live(u) \cup {NoString}
  BY <1>7, <1>10, InternAllKeeps
<1>12. K \subseteq Live(u)
  BY <1>2, <1>4, <1>9, <1>11
<1>13. QED
  BY <1>5, <1>6, <1>11, <1>12 DEF u

(* loadState up to the scopes. *)
LEMMA LoadStateKeeps ==
  ASSUME IInv, LoadState
  PROVE  IInv'
<1> DEFINE t == Loaded(saved.tab)
           u == ResetStrings(t)
           e == [env EXCEPT !.tab = u]
           ms == {At(t, i) : i \in saved.mods}
<1>1. /\ Idle /\ saved # NoSave /\ stack' = stack /\ saved' = saved
      /\ env' = LoadFunctions(e, saved)
      /\ memory' = Zeros /\ means' = Nothing
      /\ kept' = saved.kept /\ keptMeans' = saved.keptMeans
      /\ restoring' = SetToSeq(ms) \o <<NoModule>>
  BY DEF LoadState
<1>2. stack = <<>> /\ Reading = {}
  BY <1>1 DEF Idle, Reading
<1>3. EnvOK(env, {}) /\ SavedOK(saved) /\ LoadedOrBlank
  BY <1>1, <1>2 DEF IInv
<1>4. \A m \in DOMAIN env.mods : env.mods[m].loaded \/ env.mods[m] = Blank
  BY <1>2, <1>3 DEF LoadedOrBlank
<1>5. /\ TabOK(t) /\ LocksOf(t, saved.kept) /\ saved.size \in Nat \ {0}
      /\ NamesOK(NamesOf(saved), saved.size, Live(t))
      /\ (\A i \in saved.mods : At(t, i) \in Module)
      /\ Means(t, NamesOf(saved), saved.memory, saved.means)
      /\ Means(t, NamesOf(saved), saved.kept, saved.keptMeans)
  BY <1>3 DEF SavedOK
<1>t. t = Loaded(saved.tab)
  OBVIOUS
<1> HIDE DEF t
<1>6. /\ TabOK(u) /\ Grown(t, u)
      /\ KeyStrings \subseteq Live(u) /\ \A m \in DOMAIN env.mods : ModuleStrings(m) \subseteq Live(u)
  BY <1>3, <1>5, ResetOK
<1> HIDE DEF u
<1>7. /\ EnvOK(e, {}) /\ e.tab = u /\ e.mods = env.mods /\ e.failed = env.failed
  BY <1>3, <1>6, TableOK
<1> HIDE DEF e
<1>8. DOMAIN NamesOf(saved) \subseteq Live(t) \X Live(t)
  BY <1>5 DEF NamesOK
<1>9. NamesOf(saved) = NamesIn(saved, u)
  BY <1>5, <1>6, <1>8, <1>t, NamesRead
<1>10. NamesOK(NamesOf(saved), saved.size, Live(u))
  <2>1. Live(t) \subseteq Live(u)
    BY <1>5, <1>6, GrownLive
  <2>2. QED
    BY <1>5, <2>1 DEF NamesOK
<1>11. /\ EnvOK(env', {}) /\ env'.tab = u /\ env'.byName = NamesOf(saved) /\ env'.mods = env.mods
       /\ env'.failed = env.failed
  BY <1>1, <1>4, <1>5, <1>7, <1>9, <1>10, LoadFunctionsKeeps
<1>12. Reading = {} /\ Reading' = {} /\ StackOK' /\ LoadedOrBlank'
  BY <1>1, <1>2, <1>11, NoneRead
<1>13. Extended(NamesOf(saved), NamesOf(saved)) /\ Positive(NamesOf(saved))
  BY <1>5, NamesPositive DEF Extended
<1>14. /\ Means(u, NamesOf(saved), saved.kept, saved.keptMeans)
       /\ \A c \in Cell : GetString(u, saved.kept[c]) = GetString(t, saved.kept[c])
  BY <1>5, <1>6, <1>13, WordsKeep
<1>15. LocksOf(u, saved.kept)
  BY <1>5, <1>6, <1>14, LocksKeep
<1>16. WordsOK'
  <2>1. LocksMatch'
    BY <1>1, <1>11, <1>15, LocksWillBe
  <2>2. Means(u, NamesOf(saved), Zeros, Nothing)
    BY ZerosMean
  <2>3. SavedOK(saved)'
    BY <1>1, <1>3
  <2>4. QED
    BY <1>1, <1>11, <1>14, <2>1, <2>2, <2>3 DEF WordsOK
<1>17. RestoringOK'
  <2>1. restoring' \in Seq(Module \cup {NoModule})
    <3>1. \A m \in ms : m \in Live(t)
      <4>1. ASSUME NEW i \in saved.mods
            PROVE  At(t, i) \in Live(t)
        <5>1. At(t, i) \in Module /\ At(t, i) \in Live(t) \cup {NoString}
          BY <1>5, AtIsLive
        <5>2. QED
          BY <5>1, ModuleAssumption, StringAssumption
      <4>2. QED
        BY <4>1
    <3>2. ms \subseteq Module
      BY <1>5
    <3> HIDE DEF ms
    <3>3. IsFiniteSet(ms)
      BY <1>5, <3>1, LiveStrings, FS_Subset
    <3>4. SetToSeq(ms) \in Seq(ms)
      BY <3>3, InOrder
    <3> DEFINE q == SetToSeq(ms)
    <3>5. q \in Seq(Module \cup {NoModule})
      BY <3>2, <3>4
    <3>6. restoring' = q \o <<NoModule>>
      BY <1>1
    <3> HIDE DEF q
    <3>7. QED
      BY <3>5, <3>6
  <2>2. saved' # NoSave /\ Grown(Loaded(saved'.tab), env'.tab)
    BY <1>1, <1>6, <1>11 DEF t
  <2>3. NamesOf(saved)' = NamesOf(saved)
    BY <1>1
  <2>4. \A k \in DOMAIN NamesOf(saved)' : k \in DOMAIN env'.byName /\ env'.byName[k] = NamesOf(saved)'[k]
    BY <1>11, <2>3
  <2>5. QED
    BY <2>1, <2>2, <2>4 DEF RestoringOK
<1>18. QED
  BY <1>11, <1>12, <1>16, <1>17, Parts
-----------------------------------------------------------------------------
(* The words come out of the save. *)
LEMMA LoadScopesKeeps ==
  ASSUME IInv, LoadScopes
  PROVE  IInv'
<1>1. /\ stack = <<>> /\ restoring = <<NoModule>> /\ restoring' = <<>>
      /\ memory' = saved.memory /\ means' = saved.means
      /\ UNCHANGED <<env, stack, kept, saved, keptMeans>>
  BY DEF LoadScopes
<1>2. /\ EnvOK(env, Reading) /\ (saved # NoSave => SavedOK(saved)) /\ RestoringOK /\ LocksMatch
      /\ Means(env.tab, env.byName, kept, keptMeans)
  BY DEF IInv
<1>3. /\ saved # NoSave /\ Grown(Loaded(saved.tab), env.tab)
      /\ Extended(NamesOf(saved), env.byName)
  BY <1>1, <1>2 DEF RestoringOK, Extended
<1>4. Reading = {} /\ Reading' = {} /\ StackOK' /\ LoadedOrBlank'
  BY <1>1, NoneRead
<1> DEFINE t == Loaded(saved.tab)
<1>5. /\ TabOK(t) /\ saved.size \in Nat \ {0} /\ NamesOK(NamesOf(saved), saved.size, Live(t))
      /\ Means(t, NamesOf(saved), saved.memory, saved.means)
  BY <1>2, <1>3 DEF SavedOK
<1>6. TabOK(env.tab) /\ Grown(t, env.tab)
  BY <1>2, <1>3 DEF EnvOK
<1> HIDE DEF t
<1>7. Positive(NamesOf(saved))
  BY <1>5, NamesPositive
<1>8. Means(env.tab, env.byName, saved.memory, saved.means)
  BY <1>3, <1>5, <1>6, <1>7, WordsKeep
<1>9. WordsOK'
  <2>1. LocksMatch'
    BY <1>1, <1>2 DEF LocksMatch, WordsOf
  <2>2. SavedOK(saved)'
    BY <1>1, <1>2, <1>3
  <2>3. QED
    BY <1>1, <1>2, <1>8, <2>1, <2>2 DEF WordsOK
<1>10. RestoringOK'
  BY <1>1 DEF RestoringOK
<1>11. EnvOK(env', Reading')
  BY <1>1, <1>2, <1>4
<1>12. QED
  BY <1>4, <1>9, <1>10, <1>11, Parts
-----------------------------------------------------------------------------
(* A program starts. *)

(* A new environment is right, and nothing is locked. *)
LEMMA NewOK == EnvOK(NewEnvironment, {}) /\ LocksOf(NewEnvironment.tab, Zeros)
<1> DEFINE e == NewEnvironment
<1>1. TabOK(Empty)
  <2>1. /\ Empty.byIdx = <<>> /\ Empty.free = <<>> /\ Empty.lock = [s \in String |-> 0]
    BY DEF Empty
  <2>2. Empty.byIdx \in Seq(String \cup {NoString}) /\ Empty.free \in Seq(Nat)
    BY <2>1
  <2>3. Empty.lock \in [String -> Int]
    BY <2>1
  <2>4. DOMAIN Empty.byIdx = {} /\ DOMAIN Empty.free = {}
    BY <2>1
  <2>5. QED
    BY <2>2, <2>3, <2>4 DEF TabOK
<1>2. /\ e.tab = Empty /\ e.byName = <<>> /\ e.byIdx = <<NoFunc>> /\ e.func = <<>> /\ e.mods = <<>>
      /\ e.failed = FALSE
  BY DEF NewEnvironment
<1>3. DOMAIN e.byName = {} /\ DOMAIN e.func = {} /\ DOMAIN e.mods = {}
  BY <1>2
<1>4. e.byIdx \in Seq(DOMAIN e.func \cup {NoFunc}) /\ e.byIdx # <<>> /\ Len(e.byIdx) = 1
      /\ \A i \in DOMAIN e.byIdx : e.byIdx[i] = NoFunc
  BY <1>2, <1>3
<1>5. FuncOK(e, {})
  BY <1>3, <1>4 DEF FuncOK
<1>6. NamesOK(e.byName, Len(e.byIdx), Live(e.tab))
  BY <1>3 DEF NamesOK
<1>7. e.failed \in BOOLEAN
  BY <1>2
<1>8. EnvOK(e, {})
  BY <1>1, <1>2, <1>3, <1>5, <1>6, <1>7 DEF EnvOK
<1>9. LocksOf(e.tab, Zeros)
  <2>1. \A i : At(Empty, i) = NoString
    BY DEF At, Empty
  <2>2. \A s \in String : s \notin {GetString(Empty, Zeros[c]) : c \in Cell}
    BY <2>1, StringAssumption DEF GetString
  <2>3. \A s \in String : Empty.lock[s] = 0
    BY DEF Empty
  <2>4. QED
    BY <1>2, <2>2, <2>3 DEF LocksOf
<1>10. QED
  BY <1>8, <1>9

(* A new program starts. *)
LEMMA RestartKeeps ==
  ASSUME IInv, Restart
  PROVE  IInv'
<1>1. /\ Idle /\ env' = NewEnvironment
      /\ memory' = Zeros /\ means' = Nothing /\ kept' = Zeros /\ keptMeans' = Nothing
      /\ stack' = stack /\ saved' = saved /\ restoring' = restoring
  BY DEF Restart
<1>2. stack' = <<>> /\ restoring' = <<>>
  BY <1>1 DEF Idle
<1>3. saved # NoSave => SavedOK(saved)
  BY DEF IInv
<1>4. Reading' = {}
  BY <1>2 DEF Reading
<1>5. EnvOK(env', Reading') /\ LocksOf(env'.tab, kept')
  BY <1>1, <1>4, NewOK
<1>6. env'.failed = FALSE /\ DOMAIN env'.mods = {}
  BY <1>1 DEF NewEnvironment
<1>7. StackOK'
  BY <1>2, <1>4, <1>6 DEF StackOK
<1>8. LoadedOrBlank'
  BY <1>6 DEF LoadedOrBlank
<1>9. WordsOK'
  <2>1. LocksMatch'
    BY <1>5, LocksWillBe
  <2>2. Means(env'.tab, env'.byName, Zeros, Nothing)
    BY ZerosMean
  <2>3. saved' # NoSave => SavedOK(saved)'
    BY <1>1, <1>3
  <2>4. QED
    BY <1>1, <2>1, <2>2, <2>3 DEF WordsOK
<1>10. RestoringOK'
  BY <1>2 DEF RestoringOK
<1>11. QED
  BY <1>5, <1>7, <1>8, <1>9, <1>10, Parts

(* The invariant holds when the first program starts. *)
LEMMA InitOK == Init => IInv
<1> SUFFICES ASSUME Init PROVE IInv
  OBVIOUS
<1>1. /\ env = NewEnvironment /\ stack = <<>> /\ memory = Zeros /\ kept = Zeros
      /\ saved = NoSave /\ restoring = <<>> /\ means = Nothing /\ keptMeans = Nothing
  BY DEF Init
<1>2. Reading = {}
  BY <1>1 DEF Reading
<1>3. EnvOK(env, Reading) /\ LocksOf(env.tab, kept)
  BY <1>1, <1>2, NewOK
<1>4. env.failed = FALSE /\ DOMAIN env.mods = {}
  BY <1>1 DEF NewEnvironment
<1>5. StackOK
  BY <1>1, <1>2, <1>4 DEF StackOK
<1>6. LoadedOrBlank
  BY <1>4 DEF LoadedOrBlank
<1>7. LocksMatch
  BY <1>3, LocksAre
<1>8. Means(env.tab, env.byName, memory, means) /\ Means(env.tab, env.byName, kept, keptMeans)
  BY <1>1, ZerosMean
<1>9. RestoringOK
  BY <1>1 DEF RestoringOK
<1>10. QED
  BY <1>1, <1>3, <1>5, <1>6, <1>7, <1>8, <1>9 DEF IInv

(* Nothing happens. *)
LEMMA StutterKeeps ==
  ASSUME IInv, UNCHANGED vars
  PROVE  IInv'
<1>1. UNCHANGED <<env, stack, memory, action, kept, saved, restoring, means, keptMeans>>
  BY DEF vars
<1>2. Reading' = Reading
  BY <1>1 DEF Reading
<1>3. StackOK'
  BY <1>1, <1>2 DEF IInv, StackOK, Top
<1>4. LoadedOrBlank' /\ LocksMatch' /\ RestoringOK'
  BY <1>1 DEF IInv, LoadedOrBlank, LocksMatch, WordsOf, RestoringOK
<1>5. WordsOK'
  BY <1>1, <1>4 DEF IInv, WordsOK
<1>6. EnvOK(env', Reading')
  BY <1>1, <1>2 DEF IInv
<1>7. QED
  BY <1>3, <1>4, <1>5, <1>6, Parts
-----------------------------------------------------------------------------

(* Every step keeps the inductive invariant. *)
THEOREM Induction == Spec => []IInv
<1>1. IInv /\ [Next]_vars => IInv'
  <2> SUFFICES ASSUME IInv, [Next]_vars PROVE IInv'
    OBVIOUS
  <2>1. CASE GetModule
    BY <2>1, GetModuleKeeps
  <2>2. CASE Loading
    BY <2>2, ImportKnownKeeps, ImportNewKeeps, ReadKeeps, UnwindKeeps DEF Loading
  <2>3. CASE PushString
    BY <2>3, PushStringKeeps
  <2>4. CASE MakeString
    BY <2>4, MakeStringKeeps
  <2>5. CASE PushFunction
    BY <2>5, PushFunctionKeeps
  <2>6. CASE Defer \/ Apply
    BY <2>6, ActionKeeps
  <2>7. CASE Keep
    BY <2>7, KeepKeeps
  <2>8. CASE Return
    BY <2>8, ReturnKeeps
  <2>9. CASE CollectStrings
    BY <2>9, CollectStringsKeeps
  <2>10. CASE SaveState
    BY <2>10, SaveStateKeeps
  <2>11. CASE LoadState
    BY <2>11, LoadStateKeeps
  <2>12. CASE Restart
    BY <2>12, RestartKeeps
  <2>13. CASE LoadModule
    BY <2>13, LoadModuleKeeps
  <2>14. CASE LoadScopes
    BY <2>14, LoadScopesKeeps
  <2>15. CASE UNCHANGED vars
    BY <2>15, StutterKeeps
  <2>16. QED
    BY <2>1, <2>2, <2>3, <2>4, <2>5, <2>6, <2>7, <2>8, <2>9, <2>10, <2>11, <2>12, <2>13, <2>14, <2>15
    DEF Next
<1>2. QED
  BY InitOK, <1>1, PTL DEF Spec

(* A string is locked as long as the host has it put aside, and no longer:   *)
(* lockStrings, unlockStrings, collectEnd, and the locks in a save.          *)
THEOREM LocksAlwaysMatch == Spec => []LocksMatch
<1>1. IInv => LocksMatch
  BY DEF IInv
<1>2. QED
  BY Induction, <1>1, PTL

(* Whatever failed while modules were read, getModule can read them again.   *)
THEOREM AlwaysLoadedOrBlank == Spec => []LoadedOrBlank
<1>1. IInv => LoadedOrBlank
  BY DEF IInv
<1>2. QED
  BY Induction, <1>1, PTL

(* No module and no name of a function points to a string that was freed, or *)
(* to a function that was.                                                   *)
THEOREM NeverDangles == Spec => []NothingDangles
<1>1. IInv => NothingDangles
  BY NoneDangles DEF IInv
<1>2. QED
  BY Induction, <1>1, PTL

(* Words that mean a string are that string. *)
LEMMA StringMeant ==
  ASSUME NEW R, EnvOK(env, R), NEW words, NEW meanings, Means(env.tab, env.byName, words, meanings), NEW c \in Cell
  PROVE  SameString(words[c], meanings[c])
<1> SUFFICES ASSUME meanings[c] \in String PROVE GetString(env.tab, words[c]) = meanings[c]
  BY DEF SameString
<1>1. meanings[c] # NoMeaning
  BY NamesAssumption
<1>2. TabOK(env.tab) /\ DOMAIN env.byName \subseteq Live(env.tab) \X Live(env.tab)
  BY DEF EnvOK, NamesOK
<1>3. DOMAIN env.byName \subseteq String \X String
  BY <1>2, LiveStrings
<1>4. meanings[c] \notin DOMAIN env.byName
  BY <1>3, NamesAssumption
<1>5. QED
  BY <1>1, <1>4 DEF Means

(* What a script holds as a string, or the host has put aside, stays the     *)
(* string that it was: collections, saves, loads and new starts included.    *)
THEOREM StringsAlwaysMean == Spec => []StringsMean
<1>1. IInv => StringsMean
  BY StringMeant DEF IInv, StringsMean
<1>2. QED
  BY Induction, <1>1, PTL

(* Words that mean a function are the index of its name. *)
LEMMA FunctionMeant ==
  ASSUME NEW R, EnvOK(env, R), Means(env.tab, env.byName, memory, means), NEW c \in Cell,
         means[c] \in DOMAIN env.byName
  PROVE  /\ memory[c] + 1 \in DOMAIN env.byIdx
         /\ env.byIdx[memory[c] + 1] \in {NoFunc, means[c]}
<1> DEFINE w == memory[c]
           s == means[c]
           n == Len(env.byIdx)
<1>1. /\ TabOK(env.tab) /\ NamesOK(env.byName, n, Live(env.tab)) /\ FuncOK(env, R)
  BY DEF EnvOK
<1>2. DOMAIN env.byName \subseteq String \X String
  BY <1>1, LiveStrings DEF NamesOK
<1>3. s \notin String /\ s # NoMeaning
  BY <1>2, NamesAssumption
<1>4. env.byName[s] = w
  BY <1>3 DEF Means
<1>5. w \in 1 .. n - 1
  BY <1>1, <1>4 DEF NamesOK
<1>6. env.byIdx \in Seq(DOMAIN env.func \cup {NoFunc})
  BY <1>1 DEF FuncOK
<1>7. n \in Nat /\ DOMAIN env.byIdx = 1 .. n
  BY <1>6
<1> HIDE DEF n, w, s
<1>8. w \in Nat /\ w # 0 /\ w + 1 \in 1 .. n /\ (w + 1) - 1 = w
  BY <1>5, <1>7
<1>9. w + 1 \in DOMAIN env.byIdx
  BY <1>7, <1>8
<1>10. ASSUME env.byIdx[w + 1] # NoFunc
       PROVE  env.byIdx[w + 1] = s
  <2> DEFINE f == env.byIdx[w + 1]
  <2>1. f \in DOMAIN env.func
    BY <1>6, <1>9, <1>10
  <2>2. env.func[f].idx = w
    BY <1>1, <1>8, <1>9, <1>10 DEF FuncOK
  <2> HIDE DEF f
  <2>3. f \in DOMAIN env.byName /\ env.byName[f] = w
    BY <1>1, <1>8, <2>1, <2>2 DEF FuncOK
  <2>4. s \in DOMAIN env.byName
    BY DEF s
  <2>5. f = s
    BY <1>1, <1>4, <2>3, <2>4 DEF NamesOK
  <2>6. QED
    BY <2>5 DEF f
<1>11. QED
  BY <1>9, <1>10 DEF w, s

(* What a script holds as a function is never another function: the indexes  *)
(* of functions are kept by loads, whatever modules there are.               *)
THEOREM FunctionsAlwaysMean == Spec => []FunctionsMean
<1>1. IInv => FunctionsMean
  BY FunctionMeant DEF IInv, FunctionsMean
<1>2. QED
  BY Induction, <1>1, PTL
=============================================================================
