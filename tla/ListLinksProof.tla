--------------------------- MODULE ListLinksProof ---------------------------
(***************************************************************************)
(* What the list operations do to the set of the objects in a list, and    *)
(* that they keep it free of duplicates; and lemmas about numbers and      *)
(* sequences that several of the other proofs need.                        *)
(***************************************************************************)
EXTENDS ListLinks, SequenceTheorems, WellFoundedInduction, TLAPS

(* Appending a new object. *)
LEMMA AppendLink ==
  ASSUME NEW S, NEW list \in Seq(S), NEW e \in S
  PROVE  /\ Append(list, e) \in Seq(S)
         /\ ToSet(Append(list, e)) = ToSet(list) \cup {e}
         /\ IsInjective(list) /\ e \notin ToSet(list) => IsInjective(Append(list, e))
BY AppendProperties DEF ToSet, IsInjective

(* The position of an object of the list. *)
LEMMA IndexOfLink ==
  ASSUME NEW S, NEW list \in Seq(S), NEW e \in ToSet(list)
  PROVE  Index(list, e) \in 1 .. Len(list) /\ list[Index(list, e)] = e
BY DEF ToSet, Index

(* The positions of the list without its k-th object. *)
LEMMA RemoveAtPositions ==
  ASSUME NEW S, NEW list \in Seq(S), NEW k \in 1 .. Len(list)
  PROVE  /\ RemoveAt(list, k) \in Seq(S)
         /\ Len(RemoveAt(list, k)) = Len(list) - 1
         /\ \A i \in 1 .. Len(list) - 1 :
              RemoveAt(list, k)[i] = IF i < k THEN list[i] ELSE list[i + 1]
<1> DEFINE a == SubSeq(list, 1, k - 1)
           b == SubSeq(list, k + 1, Len(list))
<1>1. /\ a \in Seq(S) /\ Len(a) = k - 1
      /\ \A i \in 1 .. k - 1 : a[i] = list[i]
  <2>1. k - 1 \in Int /\ 1 \in Int /\ \A i \in 1 .. k - 1 : list[i] \in S
    OBVIOUS
  <2>2. QED
    BY <2>1, SubSeqProperties
<1>2. /\ b \in Seq(S) /\ Len(b) = Len(list) - k
      /\ \A i \in 1 .. Len(list) - k : b[i] = list[i + k]
  <2>1. k + 1 \in Int /\ Len(list) \in Int /\ \A i \in k + 1 .. Len(list) : list[i] \in S
    OBVIOUS
  <2>2. QED
    BY <2>1, SubSeqProperties
<1> HIDE DEF a, b
<1>3. /\ a \o b \in Seq(S)
      /\ Len(a \o b) = Len(a) + Len(b)
      /\ \A i \in 1 .. Len(a) + Len(b) :
           (a \o b)[i] = IF i <= Len(a) THEN a[i] ELSE b[i - Len(a)]
  BY <1>1, <1>2, ConcatProperties
<1>4. RemoveAt(list, k) = a \o b
  BY DEF RemoveAt, a, b
<1> DEFINE c == a \o b
<1> HIDE DEF c
<1>5. Len(a) = k - 1 /\ Len(b) = Len(list) - k /\ Len(list) \in Nat /\ k \in Nat
  BY <1>1, <1>2
<1>6. ASSUME NEW i \in 1 .. Len(list) - 1
      PROVE  c[i] = IF i < k THEN list[i] ELSE list[i + 1]
  <2>1. CASE i < k
    BY <1>1, <1>3, <1>5, <2>1 DEF c
  <2>2. CASE ~ (i < k)
    <3>1. c[i] = b[i - (k - 1)]
      <4>1. ~ (i <= Len(a)) /\ i \in 1 .. Len(a) + Len(b)
        BY <1>5, <2>2
      <4>2. QED
        BY <1>3, <1>5, <4>1 DEF c
    <3>2. i - (k - 1) \in 1 .. Len(list) - k /\ (i - (k - 1)) + k = i + 1
      BY <1>5, <2>2
    <3>3. QED
      BY <1>2, <2>2, <3>1, <3>2
  <2>3. QED
    BY <2>1, <2>2
<1>7. c \in Seq(S) /\ Len(c) = Len(list) - 1
  BY <1>3, <1>5 DEF c
<1>8. QED
  BY <1>4, <1>6, <1>7 DEF c

(* Unlinking an object removes it and nothing else. *)
LEMMA UnlinkLink ==
  ASSUME NEW S, NEW list \in Seq(S), NEW e \in ToSet(list), IsInjective(list)
  PROVE  /\ Unlink(list, e) \in Seq(S)
         /\ IsInjective(Unlink(list, e))
         /\ ToSet(Unlink(list, e)) = ToSet(list) \ {e}
<1> DEFINE k == Index(list, e)
           c == Unlink(list, e)
<1>1. k \in 1 .. Len(list) /\ list[k] = e
  BY IndexOfLink
<1>2. /\ c \in Seq(S)
      /\ Len(c) = Len(list) - 1
      /\ \A i \in 1 .. Len(list) - 1 : c[i] = IF i < k THEN list[i] ELSE list[i + 1]
  BY <1>1, RemoveAtPositions DEF Unlink
<1> HIDE DEF c, k
<1>3. IsInjective(c)
  <2> SUFFICES ASSUME NEW i \in 1 .. Len(list) - 1, NEW j \in 1 .. Len(list) - 1, c[i] = c[j]
               PROVE  i = j
    BY <1>2 DEF IsInjective
  <2>1. \A n \in 1 .. Len(list) - 1 :
          \E p \in 1 .. Len(list) : p = (IF n < k THEN n ELSE n + 1) /\ c[n] = list[p]
    BY <1>1, <1>2
  <2>2. PICK p \in 1 .. Len(list) : p = (IF i < k THEN i ELSE i + 1) /\ c[i] = list[p]
    BY <2>1
  <2>3. PICK q \in 1 .. Len(list) : q = (IF j < k THEN j ELSE j + 1) /\ c[j] = list[q]
    BY <2>1
  <2>4. p = q
    <3>1. p \in DOMAIN list /\ q \in DOMAIN list
      OBVIOUS
    <3>2. QED
      BY <2>2, <2>3, <3>1, Zenon DEF IsInjective
  <2>5. QED
    BY <1>1, <2>2, <2>3, <2>4
<1>4. ToSet(c) = ToSet(list) \ {e}
  <2>1. ASSUME NEW x \in ToSet(c) PROVE x \in ToSet(list) \ {e}
    <3>1. PICK i \in 1 .. Len(list) - 1 : c[i] = x
      BY <1>2 DEF ToSet
    <3>2. PICK j \in 1 .. Len(list) : j # k /\ list[j] = x
      <4>1. CASE i < k
        BY <1>1, <1>2, <3>1, <4>1
      <4>2. CASE ~ (i < k)
        <5>1. i + 1 \in 1 .. Len(list) /\ i + 1 # k /\ list[i + 1] = x
          BY <1>1, <1>2, <3>1, <4>2
        <5>2. QED
          BY <5>1
      <4>3. QED
        BY <4>1, <4>2
    <3>3. QED
      BY <1>1, <3>2 DEF IsInjective, ToSet
  <2>2. ASSUME NEW x \in ToSet(list) \ {e} PROVE x \in ToSet(c)
    <3>1. PICK j \in 1 .. Len(list) : list[j] = x
      BY DEF ToSet
    <3>2. j # k
      BY <3>1, <1>1
    <3>3. CASE j < k
      BY <3>1, <3>3, <1>1, <1>2 DEF ToSet
    <3>4. CASE j > k
      <4>1. j - 1 \in 1 .. Len(list) - 1 /\ c[j - 1] = x
        BY <3>1, <3>4, <1>1, <1>2
      <4>2. QED
        BY <4>1, <1>2 DEF ToSet
    <3>5. QED
      BY <3>2, <3>3, <3>4, <1>1
  <2>3. QED
    BY <2>1, <2>2
<1>5. QED
  BY <1>2, <1>3, <1>4 DEF c

(* The tail of a list has every object but the first. *)
LEMMA TailLink ==
  ASSUME NEW S, NEW list \in Seq(S), list # <<>>
  PROVE  /\ Head(list) \in ToSet(list)
         /\ Tail(list) \in Seq(S)
         /\ ToSet(Tail(list)) \subseteq ToSet(list)
         /\ IsInjective(list) => /\ IsInjective(Tail(list))
                                 /\ ToSet(Tail(list)) = ToSet(list) \ {Head(list)}
<1> DEFINE r == Tail(list)
<1>1. /\ r \in Seq(S) /\ Len(r) = Len(list) - 1
      /\ \A i \in 1 .. Len(r) : r[i] = list[i + 1]
      /\ Head(list) = list[1] /\ 1 \in 1 .. Len(list)
  BY HeadTailProperties
<1> HIDE DEF r
<1>2. Head(list) \in ToSet(list)
  BY <1>1 DEF ToSet
<1>3. ToSet(r) \subseteq ToSet(list)
  BY <1>1 DEF ToSet
<1>4. ASSUME IsInjective(list)
      PROVE  IsInjective(r) /\ ToSet(r) = ToSet(list) \ {Head(list)}
  <2>1. IsInjective(r)
    BY <1>1, <1>4 DEF IsInjective
  <2>2. Head(list) \notin ToSet(r)
    BY <1>1, <1>4 DEF IsInjective, ToSet
  <2>3. ASSUME NEW x \in ToSet(list), x # Head(list) PROVE x \in ToSet(r)
    <3>1. PICK j \in 1 .. Len(list) : list[j] = x
      BY DEF ToSet
    <3>2. j - 1 \in 1 .. Len(r) /\ r[j - 1] = x
      BY <1>1, <2>3, <3>1
    <3>3. QED
      BY <1>1, <3>2 DEF ToSet
  <2>4. QED
    BY <1>3, <2>1, <2>2, <2>3
<1>5. QED
  BY <1>1, <1>2, <1>3, <1>4 DEF r

(* All but the last object of a list. *)
LEMMA FrontLink ==
  ASSUME NEW S, NEW list \in Seq(S), list # <<>>
  PROVE  /\ Front(list) \in Seq(S)
         /\ Len(Front(list)) = Len(list) - 1
         /\ \A i \in 1 .. Len(list) - 1 : Front(list)[i] = list[i]
         /\ ToSet(Front(list)) \subseteq ToSet(list)
         /\ IsInjective(list) => /\ IsInjective(Front(list))
                                 /\ list[Len(list)] \notin ToSet(Front(list))
<1> DEFINE f == Front(list)
<1> HIDE DEF f
<1>1. Len(list) \in Nat /\ Len(list) > 0
  OBVIOUS
<1>2. /\ f \in Seq(S)
      /\ Len(f) = Len(list) - 1
      /\ \A i \in 1 .. Len(list) - 1 : f[i] = list[i]
  <2> DEFINE n == Len(list) - 1
  <2>1. n \in Nat /\ n \in Int /\ 1 \in Int /\ \A i \in 1 .. n : list[i] \in S
    BY <1>1
  <2> HIDE DEF n
  <2>2. /\ SubSeq(list, 1, n) \in Seq(S)
        /\ Len(SubSeq(list, 1, n)) = IF 1 <= n THEN n - 1 + 1 ELSE 0
        /\ \A i \in 1 .. n - 1 + 1 : SubSeq(list, 1, n)[i] = list[1 + i - 1]
    BY <2>1, SubSeqProperties
  <2>3. f = SubSeq(list, 1, n)
    BY DEF f, n, Front
  <2>4. /\ f \in Seq(S)
        /\ Len(f) = n
        /\ \A i \in 1 .. n : f[i] = list[i]
    BY <2>1, <2>2, <2>3
  <2>5. QED
    BY <2>4 DEF n
<1>3. ToSet(f) \subseteq ToSet(list)
  BY <1>1, <1>2 DEF ToSet
<1>4. IsInjective(list) => IsInjective(f) /\ list[Len(list)] \notin ToSet(f)
  BY <1>1, <1>2 DEF ToSet, IsInjective
<1>5. QED
  BY <1>2, <1>3, <1>4 DEF f

(* A list moved to the end of another one, with no object in common. *)
LEMMA ConcatLinks ==
  ASSUME NEW S, NEW l1 \in Seq(S), NEW l2 \in Seq(S)
  PROVE  /\ l1 \o l2 \in Seq(S)
         /\ ToSet(l1 \o l2) = ToSet(l1) \cup ToSet(l2)
         /\ IsInjective(l1) /\ IsInjective(l2) /\ ToSet(l1) \cap ToSet(l2) = {}
              => IsInjective(l1 \o l2)
<1> DEFINE c == l1 \o l2
<1>1. /\ c \in Seq(S) /\ Len(c) = Len(l1) + Len(l2)
      /\ \A i \in 1 .. Len(l1) + Len(l2) :
           c[i] = IF i <= Len(l1) THEN l1[i] ELSE l2[i - Len(l1)]
  BY ConcatProperties
<1> HIDE DEF c
<1>2. ToSet(c) \subseteq ToSet(l1) \cup ToSet(l2)
  BY <1>1 DEF ToSet
<1>3. ToSet(l1) \subseteq ToSet(c)
  BY <1>1 DEF ToSet
<1>4. ASSUME NEW x \in ToSet(l2) PROVE x \in ToSet(c)
  <2>1. PICK j \in 1 .. Len(l2) : l2[j] = x
    BY DEF ToSet
  <2>2. Len(l1) + j \in 1 .. Len(c) /\ c[Len(l1) + j] = x
    <3> DEFINE n == Len(l1) + j
    <3>1. n \in 1 .. Len(l1) + Len(l2) /\ ~ (n <= Len(l1)) /\ n - Len(l1) = j
      OBVIOUS
    <3> HIDE DEF n
    <3>2. c[n] = l2[n - Len(l1)]
      BY <1>1, <3>1
    <3>3. QED
      BY <1>1, <2>1, <3>1, <3>2 DEF n
  <2> DEFINE n == Len(l1) + j
  <2> HIDE DEF n
  <2>3. n \in DOMAIN c /\ c[n] = x
    BY <1>1, <2>2 DEF n
  <2>4. QED
    BY <2>3 DEF ToSet
<1>5. ASSUME IsInjective(l1), IsInjective(l2), ToSet(l1) \cap ToSet(l2) = {}
      PROVE  IsInjective(c)
  <2> SUFFICES ASSUME NEW i \in 1 .. Len(c), NEW j \in 1 .. Len(c), c[i] = c[j]
               PROVE  i = j
    BY <1>1 DEF IsInjective
  <2>1. CASE i <= Len(l1) /\ j <= Len(l1)
    BY <1>1, <1>5, <2>1 DEF IsInjective
  <2>2. CASE i > Len(l1) /\ j > Len(l1)
    <3>1. l2[i - Len(l1)] = l2[j - Len(l1)]
      BY <1>1, <2>2
    <3>2. i - Len(l1) \in DOMAIN l2 /\ j - Len(l1) \in DOMAIN l2
      BY <1>1, <2>2
    <3>3. i - Len(l1) = j - Len(l1)
      BY <1>5, <3>1, <3>2 DEF IsInjective
    <3>4. QED
      BY <1>1, <3>3
  <2>3. CASE i <= Len(l1) /\ j > Len(l1)
    <3>1. c[i] \in ToSet(l1) /\ c[j] \in ToSet(l2)
      BY <1>1, <2>3 DEF ToSet
    <3>2. QED
      BY <3>1, <1>5
  <2>4. CASE i > Len(l1) /\ j <= Len(l1)
    <3>1. c[i] \in ToSet(l2) /\ c[j] \in ToSet(l1)
      BY <1>1, <2>4 DEF ToSet
    <3>2. QED
      BY <3>1, <1>5
  <2>5. QED
    BY <1>1, <2>1, <2>2, <2>3, <2>4
<1>6. QED
  BY <1>1, <1>2, <1>3, <1>4, <1>5 DEF c

(* The iterator after an object is at an object of the list, or at its end. *)
LEMMA NextOfLink ==
  ASSUME NEW S, NEW list \in Seq(S), NEW e \in ToSet(list), IsInjective(list), NEW end
  PROVE  NextOf(list, e, end) \in (ToSet(list) \ {e}) \cup {end}
<1>1. Index(list, e) \in 1 .. Len(list) /\ list[Index(list, e)] = e
  BY IndexOfLink
<1>2. QED
  BY <1>1 DEF NextOf, ToSet, IsInjective

(* An object is at one position. *)
LEMMA IndexIsPosition ==
  ASSUME NEW S, NEW list \in Seq(S), IsInjective(list), NEW k \in 1 .. Len(list)
  PROVE  Index(list, list[k]) = k
BY IndexOfLink DEF ToSet, IsInjective

(* What is in front of an object does not change when one behind it is unlinked. *)
LEMMA UnlinkBehind ==
  ASSUME NEW S, NEW list \in Seq(S), IsInjective(list), NEW n \in 1 .. Len(list),
         NEW e \in ToSet(list), n <= Index(list, e)
  PROVE  /\ \A i \in 1 .. n - 1 : Unlink(list, e)[i] = list[i]
         /\ Len(Unlink(list, e)) = Len(list) - 1
         /\ n = Index(list, e) =>
              \A i \in n .. Len(list) - 1 : Unlink(list, e)[i] = list[i + 1]
<1> DEFINE k == Index(list, e)
           c == Unlink(list, e)
<1>1. k \in 1 .. Len(list)
  BY IndexOfLink
<1>2. /\ Len(c) = Len(list) - 1
      /\ \A i \in 1 .. Len(list) - 1 : c[i] = IF i < k THEN list[i] ELSE list[i + 1]
  BY <1>1, RemoveAtPositions DEF Unlink
<1> HIDE DEF c, k
<1>3. n <= k
  BY DEF k
<1>4. \A i \in 1 .. n - 1 : c[i] = list[i]
  BY <1>1, <1>2, <1>3
<1>5. n = k => \A i \in n .. Len(list) - 1 : c[i] = list[i + 1]
  BY <1>1, <1>2
<1>6. QED
  BY <1>2, <1>4, <1>5 DEF c, k
-----------------------------------------------------------------------------
(* A set of natural numbers has a least one.                                *)
LEMMA LeastOf ==
  ASSUME NEW T, T \subseteq Nat, T # {}
  PROVE  \E k \in T : \A n \in T : k <= n
<1>1. PICK k \in T : \A n \in T : <<n, k>> \notin OpToRel(<, Nat)
  BY NatLessThanWellFounded, WFMin
<1>2. \A n \in T : ~ (n < k)
  BY <1>1 DEF OpToRel
<1>3. QED
  BY <1>2

(* Induction up to n, for a set of numbers. *)
LEMMA UpTo ==
  ASSUME NEW n \in Nat, NEW T, 0 \in T, \A i \in 1 .. n : i - 1 \in T => i \in T
  PROVE  \A i \in 0 .. n : i \in T
<1> DEFINE U == {i \in 0 .. n : i \notin T}
<1> SUFFICES ASSUME U # {} PROVE FALSE
  OBVIOUS
<1>1. PICK k \in U : \A i \in U : k <= i
  <2>1. U \subseteq Nat
    OBVIOUS
  <2> HIDE DEF U
  <2>2. QED
    BY <2>1, LeastOf
<1>2. k # 0 /\ k \in 0 .. n
  BY <1>1
<1>3. k - 1 \in 0 .. n /\ k - 1 \notin U /\ k \in 1 .. n
  BY <1>1, <1>2
<1>4. QED
  BY <1>1, <1>3

(* A function whose value at i is made of the value at a smaller argument   *)
(* exists.                                                                  *)
Decreasing(P, n) == P \in [1 .. n -> Nat] /\ \A i \in 1 .. n : P[i] < i
Recursive(f, n, a, P, G) == f[0] = a /\ \A i \in 1 .. n : f[i] = G[<<i, f[P[i]]>>]

LEMMA RecursionTo ==
  ASSUME NEW n \in Nat, NEW S, NEW a \in S, NEW P, Decreasing(P, n),
         NEW G \in [(1 .. n) \X S -> S]
  PROVE  \E f \in [0 .. n -> S] : Recursive(f, n, a, P, G)
<1> DEFINE T == {k \in 0 .. n : \E f \in [0 .. k -> S] : Recursive(f, k, a, P, G)}
<1>0. P \in [1 .. n -> Nat] /\ \A i \in 1 .. n : P[i] < i
  BY DEF Decreasing
<1>1. 0 \in T
  <2> DEFINE z == [i \in 0 .. 0 |-> a]
  <2>1. z \in [0 .. 0 -> S] /\ Recursive(z, 0, a, P, G)
    BY DEF Recursive
  <2> HIDE DEF z
  <2>2. QED
    BY <2>1
<1>2. ASSUME NEW k \in 1 .. n, k - 1 \in T PROVE k \in T
  <2>1. PICK f \in [0 .. k - 1 -> S] : Recursive(f, k - 1, a, P, G)
    BY <1>2
  <2> DEFINE g == [i \in 0 .. k |-> IF i = k THEN G[<<k, f[P[k]]>>] ELSE f[i]]
  <2>2. P[k] \in 0 .. k - 1 /\ f[P[k]] \in S
    BY <1>0, <2>1
  <2>3. G[<<k, f[P[k]]>>] \in S
    BY <2>2
  <2>4. g \in [0 .. k -> S]
    BY <2>1, <2>3
  <2>5. ASSUME NEW i \in 1 .. k PROVE g[i] = G[<<i, g[P[i]]>>]
    <3>1. P[i] \in 0 .. k - 1
      BY <1>0
    <3>2. g[P[i]] = f[P[i]]
      BY <3>1
    <3>3. CASE i = k
      <4>1. g[k] = G[<<k, f[P[k]]>>]
        OBVIOUS
      <4>2. QED
        BY <3>2, <3>3, <4>1
    <3>4. CASE i # k
      <4>1. i \in 1 .. k - 1 /\ g[i] = f[i]
        BY <3>4
      <4>2. QED
        BY <2>1, <3>2, <4>1 DEF Recursive
    <3>5. QED
      BY <3>3, <3>4
  <2>6. g[0] = a
    BY <2>1 DEF Recursive
  <2>7. Recursive(g, k, a, P, G)
    BY <2>5, <2>6 DEF Recursive
  <2> HIDE DEF g
  <2>8. QED
    BY <2>4, <2>7
<1>3. n \in T
  <2>1. n \in 0 .. n
    OBVIOUS
  <2> HIDE DEF T
  <2>2. QED
    BY <1>1, <1>2, <2>1, UpTo
<1>4. QED
  BY <1>3

(* The elements of s from m to n. *)
LEMMA PartOf ==
  ASSUME NEW S, NEW s \in Seq(S), NEW m \in Nat \ {0}, NEW n \in Nat, n <= Len(s)
  PROVE  /\ SubSeq(s, m, n) \in Seq(S)
         /\ Len(SubSeq(s, m, n)) = IF m <= n THEN n - m + 1 ELSE 0
         /\ \A i \in 1 .. n - m + 1 : SubSeq(s, m, n)[i] = s[m + i - 1]
<1>1. Len(s) \in Nat /\ \A i \in 1 .. Len(s) : s[i] \in S
  OBVIOUS
<1> DEFINE l == Len(s)
<1> HIDE DEF l
<1>2. \A i \in m .. n : i \in 1 .. l
  BY <1>1 DEF l
<1>3. \A i \in m .. n : s[i] \in S
  BY <1>1, <1>2 DEF l
<1>4. m \in Int /\ n \in Int
  OBVIOUS
<1>5. QED
  BY <1>3, <1>4, SubSeqProperties

(* The first n of a sequence. *)
LEMMA FirstOnes ==
  ASSUME NEW S, NEW s \in Seq(S), NEW n \in Nat, n <= Len(s)
  PROVE  /\ SubSeq(s, 1, n) \in Seq(S) /\ Len(SubSeq(s, 1, n)) = n
         /\ \A i \in 1 .. n : SubSeq(s, 1, n)[i] = s[i]
<1> DEFINE p == SubSeq(s, 1, n)
<1>1. /\ p \in Seq(S) /\ Len(p) = IF 1 <= n THEN n - 1 + 1 ELSE 0
      /\ \A i \in 1 .. n - 1 + 1 : p[i] = s[1 + i - 1]
  <2>1. 1 \in Nat \ {0}
    OBVIOUS
  <2>2. QED
    BY <2>1, PartOf
<1> HIDE DEF p
<1>2. p \in Seq(S) /\ Len(p) = n /\ \A i \in 1 .. n : p[i] = s[i]
  BY <1>1
<1>3. QED
  BY <1>2 DEF p

(* The n elements of s after the first a. *)
LEMMA PartAt ==
  ASSUME NEW S, NEW s \in Seq(S), NEW a \in Nat, NEW n \in Nat, a + n <= Len(s)
  PROVE  /\ SubSeq(s, a + 1, a + n) \in Seq(S)
         /\ Len(SubSeq(s, a + 1, a + n)) = n
         /\ \A i \in 1 .. n : SubSeq(s, a + 1, a + n)[i] = s[a + i]
<1> DEFINE from == a + 1
           to == a + n
           p == SubSeq(s, from, to)
<1>1. from \in Nat \ {0} /\ to \in Nat /\ to <= Len(s)
  OBVIOUS
<1>2. to - from + 1 = n /\ (IF from <= to THEN n ELSE 0) = n
  OBVIOUS
<1>3. \A i \in 1 .. n : from + i - 1 = a + i
  OBVIOUS
<1> HIDE DEF from, to
<1>4. /\ p \in Seq(S) /\ Len(p) = IF from <= to THEN to - from + 1 ELSE 0
      /\ \A i \in 1 .. to - from + 1 : p[i] = s[from + i - 1]
  BY <1>1, PartOf
<1> HIDE DEF p
<1>5. p \in Seq(S) /\ Len(p) = n
  BY <1>2, <1>4
<1>6. ASSUME NEW i \in 1 .. n PROVE p[i] = s[a + i]
  <2>1. p[i] = s[from + i - 1]
    BY <1>2, <1>4
  <2>2. QED
    BY <1>3, <2>1
<1>7. QED
  BY <1>5, <1>6 DEF p, from, to

(* Parts at the same place with the same elements are the same. *)
SameAt(s, t, a, n) == \A k \in 1 .. n : s[a + k] = t[a + k]

LEMMA SamePart ==
  ASSUME NEW S, NEW s \in Seq(S), NEW t \in Seq(S), NEW a \in Nat, NEW n \in Nat,
         a + n <= Len(s), a + n <= Len(t), SameAt(s, t, a, n)
  PROVE  SubSeq(s, a + 1, a + n) = SubSeq(t, a + 1, a + n)
<1> DEFINE p == SubSeq(s, a + 1, a + n)
           q == SubSeq(t, a + 1, a + n)
<1>1. p \in Seq(S) /\ Len(p) = n /\ \A i \in 1 .. n : p[i] = s[a + i]
  BY PartAt
<1>2. q \in Seq(S) /\ Len(q) = n /\ \A i \in 1 .. n : q[i] = t[a + i]
  BY PartAt
<1> HIDE DEF p, q
<1>3. \A i \in 1 .. n : p[i] = q[i]
  BY <1>1, <1>2 DEF SameAt
<1>4. p = q
  BY <1>1, <1>2, <1>3, SeqEqual
<1>5. QED
  BY <1>4 DEF p, q
=============================================================================
