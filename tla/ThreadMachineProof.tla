------------------------- MODULE ThreadMachineProof -------------------------
(***************************************************************************)
(* The calls of a thread, for any code, any functions and any depth: where *)
(* the locals of every activation are in the block that they share, what   *)
(* alloc, free and a copy of arguments leave of them, and that the machine *)
(* keeps what CallFrames promises.                                         *)
(***************************************************************************)
EXTENDS ThreadMachine, ListLinksProof, FiniteSetTheorems
-----------------------------------------------------------------------------
LEMMA ZerosOf ==
  ASSUME NEW n \in Nat
  PROVE  Zeros(n) \in Seq(Word) /\ Len(Zeros(n)) = n /\ \A i \in 1 .. n : Zeros(n)[i] = 0
<1>1. 0 \in Word
  BY MachineAssumption
<1>2. QED
  BY <1>1 DEF Zeros
-----------------------------------------------------------------------------
(* Where the locals begin. *)

BeginRule(f, sizes, n) ==
  f = [i \in 1 .. n + 1 |-> IF i = 1 THEN 0 ELSE f[i - 1] + sizes[i - 1]]

LEMMA BeginExists ==
  ASSUME NEW sizes \in Seq(Nat)
  PROVE  \A n \in 0 .. Len(sizes) : \E f : BeginRule(f, sizes, n)
<1> DEFINE T == {n \in 0 .. Len(sizes) : ~ \E f : BeginRule(f, sizes, n)}
<1> SUFFICES ASSUME T # {} PROVE FALSE
  OBVIOUS
<1>1. PICK n \in T : \A k \in T : n <= k
  <2>1. T \subseteq Nat
    OBVIOUS
  <2> HIDE DEF T
  <2>2. QED
    BY <2>1, LeastOf
<1>2. n # 0
  <2> DEFINE f == [i \in 1 .. 1 |-> 0]
  <2>1. f = [i \in 1 .. 0 + 1 |-> IF i = 1 THEN 0 ELSE f[i - 1] + sizes[i - 1]]
    OBVIOUS
  <2>2. QED
    BY <1>1, <2>1 DEF BeginRule
<1>3. n - 1 \in 0 .. Len(sizes) /\ n - 1 \notin T
  BY <1>1, <1>2
<1>4. PICK f : BeginRule(f, sizes, n - 1)
  BY <1>3
<1> DEFINE g == [i \in 1 .. n + 1 |-> IF i = n + 1 THEN f[n] + sizes[n] ELSE f[i]]
<1>5. f = [i \in 1 .. n |-> IF i = 1 THEN 0 ELSE f[i - 1] + sizes[i - 1]]
  BY <1>1, <1>4 DEF BeginRule
<1>6. \A i \in 1 .. n + 1 : g[i] = IF i = 1 THEN 0 ELSE g[i - 1] + sizes[i - 1]
  <2> SUFFICES ASSUME NEW i \in 1 .. n + 1
               PROVE  g[i] = IF i = 1 THEN 0 ELSE g[i - 1] + sizes[i - 1]
    OBVIOUS
  <2>1. CASE i = n + 1
    BY <1>1, <1>2, <2>1
  <2>2. CASE i # n + 1
    <3>1. i \in 1 .. n /\ g[i] = f[i]
      BY <1>1, <2>2
    <3>2. i # 1 => i - 1 \in 1 .. n + 1 /\ i - 1 # n + 1 /\ g[i - 1] = f[i - 1]
      BY <1>1, <2>2
    <3>3. QED
      BY <1>5, <3>1, <3>2
  <2>3. QED
    BY <2>1, <2>2
<1>7. BeginRule(g, sizes, n)
  BY <1>6 DEF BeginRule
<1>8. QED
  BY <1>1, <1>7

LEMMA BeginsOf ==
  ASSUME NEW sizes \in Seq(Nat)
  PROVE  LET b == Begins(sizes)
         IN /\ b[1] = 0
            /\ \A i \in 1 .. Len(sizes) : b[i + 1] = b[i] + sizes[i]
            /\ \A i \in 1 .. Len(sizes) + 1 : b[i] \in Nat
<1> DEFINE n == Len(sizes)
           b == Begins(sizes)
<1>1. n \in Nat /\ \A i \in 1 .. n : sizes[i] \in Nat
  OBVIOUS
<1>2. b = CHOOSE f : BeginRule(f, sizes, n)
  BY DEF Begins, BeginRule
<1>3. n \in 0 .. Len(sizes)
  BY <1>1
<1>4. \E f : BeginRule(f, sizes, n)
  BY <1>3, BeginExists
<1>5. b = [i \in 1 .. n + 1 |-> IF i = 1 THEN 0 ELSE b[i - 1] + sizes[i - 1]]
  BY <1>2, <1>4 DEF BeginRule
<1> HIDE DEF n, b
<1>6. b[1] = 0 /\ \A i \in 1 .. n : b[i + 1] = b[i] + sizes[i]
  <2>1. 1 \in 1 .. n + 1
    BY <1>1
  <2>2. ASSUME NEW i \in 1 .. n PROVE b[i + 1] = b[i] + sizes[i]
    <3>1. i + 1 \in 1 .. n + 1 /\ i + 1 # 1 /\ (i + 1) - 1 = i
      BY <1>1
    <3>2. QED
      BY <1>5, <3>1
  <2>3. QED
    BY <1>5, <2>1, <2>2
<1>7. \A i \in 1 .. n + 1 : b[i] \in Nat
  <2> DEFINE T == {i \in 1 .. n + 1 : b[i] \notin Nat}
  <2> SUFFICES ASSUME T # {} PROVE FALSE
    OBVIOUS
  <2>1. T \subseteq Nat
    BY <1>1
  <2>2. PICK i \in T : \A k \in T : i <= k
    BY <2>1, LeastOf
  <2>3. i # 1
    BY <1>6
  <2>4. i - 1 \in 1 .. n /\ i - 1 \notin T
    BY <1>1, <2>2, <2>3
  <2>5. b[i - 1] \in Nat /\ b[i] = b[i - 1] + sizes[i - 1]
    <3>1. (i - 1) + 1 = i /\ i - 1 \in 1 .. n + 1
      BY <1>1, <2>4
    <3>2. QED
      BY <1>6, <2>4, <3>1
  <2>6. QED
    BY <1>1, <2>2, <2>4, <2>5
<1>8. QED
  BY <1>6, <1>7 DEF n, b

(* The locals of an activation end where those of one inside of it begin, or before. *)
LEMMA BeginsInOrder ==
  ASSUME NEW sizes \in Seq(Nat), NEW i \in 1 .. Len(sizes)
  PROVE  Begins(sizes)[i] + sizes[i] <= Begins(sizes)[Len(sizes) + 1]
<1> DEFINE n == Len(sizes)
           b == Begins(sizes)
           T == {k \in 1 .. n + 1 : k > i /\ ~ (b[i] + sizes[i] <= b[k])}
<1>1. /\ n \in Nat /\ \A k \in 1 .. n : sizes[k] \in Nat /\ b[k + 1] = b[k] + sizes[k]
      /\ \A k \in 1 .. n + 1 : b[k] \in Nat
  BY BeginsOf
<1> HIDE DEF b
<1>2. ASSUME T # {} PROVE FALSE
  <2>0. T \subseteq Nat
    BY <1>1
  <2>1. PICK k \in T : \A l \in T : k <= l
    BY <1>2, <2>0, LeastOf
  <2>2. k # i + 1
    <3>1. b[i + 1] = b[i] + sizes[i] /\ b[i] \in Nat /\ sizes[i] \in Nat
      BY <1>1
    <3>2. QED
      BY <2>1, <3>1
  <2>3. k - 1 \in 1 .. n + 1 /\ k - 1 > i /\ k - 1 \notin T /\ k - 1 \in 1 .. n
    BY <1>1, <2>1, <2>2
  <2>4. b[i] + sizes[i] <= b[k - 1]
    BY <2>3
  <2>5. b[k] = b[k - 1] + sizes[k - 1] /\ b[k - 1] \in Nat /\ sizes[k - 1] \in Nat
    <3>1. (k - 1) + 1 = k
      BY <1>1, <2>1
    <3>2. QED
      BY <1>1, <2>3, <3>1
  <2>6. b[i] \in Nat /\ sizes[i] \in Nat
    BY <1>1
  <2>7. b[i] + sizes[i] <= b[k]
    BY <2>4, <2>5, <2>6
  <2>8. QED
    BY <2>1, <2>7
<1>3. n + 1 \in 1 .. n + 1 /\ n + 1 > i
  BY <1>1
<1>4. QED
  BY <1>2, <1>3 DEF b

(* They do not depend on the activations inside. *)
LEMMA BeginsOfOuter ==
  ASSUME NEW s \in Seq(Nat), NEW t \in Seq(Nat), Len(s) <= Len(t),
         \A i \in 1 .. Len(s) : s[i] = t[i]
  PROVE  \A i \in 1 .. Len(s) + 1 : Begins(s)[i] = Begins(t)[i]
<1> DEFINE n == Len(s)
           b == Begins(s)
           c == Begins(t)
           T == {i \in 1 .. n + 1 : b[i] # c[i]}
<1>1. /\ n \in Nat /\ b[1] = 0 /\ c[1] = 0
      /\ \A i \in 1 .. n : b[i + 1] = b[i] + s[i] /\ c[i + 1] = c[i] + s[i]
  <2>1. \A i \in 1 .. n : i \in 1 .. Len(t)
    OBVIOUS
  <2>2. QED
    BY <2>1, BeginsOf
<1> HIDE DEF b, c, n
<1> SUFFICES ASSUME T # {} PROVE FALSE
  BY DEF n, b, c
<1>2. PICK i \in T : \A k \in T : i <= k
  <2>1. T \subseteq Nat
    BY <1>1
  <2> HIDE DEF T
  <2>2. QED
    BY <2>1, LeastOf
<1>3. i # 1
  BY <1>1
<1>4. i - 1 \in 1 .. n /\ i - 1 \in 1 .. n + 1 /\ i - 1 \notin T /\ (i - 1) + 1 = i
  BY <1>1, <1>2, <1>3
<1>5. b[i - 1] = c[i - 1]
  BY <1>4
<1>6. QED
  BY <1>1, <1>2, <1>4, <1>5
-----------------------------------------------------------------------------
(* The store of the locals. *)

(* The locals of the innermost activation. *)
LEMMA InnerSlice ==
  ASSUME NEW st, NEW sizes, StoreOK(st, sizes)
  PROVE  LET s == Slice(st, sizes, Len(sizes) + 1)
         IN /\ s \in Seq(Word) /\ Len(s) = Size(st) /\ Size(st) \in Nat
            /\ \A k \in 1 .. Size(st) : s[k] = st.words[st.active + k]
<1> DEFINE s == Slice(st, sizes, Len(sizes) + 1)
           a == st.active
           w == st.words
           l == Len(w)
<1>1. w \in Seq(Word) /\ a \in Nat /\ l \in Nat /\ a <= l
  BY DEF StoreOK, StoreType
<1>2. s = SubSeq(w, a + 1, l)
  BY DEF Slice
<1>3. Size(st) = l - a
  BY DEF Size
<1> HIDE DEF w, a, s
<1>4. /\ s \in Seq(Word) /\ Len(s) = IF a + 1 <= l THEN l - (a + 1) + 1 ELSE 0
      /\ \A i \in 1 .. l - (a + 1) + 1 : s[i] = w[(a + 1) + i - 1]
  <2>1. a + 1 \in Nat \ {0} /\ l \in Nat /\ l <= Len(w)
    BY <1>1
  <2>2. QED
    BY <1>1, <1>2, <2>1, PartOf
<1>5. Len(s) = l - a /\ l - a \in Nat
  BY <1>1, <1>4
<1>6. ASSUME NEW k \in 1 .. l - a PROVE s[k] = w[a + k]
  <2>1. k \in 1 .. l - (a + 1) + 1 /\ (a + 1) + k - 1 = a + k
    BY <1>1
  <2>2. QED
    BY <1>4, <2>1
<1>7. QED
  BY <1>3, <1>4, <1>5, <1>6 DEF w, a, s

(* Those of the others are in front of them. *)
LEMMA OuterSlice ==
  ASSUME NEW st, NEW sizes, StoreOK(st, sizes), NEW i \in 1 .. Len(sizes)
  PROVE  /\ Begins(sizes)[i] \in Nat /\ sizes[i] \in Nat
         /\ Begins(sizes)[i] + sizes[i] <= st.active
         /\ Slice(st, sizes, i)
              = SubSeq(st.words, Begins(sizes)[i] + 1, Begins(sizes)[i] + sizes[i])
<1>1. sizes \in Seq(Nat) /\ st.active = Begins(sizes)[Len(sizes) + 1]
  BY DEF StoreOK
<1>2. i \in 1 .. Len(sizes) + 1 /\ i # Len(sizes) + 1 /\ sizes[i] \in Nat
  BY <1>1
<1>3. Begins(sizes)[i] \in Nat
  BY <1>1, <1>2, BeginsOf
<1>4. Begins(sizes)[i] + sizes[i] <= st.active
  BY <1>1, BeginsInOrder
<1>5. QED
  BY <1>2, <1>3, <1>4 DEF Slice

(* Two stores with the same words up to the locals of an activation have the *)
(* same locals of those around it.                                          *)
LEMMA SlicesBelow ==
  ASSUME NEW s1, NEW sz1, NEW s2, NEW sz2, StoreOK(s1, sz1), StoreOK(s2, sz2),
         Len(sz1) <= Len(sz2), \A i \in 1 .. Len(sz1) : sz1[i] = sz2[i],
         \A k \in 1 .. s1.active : s1.words[k] = s2.words[k]
  PROVE  /\ s1.active <= s2.active
         /\ \A i \in 1 .. Len(sz1) : Slice(s1, sz1, i) = Slice(s2, sz2, i)
<1>1. /\ s1.words \in Seq(Word) /\ s2.words \in Seq(Word) /\ sz1 \in Seq(Nat) /\ sz2 \in Seq(Nat)
      /\ s1.active \in Nat /\ s1.active <= Len(s1.words) /\ Len(s1.words) \in Nat
      /\ s2.active \in Nat /\ s2.active <= Len(s2.words) /\ Len(s2.words) \in Nat
      /\ s1.active = Begins(sz1)[Len(sz1) + 1]
      /\ s2.active = Begins(sz2)[Len(sz2) + 1]
  BY DEF StoreOK, StoreType
<1>2. Len(sz1) \in Nat /\ Len(sz2) \in Nat
  BY <1>1
<1>3. \A i \in 1 .. Len(sz1) + 1 : Begins(sz1)[i] = Begins(sz2)[i]
  BY <1>1, BeginsOfOuter
<1>4. s1.active <= s2.active
  <2>1. CASE Len(sz1) = Len(sz2)
    <3>1. Len(sz1) + 1 \in 1 .. Len(sz1) + 1
      BY <1>2
    <3>2. Begins(sz1)[Len(sz1) + 1] = Begins(sz2)[Len(sz2) + 1]
      BY <1>3, <2>1, <3>1
    <3>3. QED
      BY <1>1, <3>2
  <2>2. CASE Len(sz1) # Len(sz2)
    <3>1. Len(sz1) + 1 \in 1 .. Len(sz2)
      BY <1>2, <2>2
    <3>2. /\ Begins(sz2)[Len(sz1) + 1] + sz2[Len(sz1) + 1] <= s2.active
          /\ sz2[Len(sz1) + 1] \in Nat
      BY <3>1, OuterSlice
    <3>3. Len(sz1) + 1 \in 1 .. Len(sz1) + 1
      BY <1>2
    <3>4. s1.active + sz2[Len(sz1) + 1] <= s2.active
      BY <1>1, <1>3, <3>2, <3>3
    <3>5. QED
      BY <1>1, <3>2, <3>4
  <2>3. QED
    BY <2>1, <2>2
<1>5. ASSUME NEW i \in 1 .. Len(sz1) PROVE Slice(s1, sz1, i) = Slice(s2, sz2, i)
  <2> DEFINE b == Begins(sz1)[i]
             n == sz1[i]
  <2>1. /\ b \in Nat /\ n \in Nat /\ b + n <= s1.active
        /\ Slice(s1, sz1, i) = SubSeq(s1.words, b + 1, b + n)
    BY OuterSlice
  <2>2. i \in 1 .. Len(sz2) /\ i \in 1 .. Len(sz1) + 1
    BY <1>2
  <2>3. b = Begins(sz2)[i] /\ n = sz2[i]
    BY <1>3, <2>2
  <2>4. Slice(s2, sz2, i) = SubSeq(s2.words, b + 1, b + n)
    <3>1. Slice(s2, sz2, i)
            = SubSeq(s2.words, Begins(sz2)[i] + 1, Begins(sz2)[i] + sz2[i])
      BY <2>2, OuterSlice
    <3>2. QED
      BY <2>3, <3>1
  <2> HIDE DEF b, n
  <2>5. b + n <= Len(s1.words) /\ b + n <= Len(s2.words)
    <3> DEFINE a1 == s1.active
               a2 == s2.active
               l1 == Len(s1.words)
               l2 == Len(s2.words)
    <3>1. /\ a1 \in Nat /\ a2 \in Nat /\ l1 \in Nat /\ l2 \in Nat /\ b \in Nat /\ n \in Nat
          /\ a1 <= l1 /\ a2 <= l2 /\ a1 <= a2 /\ b + n <= a1
      BY <1>1, <1>4, <2>1
    <3> HIDE DEF a1, a2, l1, l2
    <3>2. b + n <= l1 /\ b + n <= l2
      BY <3>1
    <3>3. QED
      BY <3>2 DEF l1, l2
  <2>6. ASSUME NEW k \in 1 .. n PROVE s1.words[b + k] = s2.words[b + k]
    <3> DEFINE a1 == s1.active
    <3>1. a1 \in Nat /\ b \in Nat /\ n \in Nat /\ b + n <= a1
      BY <1>1, <2>1
    <3>2. b + k \in 1 .. a1
      <4> HIDE DEF a1
      <4>1. QED
        BY <3>1
    <3>3. QED
      BY <3>2
  <2> DEFINE w1 == s1.words
             w2 == s2.words
  <2>7. /\ w1 \in Seq(Word) /\ w2 \in Seq(Word) /\ b + n <= Len(w1) /\ b + n <= Len(w2)
        /\ b \in Nat /\ n \in Nat /\ \A k \in 1 .. n : w1[b + k] = w2[b + k]
    BY <1>1, <2>1, <2>5, <2>6
  <2> HIDE DEF w1, w2
  <2>8. SubSeq(w1, b + 1, b + n) = SubSeq(w2, b + 1, b + n)
    <3>1. SameAt(w1, w2, b, n)
      BY <2>7 DEF SameAt
    <3>2. QED
      BY <2>7, <3>1, SamePart
  <2>9. QED
    BY <2>1, <2>4, <2>8 DEF w1, w2
<1>6. QED
  BY <1>4, <1>5

(* The locals of an activation do not change when a call puts others behind them. *)
LEMMA SliceCalled ==
  ASSUME NEW s1, NEW sz1, NEW s2, NEW sz2, StoreOK(s1, sz1), StoreOK(s2, sz2),
         Len(sz1) < Len(sz2), \A i \in 1 .. Len(sz1) : sz1[i] = sz2[i],
         sz2[Len(sz1) + 1] = Size(s1),
         \A k \in 1 .. Len(s1.words) : s1.words[k] = s2.words[k]
  PROVE  \A i \in 1 .. Len(sz1) + 1 : Slice(s1, sz1, i) = Slice(s2, sz2, i)
<1> DEFINE n == Len(sz1)
<1>1. /\ s1.words \in Seq(Word) /\ s2.words \in Seq(Word) /\ sz1 \in Seq(Nat) /\ sz2 \in Seq(Nat)
      /\ s1.active \in Nat /\ s1.active <= Len(s1.words) /\ Len(s1.words) \in Nat
      /\ s2.active \in Nat /\ s2.active <= Len(s2.words) /\ Len(s2.words) \in Nat
      /\ s1.active = Begins(sz1)[Len(sz1) + 1]
  BY DEF StoreOK, StoreType
<1>2. n \in Nat /\ Len(sz2) \in Nat /\ n + 1 \in 1 .. Len(sz2) /\ n + 1 \in 1 .. n + 1
  BY <1>1
<1>3. \A i \in 1 .. n : Slice(s1, sz1, i) = Slice(s2, sz2, i)
  <2>1. \A k \in 1 .. s1.active : s1.words[k] = s2.words[k]
    BY <1>1
  <2>2. QED
    BY <1>2, <2>1, SlicesBelow
<1>4. Slice(s1, sz1, n + 1) = Slice(s2, sz2, n + 1)
  <2> DEFINE a == s1.active
             l == Size(s1)
  <2>1. a = Begins(sz2)[n + 1] /\ l = sz2[n + 1]
    <3>1. Len(sz1) <= Len(sz2)
      BY <1>2
    <3>2. Begins(sz1)[n + 1] = Begins(sz2)[n + 1]
      BY <1>1, <1>2, <3>1, BeginsOfOuter
    <3>3. QED
      BY <1>1, <3>2
  <2>2. /\ l \in Nat /\ a + l = Len(s1.words)
        /\ Slice(s1, sz1, n + 1) = SubSeq(s1.words, a + 1, a + l)
    <3>1. l = Len(s1.words) - a /\ a \in Nat /\ Len(s1.words) \in Nat /\ a <= Len(s1.words)
      BY <1>1 DEF Size
    <3>2. Slice(s1, sz1, n + 1) = SubSeq(s1.words, a + 1, Len(s1.words))
      BY DEF Slice
    <3>3. a + l = Len(s1.words) /\ l \in Nat
      BY <3>1
    <3>4. QED
      BY <3>2, <3>3
  <2>3. /\ a + l <= s2.active
        /\ Slice(s2, sz2, n + 1) = SubSeq(s2.words, a + 1, a + l)
    <3>1. /\ Begins(sz2)[n + 1] + sz2[n + 1] <= s2.active
          /\ Slice(s2, sz2, n + 1)
               = SubSeq(s2.words, Begins(sz2)[n + 1] + 1, Begins(sz2)[n + 1] + sz2[n + 1])
      BY <1>2, OuterSlice
    <3>2. QED
      BY <2>1, <3>1
  <2>4. a \in Nat
    BY <1>1
  <2> HIDE DEF a, l
  <2>5. a + l <= Len(s1.words) /\ a + l <= Len(s2.words)
    <3>1. s2.active \in Nat /\ Len(s2.words) \in Nat /\ s2.active <= Len(s2.words)
      BY <1>1
    <3>2. QED
      BY <2>2, <2>3, <2>4, <3>1
  <2>6. \A k \in 1 .. l : s1.words[a + k] = s2.words[a + k]
    BY <1>1, <2>2, <2>4
  <2> DEFINE w1 == s1.words
             w2 == s2.words
  <2>7. /\ w1 \in Seq(Word) /\ w2 \in Seq(Word) /\ a + l <= Len(w1) /\ a + l <= Len(w2)
        /\ a \in Nat /\ l \in Nat /\ \A k \in 1 .. l : w1[a + k] = w2[a + k]
    BY <1>1, <2>2, <2>4, <2>5, <2>6
  <2> HIDE DEF w1, w2
  <2>8. SubSeq(w1, a + 1, a + l) = SubSeq(w2, a + 1, a + l)
    <3>1. SameAt(w1, w2, a, l)
      BY <2>7 DEF SameAt
    <3>2. QED
      BY <2>7, <3>1, SamePart
  <2>9. QED
    BY <2>2, <2>3, <2>8 DEF w1, w2
<1>5. \A i \in 1 .. n + 1 : i \in 1 .. n \/ i = n + 1
  BY <1>2
<1>6. QED
  BY <1>3, <1>4, <1>5
-----------------------------------------------------------------------------
(* The operations on a store. *)

(* alloc: others behind, all of them 0. *)
Allocated(st, sizes, n, new, sz) ==
  /\ StoreOK(new, sz) /\ Len(sz) = Len(sizes) + 1
  /\ new.words = st.words \o Zeros(n) /\ new.active = Len(st.words)
  /\ Size(new) = n
  /\ \A i \in 1 .. Len(sizes) + 1 : Slice(new, sz, i) = Slice(st, sizes, i)
  /\ Slice(new, sz, Len(sizes) + 2) = Zeros(n)

LEMMA AllocOf ==
  ASSUME NEW st, NEW sizes, StoreOK(st, sizes), NEW n \in Nat
  PROVE  Allocated(st, sizes, n, Alloc(st, n), Append(sizes, Size(st)))
<1> DEFINE new == Alloc(st, n)
           sz  == Append(sizes, Size(st))
           w   == st.words
           m   == Len(sizes)
<1>1. /\ w \in Seq(Word) /\ sizes \in Seq(Nat) /\ m \in Nat /\ Len(w) \in Nat
      /\ st.active \in Nat /\ st.active <= Len(w)
      /\ st.active = Begins(sizes)[m + 1]
  BY DEF StoreOK, StoreType
<1>2. new.words = w \o Zeros(n) /\ new.active = Len(w) /\ new = [words |-> new.words, active |-> new.active]
  BY DEF Alloc
<1>3. Zeros(n) \in Seq(Word) /\ Len(Zeros(n)) = n /\ \A i \in 1 .. n : Zeros(n)[i] = 0
  BY ZerosOf
<1>4. /\ new.words \in Seq(Word) /\ Len(new.words) = Len(w) + n
      /\ \A k \in 1 .. Len(w) : new.words[k] = w[k]
      /\ \A k \in 1 .. n : new.words[Len(w) + k] = Zeros(n)[k]
  <2> DEFINE z == Zeros(n)
  <2>1. z \in Seq(Word) /\ Len(z) = n
    BY <1>3
  <2> HIDE DEF z, w
  <2>2. /\ w \o z \in Seq(Word) /\ Len(w \o z) = Len(w) + Len(z)
        /\ \A i \in 1 .. Len(w) + Len(z) : (w \o z)[i] = IF i <= Len(w) THEN w[i] ELSE z[i - Len(w)]
    BY <1>1, <2>1, ConcatProperties
  <2>3. ASSUME NEW k \in 1 .. n PROVE (w \o z)[Len(w) + k] = z[k]
    <3>1. Len(w) + k \in 1 .. Len(w) + Len(z) /\ ~ (Len(w) + k <= Len(w)) /\ (Len(w) + k) - Len(w) = k
      BY <1>1, <2>1
    <3>2. QED
      BY <2>2, <3>1
  <2>4. \A k \in 1 .. Len(w) : (w \o z)[k] = w[k]
    BY <1>1, <2>1, <2>2
  <2>5. new.words = w \o z
    BY <1>2 DEF z, w
  <2>6. QED
    BY <2>1, <2>2, <2>3, <2>4, <2>5 DEF z
<1>5. Size(st) \in Nat /\ Size(st) = Len(w) - st.active
  BY <1>1 DEF Size
<1>6. /\ sz \in Seq(Nat) /\ Len(sz) = m + 1 /\ sz[m + 1] = Size(st)
      /\ \A i \in 1 .. m : sz[i] = sizes[i]
  BY <1>1, <1>5
<1> HIDE DEF sz, new, w
<1>7. new.active = Begins(sz)[Len(sz) + 1]
  <2>1. Begins(sz)[m + 1] = Begins(sizes)[m + 1]
    <3>1. m + 1 \in 1 .. Len(sizes) + 1
      BY <1>1
    <3>2. Len(sizes) <= Len(sz) /\ \A i \in 1 .. Len(sizes) : sizes[i] = sz[i]
      BY <1>1, <1>6
    <3>3. QED
      BY <1>1, <1>6, <3>1, <3>2, BeginsOfOuter
  <2>2. Begins(sz)[(m + 1) + 1] = Begins(sz)[m + 1] + sz[m + 1]
    <3>1. m + 1 \in 1 .. Len(sz)
      BY <1>1, <1>6
    <3>2. QED
      BY <1>6, <3>1, BeginsOf
  <2>3. QED
    BY <1>1, <1>2, <1>5, <1>6, <2>1, <2>2
<1>8. StoreOK(new, sz)
  <2>1. new.active \in Nat /\ new.active <= Len(new.words)
    BY <1>1, <1>2, <1>4
  <2>2. new \in StoreType
    BY <1>2, <1>4, <2>1 DEF StoreType
  <2>3. QED
    BY <1>6, <1>7, <2>1, <2>2 DEF StoreOK
<1>9. \A i \in 1 .. m + 1 : Slice(new, sz, i) = Slice(st, sizes, i)
  <2>1. Len(sizes) < Len(sz)
    BY <1>1, <1>6
  <2>2. QED
    <3>1. \A i \in 1 .. Len(sizes) : sizes[i] = sz[i]
      BY <1>6
    <3>2. \A k \in 1 .. Len(st.words) : st.words[k] = new.words[k]
      BY <1>4 DEF w
    <3>3. \A i \in 1 .. Len(sizes) + 1 : Slice(st, sizes, i) = Slice(new, sz, i)
      BY <1>6, <1>8, <2>1, <3>1, <3>2, SliceCalled
    <3>4. QED
      BY <3>3
<1>10. Size(new) = n
  BY <1>1, <1>2, <1>4 DEF Size
<1>11. Slice(new, sz, m + 2) = Zeros(n)
  <2> DEFINE s == Slice(new, sz, Len(sz) + 1)
  <2>1. /\ s \in Seq(Word) /\ Len(s) = n
        /\ \A k \in 1 .. n : s[k] = new.words[new.active + k]
    BY <1>8, <1>10, InnerSlice
  <2> HIDE DEF s
  <2>2. \A k \in 1 .. n : s[k] = Zeros(n)[k]
    BY <1>2, <1>4, <2>1
  <2>3. s = Zeros(n)
    BY <1>3, <2>1, <2>2, SeqEqual
  <2>4. Len(sz) + 1 = m + 2
    BY <1>1, <1>6
  <2>5. QED
    BY <2>3, <2>4 DEF s
<1>12. Allocated(st, sizes, n, new, sz)
  BY <1>2, <1>6, <1>8, <1>9, <1>10, <1>11 DEF w, Allocated
<1>13. QED
  BY <1>12 DEF sz, new
-----------------------------------------------------------------------------
(* A store in which only locals of the innermost activation change. *)
LEMMA WriteOf ==
  ASSUME NEW st, NEW sizes, StoreOK(st, sizes), NEW new \in StoreType,
         new.active = st.active, Len(new.words) = Len(st.words),
         \A k \in 1 .. st.active : new.words[k] = st.words[k]
  PROVE  /\ StoreOK(new, sizes) /\ Size(new) = Size(st)
         /\ \A i \in 1 .. Len(sizes) : Slice(new, sizes, i) = Slice(st, sizes, i)
<1>1. StoreOK(new, sizes) /\ Size(new) = Size(st)
  BY DEF StoreOK, Size
<1>2. sizes \in Seq(Nat) /\ Len(sizes) <= Len(sizes)
  BY DEF StoreOK
<1>3. \A i \in 1 .. Len(sizes) : Slice(st, sizes, i) = Slice(new, sizes, i)
  BY <1>1, <1>2, SlicesBelow
<1>4. QED
  BY <1>1, <1>3

(* An assignment to a local variable. *)
LEMMA SetLocalOf ==
  ASSUME NEW st, NEW sizes, StoreOK(st, sizes), NEW i \in 1 .. Size(st), NEW w \in Word
  PROVE  LET new == SetLocal(st, i, w)
         IN /\ StoreOK(new, sizes) /\ Size(new) = Size(st)
            /\ \A j \in 1 .. Len(sizes) : Slice(new, sizes, j) = Slice(st, sizes, j)
            /\ Local(st, i) \in Word
<1> DEFINE new == SetLocal(st, i, w)
           a == st.active
           v == st.words
<1>1. v \in Seq(Word) /\ a \in Nat /\ a <= Len(v) /\ Len(v) \in Nat
  BY DEF StoreOK, StoreType
<1>2. a + i \in 1 .. Len(v) /\ a + i > a
  BY <1>1 DEF Size
<1>3. new = [words |-> [v EXCEPT ![a + i] = w], active |-> a]
  <2>1. st = [words |-> v, active |-> a]
    BY DEF StoreOK, StoreType
  <2> HIDE DEF v, a
  <2>2. QED
    BY <2>1 DEF SetLocal
<1> DEFINE u == [v EXCEPT ![a + i] = w]
<1>4. u \in Seq(Word) /\ Len(u) = Len(v) /\ \A k \in 1 .. a : u[k] = v[k]
  BY <1>1, <1>2
<1> HIDE DEF u
<1>5. new \in StoreType /\ new.active = a /\ new.words = u
  BY <1>1, <1>3, <1>4 DEF StoreType, u
<1> HIDE DEF new
<1>6. /\ StoreOK(new, sizes) /\ Size(new) = Size(st)
      /\ \A j \in 1 .. Len(sizes) : Slice(new, sizes, j) = Slice(st, sizes, j)
  BY <1>4, <1>5, WriteOf
<1>7. Local(st, i) \in Word
  BY <1>1, <1>2 DEF Local
<1>8. QED
  BY <1>6, <1>7 DEF new

(* Arguments are the first locals of the innermost activation. *)
Copied(st, sizes, args, new) ==
  /\ StoreOK(new, sizes) /\ Size(new) = Size(st)
  /\ \A i \in 1 .. Len(sizes) : Slice(new, sizes, i) = Slice(st, sizes, i)
  /\ Slice(st, sizes, Len(sizes) + 1) = Zeros(Size(st))
       => Slice(new, sizes, Len(sizes) + 1) = args \o Zeros(Size(st) - Len(args))

LEMMA CopyOf ==
  ASSUME NEW st, NEW sizes, StoreOK(st, sizes), NEW args \in Seq(Word), Len(args) <= Size(st)
  PROVE  Copied(st, sizes, args, CopyTo(st, args))
<1> DEFINE new == CopyTo(st, args)
           w == st.words
           a == st.active
           l == Len(w)
           c == Len(args)
           first == SubSeq(w, 1, a)
           rest  == SubSeq(w, a + c + 1, l)
           u == first \o args \o rest
<1>1. w \in Seq(Word) /\ a \in Nat /\ l \in Nat /\ a <= l /\ c \in Nat /\ a + c <= l
  <2>1. w \in Seq(Word) /\ a \in Nat /\ l \in Nat /\ a <= l /\ c \in Nat /\ Size(st) = l - a
    BY DEF StoreOK, StoreType, Size
  <2> HIDE DEF a, l, c
  <2>2. c <= l - a
    BY <2>1 DEF c
  <2>3. QED
    BY <2>1, <2>2
<1>2. new = [words |-> u, active |-> a]
  <2>1. st = [words |-> w, active |-> a]
    BY DEF StoreOK, StoreType
  <2>2. new = [st EXCEPT !.words = u]
    BY DEF CopyTo
  <2> HIDE DEF w, a, new, u
  <2>3. QED
    BY <2>1, <2>2
<1> HIDE DEF w, new
<1>3. first \in Seq(Word) /\ Len(first) = a /\ \A k \in 1 .. a : first[k] = w[k]
  BY <1>1, FirstOnes
<1>4. rest \in Seq(Word) /\ Len(rest) = l - (a + c) /\ \A k \in 1 .. l - (a + c) : rest[k] = w[a + c + k]
  <2> DEFINE m == a + c + 1
  <2>1. m \in Nat \ {0} /\ l \in Nat /\ l <= Len(w)
    BY <1>1
  <2> HIDE DEF m
  <2>2. /\ SubSeq(w, m, l) \in Seq(Word)
        /\ Len(SubSeq(w, m, l)) = IF m <= l THEN l - m + 1 ELSE 0
        /\ \A i \in 1 .. l - m + 1 : SubSeq(w, m, l)[i] = w[m + i - 1]
    <3> HIDE DEF l
    <3>1. QED
      BY <1>1, <2>1, PartOf
  <2>3. rest = SubSeq(w, m, l)
    BY DEF m
  <2> HIDE DEF rest, l, c, a
  <2>4. Len(rest) = l - (a + c)
    BY <1>1, <2>2, <2>3 DEF m
  <2>5. ASSUME NEW k \in 1 .. l - (a + c) PROVE rest[k] = w[a + c + k]
    <3>1. k \in 1 .. l - m + 1 /\ m + k - 1 = a + c + k
      BY <1>1 DEF m
    <3>2. QED
      BY <2>2, <2>3, <3>1
  <2>6. QED
    BY <2>2, <2>3, <2>4, <2>5
<1> HIDE DEF first, rest, a, l, c
<1> DEFINE fa == first \o args
<1>5. /\ fa \in Seq(Word) /\ Len(fa) = a + c
      /\ \A k \in 1 .. a + c : fa[k] = IF k <= a THEN first[k] ELSE args[k - a]
  BY <1>1, <1>3, ConcatProperties DEF c
<1>6. u = fa \o rest
  OBVIOUS
<1> HIDE DEF fa, u
<1>7. /\ u \in Seq(Word) /\ Len(u) = l
      /\ \A k \in 1 .. l : u[k] = IF k <= a + c THEN fa[k] ELSE rest[k - (a + c)]
  <2>1. /\ fa \o rest \in Seq(Word) /\ Len(fa \o rest) = Len(fa) + Len(rest)
        /\ \A k \in 1 .. Len(fa) + Len(rest) :
             (fa \o rest)[k] = IF k <= Len(fa) THEN fa[k] ELSE rest[k - Len(fa)]
    BY <1>4, <1>5, ConcatProperties
  <2>2. Len(fa) = a + c /\ Len(fa) + Len(rest) = l
    BY <1>1, <1>4, <1>5
  <2>3. QED
    BY <1>6, <2>1, <2>2
<1>8. /\ \A k \in 1 .. a : u[k] = w[k]
      /\ \A k \in 1 .. c : u[a + k] = args[k]
      /\ \A k \in c + 1 .. l - a : u[a + k] = w[a + k]
  <2>1. \A k \in 1 .. a : u[k] = w[k]
    BY <1>1, <1>3, <1>5, <1>7
  <2>2. ASSUME NEW k \in 1 .. c PROVE u[a + k] = args[k]
    <3>1. a + k \in 1 .. a + c /\ a + k \in 1 .. l /\ ~ (a + k <= a) /\ (a + k) - a = k /\ a + k <= a + c
      BY <1>1
    <3>2. QED
      BY <1>5, <1>7, <3>1
  <2>3. ASSUME NEW k \in c + 1 .. l - a PROVE u[a + k] = w[a + k]
    <3>1. /\ a + k \in 1 .. l /\ ~ (a + k <= a + c)
          /\ (a + k) - (a + c) \in 1 .. l - (a + c) /\ a + c + ((a + k) - (a + c)) = a + k
      BY <1>1
    <3>2. QED
      BY <1>4, <1>7, <3>1
  <2>4. QED
    BY <2>1, <2>2, <2>3
<1>9. new \in StoreType /\ new.active = st.active /\ new.words = u
  BY <1>1, <1>2, <1>7 DEF StoreType, a
<1>10. /\ StoreOK(new, sizes) /\ Size(new) = Size(st)
       /\ \A i \in 1 .. Len(sizes) : Slice(new, sizes, i) = Slice(st, sizes, i)
  <2>1. Len(new.words) = Len(st.words) /\ \A k \in 1 .. st.active : new.words[k] = st.words[k]
    BY <1>7, <1>8, <1>9 DEF l, w, a
  <2>2. QED
    BY <1>9, <2>1, WriteOf
<1>11. ASSUME Slice(st, sizes, Len(sizes) + 1) = Zeros(Size(st))
       PROVE  Slice(new, sizes, Len(sizes) + 1) = args \o Zeros(Size(st) - Len(args))
  <2> DEFINE s == Slice(new, sizes, Len(sizes) + 1)
             n == Size(st)
             z == Zeros(n - c)
  <2>1. n = l - a /\ n \in Nat /\ n - c \in Nat
    BY <1>1 DEF Size, l, w, a
  <2>2. s \in Seq(Word) /\ Len(s) = n /\ \A k \in 1 .. n : s[k] = u[a + k]
    BY <1>9, <1>10, InnerSlice DEF a
  <2>3. \A k \in 1 .. n : w[a + k] = 0
    <3>1. \A k \in 1 .. n : Slice(st, sizes, Len(sizes) + 1)[k] = w[a + k]
      BY InnerSlice DEF w, a
    <3>2. \A k \in 1 .. n : Zeros(n)[k] = 0
      BY <2>1, ZerosOf
    <3>3. QED
      BY <1>11, <3>1, <3>2
  <2>4. z \in Seq(Word) /\ Len(z) = n - c /\ \A k \in 1 .. n - c : z[k] = 0
    BY <2>1, ZerosOf
  <2> HIDE DEF s, n, z
  <2>5. /\ args \o z \in Seq(Word) /\ Len(args \o z) = n
        /\ \A k \in 1 .. n : (args \o z)[k] = IF k <= c THEN args[k] ELSE z[k - c]
    <3>1. /\ args \o z \in Seq(Word) /\ Len(args \o z) = Len(args) + Len(z)
          /\ \A k \in 1 .. Len(args) + Len(z) :
               (args \o z)[k] = IF k <= Len(args) THEN args[k] ELSE z[k - Len(args)]
      BY <2>4, ConcatProperties
    <3>2. Len(args) = c /\ Len(args) + Len(z) = n
      BY <1>1, <2>1, <2>4 DEF c
    <3>3. QED
      BY <3>1, <3>2
  <2>6. ASSUME NEW k \in 1 .. n PROVE s[k] = (args \o z)[k]
    <3>1. CASE k <= c
      <4>1. k \in 1 .. c
        BY <1>1, <2>1, <3>1
      <4>2. QED
        BY <1>8, <2>2, <2>5, <3>1, <4>1
    <3>2. CASE ~ (k <= c)
      <4>1. k \in c + 1 .. l - a /\ k - c \in 1 .. n - c
        BY <1>1, <2>1, <3>2
      <4>2. QED
        BY <1>8, <2>2, <2>3, <2>4, <2>5, <3>2, <4>1
    <3>3. QED
      BY <3>1, <3>2
  <2>7. s = args \o z
    BY <2>2, <2>5, <2>6, SeqEqual
  <2>8. QED
    BY <2>7 DEF s, z, n, c
<1>12. Copied(st, sizes, args, new)
  BY <1>10, <1>11 DEF Copied
<1>13. QED
  BY <1>12 DEF new

(* free: the locals of the activation that called are the innermost again. *)
LEMMA FreeOf ==
  ASSUME NEW st, NEW sizes, StoreOK(st, sizes), sizes # <<>>
  PROVE  LET new == Free(st, sizes[Len(sizes)])
             sz  == Front(sizes)
         IN /\ StoreOK(new, sz) /\ Len(sz) = Len(sizes) - 1
            /\ \A i \in 1 .. Len(sizes) : Slice(new, sz, i) = Slice(st, sizes, i)
<1> DEFINE n == Len(sizes)
           new == Free(st, sizes[n])
           sz == Front(sizes)
           w == st.words
           a == st.active
           u == SubSeq(w, 1, a)
<1>1. /\ w \in Seq(Word) /\ a \in Nat /\ a <= Len(w) /\ sizes \in Seq(Nat)
      /\ n \in Nat \ {0} /\ n \in 1 .. n /\ sizes[n] \in Nat
  <2>1. w \in Seq(Word) /\ a \in Nat /\ a <= Len(w) /\ sizes \in Seq(Nat)
    BY DEF StoreOK, StoreType
  <2>2. n \in Nat \ {0} /\ \A i \in 1 .. n : sizes[i] \in Nat
    BY <2>1
  <2> HIDE DEF n
  <2>3. n \in 1 .. n
    BY <2>2
  <2>4. QED
    BY <2>1, <2>2, <2>3
<1>2. new = [words |-> u, active |-> a - sizes[n]]
  BY DEF Free
<1>3. u \in Seq(Word) /\ Len(u) = a /\ \A k \in 1 .. a : u[k] = w[k]
  BY <1>1, FirstOnes
<1>4. sz \in Seq(Nat) /\ Len(sz) = n - 1 /\ \A i \in 1 .. n - 1 : sz[i] = sizes[i]
  <2> DEFINE m == n - 1
  <2>1. m \in Nat /\ m <= Len(sizes)
    BY <1>1
  <2>2. sz = SubSeq(sizes, 1, m)
    BY DEF Front
  <2> HIDE DEF m, sz, n
  <2>3. sz \in Seq(Nat) /\ Len(sz) = m /\ \A i \in 1 .. m : sz[i] = sizes[i]
    BY <1>1, <2>1, <2>2, FirstOnes
  <2>4. QED
    BY <2>3 DEF m
<1> HIDE DEF u, w, new, sz
<1>5. /\ Begins(sz)[n] = Begins(sizes)[n] /\ Begins(sizes)[n] \in Nat
      /\ a = Begins(sizes)[n] + sizes[n]
  <2>1. a = Begins(sizes)[n + 1]
    BY DEF StoreOK
  <2>2. Begins(sizes)[n + 1] = Begins(sizes)[n] + sizes[n]
    BY <1>1, BeginsOf
  <2>3. n \in 1 .. Len(sizes) + 1 /\ n \in 1 .. Len(sz) + 1
    BY <1>1, <1>4
  <2>4. Begins(sizes)[n] \in Nat
    BY <1>1, <2>3, BeginsOf
  <2>5. Len(sz) <= Len(sizes) /\ \A i \in 1 .. Len(sz) : sz[i] = sizes[i]
    BY <1>1, <1>4
  <2>6. Begins(sz)[n] = Begins(sizes)[n]
    BY <1>1, <1>4, <2>3, <2>5, BeginsOfOuter
  <2>7. QED
    BY <2>1, <2>2, <2>4, <2>6
<1> HIDE DEF a
<1>6. a - sizes[n] \in Nat /\ a - sizes[n] = Begins(sz)[n] /\ a - sizes[n] <= a
  BY <1>1, <1>5
<1>7. Len(sz) + 1 = n
  BY <1>1, <1>4
<1>8. StoreOK(new, sz)
  <2>1. new \in StoreType
    BY <1>2, <1>3, <1>6 DEF StoreType
  <2>2. new.active = Begins(sz)[Len(sz) + 1] /\ new.active <= Len(new.words)
    BY <1>2, <1>3, <1>6, <1>7
  <2>3. QED
    BY <1>4, <2>1, <2>2 DEF StoreOK
<1>9. \A i \in 1 .. n : Slice(new, sz, i) = Slice(st, sizes, i)
  <2>1. Len(sz) < Len(sizes) /\ \A i \in 1 .. Len(sz) : sz[i] = sizes[i]
    BY <1>1, <1>4
  <2>2. sizes[Len(sz) + 1] = Size(new)
    <3>1. Size(new) = a - (a - sizes[n])
      BY <1>2, <1>3 DEF Size
    <3>2. QED
      BY <1>1, <1>7, <3>1
  <2>3. \A k \in 1 .. Len(new.words) : new.words[k] = st.words[k]
    BY <1>2, <1>3 DEF w
  <2>4. QED
    BY <1>7, <1>8, <2>1, <2>2, <2>3, SliceCalled
<1>10. QED
  BY <1>4, <1>8, <1>9 DEF new, sz
-----------------------------------------------------------------------------
(* The activations that the machine's state stands for. *)

ActType == [module : Module, pc : Nat, regs : Seq(Word), arrs : Seq(Word)]

(* Slices are sequences of words. *)
LEMMA SliceType ==
  ASSUME NEW st, NEW sizes, StoreOK(st, sizes), NEW i \in 1 .. Len(sizes) + 1
  PROVE  Slice(st, sizes, i) \in Seq(Word)
<1>1. CASE i = Len(sizes) + 1
  BY <1>1, InnerSlice
<1>2. CASE i # Len(sizes) + 1
  <2>1. sizes \in Seq(Nat) /\ Len(sizes) \in Nat
    BY DEF StoreOK
  <2>2. i \in 1 .. Len(sizes)
    BY <1>2, <2>1
  <2> DEFINE b == Begins(sizes)[i]
             n == sizes[i]
             w == st.words
             l == Len(w)
             a == st.active
  <2>3. b \in Nat /\ n \in Nat /\ b + n <= a /\ Slice(st, sizes, i) = SubSeq(w, b + 1, b + n)
    BY <2>2, OuterSlice
  <2>4. w \in Seq(Word) /\ a <= l /\ a \in Nat /\ l \in Nat
    BY DEF StoreOK, StoreType
  <2> HIDE DEF b, n, w, a
  <2>5. b + 1 \in Nat \ {0} /\ b + n \in Nat /\ b + n <= l
    <3> HIDE DEF l
    <3>1. QED
      BY <2>3, <2>4
  <2>6. SubSeq(w, b + 1, b + n) \in Seq(Word)
    BY <2>4, <2>5, PartOf
  <2>7. QED
    BY <2>3, <2>6
<1>3. QED
  BY <1>1, <1>2

SizesFact ==
  /\ Len(callStk) \in Nat
  /\ DOMAIN callStk = 1 .. Len(callStk)
  /\ RegSizes \in Seq(Nat) /\ Len(RegSizes) = Len(callStk)
  /\ ArrSizes \in Seq(Nat) /\ Len(ArrSizes) = Len(callStk)
  /\ \A i \in 1 .. Len(callStk) : /\ callStk[i] \in FrameType
                                  /\ callStk[i].module \in Module
                                  /\ callStk[i].scopeMod = callStk[i].module
                                  /\ callStk[i].codePtr \in Nat
                                  /\ RegSizes[i] = callStk[i].locRegC
                                  /\ ArrSizes[i] = callStk[i].locArrC

(* The sizes are those of the frames. *)
LEMMA SizesOf == MachineInv => SizesFact
<1> SUFFICES ASSUME MachineInv PROVE SizesFact
  OBVIOUS
<1>1. callStk \in Seq(FrameType)
  BY DEF MachineInv
<1>2. /\ Len(callStk) \in Nat /\ DOMAIN callStk = 1 .. Len(callStk)
      /\ \A i \in 1 .. Len(callStk) : callStk[i] \in FrameType
  BY <1>1
<1>3. \A i \in 1 .. Len(callStk) : /\ callStk[i].module \in Module /\ callStk[i].codePtr \in Nat
                                   /\ callStk[i].locRegC \in Nat /\ callStk[i].locArrC \in Nat
  BY <1>2 DEF FrameType
<1>4. /\ RegSizes \in Seq(Nat) /\ Len(RegSizes) = Len(callStk)
      /\ \A i \in 1 .. Len(callStk) : RegSizes[i] = callStk[i].locRegC
  BY <1>2, <1>3 DEF RegSizes
<1>5. /\ ArrSizes \in Seq(Nat) /\ Len(ArrSizes) = Len(callStk)
      /\ \A i \in 1 .. Len(callStk) : ArrSizes[i] = callStk[i].locArrC
  BY <1>2, <1>3 DEF ArrSizes
<1>6. \A i \in 1 .. Len(callStk) : callStk[i].scopeMod = callStk[i].module
  BY <1>2 DEF MachineInv
<1>7. QED
  BY <1>2, <1>3, <1>4, <1>5, <1>6 DEF SizesFact

ActsFact ==
  /\ Activations \in Seq(ActType) /\ Len(Activations) = Depth /\ Depth \in Nat
  /\ Depth = Len(callStk) + 1
  /\ Activations # <<>>
  /\ \A i \in 1 .. Depth : Activations[i] = Activation(i) /\ Activation(i) \in ActType

LEMMA ActivationsOf == MachineInv /\ mode # "Inactive" => ActsFact
<1> SUFFICES ASSUME MachineInv, mode # "Inactive" PROVE ActsFact
  OBVIOUS
<1>1. Depth \in Nat /\ Depth = Len(callStk) + 1 /\ Depth # 0
  BY SizesOf DEF Depth, SizesFact
<1>2. ASSUME NEW i \in 1 .. Depth PROVE Activation(i) \in ActType
  <2>1. i \in 1 .. Len(RegSizes) + 1 /\ i \in 1 .. Len(ArrSizes) + 1
    BY <1>1, SizesOf DEF SizesFact
  <2>2. Slice(localReg, RegSizes, i) \in Seq(Word) /\ Slice(localArr, ArrSizes, i) \in Seq(Word)
    BY <2>1, SliceType DEF MachineInv
  <2>3. CASE i = Depth
    <3>1. module \in Module /\ codePtr \in Nat
      BY DEF MachineInv, Running
    <3>2. QED
      BY <2>2, <2>3, <3>1 DEF Activation, ActType
  <2>4. CASE i # Depth
    <3>1. i \in 1 .. Len(callStk)
      BY <1>1, <2>4
    <3>2. callStk[i].module \in Module /\ callStk[i].codePtr \in Nat
      BY <3>1, SizesOf DEF SizesFact
    <3>3. QED
      BY <2>2, <2>4, <3>2 DEF Activation, ActType
  <2>5. QED
    BY <2>3, <2>4
<1>3. Activations = [i \in 1 .. Depth |-> Activation(i)]
  BY DEF Activations
<1> DEFINE n == Depth
<1> HIDE DEF n
<1>4. Activations = [i \in 1 .. n |-> Activation(i)] /\ n \in Nat /\ n # 0
  BY <1>1, <1>3 DEF n
<1>5. \A i \in 1 .. n : Activation(i) \in ActType
  BY <1>2 DEF n
<1>6. /\ Activations \in Seq(ActType) /\ Len(Activations) = n
      /\ \A i \in 1 .. n : Activations[i] = Activation(i)
  BY <1>4, <1>5
<1>7. Activations # <<>>
  BY <1>4, <1>6
<1>8. QED
  BY <1>1, <1>5, <1>6, <1>7 DEF n, ActsFact

(* The same after a step. *)
LEMMA SizesAfter == MachineInv' => SizesFact'
BY SizesOf, PTL

LEMMA ActivationsAfter == MachineInv' /\ mode' # "Inactive" => ActsFact'
<1>1. (MachineInv /\ mode # "Inactive")' => ActsFact'
  BY ActivationsOf, PTL
<1>2. QED
  BY <1>1
-----------------------------------------------------------------------------
-----------------------------------------------------------------------------
(* A step of the innermost activation. *)
LEMMA StepMaps ==
  ASSUME MachineInv, MachineInv', mode # "Inactive", mode' # "Inactive",
         callStk' = callStk, module' = module,
         \A i \in 1 .. Len(RegSizes) : Slice(localReg', RegSizes, i) = Slice(localReg, RegSizes, i),
         \A i \in 1 .. Len(ArrSizes) : Slice(localArr', ArrSizes, i) = Slice(localArr, ArrSizes, i),
         Size(localReg') = Size(localReg), Size(localArr') = Size(localArr),
         \A v \in Module \ {module} : regV'[v] = regV[v]
  PROVE  ImplementsFrames!Step
<1> DEFINE n == Len(callStk)
           A == Activations
           B == Activations'
<1>1. /\ n \in Nat /\ Len(RegSizes) = n /\ Len(ArrSizes) = n
      /\ RegSizes' = RegSizes /\ ArrSizes' = ArrSizes
  BY SizesOf DEF SizesFact, RegSizes, ArrSizes
<1>2. /\ A \in Seq(ActType) /\ Len(A) = n + 1 /\ A # <<>>
      /\ \A i \in 1 .. n + 1 : A[i] = Activation(i)
  BY ActivationsOf DEF ActsFact
<1>3. /\ B \in Seq(ActType) /\ Len(B) = n + 1
      /\ \A i \in 1 .. n + 1 : B[i] = Activation(i)'
  BY ActivationsAfter DEF ActsFact
<1>4. Depth = n + 1 /\ Depth' = n + 1
  BY DEF Depth
<1> HIDE DEF A, B
<1>5. ASSUME NEW i \in 1 .. n PROVE B[i] = A[i]
  <2>1. i \in 1 .. n + 1 /\ i # n + 1
    BY <1>1
  <2>2. Activation(i)' = Activation(i)
    BY <1>1, <1>4, <2>1 DEF Activation
  <2>3. QED
    BY <1>2, <1>3, <2>1, <2>2
<1>6. SubSeq(B, 1, Len(A) - 1) = SubSeq(A, 1, Len(A) - 1)
  <2>1. Len(A) - 1 = n /\ n <= Len(A) /\ n <= Len(B) /\ 1 \in Nat \ {0}
    BY <1>1, <1>2, <1>3
  <2> HIDE DEF n
  <2>2. SubSeq(B, 1, n) = SubSeq(A, 1, n)
    BY <1>1, <1>2, <1>3, <1>5, <2>1
  <2>3. QED
    BY <2>1, <2>2
<1>7. n + 1 \in 1 .. n + 1 /\ A[n + 1] = Activation(n + 1) /\ B[n + 1] = Activation(n + 1)'
  BY <1>1, <1>2, <1>3
<1>8. /\ A[n + 1].module = module /\ A[n + 1].regs = Slice(localReg, RegSizes, n + 1)
      /\ A[n + 1].arrs = Slice(localArr, ArrSizes, n + 1)
  BY <1>4, <1>7 DEF Activation
<1>9. /\ B[n + 1].module = module /\ B[n + 1].regs = Slice(localReg', RegSizes', n + 1)
      /\ B[n + 1].arrs = Slice(localArr', ArrSizes', n + 1)
  BY <1>4, <1>7 DEF Activation
<1>10. /\ Len(A[n + 1].regs) = Size(localReg) /\ Len(A[n + 1].arrs) = Size(localArr)
  BY <1>1, <1>8, InnerSlice DEF MachineInv
<1>11. /\ B[n + 1].regs \in Seq(Word) /\ Len(B[n + 1].regs) = Size(localReg')
       /\ B[n + 1].arrs \in Seq(Word) /\ Len(B[n + 1].arrs) = Size(localArr')
  <2>1. StoreOK(localReg', RegSizes) /\ StoreOK(localArr', ArrSizes)
    BY <1>1 DEF MachineInv
  <2>2. /\ Slice(localReg', RegSizes, Len(RegSizes) + 1) \in Seq(Word)
        /\ Len(Slice(localReg', RegSizes, Len(RegSizes) + 1)) = Size(localReg')
    BY <2>1, InnerSlice
  <2>3. /\ Slice(localArr', ArrSizes, Len(ArrSizes) + 1) \in Seq(Word)
        /\ Len(Slice(localArr', ArrSizes, Len(ArrSizes) + 1)) = Size(localArr')
    BY <2>1, InnerSlice
  <2>4. QED
    BY <1>1, <1>9, <2>2, <2>3
<1>12. dataStk' \in Seq(Word) /\ regV' \in [Module \cup Outer -> Word]
  BY DEF MachineInv
<1>13. ImplementsFrames!Variable = Module \cup Outer
  BY DEF ImplementsFrames!Variable
<1>14. ImplementsFrames!Top = A[n + 1] /\ ImplementsFrames!Below = SubSeq(A, 1, Len(A) - 1)
  BY <1>2 DEF ImplementsFrames!Top, ImplementsFrames!Below, A
<1> DEFINE top == A[n + 1]
           new == B[n + 1]
<1>15. /\ new.module = top.module
       /\ new.regs \in Seq(Word) /\ Len(new.regs) = Len(top.regs)
       /\ new.arrs \in Seq(Word) /\ Len(new.arrs) = Len(top.arrs)
       /\ \A m \in Module \ {top.module} : regV'[m] = regV[m]
  BY <1>8, <1>9, <1>10, <1>11
<1>16. B[Len(A)] = new
  BY <1>2
<1>17. Activations = A /\ Activations' = B
  BY DEF A, B
<1> HIDE DEF top, new, n
<1>18. QED
  BY <1>2, <1>3, <1>6, <1>12, <1>13, <1>14, <1>15, <1>16, <1>17 DEF ImplementsFrames!Step, top
-----------------------------------------------------------------------------
-----------------------------------------------------------------------------
(* What a call leaves of the stack, and what it takes. *)
LEMMA ArgumentsOf ==
  ASSUME NEW stk \in Seq(Word), NEW argC \in Nat
  PROVE  LET rest == Len(stk) - argC
             args == SubSeq(stk, rest + 1, Len(stk))
         IN /\ rest \in Int /\ SubSeq(stk, 1, rest) \in Seq(Word)
            /\ rest >= 0 => args \in Seq(Word) /\ Len(args) = argC
<1> DEFINE l == Len(stk)
           rest == l - argC
           args == SubSeq(stk, rest + 1, l)
<1>1. l \in Nat
  OBVIOUS
<1> HIDE DEF l
<1>2. CASE rest >= 0
  <2>1. rest \in Nat /\ rest <= l /\ rest + 1 \in Nat \ {0} /\ l <= l
    BY <1>1, <1>2
  <2> DEFINE m == rest + 1
  <2>2. m \in Nat \ {0} /\ (m <= l => l - m + 1 = argC) /\ (~ (m <= l) => argC = 0)
    BY <1>1, <1>2
  <2> HIDE DEF m, rest
  <2>3. SubSeq(stk, 1, rest) \in Seq(Word)
    BY <2>1, FirstOnes DEF l
  <2>4. /\ SubSeq(stk, m, l) \in Seq(Word)
        /\ Len(SubSeq(stk, m, l)) = IF m <= l THEN l - m + 1 ELSE 0
    BY <1>1, <2>2, PartOf DEF l
  <2>5. QED
    BY <2>1, <2>2, <2>3, <2>4 DEF m, l, rest
<1>3. CASE ~ (rest >= 0)
  <2>1. rest \in Int /\ rest < 1
    BY <1>1, <1>3
  <2>2. SubSeq(stk, 1, rest) = <<>>
    BY <2>1, SubSeqEmpty
  <2>3. <<>> \in Seq(Word)
    OBVIOUS
  <2>4. QED
    BY <1>3, <2>1, <2>2, <2>3 DEF l
<1>4. QED
  BY <1>2, <1>3

(* The frames and the sizes with one more call. *)
LEMMA FrameAdded ==
  ASSUME MachineInv, NEW frame \in FrameType, callStk' = Append(callStk, frame),
         frame.module \in Module, frame.scopeMod = frame.module
  PROVE  /\ callStk' \in Seq(FrameType) /\ Len(callStk') = Len(callStk) + 1
         /\ \A i \in DOMAIN callStk' : callStk'[i].scopeMod = callStk'[i].module
         /\ \A i \in 1 .. Len(callStk) : callStk'[i] = callStk[i]
         /\ callStk'[Len(callStk) + 1] = frame
         /\ RegSizes' = Append(RegSizes, frame.locRegC)
         /\ ArrSizes' = Append(ArrSizes, frame.locArrC)
<1> DEFINE n == Len(callStk)
<1>1. callStk \in Seq(FrameType) /\ SizesFact
  BY SizesOf DEF MachineInv
<1>2. n \in Nat /\ Len(RegSizes) = n /\ Len(ArrSizes) = n
  BY <1>1 DEF SizesFact
<1>3. /\ callStk' \in Seq(FrameType) /\ Len(callStk') = n + 1 /\ DOMAIN callStk' = 1 .. n + 1
      /\ \A i \in 1 .. n : callStk'[i] = callStk[i]
      /\ callStk'[n + 1] = frame
  BY <1>1
<1>4. \A i \in 1 .. n + 1 : i \in 1 .. n \/ i = n + 1
  BY <1>2
<1>5. \A i \in DOMAIN callStk' : callStk'[i].scopeMod = callStk'[i].module
  BY <1>1, <1>3, <1>4 DEF SizesFact
<1>6. frame.locRegC \in Nat /\ frame.locArrC \in Nat
  BY DEF FrameType
<1>7. /\ RegSizes \in Seq(Nat) /\ ArrSizes \in Seq(Nat)
      /\ \A i \in 1 .. n : RegSizes[i] = callStk[i].locRegC /\ ArrSizes[i] = callStk[i].locArrC
  BY <1>1 DEF SizesFact
<1>8. RegSizes' = [i \in 1 .. n + 1 |-> callStk'[i].locRegC] /\ ArrSizes' = [i \in 1 .. n + 1 |-> callStk'[i].locArrC]
  BY <1>3 DEF RegSizes, ArrSizes
<1> DEFINE r == Append(RegSizes, frame.locRegC)
           a == Append(ArrSizes, frame.locArrC)
<1>9. /\ r \in Seq(Nat) /\ Len(r) = n + 1 /\ r[n + 1] = frame.locRegC /\ \A i \in 1 .. n : r[i] = RegSizes[i]
      /\ a \in Seq(Nat) /\ Len(a) = n + 1 /\ a[n + 1] = frame.locArrC /\ \A i \in 1 .. n : a[i] = ArrSizes[i]
  BY <1>2, <1>6, <1>7
<1> HIDE DEF n, r, a
<1>10. r = RegSizes'
  <2>1. \A i \in 1 .. n + 1 : r[i] = callStk'[i].locRegC
    BY <1>3, <1>4, <1>7, <1>9
  <2>2. r = [i \in 1 .. n + 1 |-> r[i]]
    BY <1>9
  <2>3. QED
    BY <1>8, <2>1, <2>2
<1>11. a = ArrSizes'
  <2>1. \A i \in 1 .. n + 1 : a[i] = callStk'[i].locArrC
    BY <1>3, <1>4, <1>7, <1>9
  <2>2. a = [i \in 1 .. n + 1 |-> a[i]]
    BY <1>9
  <2>3. QED
    BY <1>8, <2>1, <2>2
<1>12. QED
  BY <1>3, <1>5, <1>10, <1>11 DEF n, r, a
-----------------------------------------------------------------------------
(* do_call: the locals of the function. *)
LEMMA EnterStore ==
  ASSUME MachineInv, NEW f \in EntryType, NEW stk \in Seq(Word), Enter(f, stk)
  PROVE  LET rest == Len(stk) - f.argC
             sz   == Append(RegSizes, Size(localReg))
         IN /\ StoreOK(localReg', sz)
            /\ \A i \in 1 .. Len(RegSizes) + 1 : Slice(localReg', sz, i) = Slice(localReg, RegSizes, i)
            /\ Slice(localReg', sz, Len(RegSizes) + 2)
                 = IF rest >= 0 THEN SubSeq(stk, rest + 1, Len(stk)) \o Zeros(f.locRegC)
                                ELSE Zeros(f.argC + f.locRegC)
<1> DEFINE rest == Len(stk) - f.argC
           sz   == Append(RegSizes, Size(localReg))
           k    == f.locRegC + f.argC
           regs == Alloc(localReg, k)
           args == SubSeq(stk, rest + 1, Len(stk))
           n    == Len(RegSizes)
<1>1. f.argC \in Nat /\ f.locRegC \in Nat
  BY DEF EntryType
<1>2. k \in Nat /\ k = f.argC + f.locRegC /\ f.argC <= k /\ k - f.argC = f.locRegC
  BY <1>1
<1>3. StoreOK(localReg, RegSizes) /\ n \in Nat
  BY SizesOf DEF MachineInv, SizesFact
<1> HIDE DEF k
<1>4. /\ StoreOK(regs, sz) /\ Len(sz) = n + 1 /\ Size(regs) = k
      /\ \A i \in 1 .. n + 1 : Slice(regs, sz, i) = Slice(localReg, RegSizes, i)
      /\ Slice(regs, sz, n + 2) = Zeros(k)
  <2>1. Allocated(localReg, RegSizes, k, regs, sz)
    BY <1>2, <1>3, AllocOf
  <2> HIDE DEF regs, sz
  <2>2. QED
    BY <2>1 DEF Allocated
<1>5. IF rest >= 0 THEN localReg' = CopyTo(regs, args) ELSE localReg' = regs
  BY DEF Enter, k
<1> HIDE DEF sz, regs
<1>6. CASE rest >= 0
  <2>1. args \in Seq(Word) /\ Len(args) = f.argC
    BY <1>1, <1>6, ArgumentsOf
  <2> HIDE DEF args
  <2>2. Len(args) <= Size(regs) /\ Size(regs) - Len(args) = f.locRegC
    BY <1>2, <1>4, <2>1
  <2> DEFINE new == CopyTo(regs, args)
  <2>3. /\ StoreOK(new, sz)
        /\ \A i \in 1 .. Len(sz) : Slice(new, sz, i) = Slice(regs, sz, i)
        /\ Slice(regs, sz, Len(sz) + 1) = Zeros(Size(regs))
             => Slice(new, sz, Len(sz) + 1) = args \o Zeros(Size(regs) - Len(args))
    <3>1. Copied(regs, sz, args, new)
      BY <1>4, <2>1, <2>2, CopyOf
    <3> HIDE DEF new
    <3>2. QED
      BY <3>1 DEF Copied
  <2>4. Len(sz) + 1 = n + 2
    BY <1>3, <1>4
  <2>5. localReg' = new
    BY <1>5, <1>6
  <2> HIDE DEF new
  <2>6. Slice(new, sz, n + 2) = args \o Zeros(f.locRegC)
    BY <1>4, <2>2, <2>3, <2>4
  <2>7. \A i \in 1 .. n + 1 : Slice(new, sz, i) = Slice(localReg, RegSizes, i)
    BY <1>4, <2>3
  <2>8. QED
    BY <1>6, <2>3, <2>5, <2>6, <2>7 DEF args, sz
<1>7. CASE ~ (rest >= 0)
  <2>1. localReg' = regs
    BY <1>5, <1>7
  <2>2. QED
    BY <1>2, <1>4, <1>7, <2>1 DEF sz
<1>8. QED
  BY <1>6, <1>7

(* do_call keeps the invariant. *)
LEMMA EnterInv ==
  ASSUME MachineInv, mode = "In", NEW f \in EntryType, NEW stk \in Seq(Word), Enter(f, stk)
  PROVE  /\ MachineInv' /\ mode' # "Inactive"
         /\ Len(callStk') = Len(callStk) + 1
         /\ RegSizes' = Append(RegSizes, Size(localReg))
         /\ ArrSizes' = Append(ArrSizes, Size(localArr))
         /\ \A i \in 1 .. Len(callStk) : callStk'[i] = callStk[i]
         /\ callStk'[Len(callStk) + 1].module = module
         /\ \A i \in 1 .. Len(callStk) + 1 :
              Slice(localArr', ArrSizes', i) = Slice(localArr, ArrSizes, i)
         /\ Slice(localArr', ArrSizes', Len(callStk) + 2) = Zeros(f.locArrC)
<1> DEFINE frame == [codePtr |-> codePtr + 1, module |-> module, scopeMod |-> scopeMod,
                     locArrC |-> Size(localArr), locRegC |-> Size(localReg)]
<1>1. SizesFact
  BY SizesOf
<1>2. Size(localReg) \in Nat /\ Size(localArr) \in Nat
  BY InnerSlice DEF MachineInv
<1>3. frame \in FrameType /\ frame.module = module /\ frame.scopeMod = frame.module
      /\ frame.locRegC = Size(localReg) /\ frame.locArrC = Size(localArr) /\ frame.module \in Module
  BY <1>2 DEF MachineInv, Running, FrameType
<1>4. callStk' = Append(callStk, frame)
  BY DEF Enter
<1> HIDE DEF frame
<1>5. /\ callStk' \in Seq(FrameType) /\ Len(callStk') = Len(callStk) + 1
      /\ \A i \in DOMAIN callStk' : callStk'[i].scopeMod = callStk'[i].module
      /\ \A i \in 1 .. Len(callStk) : callStk'[i] = callStk[i]
      /\ callStk'[Len(callStk) + 1] = frame
      /\ RegSizes' = Append(RegSizes, Size(localReg))
      /\ ArrSizes' = Append(ArrSizes, Size(localArr))
  BY <1>3, <1>4, FrameAdded
<1>6. StoreOK(localReg', RegSizes')
  BY <1>5, EnterStore
<1>7. /\ StoreOK(localArr', ArrSizes')
      /\ \A i \in 1 .. Len(callStk) + 1 : Slice(localArr', ArrSizes', i) = Slice(localArr, ArrSizes, i)
      /\ Slice(localArr', ArrSizes', Len(callStk) + 2) = Zeros(f.locArrC)
  <2>1. localArr' = Alloc(localArr, f.locArrC) /\ f.locArrC \in Nat
    BY DEF Enter, EntryType
  <2>2. StoreOK(localArr, ArrSizes) /\ Len(ArrSizes) = Len(callStk)
    BY <1>1 DEF MachineInv, SizesFact
  <2> DEFINE c   == f.locArrC
             new == Alloc(localArr, c)
             sz  == Append(ArrSizes, Size(localArr))
  <2>3. c \in Nat
    BY <2>1
  <2> HIDE DEF c
  <2>4. /\ StoreOK(new, sz)
        /\ \A i \in 1 .. Len(ArrSizes) + 1 : Slice(new, sz, i) = Slice(localArr, ArrSizes, i)
        /\ Slice(new, sz, Len(ArrSizes) + 2) = Zeros(c)
    <3>1. StoreOK(localArr, ArrSizes)
      BY <2>2
    <3>2. Allocated(localArr, ArrSizes, c, new, sz)
      BY <2>3, <3>1, AllocOf
    <3> HIDE DEF new, sz
    <3>3. QED
      BY <3>2 DEF Allocated
  <2> HIDE DEF new, sz
  <2>5. QED
    BY <1>5, <2>1, <2>2, <2>4 DEF new, sz, c
<1>8. dataStk' \in Seq(Word)
  <2>1. dataStk' = SubSeq(stk, 1, Len(stk) - f.argC) /\ f.argC \in Nat
    BY DEF Enter, EntryType
  <2>2. QED
    BY <2>1, ArgumentsOf
<1>9. mode' \in {"In", "Out"}
  BY DEF Enter
<1>10. Running'
  <2>1. module' = f.module /\ scopeMod' = f.module /\ codePtr' = f.codeIdx /\ script' = script
    BY DEF Enter
  <2>2. f.module \in Module /\ f.codeIdx \in Nat
    BY MachineAssumption DEF EntryType
  <2>3. QED
    BY <2>1, <2>2 DEF Running, MachineInv
<1>11. regV' \in [Module \cup Outer -> Word]
  BY DEF Enter, MachineInv
<1>12. MachineInv'
  BY <1>5, <1>6, <1>7, <1>8, <1>9, <1>10, <1>11 DEF MachineInv
<1>13. QED
  BY <1>3, <1>5, <1>7, <1>9, <1>12

(* do_call is the call of CallFrames. *)
LEMMA EnterMaps ==
  ASSUME MachineInv, mode = "In", NEW f \in Entry, NEW stk \in Seq(Word), Enter(f, stk)
  PROVE  MachineInv' /\ ImplementsFrames!Call(stk)
<1> DEFINE n == Len(callStk)
           A == Activations
           B == Activations'
           rest == Len(stk) - f.argC
<1>1. f \in EntryType
  BY MachineAssumption
<1>2. /\ MachineInv' /\ mode' # "Inactive"
      /\ Len(callStk') = Len(callStk) + 1
      /\ RegSizes' = Append(RegSizes, Size(localReg))
      /\ ArrSizes' = Append(ArrSizes, Size(localArr))
      /\ \A i \in 1 .. Len(callStk) : callStk'[i] = callStk[i]
      /\ callStk'[Len(callStk) + 1].module = module
      /\ \A i \in 1 .. Len(callStk) + 1 :
           Slice(localArr', ArrSizes', i) = Slice(localArr, ArrSizes, i)
      /\ Slice(localArr', ArrSizes', Len(callStk) + 2) = Zeros(f.locArrC)
  BY <1>1, EnterInv
<1>3. n \in Nat /\ Len(RegSizes) = n /\ SizesFact
  BY SizesOf DEF SizesFact
<1>4. /\ \A i \in 1 .. n + 1 : Slice(localReg', RegSizes', i) = Slice(localReg, RegSizes, i)
      /\ Slice(localReg', RegSizes', n + 2)
           = IF rest >= 0 THEN SubSeq(stk, rest + 1, Len(stk)) \o Zeros(f.locRegC)
                          ELSE Zeros(f.argC + f.locRegC)
  <2>1. /\ \A i \in 1 .. Len(RegSizes) + 1 :
             Slice(localReg', Append(RegSizes, Size(localReg)), i) = Slice(localReg, RegSizes, i)
        /\ Slice(localReg', Append(RegSizes, Size(localReg)), Len(RegSizes) + 2)
             = IF rest >= 0 THEN SubSeq(stk, rest + 1, Len(stk)) \o Zeros(f.locRegC)
                            ELSE Zeros(f.argC + f.locRegC)
    BY <1>1, EnterStore
  <2>2. QED
    BY <1>2, <1>3, <2>1
<1>5. /\ A \in Seq(ActType) /\ Len(A) = n + 1 /\ A # <<>>
      /\ \A i \in 1 .. n + 1 : A[i] = Activation(i) /\ Activation(i) \in ActType
  BY ActivationsOf DEF ActsFact
<1>6. /\ B \in Seq(ActType) /\ Len(B) = (n + 1) + 1
      /\ \A i \in 1 .. (n + 1) + 1 : B[i] = Activation(i)' /\ Activation(i)' \in ActType
  BY <1>2, ActivationsAfter DEF ActsFact
<1>7. Depth = n + 1 /\ Depth' = (n + 1) + 1
  BY <1>2 DEF Depth
<1> DEFINE begun == ImplementsFrames!Begun(f,
                      IF rest >= 0 THEN SubSeq(stk, rest + 1, Len(stk)) \o Zeros(f.locRegC)
                                   ELSE Zeros(f.argC + f.locRegC))
           below == SubSeq(A, 1, Len(A) - 1)
           top   == A[n + 1]
           stay  == [top EXCEPT !.pc = B[n + 1].pc]
           C == Append(Append(below, stay), begun)
<1> HIDE DEF A, B
<1>8. ASSUME NEW i \in 1 .. n PROVE B[i] = A[i]
  <2>1. i \in 1 .. n + 1 /\ i \in 1 .. (n + 1) + 1 /\ i # n + 1 /\ i # (n + 1) + 1
    BY <1>3
  <2>2. Activation(i)' = Activation(i)
    BY <1>2, <1>4, <1>7, <2>1 DEF Activation
  <2>3. QED
    BY <1>5, <1>6, <2>1, <2>2
<1>9. ASSUME NEW i \in 1 .. n + 1, i = n + 1 PROVE B[i] = stay
  <2>1. i \in 1 .. (n + 1) + 1 /\ i # (n + 1) + 1
    BY <1>3
  <2>2. callStk'[i].module = module
    BY <1>2, <1>9
  <2>3. Activation(i)' = [module |-> module, pc |-> callStk'[i].codePtr,
          regs |-> Slice(localReg, RegSizes, i), arrs |-> Slice(localArr, ArrSizes, i)]
    BY <1>2, <1>4, <1>7, <2>1, <2>2 DEF Activation
  <2>4. Activation(i) = [module |-> module, pc |-> codePtr,
          regs |-> Slice(localReg, RegSizes, i), arrs |-> Slice(localArr, ArrSizes, i)]
    BY <1>7, <1>9 DEF Activation
  <2>5. A[i] = Activation(i) /\ B[i] = Activation(i)'
    BY <1>5, <1>6, <2>1
  <2>6. stay = [A[i] EXCEPT !.pc = B[i].pc]
    BY <1>9
  <2>7. QED
    BY <2>3, <2>4, <2>5, <2>6
<1>10. ASSUME NEW i \in 1 .. (n + 1) + 1, i = (n + 1) + 1 PROVE B[i] = begun
  <2>1. i = n + 2
    BY <1>3, <1>10
  <2>2. module' = f.module /\ codePtr' = f.codeIdx
    BY DEF Enter
  <2>3. Activation(i)' = [module |-> module', pc |-> codePtr',
          regs |-> Slice(localReg', RegSizes', i), arrs |-> Slice(localArr', ArrSizes', i)]
    BY <1>7, <1>10 DEF Activation
  <2>4. /\ Zeros(f.locArrC) = ImplementsFrames!Zeros(f.locArrC)
        /\ Slice(localArr', ArrSizes', i) = Zeros(f.locArrC)
    BY <1>2, <2>1 DEF Zeros, ImplementsFrames!Zeros
  <2>5. QED
    BY <1>4, <1>6, <2>1, <2>2, <2>3, <2>4 DEF ImplementsFrames!Begun
<1>11. B = C
  <2>1. below \in Seq(ActType) /\ Len(below) = n /\ \A i \in 1 .. n : below[i] = A[i]
    <3>1. Len(A) - 1 = n /\ n <= Len(A)
      BY <1>3, <1>5
    <3> HIDE DEF n
    <3>2. QED
      BY <1>3, <1>5, <3>1, FirstOnes
  <2>2. stay \in ActType /\ begun \in ActType
    <3>1. n + 1 \in 1 .. (n + 1) + 1 /\ (n + 1) + 1 \in 1 .. (n + 1) + 1
      BY <1>3
    <3>2. QED
      BY <1>3, <1>6, <1>9, <1>10, <3>1
  <2> HIDE DEF below, stay, begun
  <2>3. /\ C \in Seq(ActType) /\ Len(C) = (n + 1) + 1
        /\ \A i \in 1 .. n : C[i] = below[i]
        /\ C[n + 1] = stay /\ C[(n + 1) + 1] = begun
    <3> HIDE DEF n
    <3>1. QED
      BY <1>3, <2>1, <2>2
  <2>4. \A i \in 1 .. (n + 1) + 1 : B[i] = C[i]
    <3>1. \A i \in 1 .. (n + 1) + 1 : i \in 1 .. n \/ (i = n + 1 /\ i \in 1 .. n + 1) \/ i = (n + 1) + 1
      BY <1>3
    <3> HIDE DEF C
    <3>2. QED
      BY <1>8, <1>9, <1>10, <2>1, <2>3, <3>1
  <2> HIDE DEF C
  <2>5. QED
    BY <1>6, <2>3, <2>4, SeqEqual
<1>12. dataStk' = SubSeq(stk, 1, rest) /\ regV' = regV
  BY DEF Enter
<1>13. /\ ImplementsFrames!Top = top /\ ImplementsFrames!Below = below
       /\ Activations = A /\ Activations' = B
  BY <1>5 DEF ImplementsFrames!Top, ImplementsFrames!Below, A, B
<1>14. Zeros(f.locRegC) = ImplementsFrames!Zeros(f.locRegC)
       /\ Zeros(f.argC + f.locRegC) = ImplementsFrames!Zeros(f.argC + f.locRegC)
  BY DEF Zeros, ImplementsFrames!Zeros
<1> HIDE DEF top, below
<1>15. ImplementsFrames!Call(stk)
  BY <1>5, <1>6, <1>11, <1>12, <1>13, <1>14 DEF ImplementsFrames!Call
<1>16. QED
  BY <1>2, <1>15
-----------------------------------------------------------------------------
-----------------------------------------------------------------------------
(* A step in which the frames stay. *)
LEMMA PlainMaps ==
  ASSUME MachineInv, mode # "Inactive", mode' \in {"In", "Out"},
         UNCHANGED here, callStk' = callStk, codePtr' \in Nat, dataStk' \in Seq(Word),
         StoreOK(localReg', RegSizes), Size(localReg') = Size(localReg),
         \A i \in 1 .. Len(RegSizes) : Slice(localReg', RegSizes, i) = Slice(localReg, RegSizes, i),
         StoreOK(localArr', ArrSizes), Size(localArr') = Size(localArr),
         \A i \in 1 .. Len(ArrSizes) : Slice(localArr', ArrSizes, i) = Slice(localArr, ArrSizes, i),
         regV' \in [Module \cup Outer -> Word],
         \A v \in Module \ {module} : regV'[v] = regV[v]
  PROVE  MachineInv' /\ ImplementsFrames!Step
<1>1. RegSizes' = RegSizes /\ ArrSizes' = ArrSizes
  BY DEF RegSizes, ArrSizes
<1>2. Running'
  BY DEF MachineInv, Running, here
<1>3. callStk' \in Seq(FrameType) /\ \A i \in DOMAIN callStk' : callStk'[i].scopeMod = callStk'[i].module
  BY DEF MachineInv
<1>4. MachineInv'
  BY <1>1, <1>2, <1>3 DEF MachineInv
<1>5. module' = module
  BY DEF here
<1>6. ImplementsFrames!Step
  BY <1>4, <1>5, StepMaps
<1>7. QED
  BY <1>4, <1>6

LEMMA QuietMaps ==
  ASSUME MachineInv, mode # "Inactive", mode' \in {"In", "Out"},
         UNCHANGED <<here, callStk, locals, regV>>, codePtr' \in Nat, dataStk' \in Seq(Word)
  PROVE  MachineInv' /\ ImplementsFrames!Step
<1>1. /\ UNCHANGED here /\ callStk' = callStk /\ localReg' = localReg /\ localArr' = localArr
      /\ regV' = regV
  BY DEF locals
<1>2. StoreOK(localReg', RegSizes) /\ StoreOK(localArr', ArrSizes) /\ regV' \in [Module \cup Outer -> Word]
  BY <1>1 DEF MachineInv
<1>3. /\ Size(localReg') = Size(localReg) /\ Size(localArr') = Size(localArr)
      /\ \A i \in 1 .. Len(RegSizes) : Slice(localReg', RegSizes, i) = Slice(localReg, RegSizes, i)
      /\ \A i \in 1 .. Len(ArrSizes) : Slice(localArr', ArrSizes, i) = Slice(localArr, ArrSizes, i)
      /\ \A v \in Module \ {module} : regV'[v] = regV[v]
  BY <1>1
<1>4. QED
  BY <1>1, <1>2, <1>3, PlainMaps

(* What is left of a stopped thread. *)
StoppedState == mode = "Inactive" /\ Emptied /\ regV \in [Module \cup Outer -> Word]

LEMMA StoppedInv == StoppedState => MachineInv
<1> SUFFICES ASSUME StoppedState PROVE MachineInv
  OBVIOUS
<1>1. callStk = <<>> /\ dataStk = <<>> /\ localReg = Cleared /\ localArr = Cleared
  BY DEF StoppedState, Emptied
<1>2. RegSizes = <<>> /\ ArrSizes = <<>>
  BY <1>1 DEF RegSizes, ArrSizes
<1>3. StoreOK(Cleared, <<>>)
  <2>1. <<>> \in Seq(Nat) /\ Len(<<>>) = 0 /\ <<>> \in Seq(Word)
    OBVIOUS
  <2>2. Begins(<<>>)[1] = 0
    BY <2>1, BeginsOf
  <2>3. QED
    BY <2>1, <2>2 DEF StoreOK, StoreType, Cleared
<1>4. callStk \in Seq(FrameType) /\ dataStk \in Seq(Word) /\ DOMAIN callStk = {}
  BY <1>1
<1>5. QED
  BY <1>1, <1>2, <1>3, <1>4 DEF MachineInv, StoppedState

LEMMA StopMaps ==
  ASSUME MachineInv, StopThread
  PROVE  MachineInv' /\ ImplementsFrames!End
<1>1. StoppedState'
  BY DEF StopThread, StoppedState, Emptied, MachineInv
<1>2. MachineInv'
  <2>1. StoppedState' => MachineInv'
    BY StoppedInv, PTL
  <2>2. QED
    BY <1>1, <2>1
<1>3. Activations' = <<>> /\ dataStk' = <<>> /\ regV' = regV
  BY DEF StopThread, Activations
<1>4. QED
  BY <1>2, <1>3 DEF ImplementsFrames!End

LEMMA BranchMaps ==
  ASSUME MachineInv, mode = "In", NEW target \in Nat, NEW stk \in Seq(Word), BranchTo(target, stk)
  PROVE  MachineInv' /\ ImplementsFrames!Next
<1>1. CASE StopThread
  BY <1>1, StopMaps DEF ImplementsFrames!Next
<1>2. CASE /\ codePtr' = target /\ dataStk' = stk
           /\ UNCHANGED <<mode, here, callStk, locals, regV>>
  <2>1. /\ mode # "Inactive" /\ mode' \in {"In", "Out"} /\ UNCHANGED <<here, callStk, locals, regV>>
        /\ codePtr' \in Nat /\ dataStk' \in Seq(Word)
    BY <1>2
  <2>2. MachineInv' /\ ImplementsFrames!Step
    BY <2>1, QuietMaps
  <2>3. QED
    BY <2>2 DEF ImplementsFrames!Next
<1>3. QED
  BY <1>1, <1>2 DEF BranchTo

(* The data stack without its top. *)
LEMMA FrontOf ==
  ASSUME NEW S, NEW s \in Seq(S), s # <<>>
  PROVE  /\ Front(s) \in Seq(S) /\ Len(Front(s)) = Len(s) - 1
         /\ \A i \in 1 .. Len(s) - 1 : Front(s)[i] = s[i]
         /\ Last(s) \in S /\ Last(s) = s[Len(s)] /\ Len(s) \in Nat \ {0}
<1>1. Len(s) \in Nat \ {0} /\ Len(s) \in 1 .. Len(s)
  <2>1. Len(s) \in Nat \ {0}
    BY EmptySeq
  <2> DEFINE l == Len(s)
  <2> HIDE DEF l
  <2>2. l \in Nat \ {0} => l \in 1 .. l
    OBVIOUS
  <2>3. QED
    BY <2>1, <2>2 DEF l
<1>2. s[Len(s)] \in S
  BY <1>1, ElementOfSeq
<1> DEFINE n == Len(s) - 1
<1>3. n \in Nat /\ n <= Len(s)
  BY <1>1
<1>4. Front(s) = SubSeq(s, 1, n)
  BY DEF Front
<1> HIDE DEF n
<1>5. /\ Front(s) \in Seq(S) /\ Len(Front(s)) = n
      /\ \A i \in 1 .. n : Front(s)[i] = s[i]
  BY <1>3, <1>4, FirstOnes
<1>6. QED
  BY <1>1, <1>2, <1>5 DEF n, Last
-----------------------------------------------------------------------------
-----------------------------------------------------------------------------
(* The instructions. *)

(* What they make of words are words. *)
LEMMA ValueOf ==
  ASSUME NEW op \in Op, NEW l \in Word, NEW r \in Word
  PROVE  Value(op, l, r) \in Word
<1> DEFINE n == Cardinality(Word)
<1>1. n \in Nat \ {0} /\ Word = 0 .. n - 1
  BY MachineAssumption
<1> HIDE DEF n
<1>2. \A m \in Nat : m % n \in 0 .. n - 1
  BY <1>1
<1>3. l + r \in Nat /\ l + 1 \in Nat
  BY <1>1
<1>4. Plus(l, r) \in Word /\ Plus(l, 1) \in Word
  BY <1>1, <1>2, <1>3 DEF Plus, n
<1>5. op = "Drop" \/ op = "AddU" \/ op = "IncU"
  BY DEF Op
<1>6. QED
  BY <1>4, <1>5 DEF Value

LEMMA OperandOf ==
  ASSUME MachineInv, NEW op \in Op, Operand(op)
  PROVE  Left(op) \in Seq(Word) /\ Right(op) \in Word
<1>1. dataStk \in Seq(Word) /\ 0 \in Word
  BY MachineAssumption DEF MachineInv
<1>2. CASE op = "IncU"
  BY <1>1, <1>2 DEF Left, Right
<1>3. CASE op # "IncU"
  <2>1. dataStk # <<>>
    BY <1>3 DEF Operand
  <2>2. Front(dataStk) \in Seq(Word) /\ Last(dataStk) \in Word
    BY <1>1, <2>1, FrontOf
  <2>3. QED
    BY <1>3, <2>2 DEF Left, Right, Top
<1>4. QED
  BY <1>2, <1>3

LEMMA PlainOf ==
  ASSUME MachineInv, Plain
  PROVE  mode = "In" /\ mode # "Inactive" /\ codePtr' \in Nat /\ dataStk \in Seq(Word)
<1>1. CodeSize \in Nat
  BY MachineAssumption
<1>2. mode = "In" /\ codePtr \in 1 .. CodeSize - 2 /\ codePtr' = codePtr + 1
  BY DEF Plain, Ready
<1>3. QED
  BY <1>1, <1>2 DEF MachineInv

LEMMA RegMaps ==
  ASSUME MachineInv, OpOuterReg \/ OpModReg
  PROVE  MachineInv' /\ ImplementsFrames!Next
<1>1. Plain /\ UNCHANGED <<mode, here, callStk, locals>>
  BY DEF OpOuterReg, OpModReg
<1>2. PICK v \in Outer \cup {scopeMod}, op \in Op :
        Operand(op) /\ regV' = [regV EXCEPT ![v] = Value(op, @, Right(op))] /\ dataStk' = Left(op)
  BY DEF OpOuterReg, OpModReg
<1>3. mode = "In" /\ mode # "Inactive" /\ mode' \in {"In", "Out"} /\ codePtr' \in Nat
  BY <1>1, PlainOf
<1>4. /\ scopeMod = module /\ module \in Module /\ regV \in [Module \cup Outer -> Word]
      /\ StoreOK(localReg, RegSizes) /\ StoreOK(localArr, ArrSizes)
  BY <1>3 DEF MachineInv, Running
<1>5. v \in Module \cup Outer
  BY <1>4
<1>6. Right(op) \in Word /\ dataStk' \in Seq(Word)
  BY <1>2, OperandOf
<1>7. Value(op, regV[v], Right(op)) \in Word
  BY <1>4, <1>5, <1>6, ValueOf
<1>8. regV' \in [Module \cup Outer -> Word]
  BY <1>2, <1>4, <1>5, <1>7
<1>9. \A u \in Module \ {module} : regV'[u] = regV[u]
  <2>1. \A u \in Module \ {module} : u # v /\ u \in Module \cup Outer
    BY <1>4, MachineAssumption
  <2>2. QED
    BY <1>2, <1>4, <2>1
<1>10. UNCHANGED here /\ callStk' = callStk /\ localReg' = localReg /\ localArr' = localArr
  BY <1>1 DEF locals
<1>11. MachineInv' /\ ImplementsFrames!Step
  BY <1>3, <1>4, <1>6, <1>8, <1>9, <1>10, PlainMaps
<1>12. QED
  BY <1>11 DEF ImplementsFrames!Next

LEMMA LocRegMaps ==
  ASSUME MachineInv, OpLocReg
  PROVE  MachineInv' /\ ImplementsFrames!Next
<1>1. Plain /\ UNCHANGED here /\ mode' = mode /\ callStk' = callStk /\ localArr' = localArr /\ regV' = regV
  BY DEF OpLocReg
<1>2. PICK op \in Op, i \in 1 .. Size(localReg) :
        /\ Operand(op) /\ dataStk' = Left(op)
        /\ localReg' = SetLocal(localReg, i, Value(op, Local(localReg, i), Right(op)))
  BY DEF OpLocReg
<1>3. mode = "In" /\ mode # "Inactive" /\ mode' \in {"In", "Out"} /\ codePtr' \in Nat
  BY <1>1, PlainOf
<1>4. regV \in [Module \cup Outer -> Word] /\ StoreOK(localReg, RegSizes) /\ StoreOK(localArr, ArrSizes)
  BY DEF MachineInv
<1>5. Right(op) \in Word /\ dataStk' \in Seq(Word)
  BY <1>2, OperandOf
<1>6. 0 \in Word
  BY MachineAssumption
<1>7. Local(localReg, i) \in Word
  BY <1>4, <1>6, SetLocalOf
<1> DEFINE w == Value(op, Local(localReg, i), Right(op))
<1>8. w \in Word
  BY <1>5, <1>7, ValueOf
<1> HIDE DEF w
<1>9. /\ StoreOK(localReg', RegSizes) /\ Size(localReg') = Size(localReg)
      /\ \A j \in 1 .. Len(RegSizes) : Slice(localReg', RegSizes, j) = Slice(localReg, RegSizes, j)
  <2>1. localReg' = SetLocal(localReg, i, w)
    BY <1>2 DEF w
  <2>2. QED
    BY <1>4, <1>8, <2>1, SetLocalOf
<1>10. MachineInv' /\ ImplementsFrames!Step
  BY <1>1, <1>3, <1>4, <1>5, <1>9, PlainMaps
<1>11. QED
  BY <1>10 DEF ImplementsFrames!Next

LEMMA LocArrMaps ==
  ASSUME MachineInv, OpLocArr
  PROVE  MachineInv' /\ ImplementsFrames!Next
<1>1. Plain /\ UNCHANGED here /\ mode' = mode /\ callStk' = callStk /\ localReg' = localReg /\ regV' = regV
  BY DEF OpLocArr
<1>2. PICK op \in Op, i \in 1 .. Size(localArr) :
        /\ Operand(op) /\ Left(op) # <<>> /\ dataStk' = Front(Left(op))
        /\ localArr' = SetLocal(localArr, i, Value(op, Local(localArr, i), Right(op)))
  BY DEF OpLocArr
<1>3. mode = "In" /\ mode # "Inactive" /\ mode' \in {"In", "Out"} /\ codePtr' \in Nat
  BY <1>1, PlainOf
<1>4. regV \in [Module \cup Outer -> Word] /\ StoreOK(localReg, RegSizes) /\ StoreOK(localArr, ArrSizes)
  BY DEF MachineInv
<1>5. Right(op) \in Word /\ Left(op) \in Seq(Word)
  BY <1>2, OperandOf
<1>6. dataStk' \in Seq(Word) /\ 0 \in Word
  <2>1. Left(op) # <<>>
    BY <1>2
  <2>2. Front(Left(op)) \in Seq(Word)
    BY <1>5, <2>1, FrontOf
  <2>3. QED
    BY <1>2, <2>2, MachineAssumption
<1>7. Local(localArr, i) \in Word
  BY <1>4, <1>6, SetLocalOf
<1> DEFINE w == Value(op, Local(localArr, i), Right(op))
<1>8. w \in Word
  BY <1>5, <1>7, ValueOf
<1> HIDE DEF w
<1>9. /\ StoreOK(localArr', ArrSizes) /\ Size(localArr') = Size(localArr)
      /\ \A j \in 1 .. Len(ArrSizes) : Slice(localArr', ArrSizes, j) = Slice(localArr, ArrSizes, j)
  <2>1. localArr' = SetLocal(localArr, i, w)
    BY <1>2 DEF w
  <2>2. QED
    BY <1>4, <1>8, <2>1, SetLocalOf
<1>10. MachineInv' /\ ImplementsFrames!Step
  BY <1>1, <1>3, <1>4, <1>6, <1>9, PlainMaps
<1>11. QED
  BY <1>10 DEF ImplementsFrames!Next
-----------------------------------------------------------------------------
(* Instructions for which only the stack changes. *)
LEMMA StackMaps ==
  ASSUME MachineInv, Drop_Nul \/ PushWord \/ Push_LocArr \/ CallSpec_R1 \/ OnStack
  PROVE  MachineInv' /\ ImplementsFrames!Next
<1>1. Plain /\ UNCHANGED <<here, callStk, locals, regV>>
  BY DEF Drop_Nul, PushWord, Push_LocArr, CallSpec_R1, OnStack
<1>2. mode = "In" /\ mode # "Inactive" /\ codePtr' \in Nat /\ dataStk \in Seq(Word)
  BY <1>1, PlainOf
<1>3. /\ scopeMod = module /\ module \in Module /\ regV \in [Module \cup Outer -> Word]
      /\ StoreOK(localReg, RegSizes) /\ StoreOK(localArr, ArrSizes)
  BY <1>2 DEF MachineInv, Running
<1>4. /\ \A i \in 1 .. Size(localReg) : Local(localReg, i) \in Word
      /\ \A i \in 1 .. Size(localArr) : Local(localArr, i) \in Word
  <2>1. 0 \in Word
    BY MachineAssumption
  <2>2. QED
    BY <1>3, <2>1, SetLocalOf
<1>5. dataStk # <<>> => /\ Front(dataStk) \in Seq(Word) /\ Top \in Word
                        /\ Len(dataStk) \in Nat \ {0}
                        /\ \A i \in 1 .. Len(dataStk) : dataStk[i] \in Word
  BY <1>2, FrontOf DEF Top
<1>6. \A w \in Word : Push(w) => dataStk' \in Seq(Word)
  BY <1>2 DEF Push
<1>7. mode' \in {"In", "Out"} /\ dataStk' \in Seq(Word)
  <2>1. CASE Drop_Nul
    BY <1>2, <1>5, <2>1 DEF Drop_Nul
  <2>2. CASE PushWord
    <3>1. PICK w \in Word \cup {regV[v] : v \in Outer \cup {scopeMod}}
                       \cup {Local(localReg, i) : i \in 1 .. Size(localReg)} : Push(w)
      BY <2>2 DEF PushWord
    <3>2. w \in Word
      BY <1>3, <1>4
    <3>3. QED
      BY <1>2, <1>6, <2>2, <3>1, <3>2 DEF PushWord
  <2>3. CASE Push_LocArr
    <3>1. PICK i \in 1 .. Size(localArr) : dataStk' = Append(Front(dataStk), Local(localArr, i))
      BY <2>3 DEF Push_LocArr
    <3>2. Local(localArr, i) \in Word /\ Front(dataStk) \in Seq(Word)
      BY <1>4, <1>5, <2>3 DEF Push_LocArr
    <3>3. QED
      BY <1>2, <2>3, <3>1, <3>2 DEF Push_LocArr
  <2>4. CASE CallSpec_R1
    <3>1. CASE /\ mode' = mode
               /\ \E argC \in 0 .. Len(dataStk), w \in Word :
                    dataStk' = Append(SubSeq(dataStk, 1, Len(dataStk) - argC), w)
      <4>1. PICK argC \in 0 .. Len(dataStk), w \in Word :
              dataStk' = Append(SubSeq(dataStk, 1, Len(dataStk) - argC), w)
        BY <3>1
      <4>2. SubSeq(dataStk, 1, Len(dataStk) - argC) \in Seq(Word)
        BY <1>2, ArgumentsOf
      <4>3. QED
        BY <1>2, <3>1, <4>1, <4>2
    <3>2. CASE dataStk' = <<>> /\ mode' = "Out"
      BY <3>2
    <3>3. QED
      BY <2>4, <3>1, <3>2 DEF CallSpec_R1
  <2>5. CASE OnStack
    <3>1. dataStk # <<>> /\ mode' = mode
      BY <2>5 DEF OnStack
    <3> DEFINE n == Len(dataStk)
    <3>2. CASE Push(Top)
      BY <1>2, <1>5, <1>6, <3>1, <3>2
    <3>3. CASE n > 1 /\ dataStk' = SubSeq(dataStk, 1, n - 2) \o <<Top, dataStk[n - 1]>>
      <4>1. n \in Nat /\ n - 1 \in 1 .. n
        BY <1>5, <3>1, <3>3
      <4>2. SubSeq(dataStk, 1, n - 2) \in Seq(Word)
        BY <1>2, ArgumentsOf
      <4>3. <<Top, dataStk[n - 1]>> \in Seq(Word)
        BY <1>5, <3>1, <4>1
      <4>4. SubSeq(dataStk, 1, n - 2) \o <<Top, dataStk[n - 1]>> \in Seq(Word)
        BY <4>2, <4>3, ConcatProperties
      <4>5. QED
        BY <1>2, <3>1, <3>3, <4>4
    <3>4. CASE \E w \in Word : dataStk' = [dataStk EXCEPT ![n] = w]
      BY <1>2, <3>1, <3>4
    <3>5. QED
      BY <2>5, <3>2, <3>3, <3>4 DEF OnStack
  <2>6. QED
    BY <2>1, <2>2, <2>3, <2>4, <2>5
<1>8. MachineInv' /\ ImplementsFrames!Step
  BY <1>1, <1>2, <1>7, QuietMaps
<1>9. QED
  BY <1>8 DEF ImplementsFrames!Next

(* Exec and what ends it, and instructions that stop or go somewhere else. *)
LEMMA ControlMaps ==
  ASSUME MachineInv, Exec \/ Yield \/ UnderflowAtOperand \/ Kill \/ ScrTerm \/ Stop \/ Jump \/ ScrRestart
  PROVE  MachineInv' /\ ImplementsFrames!Next
<1>1. CASE Exec \/ Yield \/ UnderflowAtOperand
  <2>1. /\ mode # "Inactive" /\ mode' \in {"In", "Out"}
        /\ UNCHANGED <<here, callStk, locals, regV>> /\ codePtr' = codePtr /\ dataStk' = dataStk
    BY <1>1 DEF Exec, Yield, UnderflowAtOperand, Ready
  <2>2. codePtr' \in Nat /\ dataStk' \in Seq(Word)
    BY <2>1 DEF MachineInv, Running
  <2>3. MachineInv' /\ ImplementsFrames!Step
    BY <2>1, <2>2, QuietMaps
  <2>4. QED
    BY <2>3 DEF ImplementsFrames!Next
<1>2. CASE Kill \/ ScrTerm \/ Stop
  BY <1>2, StopMaps DEF Kill, ScrTerm, Stop, ImplementsFrames!Next
<1>3. CASE Jump
  <2>1. PICK target \in 0 .. CodeSize - 1 :
          \/ BranchTo(target, dataStk)
          \/ dataStk # <<>> /\ BranchTo(target, Front(dataStk))
    BY <1>3 DEF Jump
  <2>2. mode = "In" /\ target \in Nat /\ dataStk \in Seq(Word)
    BY <1>3, MachineAssumption DEF Jump, Ready, MachineInv
  <2>3. dataStk # <<>> => Front(dataStk) \in Seq(Word)
    BY <2>2, FrontOf
  <2>4. QED
    BY <2>1, <2>2, <2>3, BranchMaps
<1>4. CASE ScrRestart
  <2>1. mode = "In" /\ BranchTo(Scripts[script].codeIdx, dataStk)
    BY <1>4 DEF ScrRestart, Ready
  <2>2. dataStk \in Seq(Word) /\ script \in DOMAIN Scripts
    BY <2>1 DEF MachineInv, Running
  <2>3. Scripts[script] \in EntryType
    BY <2>2, MachineAssumption
  <2>4. Scripts[script].codeIdx \in Nat
    BY <2>3, MachineAssumption DEF EntryType
  <2>5. QED
    BY <2>1, <2>2, <2>4, BranchMaps
<1>5. QED
  BY <1>1, <1>2, <1>3, <1>4

LEMMA CallMaps ==
  ASSUME MachineInv, Call_Lit \/ Call_Stk
  PROVE  MachineInv' /\ ImplementsFrames!Next
<1>1. mode = "In" /\ dataStk \in Seq(Word) /\ module \in Module
  BY DEF Call_Lit, Call_Stk, Ready, MachineInv, Running
<1>2. CASE Call_Lit
  <2>1. PICK i \in 1 .. Len(FunctionV[module]) + 1 :
          IF i > Len(FunctionV[module]) \/ FunctionV[module][i] = NoFunction
            THEN BranchTo(0, dataStk)
            ELSE Enter(FunctionV[module][i], dataStk)
    BY <1>2 DEF Call_Lit
  <2>2. CASE BranchTo(0, dataStk)
    BY <1>1, <2>2, BranchMaps
  <2>3. CASE ~ (i > Len(FunctionV[module]) \/ FunctionV[module][i] = NoFunction)
    <3> DEFINE V == FunctionV[module]
    <3>1. V \in Seq(Entry \cup {NoFunction})
      BY <1>1, MachineAssumption
    <3> HIDE DEF V
    <3>2. Len(V) \in Nat
      BY <3>1
    <3>3. i \in 1 .. Len(V)
      BY <2>3, <3>2 DEF V
    <3>4. V[i] \in Entry \cup {NoFunction} /\ V[i] # NoFunction
      BY <2>3, <3>1, <3>3 DEF V
    <3>5. Enter(V[i], dataStk)
      BY <2>1, <2>3 DEF V
    <3>6. MachineInv' /\ ImplementsFrames!Call(dataStk)
      BY <1>1, <3>4, <3>5, EnterMaps
    <3>7. QED
      BY <3>6 DEF ImplementsFrames!Next
  <2>4. QED
    BY <2>1, <2>2, <2>3
<1>3. CASE Call_Stk
  <2>1. dataStk # <<>>
    BY <1>3 DEF Call_Stk
  <2>2. Front(dataStk) \in Seq(Word)
    BY <1>1, <2>1, FrontOf
  <2>3. PICK f \in Entry \cup {NoFunction} :
          IF f = NoFunction THEN BranchTo(0, Front(dataStk)) ELSE Enter(f, Front(dataStk))
    BY <1>3 DEF Call_Stk
  <2>4. CASE BranchTo(0, Front(dataStk))
    BY <1>1, <2>2, <2>4, BranchMaps
  <2>5. CASE f # NoFunction
    <3>1. MachineInv' /\ ImplementsFrames!Call(Front(dataStk))
      BY <1>1, <2>2, <2>3, <2>5, EnterMaps
    <3>2. Front(dataStk) = SubSeq(dataStk, 1, Len(dataStk) - 1)
      BY DEF Front
    <3>3. QED
      BY <2>1, <3>1, <3>2 DEF ImplementsFrames!Next
  <2>6. QED
    BY <2>3, <2>4, <2>5
<1>4. QED
  BY <1>2, <1>3
-----------------------------------------------------------------------------
(* The frames and the sizes with one call less. *)
LEMMA FrameDropped ==
  ASSUME MachineInv, callStk # <<>>, callStk' = Front(callStk)
  PROVE  /\ callStk' \in Seq(FrameType) /\ Len(callStk') = Len(callStk) - 1
         /\ Len(callStk) \in Nat \ {0}
         /\ \A i \in DOMAIN callStk' : callStk'[i].scopeMod = callStk'[i].module
         /\ \A i \in 1 .. Len(callStk) - 1 : callStk'[i] = callStk[i]
         /\ Last(callStk) = callStk[Len(callStk)] /\ Last(callStk) \in FrameType
         /\ Last(callStk).scopeMod = Last(callStk).module
         /\ Last(callStk).locRegC = RegSizes[Len(RegSizes)]
         /\ Last(callStk).locArrC = ArrSizes[Len(ArrSizes)]
         /\ RegSizes # <<>> /\ ArrSizes # <<>>
         /\ RegSizes' = Front(RegSizes)
         /\ ArrSizes' = Front(ArrSizes)
<1> DEFINE n == Len(callStk)
           r == Front(RegSizes)
           a == Front(ArrSizes)
<1>1. callStk \in Seq(FrameType) /\ SizesFact
  BY SizesOf DEF MachineInv
<1>2. /\ n \in Nat \ {0}
      /\ callStk' \in Seq(FrameType) /\ Len(callStk') = n - 1
      /\ \A i \in 1 .. n - 1 : callStk'[i] = callStk[i]
      /\ Last(callStk) = callStk[n] /\ Last(callStk) \in FrameType
  BY <1>1, FrontOf
<1>3. /\ RegSizes \in Seq(Nat) /\ Len(RegSizes) = n /\ ArrSizes \in Seq(Nat) /\ Len(ArrSizes) = n
      /\ \A i \in 1 .. n : /\ RegSizes[i] = callStk[i].locRegC /\ ArrSizes[i] = callStk[i].locArrC
                           /\ callStk[i].scopeMod = callStk[i].module
  BY <1>1 DEF SizesFact
<1>4. DOMAIN callStk' = 1 .. n - 1
  BY <1>2
<1>5. RegSizes # <<>> /\ ArrSizes # <<>>
  BY <1>2, <1>3
<1>6. /\ r \in Seq(Nat) /\ Len(r) = n - 1 /\ \A i \in 1 .. n - 1 : r[i] = RegSizes[i]
      /\ a \in Seq(Nat) /\ Len(a) = n - 1 /\ \A i \in 1 .. n - 1 : a[i] = ArrSizes[i]
  <2>1. /\ r \in Seq(Nat) /\ Len(r) = Len(RegSizes) - 1 /\ \A i \in 1 .. Len(RegSizes) - 1 : r[i] = RegSizes[i]
    BY <1>3, <1>5, FrontOf
  <2>2. /\ a \in Seq(Nat) /\ Len(a) = Len(ArrSizes) - 1 /\ \A i \in 1 .. Len(ArrSizes) - 1 : a[i] = ArrSizes[i]
    BY <1>3, <1>5, FrontOf
  <2>3. QED
    BY <1>3, <2>1, <2>2
<1>7. RegSizes' = [i \in 1 .. n - 1 |-> callStk'[i].locRegC] /\ ArrSizes' = [i \in 1 .. n - 1 |-> callStk'[i].locArrC]
  BY <1>4 DEF RegSizes, ArrSizes
<1> HIDE DEF n, r, a
<1>8. n \in 1 .. n /\ \A i \in 1 .. n - 1 : i \in 1 .. n
  BY <1>2
<1>9. \A i \in DOMAIN callStk' : callStk'[i].scopeMod = callStk'[i].module
  BY <1>2, <1>3, <1>4, <1>8
<1>10. r = RegSizes'
  <2>1. \A i \in 1 .. n - 1 : r[i] = callStk'[i].locRegC
    BY <1>2, <1>3, <1>6, <1>8
  <2>2. r = [i \in 1 .. n - 1 |-> r[i]]
    BY <1>6
  <2>3. QED
    BY <1>7, <2>1, <2>2
<1>11. a = ArrSizes'
  <2>1. \A i \in 1 .. n - 1 : a[i] = callStk'[i].locArrC
    BY <1>2, <1>3, <1>6, <1>8
  <2>2. a = [i \in 1 .. n - 1 |-> a[i]]
    BY <1>6
  <2>3. QED
    BY <1>7, <2>1, <2>2
<1>12. QED
  BY <1>2, <1>3, <1>5, <1>8, <1>9, <1>10, <1>11 DEF n, r, a

(* A return gives the activation around the innermost one what it had. *)
LEMMA ReturnMaps ==
  ASSUME MachineInv, Retn
  PROVE  MachineInv' /\ ImplementsFrames!Next
<1>1. CASE callStk = <<>>
  BY <1>1, StopMaps DEF Retn, ImplementsFrames!Next
<1>2. CASE callStk # <<>>
  <2> DEFINE n == Len(callStk)
             A == Activations
             B == Activations'
             frame == Last(callStk)
  <2>1. /\ mode = "In" /\ codePtr' = frame.codePtr /\ module' = frame.module
        /\ scopeMod' = frame.scopeMod
        /\ localArr' = Free(localArr, frame.locArrC) /\ localReg' = Free(localReg, frame.locRegC)
        /\ callStk' = Front(callStk)
        /\ mode' = mode /\ script' = script /\ dataStk' = dataStk /\ regV' = regV
    BY <1>2 DEF Retn, Ready
  <2>2. /\ callStk' \in Seq(FrameType) /\ Len(callStk') = n - 1 /\ n \in Nat \ {0}
        /\ \A i \in DOMAIN callStk' : callStk'[i].scopeMod = callStk'[i].module
        /\ \A i \in 1 .. n - 1 : callStk'[i] = callStk[i]
        /\ frame = callStk[n] /\ frame \in FrameType /\ frame.scopeMod = frame.module
        /\ frame.locRegC = RegSizes[Len(RegSizes)]
        /\ frame.locArrC = ArrSizes[Len(ArrSizes)]
        /\ RegSizes # <<>> /\ ArrSizes # <<>>
        /\ RegSizes' = Front(RegSizes)
        /\ ArrSizes' = Front(ArrSizes)
    BY <1>2, <2>1, FrameDropped
  <2>3. Len(RegSizes) = n /\ Len(ArrSizes) = n /\ SizesFact
    BY SizesOf DEF SizesFact
  <2>4. /\ StoreOK(localReg', RegSizes')
        /\ \A i \in 1 .. n : Slice(localReg', RegSizes', i) = Slice(localReg, RegSizes, i)
    <3> DEFINE new == Free(localReg, RegSizes[Len(RegSizes)])
               sz == Front(RegSizes)
    <3>1. StoreOK(localReg, RegSizes)
      BY DEF MachineInv
    <3>2. StoreOK(new, sz) /\ \A i \in 1 .. Len(RegSizes) : Slice(new, sz, i) = Slice(localReg, RegSizes, i)
      BY <2>2, <3>1, FreeOf
    <3>3. localReg' = new /\ RegSizes' = sz
      BY <2>1, <2>2
    <3> HIDE DEF new, sz
    <3>4. QED
      BY <2>3, <3>2, <3>3
  <2>5. /\ StoreOK(localArr', ArrSizes')
        /\ \A i \in 1 .. n : Slice(localArr', ArrSizes', i) = Slice(localArr, ArrSizes, i)
    <3> DEFINE new == Free(localArr, ArrSizes[Len(ArrSizes)])
               sz == Front(ArrSizes)
    <3>1. StoreOK(localArr, ArrSizes)
      BY DEF MachineInv
    <3>2. StoreOK(new, sz) /\ \A i \in 1 .. Len(ArrSizes) : Slice(new, sz, i) = Slice(localArr, ArrSizes, i)
      BY <2>2, <3>1, FreeOf
    <3>3. localArr' = new /\ ArrSizes' = sz
      BY <2>1, <2>2
    <3> HIDE DEF new, sz
    <3>4. QED
      BY <2>3, <3>2, <3>3
  <2>6. MachineInv'
    <3>1. Running'
      <4>1. frame.module \in Module /\ frame.codePtr \in Nat
        BY <2>2 DEF FrameType
      <4>2. script \in DOMAIN Scripts
        BY <2>1 DEF MachineInv, Running
      <4>3. QED
        BY <2>1, <2>2, <4>1, <4>2 DEF Running
    <3>2. mode' = "In" /\ dataStk' \in Seq(Word) /\ regV' \in [Module \cup Outer -> Word]
      BY <2>1 DEF MachineInv
    <3>3. QED
      BY <2>2, <2>4, <2>5, <3>1, <3>2 DEF MachineInv
  <2>7. /\ A \in Seq(ActType) /\ Len(A) = n + 1 /\ A # <<>>
        /\ \A i \in 1 .. n + 1 : A[i] = Activation(i)
    BY <2>1, ActivationsOf DEF ActsFact
  <2>8. /\ B \in Seq(ActType) /\ Len(B) = n
        /\ \A i \in 1 .. n : B[i] = Activation(i)'
    <3>1. ActsFact'
      BY <2>1, <2>6, ActivationsAfter
    <3>2. Depth' = n
      BY <2>2 DEF Depth
    <3>3. QED
      BY <3>1, <3>2 DEF ActsFact
  <2>9. Depth = n + 1 /\ Depth' = n
    BY <2>2 DEF Depth
  <2> HIDE DEF A, B
  <2>10. ASSUME NEW i \in 1 .. n PROVE B[i] = A[i]
    <3>1. i \in 1 .. n + 1 /\ i # n + 1
      BY <2>2
    <3>2. i = n \/ i \in 1 .. n - 1
      BY <2>2
    <3>3. Activation(i)' = Activation(i)
      <4>1. CASE i = n
        BY <2>1, <2>2, <2>4, <2>5, <2>9, <3>1, <4>1 DEF Activation
      <4>2. CASE i # n
        BY <2>2, <2>4, <2>5, <2>9, <3>1, <3>2, <4>2 DEF Activation
      <4>3. QED
        BY <4>1, <4>2
    <3>4. QED
      BY <2>7, <2>8, <3>1, <3>3
  <2>11. Len(A) - 1 = n
    BY <2>2, <2>7
  <2>12. B = SubSeq(A, 1, Len(A) - 1)
    <3>1. n \in Nat /\ n <= Len(A)
      BY <2>2, <2>7
    <3> DEFINE C == SubSeq(A, 1, n)
    <3>2. C \in Seq(ActType) /\ Len(C) = n /\ \A i \in 1 .. n : C[i] = A[i]
      <4> HIDE DEF n
      <4>1. QED
        BY <2>7, <3>1, FirstOnes
    <3> HIDE DEF C, n
    <3>3. B = C
      BY <2>8, <2>10, <3>2, SeqEqual
    <3>4. QED
      BY <2>11, <3>3 DEF C
  <2>13. ImplementsFrames!Return
    <3>1. Len(A) > 1
      BY <2>2, <2>7
    <3>2. Activations = A /\ Activations' = B
      BY DEF A, B
    <3>3. QED
      BY <2>1, <2>12, <3>1, <3>2 DEF ImplementsFrames!Return, ImplementsFrames!Below
  <2>14. QED
    BY <2>6, <2>13 DEF ImplementsFrames!Next
<1>3. QED
  BY <1>1, <1>2
-----------------------------------------------------------------------------
(* The locals of a script's first activation. *)
LEMMA FreshStore ==
  ASSUME NEW n \in Nat
  PROVE  LET new == Alloc(Cleared, n)
         IN StoreOK(new, <<>>) /\ Size(new) = n /\ Slice(new, <<>>, 1) = Zeros(n)
<1> DEFINE new == Alloc(Cleared, n)
           z == Zeros(n)
<1>1. z \in Seq(Word) /\ Len(z) = n
  BY ZerosOf
<1> HIDE DEF z
<1>2. new = [words |-> z, active |-> 0]
  <2>1. new = [words |-> <<>> \o z, active |-> Len(<<>>)]
    BY DEF Alloc, Cleared, z
  <2>2. <<>> \o z = z /\ Len(<<>>) = 0
    BY <1>1, ConcatEmptySeq
  <2>3. QED
    BY <2>1, <2>2
<1> HIDE DEF new
<1>3. <<>> \in Seq(Nat) /\ Len(<<>>) = 0
  OBVIOUS
<1>4. Begins(<<>>)[1] = 0
  BY <1>3, BeginsOf
<1>5. StoreOK(new, <<>>)
  BY <1>1, <1>2, <1>3, <1>4 DEF StoreOK, StoreType
<1>6. Size(new) = n
  BY <1>1, <1>2 DEF Size
<1>7. Slice(new, <<>>, 1) = z
  <2>1. Slice(new, <<>>, 1) = SubSeq(z, 1, Len(z))
    BY <1>2, <1>3 DEF Slice
  <2>2. QED
    BY <1>1, <2>1, SubSeqFull
<1>8. QED
  BY <1>5, <1>6, <1>7 DEF new, z

(* Zeros behind the arguments, of which there may be fewer than there could be. *)
LEMMA PaddedArgs ==
  ASSUME NEW args \in Seq(Word), NEW argC \in Nat, NEW n \in Nat, argC <= n, Len(args) <= argC
  PROVE  LET regs == args \o Zeros(n - Len(args))
         IN /\ regs \in Seq(Word) /\ SubSeq(regs, 1, argC) \in Seq(Word)
            /\ regs = SubSeq(regs, 1, argC) \o Zeros(n - argC)
<1> DEFINE l == Len(args)
           z == Zeros(n - l)
           y == Zeros(n - argC)
           regs == args \o z
           p == SubSeq(regs, 1, argC)
<1>1. l \in Nat /\ n - l \in Nat /\ n - argC \in Nat /\ l <= argC
  OBVIOUS
<1>2. z \in Seq(Word) /\ Len(z) = n - l /\ \A i \in 1 .. n - l : z[i] = 0
  BY <1>1, ZerosOf
<1>3. y \in Seq(Word) /\ Len(y) = n - argC /\ \A i \in 1 .. n - argC : y[i] = 0
  BY <1>1, ZerosOf
<1> HIDE DEF z, y
<1>4. /\ regs \in Seq(Word) /\ Len(regs) = n
      /\ \A i \in 1 .. n : regs[i] = IF i <= l THEN args[i] ELSE z[i - l]
  <2>1. /\ regs \in Seq(Word) /\ Len(regs) = Len(args) + Len(z)
        /\ \A i \in 1 .. Len(args) + Len(z) : regs[i] = IF i <= Len(args) THEN args[i] ELSE z[i - Len(args)]
    BY <1>2, ConcatProperties
  <2>2. Len(args) + Len(z) = n
    BY <1>1, <1>2
  <2>3. QED
    BY <2>1, <2>2
<1> HIDE DEF regs, l
<1>5. p \in Seq(Word) /\ Len(p) = argC /\ \A i \in 1 .. argC : p[i] = regs[i]
  BY <1>4, FirstOnes
<1> DEFINE q == p \o y
<1> HIDE DEF p
<1>6. /\ q \in Seq(Word) /\ Len(q) = n
      /\ \A i \in 1 .. n : q[i] = IF i <= argC THEN p[i] ELSE y[i - argC]
  <2>1. /\ q \in Seq(Word) /\ Len(q) = Len(p) + Len(y)
        /\ \A i \in 1 .. Len(p) + Len(y) : q[i] = IF i <= Len(p) THEN p[i] ELSE y[i - Len(p)]
    BY <1>3, <1>5, ConcatProperties
  <2>2. Len(p) = argC /\ Len(p) + Len(y) = n
    BY <1>3, <1>5
  <2>3. QED
    BY <2>1, <2>2
<1> HIDE DEF q
<1>7. ASSUME NEW i \in 1 .. n PROVE regs[i] = q[i]
  <2>1. CASE i <= argC
    BY <1>5, <1>6, <2>1
  <2>2. CASE ~ (i <= argC)
    <3>1. i - argC \in 1 .. n - argC /\ i - l \in 1 .. n - l /\ ~ (i <= l)
      BY <1>1, <2>2
    <3>2. regs[i] = 0 /\ q[i] = 0
      BY <1>2, <1>3, <1>4, <1>6, <2>2, <3>1
    <3>3. QED
      BY <3>2
  <2>3. QED
    BY <2>1, <2>2
<1>8. regs = q
  BY <1>4, <1>6, <1>7, SeqEqual
<1>9. QED
  BY <1>4, <1>5, <1>8 DEF regs, q, p, z, y, l

(* Thread::start begins the script with its arguments. *)
LEMMA StartMaps ==
  ASSUME MachineInv, NEW args \in Args, Start(args)
  PROVE  MachineInv' /\ ImplementsFrames!Next
<1>1. PICK i \in DOMAIN Scripts :
        LET s == Scripts[i]
        IN /\ script' = i /\ module' = s.module /\ scopeMod' = s.module /\ codePtr' = s.codeIdx
           /\ localArr' = Alloc(localArr, s.locArrC)
           /\ localReg' = CopyTo(Alloc(localReg, s.locRegC),
                                 SubSeq(args, 1, IF Len(args) < s.argC THEN Len(args) ELSE s.argC))
  BY DEF Start
<1> DEFINE s == Scripts[i]
           n == s.locRegC
           m == s.locArrC
           c == s.argC
           l == IF Len(args) < c THEN Len(args) ELSE c
           given == SubSeq(args, 1, l)
<1>2. /\ s \in EntryType /\ n \in Nat /\ c \in Nat /\ m \in Nat /\ c <= n
      /\ s.module \in Module /\ s.codeIdx \in Nat
  <2>1. s \in EntryType /\ c <= n
    BY MachineAssumption
  <2> HIDE DEF s
  <2>2. QED
    BY <2>1, MachineAssumption DEF EntryType
<1>3. /\ mode = "Inactive" /\ mode' = "Out" /\ callStk' = callStk /\ dataStk' = dataStk /\ regV' = regV
      /\ callStk = <<>> /\ dataStk = <<>> /\ localReg = Cleared /\ localArr = Cleared
  BY DEF Start, MachineInv, Emptied
<1>4. args \in Seq(Word)
  <2>1. PICK k \in 0 .. 2 : args \in [1 .. k -> Word]
    BY DEF Args
  <2>2. k \in Nat
    OBVIOUS
  <2>3. QED
    BY <2>1, <2>2, SeqDef
<1>5. given \in Seq(Word) /\ Len(given) <= c
  <2>1. l \in Nat /\ l <= Len(args) /\ l <= c
    BY <1>2, <1>4
  <2> HIDE DEF l, c
  <2>2. given \in Seq(Word) /\ Len(given) = l
    BY <1>4, <2>1, FirstOnes
  <2>3. QED
    BY <2>1, <2>2
<1>6. /\ localReg' = CopyTo(Alloc(Cleared, n), given) /\ localArr' = Alloc(Cleared, m)
      /\ script' = i /\ module' = s.module /\ scopeMod' = s.module /\ codePtr' = s.codeIdx
  BY <1>1, <1>3
<1> HIDE DEF s, n, m, c, given
<1>7. RegSizes' = <<>> /\ ArrSizes' = <<>>
  BY <1>3 DEF RegSizes, ArrSizes
<1> DEFINE regs == given \o Zeros(n - Len(given))
<1>8. StoreOK(localReg', <<>>) /\ Slice(localReg', <<>>, 1) = regs
  <2> DEFINE st == Alloc(Cleared, n)
             new == CopyTo(st, given)
  <2>1. StoreOK(st, <<>>) /\ Size(st) = n /\ Slice(st, <<>>, 1) = Zeros(n)
    BY <1>2, FreshStore
  <2> HIDE DEF st
  <2>2. Len(<<>>) + 1 = 1
    OBVIOUS
  <2>3. Len(given) <= Size(st)
    BY <1>2, <1>5, <2>1
  <2>4. /\ StoreOK(new, <<>>)
        /\ Slice(st, <<>>, Len(<<>>) + 1) = Zeros(Size(st))
             => Slice(new, <<>>, Len(<<>>) + 1) = given \o Zeros(Size(st) - Len(given))
    <3>1. Copied(st, <<>>, given, new)
      BY <1>5, <2>1, <2>3, CopyOf
    <3> HIDE DEF new
    <3>2. QED
      BY <3>1 DEF Copied
  <2> HIDE DEF new
  <2>5. StoreOK(new, <<>>) /\ Slice(new, <<>>, 1) = given \o Zeros(n - Len(given))
    BY <2>1, <2>2, <2>4
  <2>6. QED
    BY <1>6, <2>5 DEF st, new
<1>9. StoreOK(localArr', <<>>) /\ Slice(localArr', <<>>, 1) = Zeros(m)
  BY <1>2, <1>6, FreshStore
<1>10. MachineInv'
  <2>1. Running'
    BY <1>2, <1>6 DEF Running
  <2>2. callStk' \in Seq(FrameType) /\ dataStk' \in Seq(Word) /\ DOMAIN callStk' = {}
    BY <1>3
  <2>3. regV' \in [Module \cup Outer -> Word]
    BY <1>3 DEF MachineInv
  <2>4. QED
    BY <1>3, <1>7, <1>8, <1>9, <2>1, <2>2, <2>3 DEF MachineInv
<1>11. Activations' = <<[module |-> s.module, pc |-> s.codeIdx, regs |-> regs, arrs |-> Zeros(m)]>>
  <2>1. Depth' = 1
    BY <1>3 DEF Depth
  <2>2. ASSUME NEW j \in 1 .. 1
        PROVE  Activation(j)' = [module |-> s.module, pc |-> s.codeIdx, regs |-> regs, arrs |-> Zeros(m)]
    <3>1. j = 1
      OBVIOUS
    <3>2. QED
      BY <1>6, <1>7, <1>8, <1>9, <2>1, <3>1 DEF Activation
  <2>3. Activations' = [j \in 1 .. 1 |-> Activation(j)']
    BY <1>3, <2>1 DEF Activations
  <2> HIDE DEF regs
  <2>4. QED
    BY <2>2, <2>3
<1>12. ImplementsFrames!Start
  <2> DEFINE p == SubSeq(regs, 1, c)
             act == [module |-> s.module, pc |-> s.codeIdx, regs |-> regs, arrs |-> Zeros(m)]
  <2>1. regs \in Seq(Word) /\ p \in Seq(Word) /\ regs = p \o Zeros(n - c)
    BY <1>2, <1>5, PaddedArgs
  <2>2. act = ImplementsFrames!Begun(s, p \o ImplementsFrames!Zeros(n - c))
    BY <2>1 DEF ImplementsFrames!Begun, ImplementsFrames!Zeros, Zeros, m
  <2>3. s \in Range(Scripts)
    BY DEF Range, s
  <2>4. Activations = <<>>
    BY <1>3 DEF Activations
  <2>5. /\ Activations' = <<act>> /\ Len(Activations') = 1 /\ Activations'[1].regs = regs
    <3> HIDE DEF regs
    <3>1. QED
      BY <1>11
  <2> HIDE DEF regs, act
  <2>6. QED
    BY <1>3, <2>1, <2>2, <2>3, <2>4, <2>5 DEF ImplementsFrames!Start, n, c
<1>13. QED
  BY <1>10, <1>12 DEF ImplementsFrames!Next
-----------------------------------------------------------------------------
-----------------------------------------------------------------------------
(* A save and a load. *)

LEMMA Placed ==
  ASSUME NEW S, NEW s \in Seq(S), NEW t \in Seq(S)
  PROVE  /\ s \o t \in Seq(S) /\ Len(s \o t) = Len(s) + Len(t)
         /\ Len(s) \in Nat /\ Len(t) \in Nat
         /\ \A i \in 1 .. Len(s) : (s \o t)[i] = s[i]
         /\ \A i \in 1 .. Len(t) : (s \o t)[Len(s) + i] = t[i]
<1> DEFINE u == s \o t
           m == Len(s)
           n == Len(t)
<1>1. m \in Nat /\ n \in Nat
  OBVIOUS
<1>2. /\ u \in Seq(S) /\ Len(u) = m + n
      /\ \A i \in 1 .. m + n : u[i] = IF i <= m THEN s[i] ELSE t[i - m]
  BY ConcatProperties
<1> HIDE DEF u, m, n
<1>3. \A i \in 1 .. m : u[i] = s[i]
  BY <1>1, <1>2
<1>4. ASSUME NEW i \in 1 .. n PROVE u[m + i] = t[i]
  <2>1. m + i \in 1 .. m + n /\ ~ (m + i <= m) /\ (m + i) - m = i
    BY <1>1
  <2>2. QED
    BY <1>2, <2>1
<1>5. QED
  BY <1>1, <1>2, <1>3, <1>4 DEF u, m, n

(* What was written at a place is read there. *)
LEMMA PartBack ==
  ASSUME NEW S, NEW in \in Seq(S), NEW u \in Seq(S), NEW m \in Nat, NEW n \in Nat,
         n = Len(u), m + n <= Len(in), \A k \in 1 .. n : in[m + k] = u[k]
  PROVE  SubSeq(in, m + 1, m + n) = u
<1> DEFINE a == m + 1
           b == m + n
           p == SubSeq(in, a, b)
<1>1. /\ a \in Nat \ {0} /\ b \in Nat /\ b <= Len(in)
      /\ b - a + 1 = n /\ (~ (a <= b) => n = 0)
      /\ \A k \in 1 .. n : a + k - 1 = m + k
  OBVIOUS
<1> HIDE DEF a, b
<1>2. /\ p \in Seq(S) /\ Len(p) = IF a <= b THEN b - a + 1 ELSE 0
      /\ \A i \in 1 .. b - a + 1 : p[i] = in[a + i - 1]
  BY <1>1, PartOf
<1> HIDE DEF p
<1>3. Len(p) = n /\ \A i \in 1 .. n : p[i] = u[i]
  BY <1>1, <1>2
<1>4. p = u
  BY <1>2, <1>3, SeqEqual
<1>5. QED
  BY <1>4 DEF p, a, b

OpensWith(in, t) == Len(t) <= Len(in) /\ \A i \in 1 .. Len(t) : in[i] = t[i]

LEMMA StoreBack ==
  ASSUME NEW S, Nat \subseteq S, NEW s \in Seq(S), NEW in \in Seq(S),
         NEW st \in StoreType, st.active <= Len(st.words), OpensWith(in, s \o StoreWords(st))
  PROVE  /\ StoreWords(st) \in Seq(S)
         /\ Len(s \o StoreWords(st)) = Len(s) + 2 + Len(st.words)
         /\ in[Len(s) + 1] = Len(st.words)
         /\ StoreAt(in, Len(s) + 1) = st
<1> DEFINE w == st.words
           a == st.active
           n == Len(w)
           head == <<n, n - a>>
           m == Len(s)
           t == s \o StoreWords(st)
<1>1. w \in Seq(Word) /\ a \in Nat /\ n \in Nat /\ a <= n /\ st = [words |-> w, active |-> a]
  BY DEF StoreType
<1>2. Word \subseteq Nat
  BY MachineAssumption
<1>3. w \in Seq(S)
  BY <1>1, <1>2, SeqMonotonic
<1>4. StoreWords(st) = head \o w
  BY DEF StoreWords, Size
<1> HIDE DEF w, a
<1>5. head \in Seq(S) /\ Len(head) = 2 /\ head[1] = n /\ head[2] = n - a /\ n - a \in Nat
  <2>1. n \in S /\ n - a \in S /\ n - a \in Nat
    BY <1>1
  <2> HIDE DEF n
  <2>2. QED
    BY <2>1
<1> HIDE DEF n, head
<1> DEFINE sw == StoreWords(st)
<1>6. /\ sw \in Seq(S) /\ Len(sw) = 2 + n /\ sw[1] = n /\ sw[2] = n - a
      /\ \A k \in 1 .. n : sw[2 + k] = w[k]
  <2>1. /\ head \o w \in Seq(S) /\ Len(head \o w) = Len(head) + Len(w)
        /\ \A i \in 1 .. Len(head) : (head \o w)[i] = head[i]
        /\ \A i \in 1 .. Len(w) : (head \o w)[Len(head) + i] = w[i]
    <3>1. head \in Seq(S)
      BY <1>5
    <3>2. QED
      BY <1>3, <3>1, Placed
  <2>2. Len(w) = n
    BY DEF n
  <2>3. 1 \in 1 .. Len(head) /\ 2 \in 1 .. Len(head)
    BY <1>5
  <2> HIDE DEF sw
  <2>4. sw = head \o w
    BY <1>4 DEF sw
  <2>5. QED
    BY <1>5, <2>1, <2>2, <2>3, <2>4
<1> HIDE DEF sw
<1>7. /\ t = s \o sw /\ Len(t) = m + (2 + n) /\ m \in Nat
      /\ \A i \in 1 .. 2 + n : t[m + i] = sw[i]
  <2>1. /\ Len(s \o sw) = Len(s) + Len(sw) /\ Len(s) \in Nat
        /\ \A i \in 1 .. Len(sw) : (s \o sw)[Len(s) + i] = sw[i]
    <3>1. sw \in Seq(S)
      BY <1>6
    <3>2. QED
      BY <3>1, Placed
  <2>2. t = s \o sw
    BY DEF sw
  <2> HIDE DEF t
  <2>3. QED
    BY <1>6, <2>1, <2>2
<1>8. Len(t) <= Len(in) /\ \A i \in 1 .. Len(t) : in[i] = t[i]
  BY DEF OpensWith
<1> HIDE DEF m, t
<1>9. \A i \in 1 .. 2 + n : in[m + i] = sw[i]
  <2>1. \A i \in 1 .. 2 + n : m + i \in 1 .. Len(t)
    BY <1>1, <1>7
  <2>2. QED
    BY <1>7, <1>8, <2>1
<1>10. in[m + 1] = n /\ in[m + 2] = n - a /\ \A k \in 1 .. n : in[(m + 2) + k] = w[k]
  <2>1. 1 \in 1 .. 2 + n /\ 2 \in 1 .. 2 + n
    BY <1>1
  <2>2. \A k \in 1 .. n : 2 + k \in 1 .. 2 + n /\ m + (2 + k) = (m + 2) + k
    BY <1>1, <1>7
  <2>3. QED
    BY <1>6, <1>9, <2>1, <2>2
<1>11. SubSeq(in, (m + 2) + 1, (m + 2) + n) = w
  <2>1. m + 2 \in Nat /\ n = Len(w) /\ (m + 2) + n <= Len(in)
    <3>1. Len(in) \in Nat
      OBVIOUS
    <3>2. QED
      BY <1>1, <1>7, <1>8, <3>1 DEF n
  <2> DEFINE j == m + 2
  <2> HIDE DEF j
  <2>2. j \in Nat /\ j + n <= Len(in) /\ \A k \in 1 .. n : in[j + k] = w[k]
    BY <1>10, <2>1 DEF j
  <2>3. SubSeq(in, j + 1, j + n) = w
    BY <1>1, <1>3, <2>1, <2>2, PartBack
  <2>4. QED
    BY <2>3 DEF j
<1>12. StoreAt(in, m + 1) = st
  <2>1. (m + 1) + 2 = (m + 2) + 1 /\ (m + 1) + 1 + n = (m + 2) + n /\ (m + 1) + 1 = m + 2
    BY <1>1, <1>7
  <2>2. StoreAt(in, m + 1) = AllocLoad(w, n - a)
    BY <1>10, <1>11, <2>1 DEF StoreAt
  <2>3. n - (n - a) = a
    BY <1>1
  <2>4. AllocLoad(w, n - a) = [words |-> w, active |-> n - (n - a)]
    BY DEF AllocLoad, n
  <2>5. QED
    BY <1>1, <2>2, <2>3, <2>4
<1>13. Len(t) = m + 2 + n
  BY <1>1, <1>7
<1>14. QED
  BY <1>6, <1>10, <1>12, <1>13 DEF sw, t, m, n, w
-----------------------------------------------------------------------------
(* The call frames in the stream. *)
LEMMA FramesBack ==
  ASSUME MachineInv
  PROVE  /\ StackWords \in Seq(Module \cup Nat) /\ Len(StackWords) = 4 * Len(callStk)
         /\ \A in : \A i \in 1 .. Len(callStk) :
              (\A k \in 1 .. 4 * Len(callStk) : in[4 + k] = StackWords[k])
                => FrameAt(in, 5 + 4 * (i - 1)) = callStk[i]
<1> DEFINE n == Len(callStk)
           S == Module \cup Nat
           q(k) == ((k - 1) \div 4) + 1
           r(k) == ((k - 1) % 4) + 1
<1>1. n \in Nat /\ \A i \in 1 .. n : callStk[i] \in FrameType /\ callStk[i].scopeMod = callStk[i].module
  BY SizesOf DEF SizesFact
<1>2. StackWords = [k \in 1 .. 4 * n |-> FrameWords(callStk[q(k)])[r(k)]]
  BY DEF StackWords
<1> HIDE DEF n
<1>3. \A k \in 1 .. 4 * n : q(k) \in 1 .. n /\ r(k) \in 1 .. 4
  BY <1>1
<1>4. \A i \in 1 .. n : /\ FrameWords(callStk[i])[1] = callStk[i].module
                        /\ FrameWords(callStk[i])[2] = callStk[i].codePtr
                        /\ FrameWords(callStk[i])[3] = callStk[i].locArrC
                        /\ FrameWords(callStk[i])[4] = callStk[i].locRegC
  BY DEF FrameWords
<1>5. \A i \in 1 .. n : \A j \in 1 .. 4 : FrameWords(callStk[i])[j] \in S
  <2> SUFFICES ASSUME NEW i \in 1 .. n, NEW j \in 1 .. 4 PROVE FrameWords(callStk[i])[j] \in S
    OBVIOUS
  <2>1. j = 1 \/ j = 2 \/ j = 3 \/ j = 4
    OBVIOUS
  <2>2. /\ callStk[i].module \in Module /\ callStk[i].codePtr \in Nat
        /\ callStk[i].locArrC \in Nat /\ callStk[i].locRegC \in Nat
    BY <1>1 DEF FrameType
  <2>3. QED
    BY <1>4, <2>1, <2>2
<1>6. StackWords \in Seq(S) /\ Len(StackWords) = 4 * n
  <2>1. \A k \in 1 .. 4 * n : FrameWords(callStk[q(k)])[r(k)] \in S
    BY <1>3, <1>5
  <2>2. 4 * n \in Nat
    BY <1>1
  <2> HIDE DEF q, r, S
  <2>3. QED
    BY <1>2, <2>1, <2>2
<1>7. ASSUME NEW in, NEW i \in 1 .. n, \A k \in 1 .. 4 * n : in[4 + k] = StackWords[k]
      PROVE  FrameAt(in, 5 + 4 * (i - 1)) = callStk[i]
  <2> DEFINE b == 4 * (i - 1)
  <2>1. ASSUME NEW j \in 1 .. 4 PROVE in[4 + (b + j)] = FrameWords(callStk[i])[j]
    <3>1. b + j \in 1 .. 4 * n
      BY <1>1
    <3>2. q(b + j) = i /\ r(b + j) = j
      BY <1>1
    <3>3. StackWords[b + j] = FrameWords(callStk[q(b + j)])[r(b + j)]
      <4> HIDE DEF b, q, r
      <4>1. QED
        BY <1>2, <3>1
    <3>4. QED
      BY <1>7, <3>1, <3>2, <3>3
  <2>2. /\ 4 + (b + 1) = 5 + b /\ 4 + (b + 2) = (5 + b) + 1
        /\ 4 + (b + 3) = (5 + b) + 2 /\ 4 + (b + 4) = (5 + b) + 3
    BY <1>1
  <2> HIDE DEF b
  <2>3. /\ in[5 + b] = callStk[i].module /\ in[(5 + b) + 1] = callStk[i].codePtr
        /\ in[(5 + b) + 2] = callStk[i].locArrC /\ in[(5 + b) + 3] = callStk[i].locRegC
    <3>1. 1 \in 1 .. 4 /\ 2 \in 1 .. 4 /\ 3 \in 1 .. 4 /\ 4 \in 1 .. 4
      OBVIOUS
    <3>2. QED
      BY <1>4, <2>1, <2>2, <3>1
  <2>4. FrameAt(in, 5 + b) = [module |-> callStk[i].module, scopeMod |-> callStk[i].module,
          codePtr |-> callStk[i].codePtr, locArrC |-> callStk[i].locArrC, locRegC |-> callStk[i].locRegC]
    BY <2>3 DEF FrameAt
  <2>5. callStk[i] \in FrameType /\ callStk[i].scopeMod = callStk[i].module
    BY <1>1
  <2>6. FrameAt(in, 5 + b) = callStk[i]
    BY <2>4, <2>5 DEF FrameType
  <2>7. QED
    BY <2>6 DEF b
<1>8. QED
  BY <1>6, <1>7 DEF n

(* A thread that is saved and loaded is the same. *)
LEMMA ReloadKeeps ==
  ASSUME MachineInv, Reload
  PROVE  UNCHANGED vars
<1> DEFINE S == Module \cup Nat
           c == Len(callStk)
           d == Len(dataStk)
           i1 == <<module, codePtr, script, c>>
           i2 == i1 \o StackWords
           i3 == i2 \o <<d>>
           i4 == i3 \o dataStk
           i5 == i4 \o StoreWords(localArr)
           i6 == i5 \o StoreWords(localReg)
<1>1. /\ mode = "Out" /\ module \in Module /\ scopeMod = module /\ codePtr \in Nat /\ script \in DOMAIN Scripts
      /\ dataStk \in Seq(Word) /\ callStk \in Seq(FrameType) /\ SizesFact
      /\ localReg \in StoreType /\ localReg.active <= Len(localReg.words)
      /\ localArr \in StoreType /\ localArr.active <= Len(localArr.words)
  BY SizesOf DEF MachineInv, Reload, Running, StoreOK
<1>2. c \in Nat /\ d \in Nat /\ script \in Nat /\ Word \subseteq Nat /\ callStk = [i \in 1 .. c |-> callStk[i]]
  BY <1>1, MachineAssumption
<1> HIDE DEF c, d
<1>3. /\ i1 \in Seq(S) /\ Len(i1) = 4
      /\ i1[1] = module /\ i1[2] = codePtr /\ i1[3] = script /\ i1[4] = c
  BY <1>1, <1>2
<1>4. /\ StackWords \in Seq(S) /\ Len(StackWords) = 4 * c
      /\ \A in : \A i \in 1 .. c :
           (\A k \in 1 .. 4 * c : in[4 + k] = StackWords[k])
             => FrameAt(in, 5 + 4 * (i - 1)) = callStk[i]
  BY FramesBack DEF c
<1> HIDE DEF i1
<1>5. /\ i2 \in Seq(S) /\ Len(i2) = 4 + 4 * c
      /\ \A i \in 1 .. 4 : i2[i] = i1[i]
      /\ \A k \in 1 .. 4 * c : i2[4 + k] = StackWords[k]
  <2>1. /\ i2 \in Seq(S) /\ Len(i2) = Len(i1) + Len(StackWords)
        /\ \A i \in 1 .. Len(i1) : i2[i] = i1[i]
        /\ \A i \in 1 .. Len(StackWords) : i2[Len(i1) + i] = StackWords[i]
    <3>1. i1 \in Seq(S) /\ StackWords \in Seq(S)
      BY <1>3, <1>4
    <3>2. QED
      BY <3>1, Placed
  <2> HIDE DEF i2
  <2>2. QED
    BY <1>3, <1>4, <2>1
<1> HIDE DEF i2
<1> DEFINE data == 5 + 4 * c
<1>6. /\ i3 \in Seq(S) /\ Len(i3) = data
      /\ \A i \in 1 .. 4 + 4 * c : i3[i] = i2[i]
      /\ i3[data] = d
  <2>1. <<d>> \in Seq(S) /\ Len(<<d>>) = 1 /\ <<d>>[1] = d
    BY <1>2
  <2> DEFINE o == <<d>>
  <2> HIDE DEF o
  <2>2. /\ i2 \o o \in Seq(S) /\ Len(i2 \o o) = Len(i2) + Len(o)
        /\ \A i \in 1 .. Len(i2) : (i2 \o o)[i] = i2[i]
        /\ \A i \in 1 .. Len(o) : (i2 \o o)[Len(i2) + i] = o[i]
    <3>1. i2 \in Seq(S) /\ o \in Seq(S)
      BY <1>5, <2>1 DEF o
    <3>2. QED
      BY <3>1, Placed
  <2>3. Len(o) = 1 /\ o[1] = d /\ i3 = i2 \o o
    BY <2>1 DEF o
  <2> HIDE DEF i3
  <2>4. 1 \in 1 .. 1 /\ (4 + 4 * c) + 1 = data
    BY <1>2
  <2>5. QED
    BY <1>5, <2>2, <2>3, <2>4
<1> HIDE DEF i3
<1>7. data \in Nat
  BY <1>2
<1> HIDE DEF data
<1>8. /\ i4 \in Seq(S) /\ Len(i4) = data + d
      /\ \A i \in 1 .. data : i4[i] = i3[i]
      /\ \A k \in 1 .. d : i4[data + k] = dataStk[k]
      /\ dataStk \in Seq(S)
  <2>1. dataStk \in Seq(S)
    BY <1>1, <1>2, SeqMonotonic
  <2>2. /\ i4 \in Seq(S) /\ Len(i4) = Len(i3) + Len(dataStk)
        /\ \A i \in 1 .. Len(i3) : i4[i] = i3[i]
        /\ \A i \in 1 .. Len(dataStk) : i4[Len(i3) + i] = dataStk[i]
    <3>1. i3 \in Seq(S)
      BY <1>6
    <3>2. QED
      BY <2>1, <3>1, Placed
  <2> HIDE DEF i4
  <2>3. QED
    BY <1>6, <2>1, <2>2 DEF d
<1> HIDE DEF i4
<1> DEFINE in == Saved
           sa == StoreWords(localArr)
           sr == StoreWords(localReg)
           la == Len(localArr.words)
           lr == Len(localReg.words)
<1>9. in = i6 /\ i6 = i5 \o sr /\ i5 = i4 \o sa
  BY DEF Saved, i4, i3, i2, i1, c, d
<1>10. sa \in Seq(S) /\ sr \in Seq(S)
  <2>0. /\ localArr.words \in Seq(Word) /\ localReg.words \in Seq(Word)
        /\ Size(localArr) \in Nat /\ Size(localReg) \in Nat
    BY <1>1, InnerSlice DEF StoreOK, StoreType, MachineInv
  <2>1. Word \subseteq S /\ la \in Nat /\ lr \in Nat
    BY <1>2, <2>0
  <2>2. localArr.words \in Seq(S) /\ localReg.words \in Seq(S)
    BY <2>0, <2>1, SeqMonotonic
  <2> DEFINE za == Size(localArr)
             zr == Size(localReg)
  <2> HIDE DEF la, lr, za, zr
  <2>3. <<la, za>> \in Seq(S) /\ <<lr, zr>> \in Seq(S)
    <3>1. la \in S /\ lr \in S /\ za \in S /\ zr \in S
      BY <2>0, <2>1 DEF S, za, zr
    <3>2. QED
      BY <3>1
  <2>4. sa = <<la, za>> \o localArr.words /\ sr = <<lr, zr>> \o localReg.words
    BY DEF StoreWords, la, lr, za, zr
  <2> DEFINE pa == <<la, za>>
             pr == <<lr, zr>>
  <2> HIDE DEF pa, pr, sa, sr
  <2>5. pa \o localArr.words \in Seq(S) /\ pr \o localReg.words \in Seq(S)
    BY <2>2, <2>3, ConcatProperties DEF pa, pr
  <2>6. QED
    BY <2>4, <2>5 DEF pa, pr
<1> HIDE DEF sa, sr, in, i6, i5
<1>11. /\ i5 \in Seq(S) /\ \A i \in 1 .. Len(i4) : i5[i] = i4[i]
       /\ Len(i5) = Len(i4) + Len(sa) /\ Len(sa) \in Nat
  <2>1. /\ i4 \o sa \in Seq(S) /\ \A i \in 1 .. Len(i4) : (i4 \o sa)[i] = i4[i]
        /\ Len(i4 \o sa) = Len(i4) + Len(sa) /\ Len(sa) \in Nat
    BY <1>8, <1>10, Placed, SMTT(20)
  <2>2. QED
    BY <1>9, <2>1
<1>12. /\ in \in Seq(S) /\ \A i \in 1 .. Len(i5) : in[i] = i5[i]
       /\ Len(in) = Len(i5) + Len(sr) /\ Len(sr) \in Nat /\ Len(i5) \in Nat
  <2>1. /\ i5 \o sr \in Seq(S) /\ \A i \in 1 .. Len(i5) : (i5 \o sr)[i] = i5[i]
        /\ Len(i5 \o sr) = Len(i5) + Len(sr) /\ Len(sr) \in Nat /\ Len(i5) \in Nat
    <3>1. i5 \in Seq(S)
      BY <1>11
    <3>2. QED
      BY <1>10, <3>1, Placed
  <2>2. QED
    BY <1>9, <2>1
<1> DEFINE base == data + d
<1>13. /\ Len(i5) = base + 2 + la
       /\ in[base + 1] = la /\ StoreAt(in, base + 1) = localArr
  <2>1. Nat \subseteq S /\ i4 \in Seq(S) /\ in \in Seq(S)
    BY <1>8, <1>12
  <2>2. OpensWith(in, i4 \o StoreWords(localArr))
    <3>1. Len(i5) <= Len(in)
      BY <1>12
    <3>2. QED
      BY <1>9, <1>12, <3>1 DEF OpensWith, sa
  <2> HIDE DEF S
  <2>3. /\ Len(i4 \o StoreWords(localArr)) = Len(i4) + 2 + Len(localArr.words)
        /\ in[Len(i4) + 1] = Len(localArr.words)
        /\ StoreAt(in, Len(i4) + 1) = localArr
    BY <1>1, <2>1, <2>2, StoreBack, ZenonT(30)
  <2>4. Len(i4) = base
    BY <1>8
  <2> HIDE DEF base
  <2>5. QED
    BY <1>9, <2>3, <2>4 DEF sa
<1>14. StoreAt(in, Len(i5) + 1) = localReg
  <2>1. Nat \subseteq S /\ i5 \in Seq(S) /\ in \in Seq(S)
    BY <1>11, <1>12
  <2>2. OpensWith(in, i5 \o StoreWords(localReg))
    <3>1. Len(in) <= Len(in)
      BY <1>12
    <3>2. QED
      BY <1>9, <3>1 DEF OpensWith, sr
  <2> HIDE DEF S
  <2>3. QED
    BY <1>1, <2>1, <2>2, StoreBack
<1>15. ASSUME NEW i \in 1 .. data + d PROVE in[i] = i4[i]
  <2>1. i \in 1 .. Len(i4) /\ i \in 1 .. Len(i5)
    BY <1>2, <1>7, <1>8, <1>11
  <2>2. QED
    BY <1>11, <1>12, <2>1
<1>16. ASSUME NEW i \in 1 .. 4 + 4 * c PROVE in[i] = i2[i]
  <2>1. i \in 1 .. data /\ i \in 1 .. data + d
    BY <1>2, <1>7 DEF data
  <2>2. QED
    BY <1>6, <1>8, <1>15, <2>1
<1>17. in[1] = module /\ in[2] = codePtr /\ in[3] = script /\ in[4] = c
  <2>1. \A i \in 1 .. 4 : i \in 1 .. 4 + 4 * c
    BY <1>2
  <2>2. 1 \in 1 .. 4 /\ 2 \in 1 .. 4 /\ 3 \in 1 .. 4 /\ 4 \in 1 .. 4
    OBVIOUS
  <2>3. QED
    BY <1>3, <1>5, <1>16, <2>1, <2>2
<1>18. \A i \in 1 .. c : FrameAt(in, 5 + 4 * (i - 1)) = callStk[i]
  <2>1. \A k \in 1 .. 4 * c : 4 + k \in 1 .. 4 + 4 * c
    BY <1>2
  <2>2. \A k \in 1 .. 4 * c : in[4 + k] = StackWords[k]
    BY <1>5, <1>16, <2>1
  <2>3. QED
    BY <1>4, <2>2
<1>19. in[data] = d /\ SubSeq(in, data + 1, data + d) = dataStk
  <2>1. data \in 1 .. data /\ data \in 1 .. data + d
    BY <1>2, <1>7 DEF data
  <2>2. in[data] = d
    BY <1>6, <1>8, <1>15, <2>1
  <2>3. \A k \in 1 .. d : data + k \in 1 .. data + d
    BY <1>2, <1>7
  <2>4. \A k \in 1 .. d : in[data + k] = dataStk[k]
    BY <1>8, <1>15, <2>3
  <2>5. data + d <= Len(in)
    <3>1. data + d <= Len(i4) /\ Len(i4) <= Len(i5) /\ Len(i5) <= Len(in)
      BY <1>8, <1>11, <1>12
    <3>2. data \in Nat /\ d \in Nat /\ Len(i4) \in Nat /\ Len(i5) \in Nat /\ Len(in) \in Nat
      BY <1>2, <1>7, <1>8, <1>11, <1>12
    <3>3. QED
      BY <3>1, <3>2
  <2>6. SubSeq(in, data + 1, data + d) = dataStk
    <3>1. in \in Seq(S) /\ dataStk \in Seq(S)
      BY <1>8, <1>12
    <3>2. d = Len(dataStk)
      BY DEF d
    <3> HIDE DEF S, d
    <3>3. QED
      BY <1>2, <1>7, <2>4, <2>5, <3>1, <3>2, PartBack
  <2>7. QED
    BY <2>2, <2>6
<1> DEFINE fr == 5
           da == fr + 4 * in[4]
           ar == da + 1 + in[da]
           rg == ar + 2 + in[ar]
<1>20. da = data /\ ar = (data + d) + 1 /\ rg = Len(i5) + 1
  <2>1. da = data
    BY <1>17 DEF data
  <2>2. ar = (data + d) + 1
    BY <1>2, <1>7, <1>19, <2>1
  <2>3. la \in Nat
    BY <1>1 DEF StoreType
  <2>4. in[ar] = la
    BY <1>13, <2>2
  <2> HIDE DEF la, ar
  <2>5. rg = Len(i5) + 1
    BY <1>2, <1>7, <1>13, <2>2, <2>3, <2>4
  <2>6. QED
    BY <2>1, <2>2, <2>5 DEF ar
<1>21. /\ module' = in[1] /\ scopeMod' = in[1] /\ codePtr' = in[2] /\ script' = in[3]
       /\ callStk' = [i \in 1 .. in[4] |-> FrameAt(in, fr + 4 * (i - 1))]
       /\ dataStk' = SubSeq(in, da + 1, da + in[da])
       /\ localArr' = StoreAt(in, ar)
       /\ localReg' = StoreAt(in, rg)
       /\ mode' = mode /\ regV' = regV
  BY DEF Reload, in
<1> HIDE DEF da, ar, rg
<1>22. callStk' = callStk
  BY <1>2, <1>17, <1>18, <1>21
<1>23. dataStk' = dataStk
  BY <1>19, <1>20, <1>21
<1>24. localArr' = localArr /\ localReg' = localReg
  BY <1>13, <1>14, <1>20, <1>21
<1>25. QED
  BY <1>1, <1>17, <1>21, <1>22, <1>23, <1>24 DEF vars
-----------------------------------------------------------------------------
-----------------------------------------------------------------------------
(* The theorems. *)

LEMMA InitMaps == Init => MachineInv /\ ImplementsFrames!Init
<1> SUFFICES ASSUME Init PROVE MachineInv /\ ImplementsFrames!Init
  OBVIOUS
<1>1. 0 \in Word
  BY MachineAssumption
<1>2. regV \in [Module \cup Outer -> Word]
  BY <1>1 DEF Init
<1>3. StoppedState
  BY <1>2 DEF Init, StoppedState, Emptied
<1>4. Activations = <<>> /\ dataStk = <<>>
  BY DEF Init, Activations
<1>5. QED
  BY <1>2, <1>3, <1>4, StoppedInv DEF ImplementsFrames!Init, ImplementsFrames!Variable

LEMMA NextMaps ==
  MachineInv /\ [Next]_vars => MachineInv' /\ [ImplementsFrames!Next]_(ImplementsFrames!vars)
<1> SUFFICES ASSUME MachineInv, [Next]_vars
             PROVE  MachineInv' /\ [ImplementsFrames!Next]_(ImplementsFrames!vars)
  OBVIOUS
<1>1. CASE \E args \in Args : Start(args)
  BY <1>1, StartMaps
<1>2. CASE Exec \/ Yield \/ UnderflowAtOperand \/ Kill \/ ScrTerm \/ Stop \/ Jump \/ ScrRestart
  BY <1>2, ControlMaps
<1>3. CASE Call_Lit \/ Call_Stk
  BY <1>3, CallMaps
<1>4. CASE Retn
  BY <1>4, ReturnMaps
<1>5. CASE OpOuterReg \/ OpModReg
  BY <1>5, RegMaps
<1>6. CASE OpLocReg
  BY <1>6, LocRegMaps
<1>7. CASE OpLocArr
  BY <1>7, LocArrMaps
<1>8. CASE Drop_Nul \/ PushWord \/ Push_LocArr \/ CallSpec_R1 \/ OnStack
  BY <1>8, StackMaps
<1>9. CASE Reload \/ UNCHANGED vars
  <2>1. UNCHANGED vars
    BY <1>9, ReloadKeeps
  <2>2. MachineInv'
    BY <2>1 DEF vars, MachineInv, Running, Emptied, RegSizes, ArrSizes
  <2>3. Activations' = Activations
    BY <2>1 DEF vars, Activations, Activation, Depth, RegSizes, ArrSizes
  <2>4. QED
    BY <2>1, <2>2, <2>3 DEF vars, ImplementsFrames!vars
<1>10. QED
  BY <1>1, <1>2, <1>3, <1>4, <1>5, <1>6, <1>7, <1>8, <1>9 DEF Next

(***************************************************************************)
(* The stores of the locals and the call frames belong together in every   *)
(* state: the block is as long as the sizes in the frames say, and a       *)
(* thread that stopped left nothing.                                       *)
(***************************************************************************)
THEOREM StoresFit == Spec => []MachineInv
<1>1. Init => MachineInv
  BY InitMaps
<1>2. MachineInv /\ [Next]_vars => MachineInv'
  BY NextMaps
<1>3. QED
  BY <1>1, <1>2, PTL DEF Spec

(***************************************************************************)
(* Thread::saveState and Thread::loadState: a thread that is saved and     *)
(* loaded between two tics has its place, its call frames, its data stack  *)
(* and its locals again, whatever they are.                                *)
(***************************************************************************)
THEOREM SaveRestoresThread == Spec => SavesRestore
<1>1. MachineInv /\ [Next]_vars => [Reload => UNCHANGED vars]_vars
  BY ReloadKeeps
<1>2. QED
  BY <1>1, StoresFit, PTL DEF Spec, SavesRestore

(***************************************************************************)
(* Whatever code the modules have, Thread::exec does with its call frames, *)
(* its block of locals and its data stack what CallFrames promises: every  *)
(* activation finds its locals, its module and its place again, through    *)
(* calls, returns, exceptions, saves and loads.                            *)
(***************************************************************************)
THEOREM MachineImplements == Spec => FramesKept
<1>1. Init => MachineInv /\ ImplementsFrames!Init
  BY InitMaps
<1>2. MachineInv /\ [Next]_vars => MachineInv' /\ [ImplementsFrames!Next]_(ImplementsFrames!vars)
  BY NextMaps
<1>3. QED
  BY <1>1, <1>2, SaveRestoresThread, PTL DEF Spec, FramesKept, ImplementsFrames!Spec
=============================================================================
