-------------------------- MODULE PrintBufferProof --------------------------
(***************************************************************************)
(* The print buffer, for bytes and marks of any size and whatever is       *)
(* printed: nothing is written behind the block, and the bytes, the marks  *)
(* and the pointers stand for the texts that PrintTexts promises.          *)
(***************************************************************************)
EXTENDS PrintBuffer, ListLinksProof
-----------------------------------------------------------------------------
(* Numbers in bytes: what ReadLE4 reads is what WriteLE4 wrote. *)

LEMMA Digits ==
  ASSUME NEW n \in Nat
  PROVE  /\ n \div Base \in Nat /\ n % Base \in Byte
         /\ n = Base * (n \div Base) + (n % Base)
BY BufferAssumption DEF Byte

LEMMA FewerDigits ==
  ASSUME NEW n \in Nat, NEW k \in Nat, n < Base * k
  PROVE  n \div Base < k
<1>1. Base \in Nat
  BY BufferAssumption
<1>2. PICK q \in Nat, r \in Nat : n = Base * q + r /\ q = n \div Base
  BY Digits DEF Byte
<1>3. SUFFICES ASSUME q >= k PROVE FALSE
  BY <1>2
<1>4. PICK d \in Nat : q = k + d
  BY <1>3
<1>5. Base * q = Base * k + Base * d
  BY <1>1, <1>4
<1>6. Base * d >= 0
  BY <1>1
<1>7. QED
  BY <1>1, <1>2, <1>5, <1>6

PowerRule(p) ==
  p = [i \in 0 .. MarkSize |-> IF i = 0 THEN 1 ELSE Base * p[i - 1]]

LEMMA LimitIsPower ==
  \E p \in [0 .. MarkSize -> Nat] :
    /\ p[0] = 1 /\ \A i \in 1 .. MarkSize : p[i] = Base * p[i - 1]
    /\ Limit = p[MarkSize] - 1
<1> DEFINE P == [i \in 1 .. MarkSize |-> i - 1]
           G == [e \in (1 .. MarkSize) \X Nat |-> Base * e[2]]
           p == CHOOSE p : PowerRule(p)
<1>1. MarkSize \in Nat /\ Base \in Nat
  BY BufferAssumption
<1>2. \E f : PowerRule(f)
  <2>1. Decreasing(P, MarkSize)
    BY <1>1 DEF Decreasing
  <2>2. G \in [(1 .. MarkSize) \X Nat -> Nat]
    BY <1>1
  <2>3. 1 \in Nat
    OBVIOUS
  <2> HIDE DEF P, G
  <2>4. PICK f \in [0 .. MarkSize -> Nat] : Recursive(f, MarkSize, 1, P, G)
    BY <1>1, <2>1, <2>2, <2>3, RecursionTo
  <2>5. ASSUME NEW i \in 1 .. MarkSize PROVE f[i] = Base * f[i - 1]
    <3>1. P[i] = i - 1 /\ f[i - 1] \in Nat
      BY <1>1 DEF P
    <3>2. QED
      BY <2>4, <3>1 DEF G, Recursive
  <2>6. f[0] = 1
    BY <2>4 DEF Recursive
  <2>7. PowerRule(f)
    BY <1>1, <2>5, <2>6 DEF PowerRule
  <2>8. QED
    BY <2>7
<1>3. PowerRule(p)
  BY <1>2
<1>4. Limit = p[MarkSize] - 1
  BY DEF Limit, PowerRule
<1> HIDE DEF p
<1>5. p[0] = 1 /\ \A i \in 1 .. MarkSize : p[i] = Base * p[i - 1]
  BY <1>1, <1>3 DEF PowerRule
<1>6. \A i \in 0 .. MarkSize : p[i] \in Nat
  <2> DEFINE T == {i \in 0 .. MarkSize : p[i] \in Nat}
  <2>1. 0 \in T /\ \A i \in 1 .. MarkSize : i - 1 \in T => i \in T
    BY <1>1, <1>5
  <2>2. \A i \in 0 .. MarkSize : i \in T
    <3> HIDE DEF T
    <3>1. QED
      BY <1>1, <2>1, UpTo
  <2>3. QED
    BY <2>2
<1>7. p \in [0 .. MarkSize -> Nat]
  BY <1>3, <1>6 DEF PowerRule
<1>8. QED
  BY <1>4, <1>5, <1>7
-----------------------------------------------------------------------------
RestRule(r, n) ==
  r = [i \in 0 .. MarkSize |-> IF i = 0 THEN n ELSE r[i - 1] \div Base]

LEMMA MarkIsDigits ==
  ASSUME NEW n \in Nat
  PROVE  \E r \in [0 .. MarkSize -> Nat] :
           /\ r[0] = n /\ \A i \in 1 .. MarkSize : r[i] = r[i - 1] \div Base
           /\ Mark(n) = [i \in 1 .. MarkSize |-> r[i - 1] % Base]
<1> DEFINE P == [i \in 1 .. MarkSize |-> i - 1]
           G == [e \in (1 .. MarkSize) \X Nat |-> e[2] \div Base]
           r == CHOOSE r : RestRule(r, n)
<1>1. MarkSize \in Nat /\ \A k \in Nat : k \div Base \in Nat
  BY BufferAssumption, Digits
<1>2. \E f : RestRule(f, n)
  <2>1. Decreasing(P, MarkSize)
    BY <1>1 DEF Decreasing
  <2>2. G \in [(1 .. MarkSize) \X Nat -> Nat]
    BY <1>1
  <2> HIDE DEF P, G
  <2>3. PICK f \in [0 .. MarkSize -> Nat] : Recursive(f, MarkSize, n, P, G)
    BY <1>1, <2>1, <2>2, RecursionTo
  <2>4. ASSUME NEW i \in 1 .. MarkSize PROVE f[i] = f[i - 1] \div Base
    <3>1. P[i] = i - 1 /\ f[i - 1] \in Nat
      BY <1>1 DEF P
    <3>2. QED
      BY <2>3, <3>1 DEF G, Recursive
  <2>5. f[0] = n
    BY <2>3 DEF Recursive
  <2>6. RestRule(f, n)
    <3>1. \A i \in 0 .. MarkSize : i # 0 => i \in 1 .. MarkSize
      BY <1>1
    <3>2. \A i \in 0 .. MarkSize : f[i] = IF i = 0 THEN n ELSE f[i - 1] \div Base
      BY <2>4, <2>5, <3>1, Zenon
    <3>3. QED
      BY <2>3, <3>2 DEF RestRule
  <2>7. QED
    BY <2>6
<1>3. RestRule(r, n)
  BY <1>2
<1>4. Mark(n) = [i \in 1 .. MarkSize |-> r[i - 1] % Base]
  BY DEF Mark, RestRule
<1> HIDE DEF r
<1>5. r[0] = n /\ \A i \in 1 .. MarkSize : r[i] = r[i - 1] \div Base
  <2>1. ASSUME NEW i \in 0 .. MarkSize
        PROVE  r[i] = IF i = 0 THEN n ELSE r[i - 1] \div Base
    BY <1>3, Zenon DEF RestRule
  <2>2. QED
    BY <1>1, <2>1
<1>6. \A i \in 0 .. MarkSize : r[i] \in Nat
  <2> DEFINE T == {i \in 0 .. MarkSize : r[i] \in Nat}
  <2>1. 0 \in T /\ \A i \in 1 .. MarkSize : i - 1 \in T => i \in T
    BY <1>1, <1>5
  <2>2. \A i \in 0 .. MarkSize : i \in T
    <3> HIDE DEF T
    <3>1. QED
      BY <1>1, <2>1, UpTo
  <2>3. QED
    BY <2>2
<1>7. r \in [0 .. MarkSize -> Nat]
  BY <1>3, <1>6 DEF RestRule
<1>8. QED
  BY <1>4, <1>5, <1>7

LEMMA MarkType ==
  ASSUME NEW n \in Nat
  PROVE  Mark(n) \in Seq(Byte) /\ Len(Mark(n)) = MarkSize
<1>1. PICK r \in [0 .. MarkSize -> Nat] : Mark(n) = [i \in 1 .. MarkSize |-> r[i - 1] % Base]
  BY MarkIsDigits
<1>2. MarkSize \in Nat
  BY BufferAssumption
<1>3. \A i \in 1 .. MarkSize : r[i - 1] % Base \in Byte
  BY <1>2, Digits
<1>4. QED
  BY <1>1, <1>2, <1>3

ValueRule(v, bytes) ==
  v = [i \in 0 .. MarkSize |->
         IF i = 0 THEN 0 ELSE bytes[MarkSize + 1 - i] + Base * v[i - 1]]

LEMMA ValueIsSum ==
  ASSUME NEW bytes \in Seq(Byte), Len(bytes) = MarkSize
  PROVE  \E v \in [0 .. MarkSize -> Nat] :
           /\ v[0] = 0
           /\ \A i \in 1 .. MarkSize : v[i] = bytes[MarkSize + 1 - i] + Base * v[i - 1]
           /\ ValueOf(bytes) = v[MarkSize]
<1> DEFINE P == [i \in 1 .. MarkSize |-> i - 1]
           G == [e \in (1 .. MarkSize) \X Nat |-> bytes[MarkSize + 1 - e[1]] + Base * e[2]]
           v == CHOOSE v : ValueRule(v, bytes)
<1>1. /\ MarkSize \in Nat /\ Base \in Nat
      /\ \A i \in 1 .. MarkSize : bytes[MarkSize + 1 - i] \in Nat
  <2>1. MarkSize \in Nat /\ Base \in Nat /\ Byte \subseteq Nat
    BY BufferAssumption DEF Byte
  <2>2. \A i \in 1 .. MarkSize : MarkSize + 1 - i \in 1 .. Len(bytes)
    BY <2>1
  <2>3. \A i \in 1 .. Len(bytes) : bytes[i] \in Byte
    OBVIOUS
  <2>4. QED
    BY <2>1, <2>2, <2>3
<1>0. \A k \in Nat : Base * k \in Nat
  BY <1>1
<1>2. \E f : ValueRule(f, bytes)
  <2>1. Decreasing(P, MarkSize)
    BY <1>1 DEF Decreasing
  <2>2. G \in [(1 .. MarkSize) \X Nat -> Nat]
    <3>1. \A e \in (1 .. MarkSize) \X Nat : bytes[MarkSize + 1 - e[1]] + Base * e[2] \in Nat
      <4>1. ASSUME NEW i \in 1 .. MarkSize, NEW k \in Nat
            PROVE  bytes[MarkSize + 1 - i] + Base * k \in Nat
        <5>1. bytes[MarkSize + 1 - i] \in Nat /\ Base * k \in Nat
          BY <1>1, <1>0
        <5>2. QED
          BY <5>1
      <4>2. QED
        BY <4>1
    <3>2. QED
      BY <3>1
  <2>3. 0 \in Nat
    OBVIOUS
  <2> HIDE DEF P, G
  <2>4. PICK f \in [0 .. MarkSize -> Nat] : Recursive(f, MarkSize, 0, P, G)
    BY <1>1, <2>1, <2>2, <2>3, RecursionTo
  <2>5. ASSUME NEW i \in 1 .. MarkSize
        PROVE  f[i] = bytes[MarkSize + 1 - i] + Base * f[i - 1]
    <3>1. P[i] = i - 1 /\ f[i - 1] \in Nat
      BY <1>1 DEF P
    <3>2. QED
      BY <2>4, <3>1 DEF G, Recursive
  <2>6. f[0] = 0
    BY <2>4 DEF Recursive
  <2>7. ValueRule(f, bytes)
    BY <1>1, <2>5, <2>6 DEF ValueRule
  <2>8. QED
    BY <2>7
<1>3. ValueRule(v, bytes)
  BY <1>2
<1>4. ValueOf(bytes) = v[MarkSize]
  BY DEF ValueOf, ValueRule
<1> HIDE DEF v
<1>5. /\ v[0] = 0
      /\ \A i \in 1 .. MarkSize : v[i] = bytes[MarkSize + 1 - i] + Base * v[i - 1]
  BY <1>1, <1>3 DEF ValueRule
<1>6. \A i \in 0 .. MarkSize : v[i] \in Nat
  <2> DEFINE T == {i \in 0 .. MarkSize : v[i] \in Nat}
  <2>0. 0 \in T
    BY <1>1, <1>5
  <2>1. ASSUME NEW i \in 1 .. MarkSize, i - 1 \in T PROVE i \in T
    <3>1. bytes[MarkSize + 1 - i] \in Nat /\ Base * v[i - 1] \in Nat
      BY <1>1, <1>0, <2>1
    <3>2. v[i] \in Nat
      BY <1>5, <3>1
    <3>3. QED
      BY <3>2
  <2>2. \A i \in 0 .. MarkSize : i \in T
    <3> HIDE DEF T
    <3>1. QED
      BY <1>1, <2>0, <2>1, UpTo
  <2>3. QED
    BY <2>2
<1>7. v \in [0 .. MarkSize -> Nat]
  BY <1>3, <1>6 DEF ValueRule
<1>8. QED
  BY <1>4, <1>5, <1>7

(* ReadLE4 reads what WriteLE4 wrote, up to UINT32_MAX. *)
LEMMA MarkIsRead ==
  ASSUME NEW n \in Nat, n <= Limit
  PROVE  ValueOf(Mark(n)) = n
<1>1. MarkSize \in Nat /\ Base \in Nat
  BY BufferAssumption
<1>2. PICK p \in [0 .. MarkSize -> Nat] :
        /\ p[0] = 1 /\ \A i \in 1 .. MarkSize : p[i] = Base * p[i - 1]
        /\ Limit = p[MarkSize] - 1
  BY LimitIsPower
<1>3. PICK r \in [0 .. MarkSize -> Nat] :
        /\ r[0] = n /\ \A i \in 1 .. MarkSize : r[i] = r[i - 1] \div Base
        /\ Mark(n) = [i \in 1 .. MarkSize |-> r[i - 1] % Base]
  BY MarkIsDigits
<1>4. PICK v \in [0 .. MarkSize -> Nat] :
        /\ v[0] = 0
        /\ \A i \in 1 .. MarkSize : v[i] = Mark(n)[MarkSize + 1 - i] + Base * v[i - 1]
        /\ ValueOf(Mark(n)) = v[MarkSize]
  BY MarkType, ValueIsSum
<1>5. \A i \in 0 .. MarkSize : r[i] < p[MarkSize - i]
  <2> DEFINE T == {i \in 0 .. MarkSize : r[i] < p[MarkSize - i]}
  <2>1. 0 \in T
    BY <1>1, <1>2, <1>3
  <2>2. ASSUME NEW i \in 1 .. MarkSize, i - 1 \in T PROVE i \in T
    <3>1. MarkSize - (i - 1) \in 1 .. MarkSize /\ MarkSize - (i - 1) - 1 = MarkSize - i
      BY <1>1
    <3>2. p[MarkSize - (i - 1)] = Base * p[MarkSize - i]
      BY <1>2, <3>1
    <3>3. r[i - 1] < Base * p[MarkSize - i] /\ r[i - 1] \in Nat /\ p[MarkSize - i] \in Nat
      BY <1>1, <2>2, <3>2
    <3>4. r[i - 1] \div Base < p[MarkSize - i]
      BY <3>3, FewerDigits
    <3>5. QED
      BY <1>3, <3>4
  <2>3. \A i \in 0 .. MarkSize : i \in T
    <3> HIDE DEF T
    <3>1. QED
      BY <1>1, <2>1, <2>2, UpTo
  <2>4. QED
    BY <2>3
<1>6. r[MarkSize] = 0
  BY <1>1, <1>2, <1>5
<1>7. \A i \in 0 .. MarkSize : v[i] = r[MarkSize - i]
  <2> DEFINE T == {i \in 0 .. MarkSize : v[i] = r[MarkSize - i]}
  <2>1. 0 \in T
    BY <1>1, <1>4, <1>6
  <2>2. ASSUME NEW i \in 1 .. MarkSize, i - 1 \in T PROVE i \in T
    <3> DEFINE k == MarkSize + 1 - i
    <3>1. k \in 1 .. MarkSize /\ k - 1 = MarkSize - i /\ MarkSize - (i - 1) = k
      BY <1>1
    <3>2. v[i - 1] = r[k]
      BY <2>2, <3>1
    <3>3. v[i] = (r[k - 1] % Base) + Base * r[k]
      BY <1>3, <1>4, <3>1, <3>2
    <3> HIDE DEF k
    <3>4. r[k] = r[k - 1] \div Base /\ r[k - 1] \in Nat
      BY <1>1, <1>3, <3>1
    <3> DEFINE m == r[k - 1]
    <3>5. m = Base * (m \div Base) + (m % Base) /\ m % Base \in Nat /\ Base * (m \div Base) \in Nat
      <4>1. m \in Nat
        BY <3>4
      <4> HIDE DEF m
      <4>2. m \div Base \in Nat /\ m % Base \in Byte /\ m = Base * (m \div Base) + (m % Base)
        BY <4>1, Digits
      <4>3. m % Base \in Nat
        BY <1>1, <4>2 DEF Byte
      <4>4. \A q \in Nat : Base * q \in Nat
        BY <1>1
      <4>5. QED
        BY <4>2, <4>3, <4>4
    <3>6. v[i] = r[k - 1]
      BY <3>3, <3>4, <3>5
    <3>7. QED
      BY <3>1, <3>6
  <2>3. \A i \in 0 .. MarkSize : i \in T
    <3> HIDE DEF T
    <3>1. QED
      BY <1>1, <2>1, <2>2, UpTo
  <2>4. QED
    BY <2>3
<1>8. v[MarkSize] = n
  BY <1>1, <1>3, <1>7
<1>9. QED
  BY <1>4, <1>8
-----------------------------------------------------------------------------
(* Where texts begin. *)

(* In a stack of texts each mark leads to the text around. *)
LEMMA LinkedOrder ==
  ASSUME NEW m, NEW ns, Linked(m, ns)
  PROVE  /\ ns \in Seq(Nat) /\ Len(ns) \in Nat \ {0} /\ ns[1] = 0
         /\ \A i \in 1 .. Len(ns) : ns[i] \in Nat /\ ns[i] <= ns[Len(ns)]
         /\ \A i \in 1 .. Len(ns) : i > 1 => ns[i] >= MarkSize
<1> DEFINE l == Len(ns)
           T == {k \in 0 .. l - 1 : ns[l - k] <= ns[l]}
<1>1. /\ ns \in Seq(Nat) /\ l \in Nat \ {0} /\ ns[1] = 0
      /\ \A i \in 1 .. l : ns[i] \in Nat
      /\ \A i \in 1 .. l - 1 : ns[i] + MarkSize <= ns[i + 1]
  BY DEF Linked
<1>2. MarkSize \in Nat
  BY BufferAssumption
<1> HIDE DEF l
<1>3. 0 \in T
  BY <1>1
<1>4. ASSUME NEW k \in 1 .. l - 1, k - 1 \in T PROVE k \in T
  <2>1. l - k \in 1 .. l - 1 /\ (l - k) + 1 = l - (k - 1) /\ l - (k - 1) \in 1 .. l
    BY <1>1
  <2>2. ns[l - k] + MarkSize <= ns[l - (k - 1)]
    BY <1>1, <2>1
  <2>3. ns[l - (k - 1)] <= ns[l]
    BY <1>4
  <2>4. ns[l - k] \in Nat /\ ns[l - (k - 1)] \in Nat /\ ns[l] \in Nat
    BY <1>1, <2>1
  <2>5. ns[l - k] <= ns[l]
    <3> DEFINE x == ns[l - k]
               y == ns[l - (k - 1)]
               z == ns[l]
    <3>1. x \in Nat /\ y \in Nat /\ z \in Nat /\ x + MarkSize <= y /\ y <= z
      BY <2>2, <2>3, <2>4
    <3> HIDE DEF x, y, z
    <3>2. x <= z
      BY <1>2, <3>1
    <3>3. QED
      BY <3>2 DEF x, z
  <2>6. k \in 0 .. l - 1
    BY <1>1
  <2>7. QED
    BY <2>5, <2>6
<1>5. \A k \in 0 .. l - 1 : k \in T
  <2>1. l - 1 \in Nat
    BY <1>1
  <2> HIDE DEF T
  <2>2. QED
    BY <1>3, <1>4, <2>1, UpTo
<1>6. ASSUME NEW i \in 1 .. l PROVE ns[i] <= ns[l]
  <2>1. l - i \in 0 .. l - 1 /\ l - (l - i) = i
    BY <1>1
  <2>2. QED
    BY <1>5, <2>1
<1>7. ASSUME NEW i \in 1 .. l, i > 1 PROVE ns[i] >= MarkSize
  <2>1. i - 1 \in 1 .. l - 1 /\ (i - 1) + 1 = i /\ i - 1 \in 1 .. l
    BY <1>1, <1>7
  <2>2. ns[i - 1] + MarkSize <= ns[(i - 1) + 1]
    BY <1>1, <2>1
  <2>3. ns[i - 1] + MarkSize <= ns[i] /\ ns[i - 1] \in Nat /\ ns[i] \in Nat
    BY <1>1, <2>1, <2>2
  <2>4. QED
    BY <1>2, <2>3
<1>8. QED
  BY <1>1, <1>6, <1>7 DEF l

NestRule(f, m, b) ==
  f = [c \in 0 .. b |->
         IF c = 0 THEN <<0>>
         ELSE Append(IF Around(m, c) \in 0 .. c - 1 THEN f[Around(m, c)] ELSE <<>>, c)]

LEMMA BeginsRule ==
  ASSUME NEW m, NEW b \in Nat
  PROVE  \E f : NestRule(f, m, b) /\ Begins(m, b) = f[b]
<1> DEFINE In(c) == Around(m, c) \in 0 .. c - 1
           P == [c \in 1 .. b |-> IF In(c) THEN Around(m, c) ELSE 0]
           S == Seq(Nat)
           G == [e \in (1 .. b) \X S |-> Append(IF In(e[1]) THEN e[2] ELSE <<>>, e[1])]
           a == <<0>>
<1>1. Decreasing(P, b)
  BY DEF Decreasing
<1>2. G \in [(1 .. b) \X S -> S]
  <2>1. ASSUME NEW c \in 1 .. b, NEW s \in S
        PROVE  Append(IF In(c) THEN s ELSE <<>>, c) \in S
    OBVIOUS
  <2> HIDE DEF S, In
  <2>2. QED
    BY <2>1
<1>3. a \in S
  OBVIOUS
<1> HIDE DEF P, G, S, a
<1>4. PICK f \in [0 .. b -> S] : Recursive(f, b, a, P, G)
  BY <1>1, <1>2, <1>3, RecursionTo
<1>5. ASSUME NEW c \in 1 .. b
      PROVE  f[c] = Append(IF In(c) THEN f[Around(m, c)] ELSE <<>>, c)
  <2> HIDE DEF In
  <2>1. P[c] = IF In(c) THEN Around(m, c) ELSE 0
    BY DEF P
  <2>2. P[c] \in 0 .. b
    BY <1>1 DEF Decreasing
  <2>3. f[c] = G[<<c, f[P[c]]>>] /\ f[P[c]] \in S
    BY <1>4, <2>2 DEF Recursive
  <2>4. f[c] = Append(IF In(c) THEN f[P[c]] ELSE <<>>, c)
    BY <2>3 DEF G
  <2>5. QED
    BY <2>1, <2>4
<1>6. f[0] = <<0>>
  BY <1>4 DEF Recursive, a
<1>7. NestRule(f, m, b)
  <2>1. \A c \in 0 .. b : c # 0 => c \in 1 .. b
    OBVIOUS
  <2>2. QED
    BY <1>4, <1>5, <1>6, <2>1 DEF NestRule
<1> DEFINE g == CHOOSE g : NestRule(g, m, b)
<1>8. NestRule(g, m, b)
  BY <1>7
<1>9. Begins(m, b) = g[b]
  BY DEF Begins, NestRule
<1>10. QED
  BY <1>8, <1>9

(* Begins finds the one stack of texts that ends at b.                     *)
LEMMA BeginsOfLinked ==
  ASSUME NEW m, NEW ns, Linked(m, ns), NEW b, b = ns[Len(ns)]
  PROVE  Begins(m, b) = ns
<1> DEFINE l == Len(ns)
<1>1. /\ ns \in Seq(Nat) /\ l \in Nat \ {0} /\ ns[1] = 0 /\ MarkSize \in Nat \ {0}
      /\ \A i \in 1 .. l : ns[i] \in Nat /\ ns[i] <= ns[l]
      /\ \A i \in 1 .. l - 1 : ns[i] + MarkSize <= ns[i + 1] /\ Around(m, ns[i + 1]) = ns[i]
  BY LinkedOrder, BufferAssumption DEF Linked
<1>2. b \in Nat
  BY <1>1
<1>3. PICK f : NestRule(f, m, b) /\ Begins(m, b) = f[b]
  BY <1>2, BeginsRule
<1>4. f[0] = <<0>>
  BY <1>2, <1>3 DEF NestRule
<1>5. ASSUME NEW c \in 1 .. b, Around(m, c) \in 0 .. c - 1 PROVE f[c] = Append(f[Around(m, c)], c)
  <2>1. c \in 0 .. b /\ c # 0
    BY <1>2
  <2>2. \A d \in 0 .. b :
          f[d] = IF d = 0 THEN <<0>>
                 ELSE Append(IF Around(m, d) \in 0 .. d - 1 THEN f[Around(m, d)] ELSE <<>>, d)
    BY <1>3, Zenon DEF NestRule
  <2>3. QED
    BY <1>5, <2>1, <2>2
<1> HIDE DEF l
<1> DEFINE T == {k \in 0 .. l - 1 : f[ns[k + 1]] = SubSeq(ns, 1, k + 1)}
<1>6. 0 \in T
  <2>1. SubSeq(ns, 1, 1) = <<0>>
    <3>1. 1 <= Len(ns)
      BY <1>1 DEF l
    <3>2. /\ SubSeq(ns, 1, 1) \in Seq(Nat) /\ Len(SubSeq(ns, 1, 1)) = 1
          /\ \A i \in 1 .. 1 - 1 + 1 : SubSeq(ns, 1, 1)[i] = ns[1 + i - 1]
      BY <1>1, <3>1, PartOf
    <3>3. SubSeq(ns, 1, 1)[1] = 0
      BY <1>1, <3>2
    <3> DEFINE p == SubSeq(ns, 1, 1)
               q == <<0>>
    <3>4. p \in Seq(Nat) /\ q \in Seq(Nat) /\ Len(p) = Len(q) /\ \A i \in 1 .. Len(p) : p[i] = q[i]
      BY <3>2, <3>3
    <3> HIDE DEF p, q
    <3>5. p = q
      BY <3>4, SeqEqual
    <3>6. QED
      BY <3>5 DEF p, q
  <2>2. QED
    BY <1>1, <1>4, <2>1
<1>7. ASSUME NEW k \in 1 .. l - 1, k - 1 \in T PROVE k \in T
  <2>1. f[ns[k]] = SubSeq(ns, 1, k) /\ k \in 1 .. l /\ k + 1 \in 1 .. l
    BY <1>1, <1>7
  <2>2. ns[k] + MarkSize <= ns[k + 1] /\ Around(m, ns[k + 1]) = ns[k]
    BY <1>1
  <2>3. ns[k + 1] \in 1 .. b /\ ns[k] \in 0 .. ns[k + 1] - 1
    BY <1>1, <1>2, <2>1, <2>2 DEF l
  <2>4. f[ns[k + 1]] = Append(SubSeq(ns, 1, k), ns[k + 1])
    BY <1>5, <2>1, <2>2, <2>3
  <2>5. SubSeq(ns, 1, k + 1) = Append(SubSeq(ns, 1, k), ns[k + 1])
    BY <1>1, <2>1 DEF l
  <2>6. f[ns[k + 1]] = SubSeq(ns, 1, k + 1) /\ k \in 0 .. l - 1
    BY <1>1, <2>4, <2>5
  <2>7. QED
    BY <2>6
<1>8. \A k \in 0 .. l - 1 : k \in T
  <2>1. l - 1 \in Nat
    BY <1>1
  <2> HIDE DEF T
  <2>2. QED
    BY <1>6, <1>7, <2>1, UpTo
<1>9. f[ns[l]] = SubSeq(ns, 1, l)
  <2>1. l - 1 \in 0 .. l - 1 /\ (l - 1) + 1 = l
    BY <1>1
  <2>2. QED
    BY <1>8, <2>1
<1>10. SubSeq(ns, 1, l) = ns
  BY <1>1 DEF l
<1>11. QED
  BY <1>3, <1>9, <1>10 DEF l
-----------------------------------------------------------------------------
(* A mark is found where it was written, whatever follows it. *)

SameUpTo(m1, m2, n) == \A k \in 1 .. n : m1[k] = m2[k]

LEMMA AroundSame ==
  ASSUME NEW m1 \in Seq(Byte), NEW m2 \in Seq(Byte), NEW n \in Nat, n <= Len(m1), n <= Len(m2),
         SameUpTo(m1, m2, n), NEW c \in Nat, MarkSize <= c, c <= n
  PROVE  Around(m1, c) = Around(m2, c)
<1> DEFINE a == c - MarkSize
<1>1. a \in Nat /\ MarkSize \in Nat /\ a + MarkSize = c
  BY BufferAssumption
<1>2. SameAt(m1, m2, a, MarkSize)
  <2>1. \A k \in 1 .. MarkSize : a + k \in 1 .. n
    BY <1>1
  <2> HIDE DEF a
  <2>2. QED
    BY <2>1 DEF SameAt, SameUpTo
<1> HIDE DEF a
<1>3. SubSeq(m1, a + 1, a + MarkSize) = SubSeq(m2, a + 1, a + MarkSize)
  <2>1. a + MarkSize <= Len(m1) /\ a + MarkSize <= Len(m2)
    BY <1>1
  <2>2. QED
    BY <1>1, <1>2, <2>1, SamePart
<1>4. QED
  BY <1>1, <1>3 DEF a, Around

(* A stack of texts stays one as long as the bytes up to the innermost text stay. *)
LEMMA LinkedSame ==
  ASSUME NEW m1 \in Seq(Byte), NEW m2 \in Seq(Byte), NEW ns, Linked(m1, ns),
         NEW n \in Nat, n <= Len(m1), n <= Len(m2), SameUpTo(m1, m2, n), ns[Len(ns)] <= n
  PROVE  Linked(m2, ns)
<1>1. /\ ns \in Seq(Nat) /\ Len(ns) \in Nat \ {0} /\ ns[1] = 0
      /\ \A i \in 1 .. Len(ns) : ns[i] \in Nat /\ ns[i] <= ns[Len(ns)]
      /\ \A i \in 1 .. Len(ns) : i > 1 => ns[i] >= MarkSize
  BY LinkedOrder
<1>2. ASSUME NEW i \in 1 .. Len(ns) - 1
      PROVE  ns[i] + MarkSize <= ns[i + 1] /\ Around(m2, ns[i + 1]) = ns[i]
  <2> DEFINE c == ns[i + 1]
  <2>1. i + 1 \in 1 .. Len(ns) /\ i + 1 > 1
    BY <1>1
  <2>2. c \in Nat /\ c <= n /\ MarkSize <= c
    BY <1>1, <2>1
  <2>3. ns[i] + MarkSize <= c /\ Around(m1, c) = ns[i]
    BY DEF Linked
  <2> HIDE DEF c
  <2>4. Around(m1, c) = Around(m2, c)
    BY <2>2, AroundSame
  <2>5. QED
    BY <2>3, <2>4 DEF c
<1>3. QED
  BY <1>1, <1>2 DEF Linked

(* push: the mark behind m leads to the innermost text of m. *)
LEMMA LinkedPush ==
  ASSUME NEW m \in Seq(Byte), NEW ns, Linked(m, ns), ns[Len(ns)] <= Len(m),
         Len(m) - ns[Len(ns)] <= Limit
  PROVE  LET m2 == m \o Mark(Len(m) - ns[Len(ns)])
         IN m2 \in Seq(Byte) /\ Len(m2) = Len(m) + MarkSize /\ Linked(m2, Append(ns, Len(m) + MarkSize))
<1> DEFINE l == Len(ns)
           b == ns[l]
           p == Len(m)
           mark == Mark(p - b)
           m2 == m \o mark
           e == p + MarkSize
           n2 == Append(ns, e)
<1>1. /\ ns \in Seq(Nat) /\ l \in Nat \ {0} /\ ns[1] = 0
      /\ \A i \in 1 .. l : ns[i] \in Nat /\ ns[i] <= b
  BY LinkedOrder
<1>2. p \in Nat /\ b \in Nat /\ MarkSize \in Nat /\ e \in Nat /\ p - b \in Nat /\ b + MarkSize <= e
  BY <1>1, BufferAssumption
<1>3. mark \in Seq(Byte) /\ Len(mark) = MarkSize /\ ValueOf(mark) = p - b
  <2> DEFINE d == p - b
  <2>1. d \in Nat /\ d <= Limit
    BY <1>2
  <2> HIDE DEF d
  <2>2. Mark(d) \in Seq(Byte) /\ Len(Mark(d)) = MarkSize /\ ValueOf(Mark(d)) = d
    BY <2>1, MarkType, MarkIsRead
  <2>3. QED
    BY <2>2 DEF d
<1> HIDE DEF mark
<1>4. /\ m2 \in Seq(Byte) /\ Len(m2) = p + MarkSize
      /\ \A i \in 1 .. p + MarkSize : m2[i] = IF i <= p THEN m[i] ELSE mark[i - p]
  <2>1. /\ m \o mark \in Seq(Byte) /\ Len(m \o mark) = Len(m) + Len(mark)
        /\ \A i \in 1 .. Len(m) + Len(mark) : (m \o mark)[i] = IF i <= Len(m) THEN m[i] ELSE mark[i - Len(m)]
    BY <1>3, ConcatProperties
  <2>2. QED
    BY <1>3, <2>1
<1> HIDE DEF m2
<1>5. SameUpTo(m, m2, p)
  BY <1>2, <1>4 DEF SameUpTo
<1>6. Linked(m2, ns)
  <2> HIDE DEF p
  <2>1. p \in Nat /\ p <= Len(m) /\ p <= Len(m2) /\ ns[Len(ns)] <= p
    BY <1>2, <1>4 DEF p
  <2>2. QED
    BY <1>4, <1>5, <2>1, LinkedSame
<1>7. Around(m2, e) = b
  <2>1. SubSeq(m2, p + 1, p + MarkSize) = mark
    <3> DEFINE s == SubSeq(m2, p + 1, p + MarkSize)
    <3>1. p + 1 \in Nat \ {0} /\ p + MarkSize \in Nat /\ p + MarkSize <= Len(m2) /\ MarkSize > 0
      BY <1>2, <1>4, BufferAssumption
    <3>2. /\ s \in Seq(Byte) /\ Len(s) = IF p + 1 <= p + MarkSize THEN (p + MarkSize) - (p + 1) + 1 ELSE 0
          /\ \A i \in 1 .. (p + MarkSize) - (p + 1) + 1 : s[i] = m2[(p + 1) + i - 1]
      BY <1>4, <3>1, PartOf
    <3>3. Len(s) = MarkSize
      BY <1>2, <3>1, <3>2
    <3> HIDE DEF s
    <3>4. ASSUME NEW i \in 1 .. Len(s) PROVE s[i] = mark[i]
      <4>1. i \in 1 .. (p + MarkSize) - (p + 1) + 1 /\ (p + 1) + i - 1 = p + i
        BY <1>2, <3>3
      <4>2. p + i \in 1 .. p + MarkSize /\ ~ (p + i <= p) /\ (p + i) - p = i
        BY <1>2, <3>3
      <4>3. s[i] = m2[p + i]
        BY <3>2, <4>1
      <4>4. QED
        BY <1>4, <4>2, <4>3
    <3>5. s = mark
      BY <1>3, <3>2, <3>3, <3>4, SeqEqual
    <3>6. QED
      BY <3>5 DEF s
  <2>2. e - MarkSize + 1 = p + 1 /\ e - MarkSize = p /\ p - (p - b) = b
    BY <1>2
  <2>3. Around(m2, e) = e - MarkSize - ValueOf(SubSeq(m2, p + 1, p + MarkSize))
    BY <2>2 DEF Around
  <2>4. QED
    BY <1>3, <2>1, <2>2, <2>3
<1>8. /\ n2 \in Seq(Nat) /\ n2 # <<>> /\ Len(n2) = l + 1 /\ n2[l + 1] = e
      /\ \A i \in 1 .. l : n2[i] = ns[i]
  BY <1>1, <1>2, SMTT(20)
<1> HIDE DEF n2, e
<1>9. ASSUME NEW i \in 1 .. Len(n2) - 1
      PROVE  n2[i] + MarkSize <= n2[i + 1] /\ Around(m2, n2[i + 1]) = n2[i]
  <2>1. CASE i = l
    BY <1>1, <1>2, <1>7, <1>8, <2>1 DEF e
  <2>2. CASE i # l
    <3>1. i \in 1 .. Len(ns) - 1 /\ i \in 1 .. l /\ i + 1 \in 1 .. l
      BY <1>1, <1>8, <2>2
    <3>2. ns[i] + MarkSize <= ns[i + 1] /\ Around(m2, ns[i + 1]) = ns[i]
      BY <1>6, <3>1 DEF Linked
    <3>3. QED
      BY <1>8, <3>1, <3>2
  <2>3. QED
    BY <2>1, <2>2
<1>10. n2[1] = 0
  <2>1. 1 \in 1 .. l
    BY <1>1
  <2> HIDE DEF l
  <2>2. QED
    BY <1>1, <1>8, <2>1
<1>11. Linked(m2, n2)
  BY <1>8, <1>9, <1>10 DEF Linked
<1>12. QED
  BY <1>4, <1>11 DEF m2, n2, e, mark
-----------------------------------------------------------------------------
(* drop: without the innermost text and its mark, the texts around it stay. *)
LEMMA LinkedDrop ==
  ASSUME NEW m \in Seq(Byte), NEW ns, Linked(m, ns), Len(ns) # 1, ns[Len(ns)] <= Len(m)
  PROVE  LET b  == ns[Len(ns)]
             m2 == SubSeq(m, 1, b - MarkSize)
             n2 == SubSeq(ns, 1, Len(ns) - 1)
         IN /\ m2 \in Seq(Byte) /\ Len(m2) = b - MarkSize /\ b # 0
            /\ SameUpTo(m, m2, b - MarkSize)
            /\ Linked(m2, n2) /\ Len(n2) = Len(ns) - 1 /\ n2[Len(n2)] = Around(m, b)
            /\ Around(m, b) <= Len(m2)
<1> DEFINE l == Len(ns)
           b == ns[l]
           k == b - MarkSize
           m2 == SubSeq(m, 1, k)
           n2 == SubSeq(ns, 1, l - 1)
<1>1. /\ ns \in Seq(Nat) /\ l \in Nat \ {0} /\ ns[1] = 0
      /\ \A i \in 1 .. l : ns[i] \in Nat /\ ns[i] <= b
      /\ \A i \in 1 .. l : i > 1 => ns[i] >= MarkSize
  BY LinkedOrder
<1>2. l > 1 /\ l - 1 \in 1 .. l /\ (l - 1) + 1 = l /\ l - 1 \in Nat \ {0} /\ l - 1 <= l
  <2>1. l \in Nat \ {0} /\ l # 1
    BY <1>1
  <2> HIDE DEF l
  <2>2. QED
    BY <2>1
<1>3. MarkSize \in Nat \ {0}
  BY BufferAssumption
<1>4. b \in Nat /\ MarkSize <= b /\ k \in Nat /\ b # 0 /\ k <= Len(m)
  <2>1. l \in 1 .. l
    BY <1>1
  <2>2. b \in Nat /\ MarkSize <= b /\ b <= Len(m)
    BY <1>1, <1>2, <2>1
  <2> HIDE DEF b
  <2>3. QED
    BY <1>3, <2>2
<1>5. ns[l - 1] + MarkSize <= b /\ Around(m, b) = ns[l - 1] /\ ns[l - 1] \in Nat
  <2>1. l - 1 \in 1 .. Len(ns) - 1
    BY <1>1, <1>2
  <2>2. ns[l - 1] + MarkSize <= ns[(l - 1) + 1] /\ Around(m, ns[(l - 1) + 1]) = ns[l - 1]
    BY <2>1 DEF Linked
  <2>3. QED
    BY <1>1, <1>2, <2>2
<1> HIDE DEF b
<1>6. ns[l - 1] <= k
  BY <1>3, <1>4, <1>5
<1>7. m2 \in Seq(Byte) /\ Len(m2) = k /\ \A i \in 1 .. k : m2[i] = m[i]
  <2> HIDE DEF k
  <2>1. 1 \in Nat \ {0}
    OBVIOUS
  <2>2. /\ SubSeq(m, 1, k) \in Seq(Byte) /\ Len(SubSeq(m, 1, k)) = IF 1 <= k THEN k - 1 + 1 ELSE 0
        /\ \A i \in 1 .. k - 1 + 1 : SubSeq(m, 1, k)[i] = m[1 + i - 1]
    BY <1>4, <2>1, PartOf
  <2>3. QED
    BY <1>4, <2>2
<1>8. n2 \in Seq(Nat) /\ Len(n2) = l - 1 /\ \A i \in 1 .. l - 1 : n2[i] = ns[i]
  <2> DEFINE j == l - 1
  <2>1. 1 \in Nat \ {0} /\ j \in Nat /\ j <= Len(ns)
    BY <1>2
  <2> HIDE DEF j
  <2>2. /\ SubSeq(ns, 1, j) \in Seq(Nat) /\ Len(SubSeq(ns, 1, j)) = IF 1 <= j THEN j - 1 + 1 ELSE 0
        /\ \A i \in 1 .. j - 1 + 1 : SubSeq(ns, 1, j)[i] = ns[1 + i - 1]
    BY <1>1, <2>1, PartOf
  <2>3. Len(SubSeq(ns, 1, j)) = j /\ \A i \in 1 .. j : SubSeq(ns, 1, j)[i] = ns[i]
    BY <2>1, <2>2
  <2>4. QED
    BY <2>2, <2>3 DEF j
<1> HIDE DEF m2, n2, k
<1>9. SameUpTo(m, m2, k)
  BY <1>7 DEF SameUpTo
<1>10. Linked(m, n2)
  <2> HIDE DEF l
  <2>1. n2 # <<>> /\ n2[1] = 0
    BY <1>1, <1>2, <1>8
  <2>2. ASSUME NEW i \in 1 .. Len(n2) - 1
        PROVE  n2[i] + MarkSize <= n2[i + 1] /\ Around(m, n2[i + 1]) = n2[i]
    <3>1. i \in 1 .. l - 1 /\ i + 1 \in 1 .. l - 1
      BY <1>2, <1>8
    <3>2. ns[i] + MarkSize <= ns[i + 1] /\ Around(m, ns[i + 1]) = ns[i]
      BY <3>1 DEF Linked, l
    <3>3. QED
      BY <1>8, <3>1, <3>2
  <2>3. QED
    BY <1>8, <2>1, <2>2 DEF Linked
<1>11. n2[Len(n2)] = ns[l - 1]
  BY <1>2, <1>8
<1>12. Linked(m2, n2)
  <2>1. n2[Len(n2)] <= k /\ k <= Len(m) /\ k <= Len(m2)
    BY <1>4, <1>6, <1>7, <1>11
  <2> HIDE DEF l
  <2>2. QED
    BY <1>4, <1>7, <1>9, <1>10, <2>1, LinkedSame
<1>13. n2[Len(n2)] = Around(m, b) /\ Around(m, b) <= Len(m2)
  BY <1>5, <1>6, <1>7, <1>11
<1>14. QED
  BY <1>4, <1>7, <1>8, <1>9, <1>12, <1>13 DEF m2, n2, k, b
-----------------------------------------------------------------------------
(* The texts that the bytes stand for. *)

\* Where text i ends.
EndOf(m, ns, i) == IF i = Len(ns) THEN Len(m) ELSE ns[i + 1] - MarkSize
TextsOf(m, ns) == [i \in DOMAIN ns |-> SubSeq(m, ns[i] + 1, EndOf(m, ns, i))]

LEMMA NestedTexts ==
  ASSUME NEW m, NEW ns, Linked(m, ns), NEW b, b = ns[Len(ns)]
  PROVE  Nested(m, b) = TextsOf(m, ns)
BY BeginsOfLinked DEF Nested, TextsOf, EndOf

(* Every text is a sequence of bytes. *)
LEMMA TextBounds ==
  ASSUME NEW m \in Seq(Byte), NEW ns, Linked(m, ns), ns[Len(ns)] <= Len(m), NEW i \in 1 .. Len(ns)
  PROVE  /\ ns[i] \in Nat /\ EndOf(m, ns, i) \in Nat
         /\ ns[i] <= EndOf(m, ns, i) /\ EndOf(m, ns, i) <= Len(m)
<1>1. /\ ns \in Seq(Nat) /\ Len(ns) \in Nat \ {0}
      /\ \A j \in 1 .. Len(ns) : ns[j] \in Nat /\ ns[j] <= ns[Len(ns)]
      /\ \A j \in 1 .. Len(ns) : j > 1 => ns[j] >= MarkSize
  BY LinkedOrder
<1>2. MarkSize \in Nat
  BY BufferAssumption
<1>3. CASE i = Len(ns)
  BY <1>1, <1>3 DEF EndOf
<1>4. CASE i # Len(ns)
  <2>1. i \in 1 .. Len(ns) - 1 /\ i + 1 \in 1 .. Len(ns) /\ i + 1 > 1
    BY <1>1, <1>4
  <2>2. ns[i] + MarkSize <= ns[i + 1]
    BY <2>1 DEF Linked
  <2>3. EndOf(m, ns, i) = ns[i + 1] - MarkSize
    BY <1>4 DEF EndOf
  <2>4. ns[i] \in Nat /\ ns[i + 1] \in Nat /\ ns[i + 1] >= MarkSize /\ ns[i + 1] <= Len(m)
    BY <1>1, <2>1
  <2>5. QED
    BY <1>2, <2>2, <2>3, <2>4
<1>5. QED
  BY <1>3, <1>4

(* Texts that end in the bytes that stay the same stay the same. *)
LEMMA TextSame ==
  ASSUME NEW m1 \in Seq(Byte), NEW m2 \in Seq(Byte), NEW n \in Nat, n <= Len(m1), n <= Len(m2),
         SameUpTo(m1, m2, n), NEW a \in Nat, NEW e \in Nat, a <= e, e <= n
  PROVE  SubSeq(m1, a + 1, e) = SubSeq(m2, a + 1, e)
<1> DEFINE d == e - a
<1>1. d \in Nat /\ a + d = e
  OBVIOUS
<1>2. SameAt(m1, m2, a, d)
  <2>1. \A k \in 1 .. d : a + k \in 1 .. n
    BY <1>1
  <2> HIDE DEF d
  <2>2. QED
    BY <2>1 DEF SameAt, SameUpTo
<1> HIDE DEF d
<1>3. a + d <= Len(m1) /\ a + d <= Len(m2)
  BY <1>1
<1>4. SubSeq(m1, a + 1, a + d) = SubSeq(m2, a + 1, a + d)
  BY <1>1, <1>2, <1>3, SamePart
<1>5. QED
  BY <1>1, <1>4
-----------------------------------------------------------------------------
LEMMA TextsType ==
  ASSUME NEW m \in Seq(Byte), NEW ns, Linked(m, ns), ns[Len(ns)] <= Len(m)
  PROVE  TextsOf(m, ns) \in Seq(Seq(Byte)) /\ Len(TextsOf(m, ns)) = Len(ns)
<1>1. Len(ns) \in Nat \ {0} /\ DOMAIN ns = 1 .. Len(ns)
  BY LinkedOrder
<1>2. ASSUME NEW i \in 1 .. Len(ns)
      PROVE  SubSeq(m, ns[i] + 1, EndOf(m, ns, i)) \in Seq(Byte)
  <2> DEFINE a == ns[i] + 1
             e == EndOf(m, ns, i)
  <2>1. a \in Nat \ {0} /\ e \in Nat /\ e <= Len(m)
    BY TextBounds
  <2> HIDE DEF a, e
  <2>2. SubSeq(m, a, e) \in Seq(Byte)
    BY <2>1, PartOf
  <2>3. QED
    BY <2>2 DEF a, e
<1>3. QED
  BY <1>1, <1>2 DEF TextsOf

(* What is written belongs to the innermost text. *)
LEMMA TextsContinue ==
  ASSUME NEW m \in Seq(Byte), NEW ns, Linked(m, ns), ns[Len(ns)] <= Len(m), NEW t \in Seq(Byte)
  PROVE  LET T == TextsOf(m, ns)
         IN TextsOf(m \o t, ns) = Append(SubSeq(T, 1, Len(T) - 1), T[Len(T)] \o t)
<1> DEFINE l == Len(ns)
           m2 == m \o t
           T == TextsOf(m, ns)
           U == TextsOf(m2, ns)
           b == ns[l]
           V == Append(SubSeq(T, 1, l - 1), T[l] \o t)
<1>1. /\ ns \in Seq(Nat) /\ l \in Nat \ {0} /\ DOMAIN ns = 1 .. l
      /\ \A i \in 1 .. l : ns[i] \in Nat /\ ns[i] <= b
  BY LinkedOrder
<1>2. /\ m2 \in Seq(Byte) /\ Len(m2) = Len(m) + Len(t) /\ Len(m) \in Nat /\ Len(t) \in Nat
      /\ \A i \in 1 .. Len(m) + Len(t) : m2[i] = IF i <= Len(m) THEN m[i] ELSE t[i - Len(m)]
  BY ConcatProperties
<1> HIDE DEF m2
<1>3. SameUpTo(m, m2, Len(m))
  BY <1>2 DEF SameUpTo
<1>4. Linked(m2, ns)
  BY <1>2, <1>3, LinkedSame
<1>5. ASSUME NEW i \in 1 .. l - 1 PROVE U[i] = T[i]
  <2>0. i \in 1 .. l /\ i # l
    <3>1. l \in Nat
      BY <1>1
    <3> HIDE DEF l
    <3>2. QED
      BY <3>1
  <2>1. i \in 1 .. Len(ns) /\ i # Len(ns)
    BY <2>0
  <2>2. EndOf(m, ns, i) = EndOf(m2, ns, i)
    BY <2>1 DEF EndOf
  <2> DEFINE a == ns[i]
             e == EndOf(m, ns, i)
  <2>3. a \in Nat /\ e \in Nat /\ a <= e /\ e <= Len(m)
    BY <2>1, TextBounds
  <2>4. U[i] = SubSeq(m2, a + 1, e) /\ T[i] = SubSeq(m, a + 1, e)
    <3>1. i \in DOMAIN ns
      BY <1>1, <2>1
    <3>2. U[i] = SubSeq(m2, ns[i] + 1, EndOf(m2, ns, i)) /\ T[i] = SubSeq(m, ns[i] + 1, EndOf(m, ns, i))
      BY <3>1 DEF TextsOf
    <3>3. QED
      BY <2>2, <3>2
  <2> HIDE DEF a, e
  <2>5. SubSeq(m, a + 1, e) = SubSeq(m2, a + 1, e)
    BY <1>2, <1>3, <2>3, TextSame
  <2>6. QED
    BY <2>4, <2>5
<1>6. U[l] = T[l] \o t
  <2> DEFINE p == Len(m)
             c == Len(t)
             s == SubSeq(m, b + 1, p)
             u == SubSeq(m2, b + 1, p + c)
  <2>1. U[l] = u /\ T[l] = s
    <3>1. l \in DOMAIN ns
      BY <1>1
    <3>2. U[l] = SubSeq(m2, ns[l] + 1, EndOf(m2, ns, l)) /\ T[l] = SubSeq(m, ns[l] + 1, EndOf(m, ns, l))
      BY <3>1 DEF TextsOf
    <3>3. EndOf(m2, ns, l) = p + c /\ EndOf(m, ns, l) = p
      BY <1>2 DEF EndOf
    <3>4. QED
      BY <3>2, <3>3
  <2>2. b \in Nat /\ p \in Nat /\ c \in Nat /\ b <= p /\ b + 1 \in Nat \ {0} /\ p + c \in Nat /\ p + c = Len(m2)
    BY <1>1, <1>2
  <2> HIDE DEF b
  <2>3. /\ s \in Seq(Byte) /\ Len(s) = p - b
        /\ \A i \in 1 .. p - b : s[i] = m[b + i]
    <3>1. /\ s \in Seq(Byte) /\ Len(s) = IF b + 1 <= p THEN p - (b + 1) + 1 ELSE 0
          /\ \A i \in 1 .. p - (b + 1) + 1 : s[i] = m[(b + 1) + i - 1]
      BY <2>2, PartOf
    <3> HIDE DEF s, p
    <3>2. QED
      BY <2>2, <3>1
  <2>4. /\ u \in Seq(Byte) /\ Len(u) = p + c - b
        /\ \A i \in 1 .. p + c - b : u[i] = m2[b + i]
    <3>1. /\ u \in Seq(Byte) /\ Len(u) = IF b + 1 <= p + c THEN (p + c) - (b + 1) + 1 ELSE 0
          /\ \A i \in 1 .. (p + c) - (b + 1) + 1 : u[i] = m2[(b + 1) + i - 1]
      BY <1>2, <2>2, PartOf
    <3> DEFINE q == p + c
    <3>2. q \in Nat /\ b <= q
      BY <2>2
    <3>3. /\ u \in Seq(Byte) /\ Len(u) = IF b + 1 <= q THEN q - (b + 1) + 1 ELSE 0
          /\ \A i \in 1 .. q - (b + 1) + 1 : u[i] = m2[(b + 1) + i - 1]
      BY <3>1
    <3> HIDE DEF u, q
    <3>4. u \in Seq(Byte) /\ Len(u) = q - b /\ \A i \in 1 .. q - b : u[i] = m2[b + i]
      BY <2>2, <3>2, <3>3
    <3>5. q = p + c
      BY DEF q
    <3> HIDE DEF p, c
    <3>6. QED
      BY <2>2, <3>4, <3>5
  <2> HIDE DEF s, u
  <2>5. /\ s \o t \in Seq(Byte) /\ Len(s \o t) = Len(s) + Len(t)
        /\ \A i \in 1 .. Len(s) + Len(t) : (s \o t)[i] = IF i <= Len(s) THEN s[i] ELSE t[i - Len(s)]
    BY <2>3, ConcatProperties
  <2>6. /\ \A i \in 1 .. p + c : m2[i] = IF i <= p THEN m[i] ELSE t[i - p]
        /\ Len(s \o t) = p + c - b
    BY <1>2, <2>2, <2>3, <2>5
  <2> HIDE DEF p
  <2>7. ASSUME NEW i \in 1 .. p + c - b PROVE u[i] = (s \o t)[i]
    <3>1. u[i] = m2[b + i] /\ b + i \in 1 .. p + c /\ i \in 1 .. Len(s) + Len(t)
      BY <2>2, <2>3, <2>4
    <3>2. CASE i <= p - b
      <4>1. i \in 1 .. p - b /\ b + i <= p /\ i <= Len(s)
        BY <2>2, <2>3, <3>2
      <4>2. QED
        BY <2>3, <2>5, <2>6, <3>1, <4>1
    <3>3. CASE ~ (i <= p - b)
      <4>1. ~ (b + i <= p) /\ ~ (i <= Len(s)) /\ (b + i) - p = i - Len(s)
        BY <2>2, <2>3, <3>3
      <4>2. QED
        BY <2>5, <2>6, <3>1, <4>1
    <3>4. QED
      BY <3>2, <3>3
  <2>8. u = s \o t
    BY <2>4, <2>5, <2>6, <2>7, SeqEqual
  <2>9. QED
    BY <2>1, <2>8
<1>7. T \in Seq(Seq(Byte)) /\ Len(T) = l /\ U \in Seq(Seq(Byte)) /\ Len(U) = l
  BY <1>1, <1>2, <1>4, TextsType
<1> HIDE DEF T, U, l
<1>8. l - 1 \in Nat /\ l - 1 <= Len(T) /\ T[l] \in Seq(Byte) /\ T[l] \o t \in Seq(Byte)
  BY <1>1, <1>7
<1>9. /\ SubSeq(T, 1, l - 1) \in Seq(Seq(Byte)) /\ Len(SubSeq(T, 1, l - 1)) = l - 1
      /\ \A i \in 1 .. l - 1 : SubSeq(T, 1, l - 1)[i] = T[i]
  BY <1>7, <1>8, FirstOnes
<1>10. /\ V \in Seq(Seq(Byte)) /\ Len(V) = l /\ V[l] = T[l] \o t
       /\ \A i \in 1 .. l - 1 : V[i] = T[i]
  BY <1>1, <1>8, <1>9
<1> HIDE DEF V
<1>11. ASSUME NEW i \in 1 .. Len(U) PROVE U[i] = V[i]
  <2>1. CASE i = l
    BY <1>6, <1>10, <2>1
  <2>2. CASE i # l
    <3>1. i \in 1 .. l - 1
      BY <1>1, <1>7, <2>2
    <3>2. QED
      BY <1>5, <1>10, <3>1
  <2>3. QED
    BY <2>1, <2>2
<1>12. U = V
  BY <1>7, <1>10, <1>11, SeqEqual
<1>13. QED
  BY <1>7, <1>12 DEF U, V, T, m2
-----------------------------------------------------------------------------
(* A new text is empty, and the mark in front of it belongs to no text. *)
LEMMA TextsBegin ==
  ASSUME NEW m \in Seq(Byte), NEW ns, Linked(m, ns), ns[Len(ns)] <= Len(m),
         NEW t \in Seq(Byte), Len(t) = MarkSize, Linked(m \o t, Append(ns, Len(m) + MarkSize))
  PROVE  TextsOf(m \o t, Append(ns, Len(m) + MarkSize)) = Append(TextsOf(m, ns), <<>>)
<1> DEFINE l == Len(ns)
           p == Len(m)
           e == p + MarkSize
           m2 == m \o t
           n2 == Append(ns, e)
           T == TextsOf(m, ns)
           U == TextsOf(m2, n2)
           V == Append(T, <<>>)
<1>1. /\ ns \in Seq(Nat) /\ l \in Nat \ {0} /\ DOMAIN ns = 1 .. l
      /\ \A i \in 1 .. l : ns[i] \in Nat
  BY LinkedOrder
<1>2. MarkSize \in Nat /\ p \in Nat /\ e \in Nat
  BY BufferAssumption
<1>3. /\ m2 \in Seq(Byte) /\ Len(m2) = e
      /\ \A i \in 1 .. p + MarkSize : m2[i] = IF i <= p THEN m[i] ELSE t[i - p]
  BY ConcatProperties
<1>4. /\ n2 \in Seq(Nat) /\ Len(n2) = l + 1 /\ DOMAIN n2 = 1 .. l + 1 /\ n2[l + 1] = e
      /\ \A i \in 1 .. l : n2[i] = ns[i]
  BY <1>1, <1>2
<1>5. Linked(m2, n2)
  OBVIOUS
<1> HIDE DEF m2, n2
<1>6. SameUpTo(m, m2, p)
  BY <1>2, <1>3 DEF SameUpTo
<1>7. ASSUME NEW i \in 1 .. l PROVE U[i] = T[i]
  <2>1. i \in 1 .. Len(ns) /\ i \in DOMAIN n2 /\ i \in DOMAIN ns /\ i # Len(n2)
    BY <1>1, <1>4
  <2>2. EndOf(m2, n2, i) = EndOf(m, ns, i)
    <3>1. CASE i = l
      <4>1. EndOf(m, ns, i) = p
        BY <3>1 DEF EndOf
      <4>2. EndOf(m2, n2, i) = n2[l + 1] - MarkSize
        BY <2>1, <3>1 DEF EndOf
      <4>3. n2[l + 1] - MarkSize = p
        BY <1>2, <1>4
      <4>4. QED
        BY <4>1, <4>2, <4>3
    <3>2. CASE i # l
      <4>1. i + 1 \in 1 .. l
        <5> HIDE DEF l
        <5>1. QED
          BY <1>1, <3>2
      <4>2. QED
        BY <1>4, <2>1, <3>2, <4>1 DEF EndOf
    <3>3. QED
      BY <3>1, <3>2
  <2> DEFINE a == ns[i]
             f == EndOf(m, ns, i)
  <2>3. a \in Nat /\ f \in Nat /\ a <= f /\ f <= Len(m)
    BY <2>1, TextBounds
  <2>4. U[i] = SubSeq(m2, a + 1, f) /\ T[i] = SubSeq(m, a + 1, f)
    <3>1. U[i] = SubSeq(m2, n2[i] + 1, EndOf(m2, n2, i)) /\ T[i] = SubSeq(m, ns[i] + 1, EndOf(m, ns, i))
      BY <2>1 DEF TextsOf
    <3>2. QED
      BY <1>4, <2>2, <3>1
  <2> HIDE DEF a, f, e
  <2>5. p <= Len(m) /\ p <= Len(m2)
    BY <1>2, <1>3 DEF e
  <2>6. SubSeq(m, a + 1, f) = SubSeq(m2, a + 1, f)
    BY <1>2, <1>3, <1>6, <2>3, <2>5, TextSame
  <2>7. QED
    BY <2>4, <2>6
<1>8. U[l + 1] = <<>>
  <2>1. l + 1 \in DOMAIN n2 /\ l + 1 = Len(n2)
    BY <1>1, <1>4
  <2>2. U[l + 1] = SubSeq(m2, e + 1, e)
    BY <1>3, <1>4, <2>1 DEF TextsOf, EndOf
  <2> HIDE DEF e
  <2>3. SubSeq(m2, e + 1, e) \in Seq(Byte) /\ Len(SubSeq(m2, e + 1, e)) = 0
    <3>1. e + 1 \in Nat \ {0} /\ ~ (e + 1 <= e) /\ e <= Len(m2)
      BY <1>2, <1>3
    <3>2. /\ SubSeq(m2, e + 1, e) \in Seq(Byte)
          /\ Len(SubSeq(m2, e + 1, e)) = IF e + 1 <= e THEN e - (e + 1) + 1 ELSE 0
      BY <1>2, <1>3, <3>1, PartOf
    <3>3. QED
      BY <3>1, <3>2
  <2>4. QED
    BY <2>2, <2>3, EmptySeq
<1>9. T \in Seq(Seq(Byte)) /\ Len(T) = l
  BY TextsType
<1>10. U \in Seq(Seq(Byte)) /\ Len(U) = l + 1
  <2>1. n2[Len(n2)] <= Len(m2)
    BY <1>2, <1>3, <1>4
  <2>2. QED
    BY <1>3, <1>4, <1>5, <2>1, TextsType
<1>11. /\ V \in Seq(Seq(Byte)) /\ Len(V) = l + 1 /\ V[l + 1] = <<>>
       /\ \A i \in 1 .. l : V[i] = T[i]
  <2> HIDE DEF T
  <2>1. <<>> \in Seq(Byte)
    OBVIOUS
  <2>2. QED
    BY <1>1, <1>9, <2>1
<1> HIDE DEF T, U, V, l
<1>12. ASSUME NEW i \in 1 .. Len(U) PROVE U[i] = V[i]
  <2>1. CASE i = l + 1
    BY <1>8, <1>11, <2>1
  <2>2. CASE i # l + 1
    <3>1. i \in 1 .. l
      BY <1>1, <1>10, <2>2
    <3>2. QED
      BY <1>7, <1>11, <3>1
  <2>3. QED
    BY <2>1, <2>2
<1>13. U = V
  BY <1>10, <1>11, <1>12, SeqEqual
<1>14. QED
  BY <1>13 DEF U, V, T, m2, n2

(* Without the innermost text and its mark the texts around it are as they were. *)
LEMMA TextsDrop ==
  ASSUME NEW m \in Seq(Byte), NEW ns, Linked(m, ns), Len(ns) # 1, ns[Len(ns)] <= Len(m)
  PROVE  LET T  == TextsOf(m, ns)
         IN TextsOf(SubSeq(m, 1, ns[Len(ns)] - MarkSize), SubSeq(ns, 1, Len(ns) - 1))
              = SubSeq(T, 1, Len(T) - 1)
<1> DEFINE l  == Len(ns)
           b  == ns[l]
           k  == b - MarkSize
           m2 == SubSeq(m, 1, k)
           n2 == SubSeq(ns, 1, l - 1)
           T  == TextsOf(m, ns)
           U  == TextsOf(m2, n2)
           V  == SubSeq(T, 1, l - 1)
<1>1. /\ ns \in Seq(Nat) /\ l \in Nat \ {0} /\ DOMAIN ns = 1 .. l
      /\ \A i \in 1 .. l : ns[i] \in Nat
  BY LinkedOrder
<1>2. /\ m2 \in Seq(Byte) /\ Len(m2) = k /\ SameUpTo(m, m2, k)
      /\ Linked(m2, n2) /\ Len(n2) = l - 1 /\ n2[Len(n2)] <= Len(m2)
  BY LinkedDrop
<1>3. l - 1 \in Nat \ {0} /\ l - 1 <= l
  <2>1. l # 1
    OBVIOUS
  <2> HIDE DEF l
  <2>2. QED
    BY <1>1, <2>1
<1>4. \A i \in 1 .. l - 1 : n2[i] = ns[i]
  <2> DEFINE j == l - 1
  <2>1. j \in Nat /\ j <= Len(ns)
    BY <1>3
  <2> HIDE DEF j
  <2>2. \A i \in 1 .. j : SubSeq(ns, 1, j)[i] = ns[i]
    BY <1>1, <2>1, FirstOnes
  <2>3. QED
    BY <2>2 DEF j
<1>5. DOMAIN n2 = 1 .. l - 1 /\ k \in Nat /\ k <= Len(m)
  <2>1. n2 \in Seq(Nat)
    BY <1>2 DEF Linked
  <2>2. Len(m2) \in Nat
    BY <1>2
  <2>3. b \in Nat /\ b <= Len(m) /\ MarkSize \in Nat
    BY <1>1, BufferAssumption
  <2> HIDE DEF m2, n2, l, b
  <2>4. DOMAIN n2 = 1 .. Len(n2)
    BY <2>1
  <2>5. QED
    BY <1>2, <2>2, <2>3, <2>4
<1> HIDE DEF m2, n2
<1>6. ASSUME NEW i \in 1 .. l - 1 PROVE U[i] = V[i]
  <2>0. i \in 1 .. l /\ i # l /\ (i = l - 1 => i + 1 = l) /\ (i # l - 1 => i + 1 \in 1 .. l - 1)
    <3> HIDE DEF l
    <3>1. QED
      BY <1>1
  <2>1. i \in 1 .. Len(ns) /\ i \in DOMAIN ns /\ i \in DOMAIN n2
    BY <1>1, <1>5, <2>0
  <2>2. EndOf(m2, n2, i) = EndOf(m, ns, i)
    <3>0. EndOf(m, ns, i) = ns[i + 1] - MarkSize
      BY <2>0 DEF EndOf
    <3>1. CASE i = l - 1
      <4>1. EndOf(m2, n2, i) = k
        BY <1>2, <3>1 DEF EndOf
      <4>2. QED
        BY <2>0, <3>0, <3>1, <4>1
    <3>2. CASE i # l - 1
      <4>1. EndOf(m2, n2, i) = n2[i + 1] - MarkSize
        BY <1>2, <3>2 DEF EndOf
      <4>2. QED
        BY <1>4, <2>0, <3>0, <3>2, <4>1
    <3>3. QED
      BY <3>1, <3>2
  <2> DEFINE a == ns[i]
             f == EndOf(m, ns, i)
  <2>3. a \in Nat /\ f \in Nat /\ a <= f
    BY <2>1, TextBounds
  <2>4. f <= k
    <3>1. i \in 1 .. Len(n2) /\ n2[Len(n2)] <= Len(m2)
      BY <1>2
    <3>2. EndOf(m2, n2, i) <= Len(m2)
      BY <1>2, <3>1, TextBounds
    <3>3. QED
      BY <1>2, <2>2, <3>2
  <2>5. U[i] = SubSeq(m2, a + 1, f) /\ T[i] = SubSeq(m, a + 1, f)
    <3>1. U[i] = SubSeq(m2, n2[i] + 1, EndOf(m2, n2, i)) /\ T[i] = SubSeq(m, ns[i] + 1, EndOf(m, ns, i))
      BY <2>1 DEF TextsOf
    <3>2. QED
      BY <1>4, <2>2, <3>1
  <2> HIDE DEF a, f
  <2>6. SubSeq(m, a + 1, f) = SubSeq(m2, a + 1, f)
    <3>1. /\ k \in Nat /\ k <= Len(m) /\ k <= Len(m2)
          /\ SameUpTo(m, m2, k) /\ m2 \in Seq(Byte)
      BY <1>2, <1>5
    <3> HIDE DEF k
    <3>2. QED
      BY <2>3, <2>4, <3>1, TextSame, ZenonT(30)
  <2>7. V[i] = T[i]
    <3> DEFINE j == l - 1
    <3>1. T \in Seq(Seq(Byte)) /\ Len(T) = l
      BY TextsType
    <3> HIDE DEF T
    <3>2. j \in Nat /\ j <= Len(T) /\ i \in 1 .. j
      BY <1>3, <3>1
    <3> HIDE DEF j
    <3>3. \A n \in 1 .. j : SubSeq(T, 1, j)[n] = T[n]
      BY <3>1, <3>2, FirstOnes
    <3>4. QED
      BY <3>2, <3>3 DEF j
  <2>8. QED
    BY <2>5, <2>6, <2>7
<1>7. U \in Seq(Seq(Byte)) /\ Len(U) = l - 1
  BY <1>2, TextsType
<1>8. V \in Seq(Seq(Byte)) /\ Len(V) = l - 1 /\ Len(T) = l
  <2>1. T \in Seq(Seq(Byte)) /\ Len(T) = l
    BY TextsType
  <2> DEFINE j == l - 1
  <2> HIDE DEF T
  <2>2. j \in Nat /\ j <= Len(T)
    BY <1>3, <2>1
  <2> HIDE DEF j
  <2>3. SubSeq(T, 1, j) \in Seq(Seq(Byte)) /\ Len(SubSeq(T, 1, j)) = j
    BY <2>1, <2>2, FirstOnes
  <2>4. QED
    BY <2>1, <2>3 DEF j
<1> HIDE DEF U, V, T, l
<1>9. U = V
  <2>1. \A i \in 1 .. Len(U) : U[i] = V[i]
    BY <1>6, <1>7
  <2>2. QED
    BY <1>7, <1>8, <2>1, SeqEqual
<1>10. QED
  BY <1>8, <1>9 DEF U, V, T, m2, n2, l
-----------------------------------------------------------------------------
-----------------------------------------------------------------------------
(* The steps of the program. *)

(* What PrintArray prints is a text. *)
LEMMA ElementsType ==
  ASSUME NEW array \in Seq(Nat), NEW limit \in Nat
  PROVE  Elements(array, limit) \in Seq(Byte)
<1> DEFINE ends == {i \in DOMAIN array : array[i] = 0} \cup {limit + 1, Len(array) + 1}
           k == Min(ends)
<1>1. ends \subseteq Nat \ {0} /\ ends # {} /\ Len(array) + 1 \in ends /\ Len(array) \in Nat
      /\ DOMAIN array = 1 .. Len(array)
  OBVIOUS
<1>2. k \in ends /\ \A n \in ends : k <= n
  <2> HIDE DEF ends
  <2>1. ends \subseteq Nat
    BY <1>1
  <2>2. \E x \in ends : \A n \in ends : x <= n
    BY <1>1, <2>1, LeastOf
  <2>3. QED
    BY <2>2 DEF Min
<1>3. Elements(array, limit) = [i \in 1 .. k - 1 |-> array[i] % Base]
  BY DEF Elements
<1> HIDE DEF ends, k
<1>4. k - 1 \in Nat /\ \A i \in 1 .. k - 1 : i \in 1 .. Len(array)
  <2>1. k \in Nat \ {0} /\ k <= Len(array) + 1
    BY <1>1, <1>2
  <2>2. QED
    BY <1>1, <2>1
<1>5. \A i \in 1 .. k - 1 : array[i] % Base \in Byte
  <2>1. \A i \in 1 .. Len(array) : array[i] \in Nat
    OBVIOUS
  <2>2. QED
    BY <1>4, <2>1, Digits
<1>6. [i \in 1 .. k - 1 |-> array[i] % Base] \in Seq(Byte)
  BY <1>4, <1>5
<1>7. QED
  BY <1>3, <1>6

(* Writers that reserve what they write stay in the block. *)
LEMMA WriteFits ==
  ASSUME BlockInv, NEW room \in Nat, NEW bytes \in Seq(Byte), NEW nuls \in {0, 1},
         Len(bytes) <= room, Write(room, bytes, nuls)
  PROVE  /\ mem' = mem \o bytes /\ mem' \in Seq(Byte) /\ Ptr' = Ptr + Len(bytes)
         /\ size' \in 0 .. MaxSize /\ Ptr' < size' /\ ~ overrun'
<1>1. mem' = mem \o bytes /\ mem \in Seq(Byte)
  BY DEF Write, BlockInv
<1>2. mem' \in Seq(Byte) /\ Ptr' = Ptr + Len(bytes)
  BY <1>1 DEF Ptr
<1>3. Ptr \in Nat /\ size \in Nat /\ MaxSize \in Nat /\ Ptr <= size /\ Len(bytes) \in Nat
  BY <1>1, BufferAssumption DEF BlockInv, Ptr
<1>4. size' = Reserved(room) /\ Reserved(room) <= MaxSize
      /\ overrun' = (Ptr + Len(bytes) + nuls > size')
  BY DEF Write
<1> DEFINE n == Len(bytes)
<1>5. Ptr + n + 1 <= Reserved(room) /\ Reserved(room) \in Nat
  BY <1>3 DEF Reserved, Enough, Growth
<1> HIDE DEF n
<1>6. Ptr + n < size' /\ ~ (Ptr + n + nuls > size')
  BY <1>3, <1>4, <1>5 DEF n
<1>7. Ptr' < size' /\ ~ overrun'
  BY <1>2, <1>4, <1>6 DEF n
<1>8. size' \in 0 .. MaxSize
  BY <1>3, <1>4, <1>5
<1>9. QED
  BY <1>1, <1>2, <1>7, <1>8

(* A stack of texts is the one that Begins finds. *)
LEMMA StackFound ==
  ASSUME NEW m, NEW ns, Linked(m, ns), NEW b, b = ns[Len(ns)], b <= Len(m)
  PROVE  LET begins == Begins(m, b)
         IN /\ Linked(m, begins) /\ begins[Len(begins)] = b
            /\ begins = ns /\ Nested(m, b) = TextsOf(m, ns)
BY BeginsOfLinked, NestedTexts

\* The texts, for the proofs.
Now == TextsOf(mem, Begins(mem, beg))

LEMMA StackNow ==
  ASSUME BlockInv, StackInv
  PROVE  LET ns == Begins(mem, beg)
         IN /\ mem \in Seq(Byte) /\ Linked(mem, ns) /\ ns[Len(ns)] = beg /\ beg <= Len(mem)
            /\ beg \in Nat /\ ns \in Seq(Nat) /\ Len(ns) \in Nat \ {0}
            /\ Now \in Seq(Seq(Byte)) /\ Len(Now) = Len(ns) /\ Nested(mem, beg) = Now
            /\ Now[Len(Now)] = Text
<1> DEFINE ns == Begins(mem, beg)
<1>1. mem \in Seq(Byte) /\ Linked(mem, ns) /\ ns[Len(ns)] = beg /\ beg <= Len(mem)
  BY DEF BlockInv, StackInv, Ptr
<1> HIDE DEF ns
<1>2. beg \in Nat /\ ns \in Seq(Nat) /\ Len(ns) \in Nat \ {0} /\ DOMAIN ns = 1 .. Len(ns)
  BY <1>1, LinkedOrder
<1>3. TextsOf(mem, ns) \in Seq(Seq(Byte)) /\ Len(TextsOf(mem, ns)) = Len(ns)
  BY <1>1, TextsType
<1>4. Nested(mem, beg) = TextsOf(mem, ns)
  BY <1>1, NestedTexts
<1>5. TextsOf(mem, ns)[Len(ns)] = Text
  <2>1. Len(ns) \in DOMAIN ns
    BY <1>2
  <2>2. TextsOf(mem, ns)[Len(ns)] = SubSeq(mem, ns[Len(ns)] + 1, Len(mem))
    BY <2>1 DEF TextsOf, EndOf
  <2>3. QED
    BY <1>1, <2>2 DEF Text, Ptr
<1>6. QED
  BY <1>1, <1>2, <1>3, <1>4, <1>5 DEF Now, ns

(* A text that is printed goes to the innermost text. *)
LEMMA WriteStep ==
  ASSUME BlockInv, StackInv, NEW room \in Nat, NEW bytes \in Seq(Byte), NEW nuls \in {0, 1},
         Len(bytes) <= room, Write(room, bytes, nuls), UNCHANGED <<beg, open>>
  PROVE  /\ BlockInv' /\ StackInv'
         /\ Nested(mem, beg)' = Append(SubSeq(Now, 1, Len(Now) - 1), Now[Len(Now)] \o bytes)
<1> DEFINE ns == Begins(mem, beg)
<1>1. /\ mem \in Seq(Byte) /\ Linked(mem, ns) /\ ns[Len(ns)] = beg /\ beg <= Len(mem)
      /\ beg \in Nat /\ Now = TextsOf(mem, ns)
  BY StackNow DEF Now
<1>2. /\ mem' = mem \o bytes /\ mem' \in Seq(Byte) /\ Ptr' = Ptr + Len(bytes)
      /\ size' \in 0 .. MaxSize /\ Ptr' < size' /\ ~ overrun'
  BY WriteFits
<1>3. BlockInv'
  <2>1. Ptr \in Nat /\ Len(bytes) \in Nat
    BY <1>1 DEF Ptr
  <2>2. size' # 0 /\ open' \in Nat
    BY <1>2, <2>1 DEF BlockInv
  <2>3. QED
    BY <1>2, <2>2 DEF BlockInv
<1>4. beg <= Len(mem')
  BY <1>1, <1>2 DEF Ptr
<1> HIDE DEF ns
<1>5. Linked(mem', ns)
  <2>1. /\ Len(mem') = Len(mem) + Len(bytes) /\ Len(mem) \in Nat /\ Len(bytes) \in Nat
        /\ \A i \in 1 .. Len(mem) + Len(bytes) :
             mem'[i] = IF i <= Len(mem) THEN mem[i] ELSE bytes[i - Len(mem)]
    BY <1>1, <1>2, ConcatProperties
  <2>2. SameUpTo(mem, mem', Len(mem)) /\ Len(mem) <= Len(mem')
    BY <2>1 DEF SameUpTo
  <2>3. /\ mem' \in Seq(Byte) /\ Len(mem) \in Nat /\ Len(mem) <= Len(mem)
        /\ ns[Len(ns)] <= Len(mem)
    BY <1>1, <1>2, <2>1
  <2>4. QED
    BY <1>1, <2>2, <2>3, LinkedSame
<1>6. /\ Linked(mem', Begins(mem', beg)) /\ Begins(mem', beg)[Len(Begins(mem', beg))] = beg
      /\ Nested(mem', beg) = TextsOf(mem', ns)
  BY <1>1, <1>4, <1>5, StackFound
<1>7. TextsOf(mem', ns) = Append(SubSeq(Now, 1, Len(Now) - 1), Now[Len(Now)] \o bytes)
  BY <1>1, <1>2, TextsContinue
<1>8. StackInv'
  BY <1>4, <1>6 DEF StackInv, Ptr
<1>9. QED
  BY <1>3, <1>6, <1>7, <1>8

(* PrintPush begins an empty text behind the mark. *)
LEMMA PushStep ==
  ASSUME BlockInv, StackInv, MaxSize <= Limit, Write(MarkSize, Mark(Ptr - beg), 0),
         beg' = Ptr + MarkSize, open' = open + 1
  PROVE  /\ BlockInv' /\ StackInv'
         /\ Nested(mem, beg)' = Append(Now, <<>>)
<1> DEFINE ns == Begins(mem, beg)
           t == Mark(Ptr - beg)
           n2 == Append(ns, Len(mem) + MarkSize)
<1>1. /\ mem \in Seq(Byte) /\ Linked(mem, ns) /\ ns[Len(ns)] = beg /\ beg <= Len(mem)
      /\ beg \in Nat /\ Now = TextsOf(mem, ns) /\ Ptr = Len(mem) /\ ns \in Seq(Nat)
  BY StackNow DEF Now, Ptr
<1>2. Ptr - beg \in Nat /\ Ptr - beg <= Limit /\ MarkSize \in Nat /\ Ptr \in Nat
  <2>1. Ptr \in Nat /\ size \in Nat /\ Ptr <= size /\ size <= MaxSize /\ MaxSize \in Nat
    BY <1>1, BufferAssumption DEF BlockInv
  <2>2. Limit \in Int
    <3>1. MarkSize \in Nat /\ MarkSize \in 0 .. MarkSize
      BY BufferAssumption
    <3>2. QED
      BY <3>1, LimitIsPower
  <2>3. QED
    BY <1>1, <2>1, <2>2, BufferAssumption
<1>3. t \in Seq(Byte) /\ Len(t) = MarkSize
  BY <1>2, MarkType
<1>4. /\ mem' = mem \o t /\ mem' \in Seq(Byte) /\ Ptr' = Ptr + MarkSize
      /\ size' \in 0 .. MaxSize /\ Ptr' < size' /\ ~ overrun'
  <2>1. Len(t) <= MarkSize
    BY <1>2, <1>3
  <2> HIDE DEF t
  <2>2. Write(MarkSize, t, 0)
    BY DEF t
  <2>3. QED
    BY <1>2, <1>3, <2>1, <2>2, WriteFits
<1>5. BlockInv'
  <2>1. size' # 0 /\ open' \in Nat
    BY <1>2, <1>4 DEF BlockInv
  <2>2. QED
    BY <1>4, <2>1 DEF BlockInv
<1> HIDE DEF ns
<1>6. Linked(mem', n2)
  <2>1. ns[Len(ns)] <= Len(mem) /\ Len(mem) - ns[Len(ns)] <= Limit
    BY <1>1, <1>2
  <2>2. Linked(mem \o Mark(Len(mem) - ns[Len(ns)]), Append(ns, Len(mem) + MarkSize))
    BY <1>1, <2>1, LinkedPush
  <2>3. QED
    BY <1>1, <1>4, <2>2
<1>7. n2[Len(n2)] = beg' /\ beg' <= Len(mem')
  BY <1>1, <1>2, <1>4 DEF Ptr
<1>8. TextsOf(mem', n2) = Append(Now, <<>>)
  <2>1. ns[Len(ns)] <= Len(mem) /\ Linked(mem \o t, Append(ns, Len(mem) + MarkSize))
    BY <1>1, <1>4, <1>6
  <2> HIDE DEF t
  <2>2. QED
    BY <1>1, <1>3, <1>4, <2>1, TextsBegin
<1> HIDE DEF n2
<1>9. /\ Linked(mem', Begins(mem', beg')) /\ Begins(mem', beg')[Len(Begins(mem', beg'))] = beg'
      /\ Nested(mem', beg') = TextsOf(mem', n2)
  BY <1>6, <1>7, StackFound
<1>10. StackInv'
  BY <1>7, <1>9 DEF StackInv, Ptr
<1>11. QED
  BY <1>5, <1>8, <1>9, <1>10

(* An empty block is one empty text. *)
LEMMA EmptyText ==
  /\ Linked(<<>>, <<0>>) /\ TextsOf(<<>>, <<0>>) = <<<<>>>>
  /\ Begins(<<>>, 0) = <<0>> /\ Nested(<<>>, 0) = <<<<>>>>
<1> DEFINE ns == <<0>>
           m == <<>>
<1>1. ns \in Seq(Nat) /\ Len(ns) = 1 /\ ns[1] = 0 /\ ns # <<>> /\ DOMAIN ns = 1 .. 1
      /\ m \in Seq(Byte) /\ Len(m) = 0
  OBVIOUS
<1>2. SubSeq(m, 1, 0) = <<>>
  OBVIOUS
<1> HIDE DEF ns, m
<1>3. Linked(m, ns)
  BY <1>1 DEF Linked
<1>4. 0 = ns[Len(ns)] /\ 0 <= Len(m)
  BY <1>1
<1>5. Begins(m, 0) = ns /\ Nested(m, 0) = TextsOf(m, ns)
  BY <1>3, <1>4, StackFound
<1>6. TextsOf(m, ns) = [i \in 1 .. 1 |-> <<>>]
  BY <1>1, <1>2 DEF TextsOf, EndOf
<1>7. TextsOf(m, ns) = <<<<>>>>
  BY <1>6
<1>8. QED
  BY <1>3, <1>5, <1>7 DEF ns, m

(* Dropping the innermost text leaves the texts around it; the outermost starts again. *)
LEMMA DropStep ==
  ASSUME BlockInv, StackInv, Drop
  PROVE  /\ mem' \in Seq(Byte) /\ Len(mem') <= Len(mem)
         /\ StackInv'
         /\ Nested(mem, beg)' = IF Len(Now) > 1 THEN SubSeq(Now, 1, Len(Now) - 1) ELSE <<<<>>>>
<1> DEFINE ns == Begins(mem, beg)
           l == Len(ns)
           n2 == SubSeq(ns, 1, l - 1)
<1>1. /\ mem \in Seq(Byte) /\ Linked(mem, ns) /\ ns[l] = beg /\ beg <= Len(mem)
      /\ beg \in Nat /\ Now = TextsOf(mem, ns) /\ Len(Now) = l /\ l \in Nat \ {0} /\ Len(mem) \in Nat
  BY StackNow DEF Now
<1> HIDE DEF ns
<1>2. CASE l = 1
  <2>1. beg = 0
    BY <1>1, <1>2 DEF Linked
  <2>2. mem' = <<>> /\ beg' = 0
    BY <2>1 DEF Drop
  <2>3. Nested(mem', beg') = <<<<>>>> /\ ~ (Len(Now) > 1)
    BY <1>1, <1>2, <2>2, EmptyText
  <2>4. StackInv'
    <3>1. Linked(mem', Begins(mem', beg')) /\ Begins(mem', beg') = <<0>>
      BY <2>2, EmptyText
    <3>2. Begins(mem', beg')[Len(Begins(mem', beg'))] = beg' /\ beg' <= Len(mem')
      BY <2>2, <3>1
    <3>3. QED
      BY <3>1, <3>2 DEF StackInv, Ptr
  <2>5. mem' \in Seq(Byte) /\ Len(mem') <= Len(mem)
    BY <1>1, <2>2
  <2>6. QED
    BY <2>3, <2>4, <2>5
<1>3. CASE l # 1
  <2>1. l # 1 /\ ns[l] <= Len(mem)
    BY <1>1, <1>3
  <2>2. /\ SubSeq(mem, 1, beg - MarkSize) \in Seq(Byte)
        /\ Len(SubSeq(mem, 1, beg - MarkSize)) = beg - MarkSize /\ beg # 0
        /\ Linked(SubSeq(mem, 1, beg - MarkSize), n2) /\ n2[Len(n2)] = Around(mem, beg)
        /\ Around(mem, beg) <= Len(SubSeq(mem, 1, beg - MarkSize))
    BY <1>1, <2>1, LinkedDrop
  <2>3. mem' = SubSeq(mem, 1, beg - MarkSize) /\ beg' = Around(mem, beg)
    BY <2>2 DEF Drop
  <2>4. Linked(mem', n2) /\ beg' = n2[Len(n2)] /\ beg' <= Len(mem')
    BY <2>2, <2>3
  <2>5. /\ Linked(mem', Begins(mem', beg')) /\ Begins(mem', beg')[Len(Begins(mem', beg'))] = beg'
        /\ Nested(mem', beg') = TextsOf(mem', n2)
    <3> HIDE DEF n2
    <3>1. QED
      BY <2>4, StackFound
  <2>6. StackInv'
    BY <2>4, <2>5 DEF StackInv, Ptr
  <2>7. TextsOf(mem', n2) = SubSeq(Now, 1, Len(Now) - 1)
    <3>1. LET T == TextsOf(mem, ns)
          IN TextsOf(SubSeq(mem, 1, ns[Len(ns)] - MarkSize), SubSeq(ns, 1, Len(ns) - 1))
               = SubSeq(T, 1, Len(T) - 1)
      BY <1>1, <2>1, TextsDrop
    <3>2. QED
      BY <1>1, <2>3, <3>1
  <2>8. Len(mem') <= Len(mem)
    <3>1. MarkSize \in Nat
      BY BufferAssumption
    <3>2. QED
      BY <1>1, <2>2, <2>3, <3>1
  <2>9. Len(Now) > 1
    <3> HIDE DEF l
    <3>1. QED
      BY <1>1, <1>3
  <2>10. QED
    BY <2>2, <2>3, <2>5, <2>6, <2>7, <2>8, <2>9
<1>4. QED
  BY <1>2, <1>3
-----------------------------------------------------------------------------
\* Hosts reserve what they append; what AppendThreadPrintBuffer reserves is the host's.
HostReserves == \A h \in HostTexts : Len(h[2]) <= h[1]

LEMMA BufferInit == Init => BlockInv /\ StackInv /\ ImplementsTexts!Init
<1> SUFFICES ASSUME Init PROVE BlockInv /\ StackInv /\ ImplementsTexts!Init
  OBVIOUS
<1>1. mem = <<>> /\ beg = 0 /\ size = 0 /\ open = 0 /\ overrun = FALSE /\ last = <<>>
  BY DEF Init
<1>2. BlockInv
  BY <1>1, BufferAssumption DEF BlockInv, Ptr
<1>3. StackInv
  <2>1. Linked(mem, Begins(mem, beg)) /\ Begins(mem, beg) = <<0>>
    BY <1>1, EmptyText
  <2>2. Begins(mem, beg)[Len(Begins(mem, beg))] = beg /\ beg <= Len(mem)
    BY <1>1, <2>1
  <2>3. QED
    BY <2>1, <2>2 DEF StackInv, Ptr
<1>4. ImplementsTexts!Init
  BY <1>1, EmptyText DEF ImplementsTexts!Init
<1>5. QED
  BY <1>2, <1>3, <1>4

(* Every step keeps the invariant, and is a step of the stack of texts, or leaves it alone. *)
LEMMA BufferStep ==
  ASSUME HostReserves, MaxSize <= Limit, BlockInv, StackInv, [Next]_vars
  PROVE  BlockInv' /\ StackInv' /\ [ImplementsTexts!Next]_(ImplementsTexts!vars)
<1> DEFINE B == Nested(mem, beg)
           Goal == BlockInv' /\ StackInv' /\ [ImplementsTexts!Next]_(ImplementsTexts!vars)
<1>0. /\ mem \in Seq(Byte) /\ B = Now /\ Now[Len(Now)] = Text /\ Now \in Seq(Seq(Byte))
      /\ Len(Now) \in Nat \ {0}
  BY StackNow
<1>1. ASSUME UNCHANGED vars PROVE Goal
  <2>1. UNCHANGED <<mem, size, beg, overrun, open, last>>
    BY <1>1 DEF vars
  <2>2. BlockInv' /\ StackInv'
    BY <2>1 DEF BlockInv, StackInv, Ptr
  <2>3. UNCHANGED ImplementsTexts!vars
    BY <2>1 DEF ImplementsTexts!vars
  <2>4. QED
    BY <2>2, <2>3
<1>2. ASSUME NEW room \in Nat, NEW bytes \in Seq(Byte), NEW nuls \in {0, 1}, Len(bytes) <= room,
             Write(room, bytes, nuls), last' = bytes, UNCHANGED <<beg, open>>
      PROVE  Goal
  <2>1. /\ BlockInv' /\ StackInv'
        /\ Nested(mem, beg)' = Append(SubSeq(Now, 1, Len(Now) - 1), Now[Len(Now)] \o bytes)
    BY <1>2, WriteStep
  <2>2. ImplementsTexts!Continue
    BY <1>0, <1>2, <2>1 DEF ImplementsTexts!Continue, ImplementsTexts!Outer, ImplementsTexts!Inner
  <2>3. QED
    BY <2>1, <2>2 DEF ImplementsTexts!Next
<1> HIDE DEF Goal
<1>3. ASSUME NEW room, Fails(room) PROVE Goal
  BY <1>1, <1>3 DEF Fails
<1>4. ASSUME PrintText PROVE Goal
  <2>1. PICK text \in Texts :
          \/ Write(Len(text), text, 0) /\ last' = text /\ UNCHANGED <<beg, open>>
          \/ Fails(Len(text))
    BY <1>4 DEF PrintText
  <2>2. text \in Seq(Byte) /\ Len(text) \in Nat /\ Len(text) <= Len(text)
    BY BufferAssumption DEF Byte
  <2>3. QED
    BY <1>2, <1>3, <2>1, <2>2
<1>5. ASSUME PrintArray PROVE Goal
  <2>1. PICK array \in Arrays, limit \in Limits :
          LET text == Elements(array, limit)
          IN \/ Write(Len(text), text, 0) /\ last' = text /\ UNCHANGED <<beg, open>>
             \/ Fails(Len(text))
    BY <1>5 DEF PrintArray
  <2> DEFINE text == Elements(array, limit)
  <2>2. text \in Seq(Byte)
    BY BufferAssumption, ElementsType
  <2> HIDE DEF text
  <2>3. Len(text) \in Nat /\ Len(text) <= Len(text)
    BY <2>2
  <2>4. \/ Write(Len(text), text, 0) /\ last' = text /\ UNCHANGED <<beg, open>>
        \/ Fails(Len(text))
    BY <2>1 DEF text
  <2>5. QED
    BY <1>2, <1>3, <2>2, <2>3, <2>4
<1>6. ASSUME PrintFormat PROVE Goal
  <2>1. PICK f \in Formats :
          \/ Write(f[1], f[2], 1) /\ last' = f[2] /\ UNCHANGED <<beg, open>>
          \/ Fails(f[1])
    BY <1>6 DEF PrintFormat
  <2>2. f[1] \in Nat /\ f[2] \in Seq(Byte) /\ Len(f[2]) <= f[1]
    BY BufferAssumption DEF Byte
  <2>3. QED
    BY <1>2, <1>3, <2>1, <2>2
<1>7. ASSUME AppendThreadPrintBuffer PROVE Goal
  <2>1. PICK h \in HostTexts :
          \/ Write(h[1], h[2], 0) /\ last' = h[2] /\ UNCHANGED <<beg, open>>
          \/ Fails(h[1])
    BY <1>7 DEF AppendThreadPrintBuffer
  <2>2. h[1] \in Nat /\ h[2] \in Seq(Byte) /\ Len(h[2]) <= h[1]
    BY BufferAssumption DEF Byte, HostReserves
  <2>3. QED
    BY <1>2, <1>3, <2>1, <2>2
<1>8. ASSUME PrintPush PROVE Goal
  <2>1. CASE Fails(MarkSize)
    BY <1>3, <2>1
  <2>2. CASE /\ Write(MarkSize, Mark(Ptr - beg), 0)
             /\ beg' = Ptr + MarkSize /\ open' = open + 1 /\ last' = <<>>
    <3>1. BlockInv' /\ StackInv' /\ Nested(mem, beg)' = Append(Now, <<>>)
      BY <2>2, PushStep
    <3>2. ImplementsTexts!Begin
      BY <1>0, <2>2, <3>1 DEF ImplementsTexts!Begin
    <3>3. QED
      BY <3>1, <3>2 DEF ImplementsTexts!Next, Goal
  <2>3. QED
    BY <1>8, <2>1, <2>2 DEF PrintPush
<1>9. open > 0 => size # 0 /\ Ptr < size
  BY DEF BlockInv
<1>10. ASSUME Drop, open > 0, open' = open - 1, UNCHANGED size, last' = Text, ~ overrun'
       PROVE  Goal
  <2>1. /\ mem' \in Seq(Byte) /\ Len(mem') <= Len(mem) /\ StackInv'
        /\ Nested(mem, beg)' = IF Len(Now) > 1 THEN SubSeq(Now, 1, Len(Now) - 1) ELSE <<<<>>>>
    BY <1>10, DropStep
  <2>2. BlockInv'
    <3>1. Len(mem) \in Nat /\ Len(mem') \in Nat
      BY <1>0, <2>1
    <3>2. size' \in 0 .. MaxSize /\ size' # 0 /\ Ptr' < size' /\ open' \in Nat
      BY <1>9, <1>10, <2>1, <3>1, BufferAssumption DEF BlockInv, Ptr
    <3>3. QED
      BY <1>10, <2>1, <3>2 DEF BlockInv
  <2>3. ImplementsTexts!Take
    BY <1>0, <1>10, <2>1 DEF ImplementsTexts!Take, ImplementsTexts!Outer, ImplementsTexts!Inner
  <2>4. QED
    BY <2>1, <2>2, <2>3 DEF ImplementsTexts!Next, Goal
<1>11. ASSUME open > 0, Data PROVE last' = Text /\ ~ overrun'
  <2>1. Ptr \in Nat /\ size \in Nat /\ Ptr < size
    BY <1>0, <1>9, <1>11, BufferAssumption DEF BlockInv, Ptr
  <2>2. ~ (Ptr >= size)
    BY <2>1
  <2>3. last' = Text /\ overrun' = (Ptr >= size)
    BY <1>11 DEF Data
  <2>4. QED
    BY <2>2, <2>3
<1>12. ASSUME PrintEndStr PROVE Goal
  BY <1>10, <1>11, <1>12 DEF PrintEndStr
<1>13. ASSUME EndPrint PROVE Goal
  <2>1. open > 0 /\ open' = open - 1 /\ UNCHANGED size
    BY <1>13 DEF EndPrint
  <2>2. last' = Text /\ ~ overrun'
    <3>1. CASE Ptr # beg
      BY <1>11, <1>13, <3>1 DEF EndPrint
    <3>2. CASE Ptr = beg
      <4>1. Text = <<>>
        <5>1. beg \in Nat /\ beg <= Len(mem)
          BY StackNow
        <5>2. SubSeq(mem, beg + 1, beg) = <<>>
          BY <1>0, <5>1
        <5>3. QED
          BY <3>2, <5>2 DEF Text
      <4>2. last' = <<>> /\ UNCHANGED overrun
        BY <1>13, <3>2 DEF EndPrint
      <4>3. QED
        BY <4>1, <4>2 DEF BlockInv
    <3>3. QED
      BY <3>1, <3>2
  <2>3. PICK drops \in HostDrops : IF drops THEN Drop ELSE UNCHANGED <<mem, beg>>
    BY <1>13 DEF EndPrint
  <2>4. CASE Drop
    BY <1>10, <2>1, <2>2, <2>4
  <2>5. CASE UNCHANGED <<mem, beg>>
    <3>1. BlockInv'
      BY <2>1, <2>2, <2>5 DEF BlockInv, Ptr
    <3>2. StackInv'
      BY <2>5 DEF StackInv, Ptr
    <3>3. ImplementsTexts!Read
      BY <1>0, <2>2, <2>5 DEF ImplementsTexts!Read, ImplementsTexts!Inner
    <3>4. QED
      BY <3>1, <3>2, <3>3 DEF ImplementsTexts!Next, Goal
  <2>6. QED
    BY <2>3, <2>4, <2>5
<1>14. ASSUME Stop PROVE Goal
  <2>1. mem' = <<>> /\ beg' = 0 /\ open' = 0 /\ last' = <<>> /\ UNCHANGED <<size, overrun>>
    BY <1>14 DEF Stop
  <2>2. BlockInv'
    BY <1>0, <2>1, BufferAssumption DEF BlockInv, Ptr
  <2>3. StackInv'
    <3>1. Linked(mem', Begins(mem', beg')) /\ Begins(mem', beg') = <<0>>
      BY <2>1, EmptyText
    <3>2. Begins(mem', beg')[Len(Begins(mem', beg'))] = beg' /\ beg' <= Len(mem')
      BY <2>1, <3>1
    <3>3. QED
      BY <3>1, <3>2 DEF StackInv, Ptr
  <2>4. Nested(mem', beg') = <<<<>>>>
    BY <2>1, EmptyText
  <2>5. ImplementsTexts!Clear
    BY <2>1, <2>4 DEF ImplementsTexts!Clear
  <2>6. QED
    BY <2>2, <2>3, <2>5 DEF ImplementsTexts!Next, Goal
<1>15. ASSUME Reload PROVE Goal
  <2>1. PICK old \in {0, size} :
          /\ (IF old <= Ptr THEN Ptr + 1 ELSE old) <= MaxSize
          /\ size' = (IF old <= Ptr THEN Ptr + 1 ELSE old)
          /\ last' = <<>> /\ UNCHANGED <<mem, beg, overrun, open>>
    BY <1>15 DEF Reload
  <2>2. BlockInv'
    <3>1. Ptr \in Nat /\ old \in Nat /\ MaxSize \in Nat
      BY <1>0, BufferAssumption DEF BlockInv, Ptr
    <3>2. size' \in 0 .. MaxSize /\ size' # 0 /\ Ptr < size'
      BY <2>1, <3>1
    <3>3. QED
      BY <2>1, <3>2 DEF BlockInv, Ptr
  <2>3. StackInv'
    BY <2>1 DEF StackInv, Ptr
  <2>4. ImplementsTexts!Reload
    BY <2>1 DEF ImplementsTexts!Reload
  <2>5. QED
    BY <2>2, <2>3, <2>4 DEF ImplementsTexts!Next, Goal
<1>16. Goal
  BY <1>1, <1>4, <1>5, <1>6, <1>7, <1>8, <1>12, <1>13, <1>14, <1>15 DEF Next
<1>17. QED
  BY <1>16 DEF Goal

(***************************************************************************)
(* Every writer of the VM reserves what it writes, and the NULs behind it: *)
(* nothing is written outside of the block, whatever its size and however  *)
(* texts are nested, if hosts give the number of bytes that they append,   *)
(* and no block is larger than what a mark can hold.                       *)
(***************************************************************************)
THEOREM WritersReserve ==
  ASSUME HostReserves, MaxSize <= Limit
  PROVE  Spec => []WritesInside
<1>1. BlockInv /\ StackInv /\ [Next]_vars => (BlockInv /\ StackInv)'
  BY BufferStep
<1>2. BlockInv => WritesInside
  BY DEF BlockInv, WritesInside
<1>3. QED
  BY <1>1, <1>2, BufferInit, PTL DEF Spec

(***************************************************************************)
(* The block implements a stack of texts: what WriteLE4 puts in front of a *)
(* text is read back by drop, behind texts of any length and at any depth, *)
(* and after the block moved or was loaded.                                *)
(***************************************************************************)
THEOREM BufferImplements ==
  ASSUME HostReserves, MaxSize <= Limit
  PROVE  Spec => TextsKept
<1>1. /\ BlockInv /\ StackInv /\ [Next]_vars => (BlockInv /\ StackInv)'
      /\ BlockInv /\ StackInv /\ [Next]_vars => [ImplementsTexts!Next]_(ImplementsTexts!vars)
  BY BufferStep
<1>2. QED
  BY <1>1, BufferInit, PTL DEF Spec, TextsKept, ImplementsTexts!Spec
=============================================================================
