------------------------------ MODULE WordOps ------------------------------
(***************************************************************************)
(* The operators of the VM on words (the OpFunc functions and Op macros of *)
(* ThreadExec.cpp): a word has Width bits, 32 in the code, and a fixed-    *)
(* point number has its point in the middle.  What C++ does with unsigned, *)
(* signed and double-width numbers is spelled out here; the property says  *)
(* what the results mean as numbers.                                       *)
(***************************************************************************)
EXTENDS Integers, Bitwise

CONSTANT Width       \* a power of two, as the shifts take it to be

ASSUME WidthAssumption == Width \in {2 ^ n : n \in 1 .. 5}

Count == 2 ^ Width
AllWords == 0 .. Count - 1
Point == 2 ^ (Width \div 2)

\* The conversions: SWord(w) of a word, and back from any number.
SWord(w) == IF 2 * w < Count THEN w ELSE w - Count
ToWord(i) == i % Count
ToDWord(i) == i % (Count * Count)
Bool(b) == IF b THEN 1 ELSE 0

Abs(i) == IF i < 0 THEN -i ELSE i

\* Mutant: division rounds down.
Floored(i, j) == IF j < 0 THEN (-i) \div (-j) ELSE i \div j

\* Division of C++, which truncates.
Quot(i, j) == IF (i < 0) = (j < 0) THEN Abs(i) \div Abs(j) ELSE -(Abs(i) \div Abs(j))
Rem(i, j) == i - j * Quot(i, j)
-----------------------------------------------------------------------------
CmpI_GE(l, r) == Bool(SWord(l) >= SWord(r))
CmpI_GT(l, r) == Bool(SWord(l) > SWord(r))
CmpI_LE(l, r) == Bool(SWord(l) <= SWord(r))
CmpI_LT(l, r) == Bool(SWord(l) < SWord(r))
CmpU_EQ(l, r) == Bool(l = r)
CmpU_NE(l, r) == Bool(l # r)
LAnd(l, r) == Bool(l # 0 /\ r # 0)
LOrI(l, r) == Bool(l # 0 \/ r # 0)
DivI(l, r) == IF r # 0 THEN ToWord(Quot(SWord(l), SWord(r))) ELSE 0
ModI(l, r) == IF r # 0 THEN ToWord(Rem(SWord(l), SWord(r))) ELSE 0
DivX(l, r) == IF r # 0 THEN ToWord(Quot(SWord(l) * Point, SWord(r))) ELSE 0
MulX(l, r) == ToWord(ToDWord(SWord(l) * SWord(r)) \div Point)
ShRI(l, r) == ToWord(SWord(l) \div 2 ^ (r % Width))
ShLU(l, r) == ToWord(l * 2 ^ (r % Width))
InvU(l) == Count - 1 - l
NegI(l) == ToWord(InvU(l) + 1)

Apply(o, l, r) ==
  CASE o = "CmpI_GE" -> CmpI_GE(l, r) [] o = "CmpI_GT" -> CmpI_GT(l, r)
    [] o = "CmpI_LE" -> CmpI_LE(l, r) [] o = "CmpI_LT" -> CmpI_LT(l, r)
    [] o = "CmpU_EQ" -> CmpU_EQ(l, r) [] o = "CmpU_NE" -> CmpU_NE(l, r)
    [] o = "LAnd" -> LAnd(l, r)       [] o = "LOrI" -> LOrI(l, r)
    [] o = "DivI" -> DivI(l, r)       [] o = "ModI" -> ModI(l, r)
    [] o = "DivX" -> DivX(l, r)       [] o = "MulX" -> MulX(l, r)
    [] o = "ShRI" -> ShRI(l, r)       [] o = "ShLU" -> ShLU(l, r)
    [] o = "AddU" -> ToWord(l + r)    [] o = "SubU" -> ToWord(l - r)
    [] o = "MulU" -> ToWord(l * r)    [] o = "AndU" -> l & r
    [] o = "OrIU" -> l | r            [] o = "OrXU" -> l ^^ r
    [] o = "IncU" -> ToWord(l + 1)    [] o = "DecU" -> ToWord(l - 1)
    [] o = "InvU" -> InvU(l)          [] o = "NegI" -> NegI(l)
    [] o = "NotU" -> Bool(l = 0)

Compare == {"CmpI_GE", "CmpI_GT", "CmpI_LE", "CmpI_LT", "CmpU_EQ", "CmpU_NE", "LAnd", "LOrI", "NotU"}
Bits == {"AndU", "OrIU", "OrXU", "InvU", "ShRI", "ShLU"}
Modular == {"AddU", "SubU", "MulU", "IncU", "DecU", "NegI"}
Divide == {"DivI", "ModI", "DivX"}

\* The smallest number by -1 is undefined in C++; most machines trap.
Undefined(o, l, r) == o \in {"DivI", "ModI"} /\ 2 * l = Count /\ SWord(r) = -1

-----------------------------------------------------------------------------
(* What the operators mean *)

\* Sums, differences and products are those of the integers where they fit.
Exact(o, l, r) ==
  CASE o = "AddU" -> SWord(l) + SWord(r) [] o = "IncU" -> SWord(l) + 1
    [] o = "SubU" -> SWord(l) - SWord(r) [] o = "DecU" -> SWord(l) - 1
    [] o = "MulU" -> SWord(l) * SWord(r) [] o = "NegI" -> -SWord(l)

Fits(i) == i = SWord(ToWord(i))

\* Quotient and remainder belong together: the remainder is smaller than the divisor,
\* and has the sign of the dividend.
IsQuotient(o, L, R, Result) ==
  CASE o = "DivI" -> LET rest == L - Result * R IN Abs(rest) < Abs(R) /\ rest * L >= 0
    [] o = "ModI" -> /\ Abs(Result) < Abs(R) /\ Result * L >= 0
                     /\ (L - Result) % Abs(R) = 0
    [] o = "DivX" -> \/ Abs(L * Point - Result * R) < Abs(R)
                     \/ Abs(L) * Point >= (Count \div 2) * Abs(R)

BitOf(w, k) == (w \div 2 ^ k) % 2 = 1

HasBits(o, l, r, result) ==
  LET n == r % Width
  IN \A k \in 0 .. Width - 1 :
       BitOf(result, k) =
         CASE o = "AndU" -> BitOf(l, k) /\ BitOf(r, k)
           [] o = "OrIU" -> BitOf(l, k) \/ BitOf(r, k)
           [] o = "OrXU" -> BitOf(l, k) # BitOf(r, k)
           [] o = "InvU" -> ~ BitOf(l, k)
           [] o = "ShLU" -> k >= n /\ BitOf(l, k - n)
           [] o = "ShRI" -> BitOf(l, IF k + n < Width THEN k + n ELSE Width - 1)

Holds(o, l, r) ==
  CASE o = "CmpI_GE" -> SWord(l) - SWord(r) >= 0
    [] o = "CmpI_GT" -> SWord(l) - SWord(r) > 0
    [] o = "CmpI_LE" -> SWord(r) - SWord(l) >= 0
    [] o = "CmpI_LT" -> SWord(r) - SWord(l) > 0
    [] o = "CmpU_EQ" -> l - r = 0
    [] o = "CmpU_NE" -> l - r # 0
    [] o = "LAnd" -> l * r > 0
    [] o = "LOrI" -> l + r > 0
    [] o = "NotU" -> l = 0

\* A product of fixed-point numbers is rounded down, where it fits.
IsProduct(L, R, Result) == LET exact == (L * R) \div Point IN Fits(exact) => Result = exact

(***************************************************************************)
(* Every result is a word, and as a number it is what the operator says,   *)
(* whatever the signs, and also where C++ computes it with shifts of       *)
(* unsigned double words or leaves an overflow.  A zero divisor gives 0.   *)
(***************************************************************************)
ResultsRight ==
  \A o \in Compare \cup Bits \cup Modular \cup Divide \cup {"MulX"}, l, r \in AllWords :
    LET result == Apply(o, l, r)
    IN ~ Undefined(o, l, r) =>
         /\ result \in AllWords
         /\ o \in Modular /\ Fits(Exact(o, l, r)) => SWord(result) = Exact(o, l, r)
         /\ o \in Divide => IF r # 0 THEN IsQuotient(o, SWord(l), SWord(r), SWord(result))
                                     ELSE result = 0
         /\ o = "MulX" => IsProduct(SWord(l), SWord(r), SWord(result))
         /\ o \in Bits => HasBits(o, l, r, result)
         /\ o \in Compare => result = Bool(Holds(o, l, r))
=============================================================================
