--------------------------- MODULE TextFunctions ---------------------------
(***************************************************************************)
(* What the functions of scripts for strings and for the texts in arrays   *)
(* compute (CallFunc.cpp, and printArray of Environment.cpp).              *)
(*                                                                         *)
(* A string is a sequence of chars, which may contain a NUL; behind the    *)
(* last one there is a NUL that does not count.  Lengths and places are    *)
(* words, which wrap, and -1 stands for no limit.  An array is a function  *)
(* on words.                                                               *)
(***************************************************************************)
EXTENDS Integers, SequencesExt, FiniteSetsExt

CONSTANTS
  WordC,       \* the number of words: 2 ^ 32
  CharC,       \* the number of chars, which are signed: 256
  Upper,       \* toupper: a function on chars
  Strings,     \* strings that scripts have (bound)
  Points       \* what scripts put into arrays as code points (bound)

ASSUME TextAssumption ==
  /\ {WordC, CharC} \subseteq Nat \ {0} /\ WordC % CharC = 0 /\ CharC % 2 = 0
  /\ \A s \in Strings : Range(s) \subseteq DOMAIN Upper /\ Len(s) < WordC
  /\ Points \subseteq Nat \ {0}

Words == 0 .. WordC - 1
NoLimit == WordC - 1
AsWord(c) == c % WordC
AsChar(w) == LET b == w % CharC IN IF 2 * b < CharC THEN b ELSE b - CharC

\* The char at str + i, and the string of n chars from there.
GetChar(s, i) == IF i < Len(s) THEN s[i + 1] ELSE 0
From(s, i, n) == [k \in 1 .. n |-> GetChar(s, i + k - 1)]

\* The places of NULs, and the length up to the first.
StrLen(s) == Min({i \in 0 .. Len(s) : GetChar(s, i) = 0})

\* Both end where the chars differ, at a NUL, and behind n + 1 chars.
Compare(l, r, n) ==
  LET end == Min({i \in 0 .. Len(l) : GetChar(l, i) # GetChar(r, i) \/ GetChar(l, i) = 0 \/ i = n})
  IN CASE GetChar(l, end) < GetChar(r, end) -> -1
       [] GetChar(l, end) > GetChar(r, end) -> 1
       [] OTHER -> 0

StrCmp(l, r, n) == Compare(l, r, n)
StrCaseCmp(l, r, n) ==
  Compare([i \in DOMAIN l |-> Upper[l[i]]], [i \in DOMAIN r |-> Upper[r[i]]], n)

StrLeft(s, n) == IF n < Len(s) THEN From(s, 0, n) ELSE s
StrRight(s, n) == IF n < Len(s) THEN From(s, Len(s) - n, n) ELSE s

\* Mutant: the sum of place and length is compared, and wraps.
StrMidSum(s, i, n) ==
  IF i < Len(s) THEN From(s, i, IF AsWord(i + n) < Len(s) THEN n ELSE Len(s) - i) ELSE <<>>

StrMid(s, i, n) ==
  IF i < Len(s) THEN From(s, i, IF n < Len(s) - i THEN n ELSE Len(s) - i) ELSE <<>>
-----------------------------------------------------------------------------
(* Texts in arrays *)

\* StrCpyArray: chars up to a NUL, which is copied too, or as many as fit.
StrCpyArray(dst, off, len, s, i) ==
  LET all  == StrLen(SubSeq(s, i + 1, Len(s))) + 1
      done == Min({all, len})
  IN IF i > Len(s) THEN [array |-> dst, fits |-> FALSE]
     ELSE [array |-> [w \in Words |-> LET k == AsWord(w - off)
                                      IN IF k < done THEN AsWord(GetChar(s, i + k)) ELSE dst[w]],
           fits  |-> all <= len]

\* What printArray prints: the elements from idx on, up to a 0 or the limit.
Printed(array, idx, limit) ==
  LET end == Min({k \in Words : array[AsWord(idx + k)] = 0 \/ k = limit})
  IN [k \in 1 .. end |-> array[AsWord(idx + k - 1)]]

PrintArrayChar(array, idx, limit) ==
  LET words == Printed(array, idx, limit) IN [k \in DOMAIN words |-> AsChar(words[k])]

\* PrintArrayUTF8, for one element: the bytes that it counts, and those that it writes.
Valid(c) == IF c > 1114111 THEN 65533 ELSE c
Counted(c) ==
  CASE Valid(c) <= 127 -> 1 [] Valid(c) \in 128 .. 2047 -> 2
    [] Valid(c) \in 2048 .. 65535 -> 3 [] OTHER -> 4
Utf8(c) ==
  LET v == Valid(c)
      Low(n) == 128 + ((v \div 64 ^ n) % 64)
  IN CASE v <= 127            -> <<v>>
       [] v \in 128 .. 2047   -> <<192 + v \div 64, Low(0)>>
       [] v \in 2048 .. 65535 -> <<224 + v \div 4096, Low(1), Low(0)>>
       [] OTHER               -> <<240 + v \div 262144, Low(2), Low(1), Low(0)>>
-----------------------------------------------------------------------------
(* What they mean *)

\* The text of a string in C, and its first chars.
Chars(s, i, n) == From(s, i, Min({n, StrLen(SubSeq(s, i + 1, Len(s)))}))

\* The parts of a string fit together, whatever words are given as lengths.
Parts(s) ==
  \A n \in Words :
    /\ StrLeft(s, n) \o StrMid(s, n, NoLimit) = s
    /\ n <= Len(s) => StrLeft(s, Len(s) - n) \o StrRight(s, n) = s
    /\ \A i \in Words : StrMid(s, i, n) = StrLeft(StrMid(s, i, NoLimit), n)

\* A comparison with limit n is an order on the first n + 1 chars.
Order(s, t) ==
  \A n \in Words :
    LET cmp == StrCmp(s, t, n)
    IN /\ StrCmp(t, s, n) = -cmp
       /\ cmp = 0 <=> Chars(s, 0, n + 1) = Chars(t, 0, n + 1)
       /\ \A u \in Strings : cmp = -1 /\ StrCmp(t, u, n) = -1 => StrCmp(s, u, n) = -1
       /\ cmp = 0 => StrCaseCmp(s, t, n) = 0

\* A copy writes into its part of the array only, and is printed as it was copied.
Copied(s) ==
  \A off, len \in Words, i \in 0 .. Len(s) + 1 :
    LET old  == [w \in Words |-> AsWord(-1)]
        copy == StrCpyArray(old, off, len, s, i)
        text == Chars(s, i, NoLimit)
    IN /\ \A w \in Words : AsWord(w - off) >= len => copy.array[w] = old[w]
       /\ copy.fits <=> i <= Len(s) /\ Len(text) < len
       /\ i <= Len(s) =>
            PrintArrayChar(copy.array, off, IF copy.fits THEN NoLimit ELSE len)
              = SubSeq(text, 1, Min({len, Len(text)}))

\* The value of the bytes of one char.
ValueOfUtf8(b) ==
  LET lead == CASE Len(b) = 1 -> b[1] [] Len(b) = 2 -> b[1] - 192
                [] Len(b) = 3 -> b[1] - 224 [] Len(b) = 4 -> b[1] - 240
  IN FoldLeft(LAMBDA v, x : v * 64 + (x - 128), lead, Tail(b))

Encoded(c) ==
  /\ Len(Utf8(c)) = Counted(c)
  /\ ValueOfUtf8(Utf8(c)) = (IF c \in 0 .. 1114111 THEN c ELSE 65533)
  /\ \A k \in 2 .. Len(Utf8(c)) : Utf8(c)[k] \in 128 .. 191

(***************************************************************************)
(* Strings that scripts take apart go together again, comparisons are an   *)
(* order, what is copied into an array stays inside of it and is printed   *)
(* as it was, and as many bytes are printed as were reserved: for all      *)
(* lengths and places, which are unsigned words that wrap.                 *)
(***************************************************************************)
FunctionsRight ==
  /\ \A s \in Strings : Parts(s) /\ Copied(s)
  /\ \A s, t \in Strings : Order(s, t)
  /\ \A c \in Points : Encoded(c)
=============================================================================
