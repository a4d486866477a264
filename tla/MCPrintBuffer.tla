--------------------------- MODULE MCPrintBuffer ---------------------------
(***************************************************************************)
(* Instances of PrintBuffer for TLC: bytes of three values, marks of two   *)
(* bytes.  What scripts make of texts before they print them is checked    *)
(* with it, for words of four bits and eight chars.                        *)
(***************************************************************************)
EXTENDS PrintBuffer, TextFunctions

SomeTexts == {<<>>, <<1>>, <<2, 0>>}
SomeFormats == {<<2, <<1>>>>, <<2, <<2, 1>>>>}
\* A word of more than a char is cut to 0 and is not the end.
SomeArrays == {<<0, 1>>, <<3, 1, 0>>}
Ascii == {<<1, <<2>>>>}
\* One UTF-16 unit that is three bytes of UTF-8.
Wide == {<<1, <<2, 2, 1>>>>}

\* 3 is the lower case of 2.
Uppers == [c \in -4 .. 3 |-> IF c = 3 THEN 2 ELSE c]
ShortStrings == BoundedSeq({-1, 0, 2, 3}, 2) \cup {<<2, -1, 3>>, <<3, 3, 2>>, <<2, 0, 3>>, <<2, 3, 2, 0>>}
\* Each side of the bounds between encodings.
Bounds == UNION {{n - 1, n, n + 1} : n \in {127, 2047, 65535, 65533, 1114111}}
-----------------------------------------------------------------------------
(***************************************************************************)
(* When a script prints, what it has made of strings and arrays is right.  *)
(***************************************************************************)
TextFunctionsRight == open = 0 => FunctionsRight
=============================================================================
