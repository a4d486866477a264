----------------------------- MODULE PrintTexts -----------------------------
(***************************************************************************)
(* What the print buffer of a thread promises the instructions that print: *)
(* a stack of texts.  What is printed goes to the innermost text; a nested *)
(* text is taken as a string, and the text around it is then continued.    *)
(***************************************************************************)
EXTENDS Naturals, Sequences

CONSTANT Byte       \* what a text consists of

VARIABLES
  texts,            \* the texts, the innermost last
  last              \* what was printed, read or taken last

vars == <<texts, last>>

Inner == texts[Len(texts)]
Outer == SubSeq(texts, 1, Len(texts) - 1)

Init == texts = <<<<>>>> /\ last = <<>>

Continue ==
  /\ last' \in Seq(Byte)
  /\ texts' = Append(Outer, Inner \o last')

Begin == texts' = Append(texts, <<>>) /\ last' = <<>>

Read == last' = Inner /\ UNCHANGED texts

\* The outermost text cannot be dropped; it starts again.
Take ==
  /\ last' = Inner
  /\ texts' = IF Len(texts) > 1 THEN Outer ELSE <<<<>>>>

\* The thread ends, and its buffer waits in the pool for the next one.
Clear == texts' = <<<<>>>> /\ last' = <<>>

\* The thread is saved and loaded.
Reload == UNCHANGED texts /\ last' = <<>>

Next == Continue \/ Begin \/ Read \/ Take \/ Clear \/ Reload

Spec == Init /\ [][Next]_vars
=============================================================================
