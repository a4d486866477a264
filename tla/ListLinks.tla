----------------------------- MODULE ListLinks -----------------------------
(***************************************************************************)
(* ListLink (List.hpp): intrusive circular lists, as the sequence of the   *)
(* objects from the head on.  An object is in at most one list, once.      *)
(***************************************************************************)
EXTENDS Naturals, SequencesExt

Index(list, e) == CHOOSE i \in DOMAIN list : list[i] = e

\* unlink: the neighbours of e are joined.
Unlink(list, e) == RemoveAt(list, Index(list, e))

\* Mutant: the iterator passes over the next object.
NextOfSkips(list, e, end) ==
  IF Index(list, e) + 1 >= Len(list) THEN end ELSE list[Index(list, e) + 2]

\* The iterator after e, or end, which is the list head and has no object.
NextOf(list, e, end) ==
  IF Index(list, e) = Len(list) THEN end ELSE list[Index(list, e) + 1]

FirstOf(list, end) == IF list = <<>> THEN end ELSE Head(list)
=============================================================================
