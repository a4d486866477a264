---------------------------- MODULE SavedArrays ----------------------------
(***************************************************************************)
(* An array of the VM (Array.cpp), its section in a save, the numbers of   *)
(* variable length that a save consists of (Serial.hpp), and the buffer of *)
(* the host that a save is written to (MemorySerial.hpp).                  *)
(*                                                                         *)
(* An array is a tree of banks, segments and pages that are allocated when *)
(* one of their words is first accessed, and freed together; so the tree   *)
(* is the set of its pages.  A group is the bits of a number in one byte.  *)
(***************************************************************************)
EXTENDS Integers, SequencesExt, FiniteSetsExt

CONSTANTS
  PageSize, SegmSize, BankSize, DataSize,  \* 256 each
  Group,       \* the values of a group: 128
  Accessed,    \* the indexes that scripts use (bound)
  Values,      \* the words that they assign (bound)
  BufferSizes  \* the sizes of the buffers that the host tries (bound)

ASSUME SizesAssumption ==
  /\ {PageSize, SegmSize, BankSize, DataSize, Group} \subseteq Nat \ {0, 1}
  /\ BufferSizes \subseteq Nat

PagesOfBank == SegmSize * BankSize
Index == 0 .. DataSize * PagesOfBank * PageSize - 1
PageNumber(idx) == idx \div PageSize
Blank == [i \in 0 .. PageSize - 1 |-> 0]

ASSUME AccessAssumption == Accessed \subseteq Index /\ 0 \in Values /\ Values \subseteq Nat
-----------------------------------------------------------------------------
(* Access *)

NoPages == [n \in {} |-> Blank]

\* operator []: what is on the way to the word is allocated, with zeros.
At(ps, idx) ==
  [n \in DOMAIN ps \cup {PageNumber(idx)} |-> IF n \in DOMAIN ps THEN ps[n] ELSE Blank]

Put(ps, idx, w) == [At(ps, idx) EXCEPT ![PageNumber(idx)][idx % PageSize] = w]

Find(ps, idx) == IF PageNumber(idx) \in DOMAIN ps THEN ps[PageNumber(idx)][idx % PageSize] ELSE 0
-----------------------------------------------------------------------------
(* Numbers of variable length.  What is written is a sequence of writes,   *)
(* each of some bytes; what is read is a sequence of bytes.                *)

RECURSIVE Groups(_)
Groups(n) == IF n < Group THEN <<n>> ELSE Append(Groups(n \div Group), n % Group)

\* All bytes but the last have the high bit.
WriteVLN(n) ==
  LET groups == Groups(n)
  IN [i \in DOMAIN groups |-> IF i < Len(groups) THEN groups[i] + Group ELSE groups[i]]

\* The number at p, and the place behind it.
ReadVLN(in, p) ==
  LET last == Min({i \in p .. Len(in) : in[i] < Group})
  IN [val |-> FoldLeft(LAMBDA out, c : out * Group + (c % Group), 0, SubSeq(in, p, last)),
      next |-> last + 1]
-----------------------------------------------------------------------------
(* Array::saveState *)

\* WritePage: the words from the first that is not 0 to the last.
WritePage(page, idx) ==
  LET set == {i \in DOMAIN page : page[i] # 0}
  IN IF set = {} THEN <<>>
     ELSE <<WriteVLN(idx + Min(set)), WriteVLN(Max(set) + 1 - Min(set))>>
            \o [i \in 1 .. Max(set) + 1 - Min(set) |-> WriteVLN(page[Min(set) + i - 1])]

SavePage(ps, st, n) ==
  [idx |-> st.idx + PageSize,
   out |-> st.out \o IF n \in DOMAIN ps THEN WritePage(ps[n], st.idx) ELSE <<>>]

SaveSegm(ps, st, first) ==
  IF DOMAIN ps \cap (first .. first + SegmSize - 1) = {}
    THEN [st EXCEPT !.idx = @ + SegmSize * PageSize]
    ELSE FoldLeft(LAMBDA s, n : SavePage(ps, s, n), st, [i \in 1 .. SegmSize |-> first + i - 1])

SaveBank(ps, st, first) ==
  IF DOMAIN ps \cap (first .. first + PagesOfBank - 1) = {}
    THEN [st EXCEPT !.idx = @ + PagesOfBank * PageSize]
    ELSE FoldLeft(LAMBDA s, n : SaveSegm(ps, s, n), st,
                  [i \in 1 .. BankSize |-> first + (i - 1) * SegmSize])

\* Two bytes 0 end the array.
SaveState(ps) ==
  FoldLeft(LAMBDA s, n : SaveBank(ps, s, n), [idx |-> 0, out |-> <<>>],
           [i \in 1 .. DataSize |-> (i - 1) * PagesOfBank]).out \o <<<<0>>, <<0>>>>
-----------------------------------------------------------------------------
(* Array::loadState, of version 1 *)

\* Mutant: all words of a run are put to its first index.
RECURSIVE LoadAtFirst(_, _, _, _, _)
LoadAtFirst(ps, in, p, idx, len) ==
  IF len = 0 THEN [ps |-> ps, next |-> p]
  ELSE LET w == ReadVLN(in, p)
       IN LoadAtFirst(Put(ps, idx, w.val), in, w.next, idx, len - 1)

RECURSIVE LoadWords(_, _, _, _, _)
LoadWords(ps, in, p, idx, len) ==
  IF len = 0 THEN [ps |-> ps, next |-> p]
  ELSE LET w == ReadVLN(in, p)
       IN LoadWords(Put(ps, idx, w.val), in, w.next, idx + 1, len - 1)

RECURSIVE LoadRuns(_, _, _)
LoadRuns(ps, in, p) ==
  LET idx == ReadVLN(in, p)
      len == ReadVLN(in, idx.next)
      run == LoadWords(ps, in, len.next, idx.val, len.val)
  IN IF idx.val = 0 /\ len.val = 0 THEN ps ELSE LoadRuns(run.ps, in, run.next)

\* loadState begins with clear.
LoadState(in) == LoadRuns(NoPages, in, 1)
-----------------------------------------------------------------------------
(* MemorySerial: after a write that does not fit, nothing is written, and  *)
(* what follows is not counted.                                            *)

Position(out, size) ==
  FoldLeft(LAMBDA pos, write : IF pos > size THEN pos ELSE pos + Len(write), 0, out)

HasFailed(out, size) == Position(out, size) > size
-----------------------------------------------------------------------------
(***************************************************************************)
(* Whatever scripts put into an array, every index has the word that it    *)
(* was given, or 0, and has it again after a load of a save: though pages  *)
(* without a word and the zeros around the words of a page are not saved,  *)
(* and every number is cut into bytes.  The save fits into a buffer if it  *)
(* is no longer, and is reported as failed if it is.                       *)
(***************************************************************************)
ArraysKept ==
  \A touched \in SUBSET Accessed : \A words \in [touched -> Values] :
    LET ps == FoldSet(LAMBDA i, q : Put(q, i, words[i]), NoPages, touched)
        out == SaveState(ps)
        again == LoadState(FlattenSeq(out))
    IN /\ \A i \in Index :
            LET w == IF i \in touched THEN words[i] ELSE 0
            IN Find(ps, i) = w /\ Find(again, i) = w
       /\ \A size \in BufferSizes : HasFailed(out, size) = (Len(FlattenSeq(out)) > size)
=============================================================================
