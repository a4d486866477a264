----------------------------- MODULE StringTable -----------------------------
(***************************************************************************)
(* The string table of an environment (String.cpp).                        *)
(*                                                                         *)
(* Scripts hold strings by their index, modules and actions by a pointer.  *)
(* A pointer is modelled by the characters: as long as the string lives,   *)
(* the table has it once.                                                  *)
(***************************************************************************)
EXTENDS Integers, SequencesExt

CONSTANTS
  String,    \* the strings
  NoString   \* strNone, the string of every index that has none

ASSUME StringAssumption == NoString \notin String

\* A table: the strings by index, the indexes that were freed, and how often
\* each string is locked.
Empty == [byIdx |-> <<>>, free |-> <<>>, lock |-> [s \in String |-> 0]]

Live(t) == ToSet(t.byIdx) \ {NoString}

IdxOf(t, s) == (CHOOSE i \in DOMAIN t.byIdx : t.byIdx[i] = s) - 1

\* The string of an index.
At(t, w) == IF w + 1 \in DOMAIN t.byIdx THEN t.byIdx[w + 1] ELSE NoString

\* Scripts see the complement of the index.
WordOf(t, s) == -1 - IdxOf(t, s)
GetString(t, w) == At(t, -1 - w)

\* operator[]: the string, with a new index if the table has it not.
Intern(t, s) ==
  IF s \in Live(t) THEN t
  ELSE IF t.free = <<>> THEN [t EXCEPT !.byIdx = Append(@, s)]
  ELSE [t EXCEPT !.byIdx[Last(t.free) + 1] = s, !.free = Front(@)]

\* Null pointers are left alone.
InternAll(t, ss) ==
  FoldLeft(LAMBDA u, s : IF s = NoString THEN u ELSE Intern(u, s), t, ss)

\* Mutant: locks are not looked at.
UnusedUnlocked(t, refs) == Live(t) \ refs

Unused(t, refs) == {s \in Live(t) \ refs : t.lock[s] = 0}

\* collectEnd: frees the strings neither referenced nor locked, in the order
\* of the hash table.
Collect(t, order) ==
  [byIdx |-> [i \in DOMAIN t.byIdx |->
                IF t.byIdx[i] \in ToSet(order) THEN NoString ELSE t.byIdx[i]],
   free  |-> t.free \o [i \in DOMAIN order |-> IdxOf(t, order[i])],
   lock  |-> t.lock]

AddLocks(t, ss, n) ==
  FoldLeft(LAMBDA u, s : IF s = NoString THEN u ELSE [u EXCEPT !.lock[s] = @ + n], t, ss)

\* saveState, of the table.
Saved(t) == [byIdx |-> t.byIdx, lock |-> t.lock]

\* SelectSeq, as a recursion that can be reasoned about.
Chosen(s, Test(_)) ==
  LET first[i \in 0 .. Len(s)] ==
        IF i = 0 THEN <<>> ELSE IF Test(s[i]) THEN Append(first[i - 1], s[i]) ELSE first[i - 1]
  IN first[Len(s)]

\* The indexes without a string, in order.
FreeIn(byIdx) == Chosen([i \in DOMAIN byIdx |-> i - 1], LAMBDA i : byIdx[i + 1] = NoString)

\* Mutant: locks are not read.
LoadedUnlocked(sv) ==
  [byIdx |-> sv.byIdx,
   free  |-> FreeIn(sv.byIdx),
   lock  |-> [s \in DOMAIN sv.lock |-> 0]]

\* loadState, of the table.
Loaded(sv) ==
  [byIdx |-> sv.byIdx,
   free  |-> FreeIn(sv.byIdx),
   lock  |-> sv.lock]
=============================================================================
