--------------------------- MODULE MCModuleLoading ---------------------------
(* Instances of ModuleLoading for TLC. *)
EXTENDS ModuleLoading

CONSTANTS mA, mB, sf, sg, st

C(id, data) == [id |-> id, ok |-> TRUE, data |-> data]
Bad(id) == [id |-> id, ok |-> FALSE, data |-> <<>>]
File(chunks) == [head |-> "ACSE", chunks |-> chunks, cut |-> FALSE, badCode |-> FALSE]

\* Every chunk; sg, and the array sg, are imported from mB.
Full ==
  <<C("SPTR", <<[num |-> -1, codeIdx |-> 8, argC |-> 1], [num |-> 7, codeIdx |-> 9, argC |-> 0]>>),
    C("SARY", <<7, 2>>), C("SFLG", <<<<-1, 1>>>>), C("SVCT", <<<<7, 5>>, <<9, 5>>>>),
    C("SNAM", <<sf>>), C("LOAD", <<mA, mB>>), C("STRL", <<sf>>),
    C("FNAM", <<sf, sg, mA>>),
    C("FUNC", <<[codeIdx |-> 4, argC |-> 1], [codeIdx |-> 0, argC |-> 0], [codeIdx |-> 0, argC |-> 0]>>),
    C("FARY", <<0, 1>>), C("JUMP", <<4>>),
    C("ARAY", <<<<1, 2>>>>), C("MEXP", <<sf, sg>>),
    C("AINI", <<1, <<1, 0>>>>), C("ASTR", <<1, 5>>), C("ATAG", <<1, <<"other">>>>),
    C("MINI", <<1, <<0>>>>), C("MSTR", <<1>>),
    C("AIMP", <<<<1, sg>>>>), C("MIMP", <<<<0, sf>>>>)>>

Library == <<C("FUNC", <<[codeIdx |-> 4, argC |-> 0]>>), C("FNAM", <<sg>>), C("STRE", <<sg>>)>>

\* Files that are whole, cut, of an unknown kind, or bad behind the functions.
Files ==
  (mA :> {File(Full), [File(Full) EXCEPT !.cut = TRUE]} @@
   mB :> {File(Library), [File(Library) EXCEPT !.head = "unknown"],
          File(<<Bad("STRE")>> \o Library)})

\* Bounds: one save, with something in memory but at most one module with
\* one function; one thing at a time is put aside or deferred, and nothing
\* else after the save; memory then has the word of the save, or none.
OneSave == saved # NoSave => saved' = saved
FewSaves ==
  saved # NoSave =>
    /\ saved.memory # Zeros
    /\ saved.size <= 2
    /\ Len(saved.tab.byIdx) <= 3
    /\ saved.kept # Zeros => kept \in {Zeros, saved.kept}
    /\ saved.kept = Zeros => kept = Zeros
    /\ saved.action = NoAction => action = NoAction
    /\ kept # Zeros \/ action # NoAction => memory \in {Zeros, saved.memory}
FewFree == Len(env.tab.free) <= 1
FewKept == kept # Zeros => action = NoAction
=============================================================================
