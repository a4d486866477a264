------------------------------ MODULE MCTracer ------------------------------
(* Instances of Tracer for TLC: all files of a few bytes. *)
EXTENDS Tracer

\* Op codes 0 to 5; 6 begins one of two bytes, and 8 is such a one.
OpTables ==
  [branches |-> <<"Push_Lit", "Jump_Lit", "Jcnd_Nil", "Retn_Nul", "Call_Nul", "Push_LitArrB">>,
   calls    |-> <<"CallFunc", "Jcnd_Lit", "CallSpec_1L", "PrintString", "Host", "Killed">>,
   cases    |-> <<"Nop", "Jcnd_Tab", "Jcnd_Nil", "ScrTerm">>,
   shorts   |-> <<"Push_LitB", "CallSpec_1", "CallSpec_1LB", "Push_Lit2B", "Drop_LocReg", "Jump_Stk",
                  NoOp, NoOp, "Retn_Stk">>]

\* Functions 1 and 2, called with no argument, have codes of their own; for function 2 it is Kill.
TransOfFunc == <<"Push_StrArs", "Kill">>

Input(table, size, top, compressed, targets, fastBase) ==
  [table |-> table, size |-> size, top |-> top, compressed |-> compressed,
   scripts |-> <<0>>, jumps |-> targets, funcs |-> <<size>>, fastBase |-> fastBase]

\* uint_fast32_t with the values of a word, and of two words.
Narrow == ByteBase ^ WordSize
Wide == Narrow ^ 2

\* Files with tables, in a build whose uint_fast32_t has 32 bits: only the
\* size of a table depends on it.
NarrowCases == {Input("cases", 5, 4, TRUE, <<4>>, Narrow)}

InputSet ==
  {Input("branches", 5, 5, TRUE, <<2>>, Wide), Input("cases", 6, 4, TRUE, <<5>>, Wide),
   Input("shorts", 4, 6, TRUE, <<>>, Wide)}
  \cup {Input("calls", 5, 5, c, <<>>, Wide) : c \in BOOLEAN}
  \cup NarrowCases

=============================================================================
