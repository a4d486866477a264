------------------------------- MODULE Tracer -------------------------------
(***************************************************************************)
(* The translation of bytecode (Tracer.cpp): trace finds the code of a     *)
(* module in its file, from the entry points on, and counts the words that *)
(* the translation will need; translate then writes them into arrays of    *)
(* these sizes, and turns positions in the file into indexes of codeV.     *)
(*                                                                         *)
(* A file is a sequence of bytes; what the bytes mean, the tables of the   *)
(* environment say (CodeList.hpp), to which the host adds ops.  Ops that   *)
(* the tracer treats alike are modelled by one of them, op codes are       *)
(* numbers of the input.  The sizes of words and the values of a byte are  *)
(* parameters.  The numbers of a file are read as uint_fast32_t            *)
(* (BinaryIO.hpp), which has a word's 32 bits in some builds and 64 in     *)
(* others: how many values it has is part of the input.  trace calls       *)
(* itself for the targets of a jump, and then goes on: stack has the       *)
(* positions that are left.                                                *)
(***************************************************************************)
EXTENDS Integers, SequencesExt, FiniteSetsExt

CONSTANTS
  WordSize,   \* bytes of a word: 4
  HalfSize,   \* bytes of a half word: 2
  Align,      \* alignment of the cases of Jcnd_Tab: 4
  ByteBase,   \* values of a byte: 256
  Extended,   \* first op code of two bytes: 240
  Tables,     \* tables of ops, by their codes
  Known,      \* functions that the environment knows
  FuncTrans,  \* their codes, for a call with no arguments
  StringC,    \* strings of the module
  Inputs      \* files, but for their data, their entry points and the build's FastBase

ASSUME SizeAssumption ==
  {WordSize, HalfSize, Align, ByteBase, Extended} \subseteq Nat \ {0}

ASSUME FastAssumption == \A i \in Inputs : i.fastBase >= ByteBase ^ WordSize

VARIABLES
  input,      \* the table of op codes, the kind of file, the entry points and the build
  data,       \* the bytes of the file
  phase,      \* "trace", "translate", "done", "failed", or "outside" of the file
  stack,      \* positions to trace
  found,      \* codeFound
  codeC, jumpC, jumpMapC,
  iter,       \* how far translate came
  code,       \* codeV
  codeIndex,  \* index in codeV of the op at a position
  jumps,      \* indexes in codeV of positions to be turned into indexes
  maps,       \* jumpMapV
  entries     \* entry points: those of functions, jumps and scripts

counts == <<codeC, jumpC, jumpMapC>>
output == <<iter, code, codeIndex, jumps, maps, entries>>
vars == <<input, data, phase, stack, found, counts, output>>
-----------------------------------------------------------------------------
(* The tables of the environment. *)

NoOp == "none"

Op(args, trans, stackArgC) == [args |-> args, trans |-> trans, stackArgC |-> stackArgC]

\* Ops by their arguments and their translation; Host is one of the host.
OpData ==
  [Nop          |-> Op(<<>>, "Nop", 0),
   Push_Lit     |-> Op(<<"W">>, "Push_Lit", 0),
   Push_LitB    |-> Op(<<"B">>, "Push_Lit", 0),
   Drop_LocReg  |-> Op(<<"b", "L">>, "Drop_LocReg", 1),
   CallSpec_1   |-> Op(<<"b">>, "CallSpec", 1),
   CallSpec_1L  |-> Op(<<"b", "W">>, "CallSpec_Lit", 0),
   CallSpec_1LB |-> Op(<<"B", "B">>, "CallSpec_Lit", 0),
   PrintString  |-> Op(<<>>, "CallFunc", 1),
   Jump_Lit     |-> Op(<<"W", "J">>, "Jump_Lit", 0),
   Jcnd_Nil     |-> Op(<<"W", "J">>, "Jcnd_Nil", 1),
   Jcnd_Lit     |-> Op(<<"W", "W", "J">>, "Jcnd_Lit", 1),
   Jcnd_Tab     |-> Op(<<>>, "Jcnd_Tab", 1),
   Jump_Stk     |-> Op(<<>>, "Jump_Stk", 1),
   Push_LitArrB |-> Op(<<>>, "Push_LitArr", 0),
   Push_Lit2B   |-> Op(<<"B", "B">>, "Push_LitArr", 0),
   Call_Nul     |-> Op(<<"b">>, "Call_Lit", 0),
   Retn_Nul     |-> Op(<<>>, "Retn", 0),
   Retn_Stk     |-> Op(<<>>, "Retn", 0),
   ScrTerm      |-> Op(<<>>, "ScrTerm", 0),
   CallFunc     |-> Op(<<"b", "h">>, "CallFunc", 0),
   Killed       |-> Op(<<>>, "Kill", 0),
   Host         |-> Op(<<"W", "S">>, "CallFunc_Lit", 0)]

\* Words behind an internal code, as the tables have it; 1 if not listed.
TransArgC(trans) ==
  CASE trans \in {"Kill", "CallFunc", "CallSpec", "Jcnd_Lit"} -> 2
    [] trans \in {"Nop", "CallFunc_Lit", "CallSpec_Lit", "Push_LitArr", "Retn", "Jump_Stk",
                  "ScrTerm", "Drop_Nul", "Push_StrArs"} -> 0
    [] OTHER -> 1

\* CountArgs, when the op is added.
ArgC(op) == Len(SelectSeq(OpData[op].args, LAMBDA a : a \in {"B", "H", "W", "b", "h"}))

Args(op) == OpData[op].args

\* getTransCode of a function of the environment: its code for some argc.
TransOf(func, argc) ==
  IF argc = 0 THEN FuncTrans[func] ELSE "CallFunc"
-----------------------------------------------------------------------------
(* Reading the file. *)

Size == Len(data)
ByteAt(p) == data[p + 1]

\* The number in n bytes, the lowest first.
ReadLE(p, n) ==
  LET v[k \in 0 .. n] == IF k = 0 THEN 0 ELSE v[k - 1] + ByteAt(p + k - 1) * ByteBase ^ (k - 1)
  IN v[n]
Word(p) == ReadLE(p, WordSize)

OpSize(p) ==
  IF ~input.compressed THEN WordSize ELSE IF ByteAt(p) >= Extended THEN 2 ELSE 1

\* readOpACS0.
OpCode(p) ==
  CASE ~input.compressed -> Word(p)
    [] OpSize(p) = 2 -> Extended + (ByteAt(p) - Extended) * ByteBase + ByteAt(p + 1)
    [] OTHER -> ByteAt(p)
OpAt(p) ==
  LET table == Tables[input.table]
  IN IF OpCode(p) < Len(table) THEN table[OpCode(p) + 1] ELSE NoOp

ArgSize(a) ==
  CASE a = "B" -> 1
    [] a = "H" -> HalfSize
    [] a = "W" -> WordSize
    [] a = "b" -> IF input.compressed THEN 1 ELSE WordSize
    [] a = "h" -> IF input.compressed THEN HalfSize ELSE WordSize
    [] OTHER   -> 0

ArgsSize(args) ==
  LET v[k \in 0 .. Len(args)] == IF k = 0 THEN 0 ELSE v[k - 1] + ArgSize(args[k]) IN v[Len(args)]
ArgStart(p) == p + OpSize(p)

\* The cases of a Jcnd_Tab: their count, and where they start.
CasesAt(p) == ((ArgStart(p) + Align - 1) \div Align) * Align
CaseC(p) == Word(CasesAt(p))
CaseAt(p, k) == CasesAt(p) + WordSize * (2 * k - 1)
Cases(p) == [k \in 1 .. CaseC(p) |-> <<Word(CaseAt(p, k)), Word(CaseAt(p, k) + WordSize)>>]

\* Values of uint_fast32_t, in which the size of the table is computed.
FastBase == input.fastBase
TableSize(p) == CaseC(p) * 2 * WordSize + WordSize

\* getArgBytes: where the next op is.
Next(p) ==
  CASE OpAt(p) = "Push_LitArrB" -> ArgStart(p) + 1 + ByteAt(ArgStart(p))
    [] OpAt(p) = "Jcnd_Tab"     -> CasesAt(p) + (TableSize(p) % FastBase)
    [] OTHER                    -> ArgStart(p) + ArgsSize(Args(OpAt(p)))

\* The op code is not all in the file.
CodeCut(p) == p + OpSize(p) > Size

\* The arguments are not.
ArgsCut(p) ==
  CASE OpAt(p) = "Push_LitArrB" /\ ArgStart(p) >= Size          -> TRUE
    [] OpAt(p) = "Jcnd_Tab" /\ CasesAt(p) + WordSize > Size -> TRUE
    [] OTHER                                                -> Next(p) > Size

Malformed(p) ==
  \/ p > Size
  \/ p < Size /\ IF CodeCut(p) THEN TRUE ELSE OpAt(p) # NoOp /\ ArgsCut(p)

\* readCallFunc.
FuncArgC(p) == ReadLE(ArgStart(p), ArgSize("b"))
Func(p) == ReadLE(ArgStart(p) + ArgSize("b"), ArgSize("h"))

Trans(p) == IF OpAt(p) = "CallFunc" THEN TransOf(Func(p), FuncArgC(p)) ELSE OpData[OpAt(p)].trans
NoFunc(p) == OpAt(p) = "CallFunc" /\ Func(p) \notin Known
Kills(p) == OpAt(p) = NoOp \/ NoFunc(p) \/ Trans(p) = "Kill"

JumpOps == {"Jump_Lit", "Jcnd_Nil", "Jcnd_Lit"}
Target(p) == Word(Next(p) - WordSize)

\* The cases that the file has all of.  What is read behind its end is not
\* defined: Outside stands for all that follows from it.
Outside == -1
CasesIn(p) == Min({CaseC(p), (Size - CaseAt(p, 1)) \div (2 * WordSize)})
Targets(p) ==
  [k \in 1 .. CasesIn(p) |-> Word(CaseAt(p, k) + WordSize)]
  \o IF CasesIn(p) < CaseC(p) THEN <<Outside>> ELSE <<>>

\* Where trace goes from the op at p.
Onward(p) ==
  CASE Kills(p) -> <<>>
    [] OpAt(p) \in {"Jcnd_Nil", "Jcnd_Lit"} -> <<Target(p), Next(p)>>
    [] OpAt(p) = "Jcnd_Tab" -> Targets(p) \o <<Next(p)>>
    [] OpAt(p) = "Jump_Lit" -> <<Target(p)>>
    [] OpAt(p) \in {"Jump_Stk", "Retn_Stk", "Retn_Nul", "ScrTerm"} -> <<>>
    [] OTHER -> <<Next(p)>>
-----------------------------------------------------------------------------
(* trace. *)

KillSize == 1 + TransArgC("Kill")

Entries == input.funcs \o input.jumps \o input.scripts

Init ==
  /\ input \in Inputs
  /\ data \in [1 .. input.size -> 0 .. input.top]
  /\ phase = "trace"
  /\ stack = Entries
  /\ found = {}
  /\ codeC = KillSize /\ jumpC = 0 /\ jumpMapC = 0
  /\ iter = 0 /\ code = <<>> /\ codeIndex = [p \in 0 .. Size - 1 |-> 0]
  /\ jumps = <<>> /\ maps = <<>>
  /\ entries = [funcs |-> input.funcs, jumps |-> input.jumps, scripts |-> input.scripts]

\* Mutant: the 0 of Retn_Nul is not counted.
WordCNul(p) ==
  CASE Kills(p) -> KillSize
    [] OpAt(p) = "Call_Nul" -> 3
    [] OpAt(p) \in {"CallSpec_1L", "CallSpec_1LB", "Push_Lit2B"} -> ArgC(OpAt(p)) + 2
    [] OpAt(p) = "Push_LitArrB" -> ByteAt(ArgStart(p)) + 2
    [] Trans(p) = "CallFunc_Lit" -> ArgC(OpAt(p)) + 3
    [] OTHER -> TransArgC(Trans(p)) + 1

\* Words that trace counts for the op at p.
WordC(p) ==
  CASE Kills(p) -> KillSize
    [] OpAt(p) = "Call_Nul" -> 3
    [] OpAt(p) \in {"CallSpec_1L", "CallSpec_1LB", "Push_Lit2B"} -> ArgC(OpAt(p)) + 2
    [] OpAt(p) = "Push_LitArrB" -> ByteAt(ArgStart(p)) + 2
    [] OpAt(p) = "Retn_Nul" -> 3
    [] Trans(p) = "CallFunc_Lit" -> ArgC(OpAt(p)) + 3
    [] OTHER -> TransArgC(Trans(p)) + 1

Extent(p) == p .. (IF OpAt(p) = NoOp THEN ArgStart(p) ELSE Next(p)) - 1

\* Mutant: an op that is partly found is taken for found.
OverlapsNever(p) == FALSE

\* setFound: some bytes of the op are of another one.
Overlaps(p) == Extent(p) \cap found # {} /\ ~(Extent(p) \subseteq found)

Tracing == phase = "trace" /\ stack # <<>> /\ Head(stack) # Outside
At == Head(stack)

\* Mutant: only the end of the file ends the trace.
TraceEndOnly ==
  /\ Tracing
  /\ At = Size
  /\ stack' = Tail(stack)
  /\ UNCHANGED <<input, data, phase, found, counts, output>>

\* The end of the file; or an op that was found before.
TraceEnd ==
  /\ Tracing
  /\ ~Malformed(At)
  /\ \/ At = Size
     \/ At < Size /\ OpAt(At) # NoOp /\ ~Overlaps(At) /\ Extent(At) \cap found # {}
  /\ stack' = Tail(stack)
  /\ UNCHANGED <<input, data, phase, found, counts, output>>

\* ReadError.
TraceError ==
  /\ Tracing
  /\ Malformed(At) \/ (~Malformed(At) /\ At < Size /\ Overlaps(At))
  /\ phase' = "failed"
  /\ UNCHANGED <<input, data, stack, found, counts, output>>

\* The translation is a Kill.  It is counted again when the op is found again.
TraceUnknown ==
  /\ Tracing
  /\ ~Malformed(At) /\ At < Size
  /\ OpAt(At) = NoOp /\ ~Overlaps(At)
  /\ found' = found \cup Extent(At)
  /\ codeC' = codeC + KillSize
  /\ stack' = Tail(stack)
  /\ UNCHANGED <<input, data, phase, jumpC, jumpMapC, output>>

TraceOp ==
  /\ Tracing
  /\ ~Malformed(At) /\ At < Size
  /\ OpAt(At) # NoOp /\ Extent(At) \cap found = {}
  /\ found' = found \cup Extent(At)
  /\ codeC' = codeC + WordC(At)
  /\ jumpC' = jumpC + IF OpAt(At) \in JumpOps THEN 1 ELSE 0
  /\ jumpMapC' = jumpMapC + IF OpAt(At) = "Jcnd_Tab" THEN 1 ELSE 0
  /\ stack' = Onward(At) \o Tail(stack)
  /\ UNCHANGED <<input, data, phase, output>>
\* The target of a case that is behind the end of the file.
TraceOutside ==
  /\ phase = "trace" /\ stack # <<>> /\ At = Outside
  /\ phase' = "outside"
  /\ UNCHANGED <<input, data, stack, found, counts, output>>
-----------------------------------------------------------------------------
(* translate. *)

\* A word of codeV: an internal code, or a number and what it is.
Code(c) == <<c, 0>>
Lit(v) == <<"lit", v>>

\* Mutant: the number is left out.
KillShort(type, v) == <<Code("Kill"), Code(type)>>

Kill(type, v) == <<Code("Kill"), Code(type), Lit(v)>>

\* All is counted: the arrays have their sizes, and the first Kill is there.
BeginTranslate ==
  /\ phase = "trace" /\ stack = <<>>
  /\ phase' = "translate"
  /\ codeC' = codeC + KillSize
  /\ code' = Kill("OutOfBounds", 0)
  /\ UNCHANGED <<input, data, stack, found, jumpC, jumpMapC, iter, codeIndex, jumps, maps, entries>>

\* trans_args: the words of the arguments.  S makes the word before it the
\* index of a string of the module.
ArgWords(p) ==
  LET Read(r, a) ==
        IF ArgSize(a) > 0
        THEN [at |-> r.at + ArgSize(a), words |-> Append(r.words, Lit(ReadLE(r.at, ArgSize(a))))]
        ELSE IF a = "S" /\ Last(r.words)[2] < StringC
             THEN [r EXCEPT !.words = Append(Front(@), <<"string", Last(@)[2]>>)] ELSE r
  IN FoldLeft(Read, [at |-> ArgStart(p), words |-> <<>>], Args(OpAt(p))).words

\* The words for the op at p.
Words(p) ==
  LET op    == OpAt(p)
      trans == Code(Trans(p))
  IN CASE op = NoOp -> Kill("UnknownCode", OpCode(p))
       [] NoFunc(p) -> Kill("UnknownFunc", Func(p))
       [] op = "CallFunc" /\ Kills(p) -> Kill("UnknownFunc", Func(p))
       [] op = "CallFunc" /\ ~NoFunc(p) /\ ~Kills(p) ->
            IF Trans(p) = "CallFunc" THEN <<trans, Lit(FuncArgC(p)), Lit(Func(p))>> ELSE <<trans>>
       [] op # "CallFunc" /\ op # NoOp /\ Kills(p) -> Kill("UnknownCode", OpCode(p))
       [] op = "Call_Nul" -> <<trans>> \o ArgWords(p) \o <<Code("Drop_Nul")>>
       [] op = "CallSpec_1" -> <<trans, Lit(OpData[op].stackArgC)>> \o ArgWords(p)
       [] op \in {"CallSpec_1L", "CallSpec_1LB"} -> <<trans, Lit(ArgC(op) - 1)>> \o ArgWords(p)
       [] op = "Jcnd_Tab" -> <<trans, Lit(Len(maps))>>
       [] op = "Push_LitArrB" ->
            <<trans>> \o [k \in 1 .. ByteAt(ArgStart(p)) + 1 |-> Lit(ByteAt(ArgStart(p) + k - 1))]
       [] op = "Push_Lit2B" -> <<trans, Lit(ArgC(op))>> \o ArgWords(p)
       [] op = "Retn_Nul" -> <<Code("Push_Lit"), Lit(0), trans>>
       [] op = "PrintString" -> <<trans, Lit(OpData[op].stackArgC), Lit(0)>> \o ArgWords(p)
       [] op = "Host" -> <<trans, Lit(ArgC(op)), Lit(0)>> \o ArgWords(p)
       [] OTHER -> <<trans>> \o ArgWords(p)

Left == {p \in found : p >= iter}

\* Mutant: the position is the first argument.
JumpAtFirst(words) == Len(code) + 1

\* J: where the position before it is.
JumpAt(words) == Len(code) + Len(words) - 1

\* The op at the next position that was found.
TranslateOp ==
  /\ phase = "translate"
  /\ Left # {}
  /\ LET p     == Min(Left)
         words == Words(p)
     IN /\ iter' = IF OpAt(p) = NoOp THEN ArgStart(p) ELSE Next(p)
        /\ codeIndex' = [codeIndex EXCEPT ![p] = Len(code)]
        /\ code' = code \o words
        /\ jumps' = IF OpAt(p) \in JumpOps THEN Append(jumps, JumpAt(words)) ELSE jumps
        /\ maps' = IF OpAt(p) = "Jcnd_Tab" THEN Append(maps, Cases(p)) ELSE maps
  /\ UNCHANGED <<input, data, phase, stack, found, counts, entries>>

IndexOf(v) == IF v < Size THEN codeIndex[v] ELSE 0

\* The last Kill, and positions become indexes.
EndTranslate ==
  /\ phase = "translate"
  /\ Left = {}
  /\ phase' = "done"
  /\ code' = [i \in DOMAIN code |-> IF i - 1 \in ToSet(jumps) THEN Lit(IndexOf(code[i][2])) ELSE code[i]]
             \o Kill("OutOfBounds", 1)
  /\ maps' = [m \in DOMAIN maps |-> [k \in DOMAIN maps[m] |-> <<maps[m][k][1], IndexOf(maps[m][k][2])>>]]
  /\ entries' = [e \in DOMAIN entries |-> [i \in DOMAIN entries[e] |-> IndexOf(entries[e][i])]]
  /\ UNCHANGED <<input, data, stack, found, counts, iter, codeIndex, jumps>>

Step == TraceEnd \/ TraceError \/ TraceUnknown \/ TraceOp \/ TraceOutside
        \/ BeginTranslate \/ TranslateOp \/ EndTranslate

Spec == Init /\ [][Step]_vars /\ WF_vars(Step)
-----------------------------------------------------------------------------
(***************************************************************************)
(* The translation never writes more words, jumps and jump maps than the   *)
(* trace counted, which is what the arrays have room for.                  *)
(***************************************************************************)
WritesFit ==
  phase \in {"translate", "done"} =>
    /\ Len(code) <= codeC
    /\ Len(jumps) <= jumpC
    /\ Len(maps) <= jumpMapC

Starts == {p \in 0 .. Size - 1 : codeIndex[p] # 0}

NotACode == {"lit", "string", "OutOfBounds", "UnknownCode", "UnknownFunc"}

\* Words that Thread::exec reads for the code at an index.
InstrSize(i) ==
  LET c == code[i + 1][1]
      n == IF i + 2 \in DOMAIN code THEN code[i + 2][2] ELSE 0
  IN CASE c \in {"Kill", "CallFunc", "CallSpec", "Jcnd_Lit"} -> 3
       [] c \in {"CallFunc_Lit", "CallSpec_Lit"} -> 3 + n
       [] c = "Push_LitArr" -> 2 + n
       [] c \in {"Nop", "Retn", "Jump_Stk", "ScrTerm", "Drop_Nul", "Push_StrArs"} -> 1
       [] OTHER -> 2

\* Indexes that Thread::exec comes to when it reads on and on.
Instrs ==
  LET at[i \in 0 .. Len(code)] ==
        i = 0 \/ \E j \in 0 .. i - 1 :
          code[j + 1][1] \notin NotACode /\ j + InstrSize(j) = i /\ at[j]
  IN {i \in 0 .. Len(code) : at[i]}

(***************************************************************************)
(* What the translation wrote, read as Thread::exec reads it, is a row of  *)
(* whole instructions, and every op of the file is at the start of one.    *)
(***************************************************************************)
CodeDecodes ==
  phase = "done" =>
    /\ Len(code) \in Instrs
    /\ \A p \in Starts : codeIndex[p] \in Instrs

LastKill == Len(code) - KillSize
EndOf(p) == Min({LastKill} \cup {i \in Range(codeIndex) : i > codeIndex[p]})

Inside(p) == \E q \in Starts : p \in Extent(q) /\ p # q
Lands(index, p) == index = IF p \in Starts THEN codeIndex[p] ELSE 0

(***************************************************************************)
(* The code goes where the file goes: behind an op comes the one that      *)
(* follows it in the file, or the Kill at the end, and a jump, a case or   *)
(* an entry point goes to the op at its position; if there is none, to the *)
(* Kill at 0, and then it is the end of the file or inside of an op.       *)
(***************************************************************************)
FlowKept ==
  phase = "done" =>
    /\ \A p \in Starts :
         /\ Onward(p) # <<>> /\ OpAt(p) # "Jump_Lit" =>
              EndOf(p) = IF Next(p) = Size THEN LastKill ELSE codeIndex[Next(p)]
         /\ OpAt(p) \in JumpOps => Lands(code[EndOf(p)][2], Target(p))
         /\ OpAt(p) = "Jcnd_Tab" =>
              LET table == maps[code[EndOf(p)][2] + 1]
              IN \A k \in 1 .. CaseC(p) : table[k][1] = Cases(p)[k][1]
                                          /\ Lands(table[k][2], Cases(p)[k][2])
    /\ \A e \in DOMAIN entries : \A i \in DOMAIN entries[e] : Lands(entries[e][i], input[e][i])

\* Positions that the code may come to.
Reachable ==
  LET R[n \in 0 .. Size] ==
        IF n = 0 THEN ToSet(Entries)
        ELSE LET Q == R[n - 1]
             IN Q \cup (UNION {ToSet(Onward(p)) : p \in {q \in Q : q < Size /\ ~Malformed(q)}} \ {Outside})
  IN R[Size]

(***************************************************************************)
(* A file is rejected only if its code runs behind its end, or two of the  *)
(* ops that it comes to overlap; what is translated can be reached, and    *)
(* all that it comes to is an op, the end of the file, or inside of an op. *)
(* Behind the end of the file is read only a table of cases whose size is  *)
(* too large for uint_fast32_t (getArgBytes).                              *)
(***************************************************************************)
Verdict ==
  LET reached == Reachable
      ops == {p \in reached : p < Size /\ ~Malformed(p)}
  IN /\ phase = "failed" =>
          \/ \E p \in reached : Malformed(p)
          \/ \E p, q \in ops : p # q /\ Extent(p) \cap Extent(q) # {}
     /\ phase = "done" =>
          /\ Starts \subseteq reached
          /\ \A p \in ToSet(Entries) \cup UNION {ToSet(Onward(q)) : q \in Starts} :
               p = Size \/ p \in Starts \/ Inside(p)
     /\ phase = "outside" => \E p \in ops : OpAt(p) = "Jcnd_Tab" /\ TableSize(p) >= FastBase

(***************************************************************************)
(* Tracing and translating end, also of code that loops.                   *)
(***************************************************************************)
Ends == <>(phase \in {"done", "failed", "outside"})
=============================================================================
