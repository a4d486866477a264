---------------------------- MODULE PrintBuffer ----------------------------
(***************************************************************************)
(* The print buffer of a thread, and all that writes to it: the functions  *)
(* of the VM, the host through AppendThreadPrintBuffer, and a load.        *)
(*                                                                         *)
(* The buffer is one block of memory that only grows.  Nested texts lie    *)
(* behind one another in it; in front of every nested text is a mark of    *)
(* MarkSize bytes, the length of the text around it.  What the block holds *)
(* behind bufPtr is never read, and is not modelled: mem ends at bufPtr.   *)
(***************************************************************************)
EXTENDS Naturals, Sequences, FiniteSetsExt

CONSTANTS
  Base,          \* the number of values of a byte
  MarkSize,      \* the bytes of a mark (4)
  Texts,         \* what is printed at once: a char, a string, a binary number
  Arrays,        \* what scripts put into arrays: sequences of words, zeros behind them
  Limits,        \* how many elements of an array are printed at most
  Formats,       \* <<room, text>>: what sprintf makes of a number, and what is reserved for it
  HostTexts,     \* <<length, bytes>>: what the host appends, and the length it gives
  HostDrops,     \* whether a host drops the text that it has printed: a set of Booleans
  MaxSize        \* bound: no larger block is allocated

ASSUME BufferAssumption ==
  /\ Base \in Nat \ {0, 1} /\ MarkSize \in Nat \ {0} /\ MaxSize \in Nat
  /\ Texts \subseteq Seq(0 .. Base - 1) /\ Arrays \subseteq Seq(Nat) /\ Limits \subseteq Nat
  /\ Formats \subseteq Nat \X Seq(0 .. Base - 1) /\ \A f \in Formats : Len(f[2]) <= f[1]
  /\ HostTexts \subseteq Nat \X Seq(0 .. Base - 1)
  /\ HostDrops \subseteq BOOLEAN

VARIABLES
  mem,           \* the bytes from buffer to bufPtr
  size,          \* bufEnd - buffer; 0: there is no block
  beg,           \* bufBeg - buffer
  overrun,       \* something was written outside of the block
  open,          \* PrintPush instructions that the script has not ended yet
  last           \* what was printed, read or taken last

vars == <<mem, size, beg, overrun, open, last>>

Byte == 0 .. Base - 1
\* UINT32_MAX.
Limit ==
  LET power[i \in 0 .. MarkSize] == IF i = 0 THEN 1 ELSE Base * power[i - 1]
  IN power[MarkSize] - 1

Ptr == Len(mem)
Text == SubSeq(mem, beg + 1, Ptr)

\* WriteLE4: from the lowest byte to the highest.
Mark(n) ==
  LET rest[i \in 0 .. MarkSize] == IF i = 0 THEN n ELSE rest[i - 1] \div Base
  IN [i \in 1 .. MarkSize |-> rest[i - 1] % Base]

\* ReadLE4: value[i] is of the i highest bytes.
ValueOf(bytes) ==
  LET value[i \in 0 .. MarkSize] ==
        IF i = 0 THEN 0 ELSE bytes[MarkSize + 1 - i] + Base * value[i - 1]
  IN value[MarkSize]

\* Where the text around the one that begins at b begins.
Around(m, b) == b - MarkSize - ValueOf(SubSeq(m, b - MarkSize + 1, b))

Init ==
  /\ mem = <<>> /\ size = 0 /\ beg = 0
  /\ overrun = FALSE /\ open = 0 /\ last = <<>>
-----------------------------------------------------------------------------
(* reserve, which leaves room for a NUL too *)

\* Mutant: there is no room for a NUL behind the text.
EnoughForText(count) == size - Ptr >= count

Enough(count) == size - Ptr > count
Growth(count) == count * 2 + 1

\* The subtraction is of unsigned numbers: a block of more than Limit passes the check.
Refused(count) ==
  /\ ~ Enough(count)
  /\ size - beg <= Limit
  /\ Limit - (size - beg) < Growth(count)

Reserved(count) == IF Enough(count) THEN size ELSE size + Growth(count)

\* reserve(room), then write bytes at bufPtr, and nuls NULs behind them.
Write(room, bytes, nuls) ==
  /\ ~ Refused(room) /\ Reserved(room) <= MaxSize
  /\ size' = Reserved(room)
  /\ mem' = mem \o bytes
  /\ overrun' = (Ptr + Len(bytes) + nuls > size')

\* bad_alloc: the instruction has no effect on the buffer.
Fails(room) == Refused(room) /\ UNCHANGED vars
-----------------------------------------------------------------------------
(* The functions of the VM *)

\* PrintArrayChar prints the elements up to a 0 or the limit, each cut to a char.
Elements(array, limit) ==
  LET ends == {i \in DOMAIN array : array[i] = 0} \cup {limit + 1, Len(array) + 1}
  IN [i \in 1 .. Min(ends) - 1 |-> array[i] % Base]

\* CallFunc_Func_PrintGblArr, PrintHubArr, PrintModArr and PrintLocArr.
PrintArray ==
  \E array \in Arrays, limit \in Limits :
    LET text == Elements(array, limit)
    IN \/ /\ Write(Len(text), text, 0)
          /\ last' = text
          /\ UNCHANGED <<beg, open>>
       \/ Fails(Len(text))

\* CallFunc_Func_PrintChar, PrintString and PrintIntB.
PrintText ==
  \E text \in Texts :
    \/ /\ Write(Len(text), text, 0)
       /\ last' = text
       /\ UNCHANGED <<beg, open>>
    \/ Fails(Len(text))

\* CallFunc_Func_PrintFixD, PrintIntD and PrintIntX: sprintf ends with a NUL.
PrintFormat ==
  \E f \in Formats :
    \/ /\ Write(f[1], f[2], 1)
       /\ last' = f[2]
       /\ UNCHANGED <<beg, open>>
    \/ Fails(f[1])

PrintPush ==
  \/ /\ Write(MarkSize, Mark(Ptr - beg), 0)
     /\ beg' = Ptr + MarkSize
     /\ open' = open + 1
     /\ last' = <<>>
  \/ Fails(MarkSize)

\* data() writes a NUL at bufPtr.
Data == last' = Text /\ overrun' = (Ptr >= size)

\* Mutant: the text around is not found again.
DropAll == mem' = SubSeq(mem, 1, IF beg # 0 THEN beg - MarkSize ELSE 0) /\ beg' = 0

Drop ==
  IF beg # 0
    THEN mem' = SubSeq(mem, 1, beg - MarkSize) /\ beg' = Around(mem, beg)
    ELSE mem' = <<>> /\ beg' = 0

\* Compilers emit it only after a PrintPush.
PrintEndStr ==
  /\ open > 0
  /\ Data /\ Drop
  /\ open' = open - 1
  /\ UNCHANGED size
-----------------------------------------------------------------------------
(* The host *)

\* The function of the host for the end of a print, over GetThreadPrintBuffer.
EndPrint ==
  /\ open > 0
  /\ open' = open - 1
  /\ IF Ptr # beg THEN Data ELSE last' = <<>> /\ UNCHANGED overrun
  /\ \E drops \in HostDrops : IF drops THEN Drop ELSE UNCHANGED <<mem, beg>>
  /\ UNCHANGED size

\* reserve(length), then put(buf) up to the NUL of buf.
AppendThreadPrintBuffer ==
  \E h \in HostTexts :
    \/ /\ Write(h[1], h[2], 0)
       /\ last' = h[2]
       /\ UNCHANGED <<beg, open>>
    \/ Fails(h[1])

\* Thread::stop; the next script that gets the thread finds the block.
Stop ==
  /\ mem' = <<>> /\ beg' = 0 /\ open' = 0 /\ last' = <<>>
  /\ UNCHANGED <<size, overrun>>

\* saveState and loadState, into a thread that has no block yet, or has a block.
Reload ==
  \E old \in {0, size} :
    LET new == IF old <= Ptr THEN Ptr + 1 ELSE old
    IN /\ new <= MaxSize
       /\ size' = new
       /\ last' = <<>>
       /\ UNCHANGED <<mem, beg, overrun, open>>

Next ==
  \/ PrintText \/ PrintArray \/ PrintFormat \/ PrintPush \/ PrintEndStr
  \/ EndPrint \/ AppendThreadPrintBuffer \/ Stop \/ Reload

Spec == Init /\ [][Next]_vars
-----------------------------------------------------------------------------
(***************************************************************************)
(* Nothing is written outside of the block: no text, no mark, and no NUL   *)
(* behind a text.  The comment of reserve promises room for what is        *)
(* reserved; this is about whether every writer reserves what it writes.   *)
(***************************************************************************)
WritesInside == ~ overrun

\* Where the texts begin, the innermost last, when that begins at b.
Begins(m, b) ==
  LET begins[c \in 0 .. b] ==
        IF c = 0 THEN <<0>>
        ELSE Append(IF Around(m, c) \in 0 .. c - 1 THEN begins[Around(m, c)] ELSE <<>>, c)
  IN begins[b]

Nested(m, b) ==
  LET begins == Begins(m, b)
  IN [i \in DOMAIN begins |->
        SubSeq(m, begins[i] + 1,
               IF i = Len(begins) THEN Len(m) ELSE begins[i + 1] - MarkSize)]

(***************************************************************************)
(* What holds between two steps: the pointers are in the block, and marks  *)
(* lead from every nested text to the one around it.                       *)
(***************************************************************************)
BlockInv ==
  /\ mem \in Seq(Byte) /\ size \in 0 .. MaxSize /\ open \in Nat
  /\ IF size = 0 THEN Ptr = 0 /\ open = 0 ELSE Ptr < size
  /\ ~ overrun

\* Texts begin at ns, and the marks in m say so.
Linked(m, ns) ==
  /\ ns \in Seq(Nat) /\ ns # <<>> /\ ns[1] = 0
  /\ \A i \in 1 .. Len(ns) - 1 :
       ns[i] + MarkSize <= ns[i + 1] /\ Around(m, ns[i + 1]) = ns[i]

StackInv ==
  LET begins == Begins(mem, beg)
  IN Linked(mem, begins) /\ begins[Len(begins)] = beg /\ beg <= Ptr

(***************************************************************************)
(* The bytes, the marks and the three pointers are a stack of texts:       *)
(* whatever is printed in a nested text, and whenever the block moves or   *)
(* is loaded, a text that was begun is continued where it was left, and    *)
(* what is taken as a string is what was printed.                          *)
(***************************************************************************)
ImplementsTexts == INSTANCE PrintTexts WITH texts <- Nested(mem, beg)
TextsKept == ImplementsTexts!Spec
=============================================================================
