--------------------------- MODULE ThreadMachine ---------------------------
(***************************************************************************)
(* One thread of the VM inside: Thread::exec with its jumps, calls and     *)
(* accesses to variables, the storage of the locals (Store.hpp) and of the *)
(* data stack (Stack.hpp), start and stop, and a save with its load.       *)
(*                                                                         *)
(* The code is arbitrary: at any place any instruction may be, but in a    *)
(* module's code the first and the last one are Kill.  What instructions   *)
(* drop, and what calls take, may be more than there is.  Left out is what *)
(* C++ does not define: that an instruction uses a local that there is     *)
(* not, or reads a word of the data stack from below its bottom, which     *)
(* operator [] does not check.  An instruction with its operands is one    *)
(* place of the code here, and an array is one word.                       *)
(***************************************************************************)
EXTENDS Integers, FiniteSets, SequencesExt

CONSTANTS
  Module,      \* numbers of modules
  Entry,       \* functions: [module, codeIdx, argC, locRegC, locArrC]
  Scripts,     \* scripts, which have the same members: a sequence
  FunctionV,   \* Module::functionV: for every module a sequence of Entry and NoFunction
  NoFunction,  \* null
  Word,        \* values of a word: 0 .. n
  Outer,       \* the variables of the global and the hub scope: other numbers
  CodeSize,    \* the size of every module's code (bound)
  MaxDepth,    \* most call frames (bound)
  MaxData      \* most words on the data stack (bound)

\* The members of functions and scripts that the machine uses.
EntryType == [module : Module, codeIdx : 1 .. CodeSize - 2,
              argC : Nat, locRegC : Nat, locArrC : Nat]

ASSUME MachineAssumption ==
  /\ Cardinality(Word) \in Nat \ {0} /\ Word = 0 .. Cardinality(Word) - 1
  /\ CodeSize \in Nat
  /\ Outer \cap Module = {}
  /\ Entry \subseteq EntryType /\ NoFunction \notin Entry
  /\ Scripts \in Seq(EntryType)
  /\ \A i \in DOMAIN Scripts : Scripts[i].argC <= Scripts[i].locRegC
  /\ FunctionV \in [Module -> Seq(Entry \cup {NoFunction})]

VARIABLES
  mode,        \* "Inactive", "Out" of exec, or "In" it
  script,      \* its place in Scripts
  module, scopeMod, codePtr,
  callStk, dataStk,
  localReg, localArr,
  regV         \* the variables: of the scopes of the modules, and those of Outer

vars == <<mode, script, module, scopeMod, codePtr, callStk, dataStk,
          localReg, localArr, regV>>
here == <<script, module, scopeMod>>
locals == <<localReg, localArr>>
-----------------------------------------------------------------------------
(* Store: the locals of all activations in one block; active is where     *)
(* those of the innermost one begin.                                      *)

Zeros(n) == [i \in 1 .. n |-> 0]
Cleared == [words |-> <<>>, active |-> 0]
Size(st) == Len(st.words) - st.active
Alloc(st, n) == [words |-> st.words \o Zeros(n), active |-> Len(st.words)]

\* Mutant: active is lowered before the locals are destroyed.
FreeBoth(st, n) == [words |-> SubSeq(st.words, 1, st.active - n), active |-> st.active - n]

Free(st, n) == [words |-> SubSeq(st.words, 1, st.active), active |-> st.active - n]
AllocLoad(words, n) == [words |-> words, active |-> Len(words) - n]

\* memcpy to the first locals.
CopyTo(st, args) ==
  [st EXCEPT !.words = SubSeq(@, 1, st.active) \o args
                         \o SubSeq(@, st.active + Len(args) + 1, Len(@))]

Local(st, i) == st.words[st.active + i]
SetLocal(st, i, w) == [st EXCEPT !.words[st.active + i] = w]
-----------------------------------------------------------------------------
Init ==
  /\ mode = "Inactive" /\ script = 1 /\ module = 1 /\ scopeMod = 1 /\ codePtr = 0
  /\ callStk = <<>> /\ dataStk = <<>> /\ localReg = Cleared /\ localArr = Cleared
  /\ regV = [v \in Module \cup Outer |-> 0]

\* Thread::start; it relies on stop for the stacks.
Start(args) ==
  /\ mode = "Inactive"
  /\ \E i \in DOMAIN Scripts :
       LET s == Scripts[i]
       IN /\ script' = i /\ module' = s.module /\ scopeMod' = s.module
          /\ codePtr' = s.codeIdx
          /\ localArr' = Alloc(localArr, s.locArrC)
          /\ localReg' = CopyTo(Alloc(localReg, s.locRegC),
                                SubSeq(args, 1, IF Len(args) < s.argC THEN Len(args) ELSE s.argC))
  /\ mode' = "Out"
  /\ UNCHANGED <<callStk, dataStk, regV>>

\* Thread::stop.  What it leaves is overwritten by start.
StopThread ==
  /\ mode' = "Inactive" /\ script' = 1 /\ module' = 1 /\ scopeMod' = 1 /\ codePtr' = 0
  /\ callStk' = <<>> /\ dataStk' = <<>> /\ localReg' = Cleared /\ localArr' = Cleared
  /\ UNCHANGED regV

Exec ==
  /\ mode = "Out"
  /\ mode' = "In"
  /\ UNCHANGED <<here, codePtr, callStk, dataStk, locals, regV>>

\* The thread waits, is paused or has a delay: exec is over for this tic.
Yield ==
  /\ mode = "In"
  /\ mode' = "Out"
  /\ UNCHANGED <<here, codePtr, callStk, dataStk, locals, regV>>
-----------------------------------------------------------------------------
(* Instructions *)

Ready == mode = "In" /\ codePtr \in 1 .. CodeSize - 2
\* An instruction behind which control goes on.
Plain == Ready /\ codePtr' = codePtr + 1
Top == Last(dataStk)
Push(w) == Len(dataStk) < MaxData /\ dataStk' = Append(dataStk, w)

\* BranchTo.  Any branch may be one too many: Environment::branchLimit may be any number.
BranchTo(target, stk) ==
  \/ StopThread
  \/ /\ codePtr' = target /\ dataStk' = stk
     /\ UNCHANGED <<mode, here, callStk, locals, regV>>

\* Kill, ScrTerm, or Retn without a call frame.
Kill == mode = "In" /\ codePtr \in {0, CodeSize - 1} /\ StopThread
ScrTerm == Ready /\ StopThread

(***************************************************************************)
(* Drop_Nul.  A drop from an empty stack ends the tic by an exception, and *)
(* the next tic goes on behind the instruction.  So it is with Drop_ScrRet,*)
(* Jump_Stk, Call_Stk, delays, waits and binary operators, which have no   *)
(* operand in the code.                                                    *)
(***************************************************************************)
Drop_Nul ==
  /\ Plain
  /\ IF dataStk = <<>> THEN mode' = "Out" /\ UNCHANGED dataStk
                       ELSE dataStk' = Front(dataStk) /\ UNCHANGED mode
  /\ UNCHANGED <<here, callStk, locals, regV>>

(***************************************************************************)
(* Op_Drop and the other assignments to a variable, Jcnd_Nil and Jcnd_Tru  *)
(* drop first, and then read the operand: without a word to drop, codePtr  *)
(* is left at the operand, which is the instruction of the next tic.  That *)
(* is still this place, and any instruction may be at a place: the model   *)
(* takes a number that is the code of one.                                 *)
(***************************************************************************)
UnderflowAtOperand ==
  /\ Ready /\ dataStk = <<>>
  /\ mode' = "Out"
  /\ UNCHANGED <<here, codePtr, callStk, dataStk, locals, regV>>

(***************************************************************************)
(* do_call.  The arguments are dropped after the switch to the function:   *)
(* if there are too few, all of it has happened when the exception leaves, *)
(* and the function begins in the next tic with zeros.                     *)
(***************************************************************************)
Enter(f, stk) ==
  LET rest == Len(stk) - f.argC
      regs == Alloc(localReg, f.locRegC + f.argC)
  IN /\ Len(callStk) < MaxDepth
     /\ callStk' = Append(callStk, [codePtr |-> codePtr + 1, module |-> module, scopeMod |-> scopeMod,
                                    locArrC |-> Size(localArr), locRegC |-> Size(localReg)])
     /\ codePtr' = f.codeIdx /\ module' = f.module /\ scopeMod' = f.module
     /\ localArr' = Alloc(localArr, f.locArrC)
     /\ dataStk' = SubSeq(stk, 1, rest)
     /\ IF rest >= 0
          THEN localReg' = CopyTo(regs, SubSeq(stk, rest + 1, Len(stk))) /\ UNCHANGED mode
          ELSE localReg' = regs /\ mode' = "Out"
     /\ UNCHANGED <<script, regV>>

\* Call_Lit: a function that is not there is a branch to 0.
Call_Lit ==
  /\ Ready
  /\ \E i \in 1 .. Len(FunctionV[module]) + 1 :
       IF i > Len(FunctionV[module]) \/ FunctionV[module][i] = NoFunction
         THEN BranchTo(0, dataStk)
         ELSE Enter(FunctionV[module][i], dataStk)

\* Call_Stk: the function is a word, which may be any of the table.
Call_Stk ==
  /\ Ready /\ dataStk # <<>>
  /\ \E f \in Entry \cup {NoFunction} :
       IF f = NoFunction
         THEN BranchTo(0, Front(dataStk))
         ELSE Enter(f, Front(dataStk))

Retn ==
  /\ Ready
  /\ IF callStk = <<>>
       THEN StopThread
       ELSE LET frame == Last(callStk)
            IN /\ codePtr' = frame.codePtr /\ module' = frame.module /\ scopeMod' = frame.scopeMod
               /\ localArr' = Free(localArr, frame.locArrC)
               /\ localReg' = Free(localReg, frame.locRegC)
               /\ callStk' = Front(callStk)
               /\ UNCHANGED <<mode, script, dataStk, regV>>

\* Jump_Lit and Jump_Stk, and Jcnd_Nil, Jcnd_Tru, Jcnd_Lit and Jcnd_Tab when they jump.
Jump ==
  /\ Ready
  /\ \E target \in 0 .. CodeSize - 1 :
       \/ BranchTo(target, dataStk)
       \/ dataStk # <<>> /\ BranchTo(target, Front(dataStk))

(***************************************************************************)
(* ScrRestart.  The place is the script's, the module is not set and the   *)
(* call frames stay: compilers allow it in scripts only.                   *)
(***************************************************************************)
ScrRestart ==
  /\ Ready /\ callStk = <<>>
  /\ BranchTo(Scripts[script].codeIdx, dataStk)
-----------------------------------------------------------------------------
(* OpSet: operations on a variable.  Drop assigns a word, AddU stands for  *)
(* the binary ones (WordOps has their values), IncU for the unary ones.    *)

Op == {"Drop", "AddU", "IncU"}
Plus(l, r) == (l + r) % Cardinality(Word)
Value(op, l, r) == CASE op = "Drop" -> r [] op = "AddU" -> Plus(l, r) [] op = "IncU" -> Plus(l, 1)
Left(op) == IF op = "IncU" THEN dataStk ELSE Front(dataStk)
Operand(op) == op = "IncU" \/ dataStk # <<>>
Right(op) == IF op = "IncU" THEN 0 ELSE Top

OpOuterReg ==
  /\ Plain
  /\ \E op \in Op, v \in Outer :
       /\ Operand(op)
       /\ regV' = [regV EXCEPT ![v] = Value(op, @, Right(op))]
       /\ dataStk' = Left(op)
  /\ UNCHANGED <<mode, here, callStk, locals>>

OpModReg ==
  /\ Plain
  /\ \E op \in Op :
       /\ Operand(op)
       /\ regV' = [regV EXCEPT ![scopeMod] = Value(op, @, Right(op))]
       /\ dataStk' = Left(op)
  /\ UNCHANGED <<mode, here, callStk, locals>>

OpLocReg ==
  /\ Plain
  /\ \E op \in Op, i \in 1 .. Size(localReg) :
       /\ Operand(op)
       /\ localReg' = SetLocal(localReg, i, Value(op, Local(localReg, i), Right(op)))
       /\ dataStk' = Left(op)
  /\ UNCHANGED <<mode, here, callStk, localArr, regV>>

\* The index of the element is under the operand.
OpLocArr ==
  /\ Plain
  /\ \E op \in Op, i \in 1 .. Size(localArr) :
       /\ Operand(op) /\ Left(op) # <<>>
       /\ localArr' = SetLocal(localArr, i, Value(op, Local(localArr, i), Right(op)))
       /\ dataStk' = Front(Left(op))
  /\ UNCHANGED <<mode, here, callStk, localReg, regV>>

\* Push_Lit, the pushes of registers, and what a function of the host pushes.
PushWord ==
  /\ Plain
  /\ \E w \in Word \cup {regV[v] : v \in Outer \cup {scopeMod}}
               \cup {Local(localReg, i) : i \in 1 .. Size(localReg)} : Push(w)
  /\ UNCHANGED <<mode, here, callStk, locals, regV>>

\* Push_LocArr puts the element where its index was.
Push_LocArr ==
  /\ Plain /\ dataStk # <<>>
  /\ \E i \in 1 .. Size(localArr) : dataStk' = Append(Front(dataStk), Local(localArr, i))
  /\ UNCHANGED <<mode, here, callStk, locals, regV>>

\* CallSpec_R1, and binary operators: arguments are dropped, the result is
\* pushed.  Without enough, all are dropped before the exception.
CallSpec_R1 ==
  /\ Plain
  /\ \/ /\ \E argC \in 0 .. Len(dataStk), w \in Word :
               /\ dataStk' = Append(SubSeq(dataStk, 1, Len(dataStk) - argC), w)
               /\ Len(dataStk') <= MaxData
        /\ UNCHANGED mode
     \/ dataStk' = <<>> /\ mode' = "Out"
  /\ UNCHANGED <<here, callStk, locals, regV>>

\* Copy, Swap, and the unary operators.
OnStack ==
  /\ Plain /\ dataStk # <<>>
  /\ LET n == Len(dataStk)
     IN \/ Push(Top)
        \/ n > 1 /\ dataStk' = SubSeq(dataStk, 1, n - 2) \o <<Top, dataStk[n - 1]>>
        \/ \E w \in Word : dataStk' = [dataStk EXCEPT ![n] = w]
  /\ UNCHANGED <<mode, here, callStk, locals, regV>>
-----------------------------------------------------------------------------
(* The stream of a saved thread is a sequence of numbers. *)

FrameWords(f) == <<f.module, f.codePtr, f.locArrC, f.locRegC>>

StoreWords(st) == <<Len(st.words), Size(st)>> \o st.words

\* One frame behind the other.
StackWords == [k \in 1 .. 4 * Len(callStk) |->
                 FrameWords(callStk[((k - 1) \div 4) + 1])[((k - 1) % 4) + 1]]

\* Thread::saveState, of what the machine has: without the ids of the scopes,
\* delay, result, print buffer and state, which are not variables here.
Saved ==
  <<module, codePtr, script, Len(callStk)>> \o StackWords
    \o <<Len(dataStk)>> \o dataStk
    \o StoreWords(localArr) \o StoreWords(localReg)

\* readCallFrame, of four words.
FrameAt(in, p) ==
  [module |-> in[p], scopeMod |-> in[p], codePtr |-> in[p + 1],
   locArrC |-> in[p + 2], locRegC |-> in[p + 3]]

StoreAt(in, p) == AllocLoad(SubSeq(in, p + 2, p + 1 + in[p]), in[p + 1])

\* Thread::saveState, and Thread::loadState of a thread of the pool, of these parts.
Reload ==
  /\ mode = "Out"
  /\ LET in == Saved
         frames == 5
         data == frames + 4 * in[4]
         arrs == data + 1 + in[data]
         regs == arrs + 2 + in[arrs]
     IN /\ module' = in[1] /\ scopeMod' = in[1] /\ codePtr' = in[2] /\ script' = in[3]
        /\ callStk' = [i \in 1 .. in[4] |-> FrameAt(in, frames + 4 * (i - 1))]
        /\ dataStk' = SubSeq(in, data + 1, data + in[data])
        /\ localArr' = StoreAt(in, arrs)
        /\ localReg' = StoreAt(in, regs)
  /\ UNCHANGED <<mode, regV>>

\* The host stops the thread, or its map is left.
Stop == mode = "Out" /\ StopThread

\* Bound: what the caller gives is at most two words.
Args == UNION {[1 .. n -> Word] : n \in 0 .. 2}

Next ==
  \/ \E args \in Args : Start(args)
  \/ Exec \/ Yield \/ Kill \/ ScrTerm \/ Stop \/ Reload
  \/ Drop_Nul \/ UnderflowAtOperand \/ Call_Lit \/ Call_Stk \/ Retn \/ Jump \/ ScrRestart
  \/ OpOuterReg \/ OpModReg \/ OpLocReg \/ OpLocArr
  \/ PushWord \/ Push_LocArr \/ CallSpec_R1 \/ OnStack

Spec == Init /\ [][Next]_vars
-----------------------------------------------------------------------------
(* What a thread keeps *)

Depth == Len(callStk) + 1

\* Where the locals of the activations begin: those with these sizes, and the
\* innermost one.
Begins(sizes) ==
  LET begin[i \in 1 .. Len(sizes) + 1] ==
        IF i = 1 THEN 0 ELSE begin[i - 1] + sizes[i - 1]
  IN begin

Slice(st, sizes, i) ==
  IF i = Len(sizes) + 1
    THEN SubSeq(st.words, st.active + 1, Len(st.words))
    ELSE SubSeq(st.words, Begins(sizes)[i] + 1, Begins(sizes)[i] + sizes[i])

RegSizes == [j \in DOMAIN callStk |-> callStk[j].locRegC]
ArrSizes == [j \in DOMAIN callStk |-> callStk[j].locArrC]

Activation(i) ==
  LET inner == i = Depth
  IN [module |-> IF inner THEN module ELSE callStk[i].module,
      pc     |-> IF inner THEN codePtr ELSE callStk[i].codePtr,
      regs   |-> Slice(localReg, RegSizes, i),
      arrs   |-> Slice(localArr, ArrSizes, i)]

Activations == IF mode = "Inactive" THEN <<>> ELSE [i \in 1 .. Depth |-> Activation(i)]

(***************************************************************************)
(* What holds between two steps: the stores are as long as the frames say, *)
(* a frame's scope is its module's, and nothing is left of a thread that   *)
(* stopped.                                                                *)
(***************************************************************************)
FrameType == [codePtr : Nat, module : Module, scopeMod : Module, locArrC : Nat, locRegC : Nat]
StoreType == [words : Seq(Word), active : Nat]

\* The activations around the innermost one have the locals in front of active.
StoreOK(st, sizes) ==
  /\ st \in StoreType /\ sizes \in Seq(Nat)
  /\ st.active <= Len(st.words)
  /\ st.active = Begins(sizes)[Len(sizes) + 1]

Running == module \in Module /\ scopeMod = module /\ codePtr \in Nat /\ script \in DOMAIN Scripts
Emptied == callStk = <<>> /\ dataStk = <<>> /\ localReg = Cleared /\ localArr = Cleared

MachineInv ==
  /\ mode \in {"Inactive", "Out", "In"}
  /\ dataStk \in Seq(Word)
  /\ regV \in [Module \cup Outer -> Word]
  /\ callStk \in Seq(FrameType)
  /\ \A i \in DOMAIN callStk : callStk[i].scopeMod = callStk[i].module
  /\ StoreOK(localReg, RegSizes) /\ StoreOK(localArr, ArrSizes)
  /\ IF mode = "Inactive" THEN Emptied ELSE Running

(***************************************************************************)
(* A thread that is saved and loaded has its place, call frames, data      *)
(* stack and locals again: the stream has no marks, every part is found by *)
(* the lengths in the parts before it, and the script, the module and the  *)
(* active locals are written as numbers.                                   *)
(***************************************************************************)
SavesRestore == [][Reload => UNCHANGED vars]_vars

ImplementsFrames == INSTANCE CallFrames WITH
  Scripts <- Range(Scripts),
  acts <- Activations,
  data <- dataStk

(***************************************************************************)
(* Every activation keeps its locals, its module's variables and its place *)
(* through calls into other modules, calls without enough arguments,       *)
(* exceptions and saves: a call frame holds no more than two sizes and     *)
(* pointers, and all locals are in one block, from which the frames of all *)
(* activations have to find theirs.  Saves change nothing of all this.     *)
(***************************************************************************)
FramesKept == ImplementsFrames!Spec /\ SavesRestore
=============================================================================
