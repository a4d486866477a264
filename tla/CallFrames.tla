----------------------------- MODULE CallFrames -----------------------------
(***************************************************************************)
(* What a thread promises its bytecode about calls.                        *)
(*                                                                         *)
(* A thread is a sequence of activations, one in another, and a data stack *)
(* that they share.  Every activation has locals of its own, and the       *)
(* variables of its module.  Only the innermost one executes; when it      *)
(* returns, the one around it finds its locals, its module and its place   *)
(* in the code as they were.                                               *)
(***************************************************************************)
EXTENDS Naturals, Sequences

CONSTANTS
  Module,      \* the modules
  Entry,       \* functions: [module, codeIdx, argC, locRegC, locArrC]
  Scripts,     \* scripts, which have the same members
  Outer,       \* the variables of the scopes around the map
  Word         \* values of a word: 0 is one

Variable == Module \cup Outer

VARIABLES
  acts,        \* the activations, the innermost last
  data,        \* the data stack
  regV         \* the variables: one of each module, and Outer

vars == <<acts, data, regV>>

Top == acts[Len(acts)]
Below == SubSeq(acts, 1, Len(acts) - 1)
Zeros(n) == [i \in 1 .. n |-> 0]

\* An activation at its first instruction.
Begun(e, regs) ==
  [module |-> e.module, pc |-> e.codeIdx, regs |-> regs, arrs |-> Zeros(e.locArrC)]

Init == acts = <<>> /\ data = <<>> /\ regV \in [Variable -> Word]

\* A script begins with its arguments, and zeros for those that it is not given.
Start ==
  /\ acts = <<>> /\ Len(acts') = 1
  /\ \E s \in Scripts :
       LET args == SubSeq(acts'[1].regs, 1, s.argC)
       IN args \in Seq(Word) /\ acts' = <<Begun(s, args \o Zeros(s.locRegC - s.argC))>>
  /\ UNCHANGED <<data, regV>>

(***************************************************************************)
(* The innermost activation does anything with its locals, the data stack, *)
(* the variables of its module, and those that no module owns.             *)
(***************************************************************************)
Step ==
  /\ acts # <<>>
  /\ Len(acts') = Len(acts) /\ SubSeq(acts', 1, Len(acts) - 1) = Below
  /\ LET new == acts'[Len(acts)]
     IN /\ new.module = Top.module
        /\ new.regs \in Seq(Word) /\ Len(new.regs) = Len(Top.regs)
        /\ new.arrs \in Seq(Word) /\ Len(new.arrs) = Len(Top.arrs)
  /\ data' \in Seq(Word)
  /\ regV' \in [Variable -> Word]
  /\ \A m \in Module \ {Top.module} : regV'[m] = regV[m]

\* Arguments are the top of the data stack; without enough, the function gets zeros.
Call(stk) ==
  /\ acts # <<>> /\ Len(acts') = Len(acts) + 1
  /\ \E e \in Entry :
       LET rest == Len(stk) - e.argC
       IN /\ data' = SubSeq(stk, 1, rest)
          /\ acts' = Append(Append(Below, [Top EXCEPT !.pc = acts'[Len(acts)].pc]),
                            Begun(e, IF rest >= 0
                                       THEN SubSeq(stk, rest + 1, Len(stk)) \o Zeros(e.locRegC)
                                       ELSE Zeros(e.argC + e.locRegC)))
  /\ UNCHANGED regV

Return == Len(acts) > 1 /\ acts' = Below /\ UNCHANGED <<data, regV>>

End == acts' = <<>> /\ data' = <<>> /\ UNCHANGED regV

\* The function is named by the code, or by the word on top of the data stack.
Next ==
  \/ Start \/ Step \/ Return \/ End
  \/ Call(data)
  \/ data # <<>> /\ Call(SubSeq(data, 1, Len(data) - 1))

Spec == Init /\ [][Next]_vars
=============================================================================
