-------------------------- MODULE MCThreadMachine --------------------------
(***************************************************************************)
(* An instance of ThreadMachine for TLC: two modules, functions of both.   *)
(* ThreadMachine leaves open what the operators make of words, and has one *)
(* word for an array; WordOps and SavedArrays have these, and are checked  *)
(* with it.                                                                *)
(***************************************************************************)
EXTENDS ThreadMachine, WordOps, SavedArrays

E(m, argC, regC, arrC) ==
  [module |-> m, codeIdx |-> 1, argC |-> argC, locRegC |-> regC, locArrC |-> arrC]

TheScripts == <<E(1, 1, 1, 0)>>
One == E(1, 2, 0, 0)
Two == E(2, 1, 0, 1)
Entries == {One, Two}
Functions == <<<<Two, NoFunction>>, <<One>>>>

\* Bound: no two variables hold a 1.
FewValues == Cardinality({v \in DOMAIN regV : regV[v] # 0}) <= 1
-----------------------------------------------------------------------------
(***************************************************************************)
(* When a thread executes, the operators of Thread::exec make of words     *)
(* what their names say.                                                   *)
(***************************************************************************)
OperatorsRight == mode = "In" => ResultsRight

(***************************************************************************)
(* When a thread, or the scopes, may be saved, every array comes back as   *)
(* it was.                                                                 *)
(***************************************************************************)
ArraysRestored == mode = "Out" => ArraysKept
=============================================================================
