----------------------------- MODULE MapModules -----------------------------
(***************************************************************************)
(* The modules of a map and their variables: addModules, loadModules and   *)
(* saveModules of MapScope, and ModuleScope (Scope.cpp).                   *)
(*                                                                         *)
(* addModules finds the modules that the given ones import, directly or    *)
(* not, gives each a scope with its registers and arrays at their initial  *)
(* values, and lets every imported variable refer to the one of the module *)
(* that exports its name.  A save has the names of the modules and their   *)
(* variables without the blank ones at the end; a load adds the modules    *)
(* again and then overwrites what was saved.                               *)
(*                                                                         *)
(* An array has one element here, or no data.                              *)
(***************************************************************************)
EXTENDS Naturals, SequencesExt, FiniteSetsExt

CONSTANTS
  Module,     \* modules
  Code,       \* what the modules may contain
  Name,       \* names of variables
  NoName,     \* a variable that is not exported or not imported
  NoData,     \* an array that was never touched
  NoSave,     \* nothing saved yet
  RegC, ArrC, \* registers and arrays of a module (256 in the code)
  MaxVal,     \* greatest value of a variable (bound)
  MaxRoots    \* most modules that a map is loaded with (bound)

\* The variables of a module.
Slot == ({"reg"} \X (1 .. RegC)) \cup ({"arr"} \X (1 .. ArrC))
Val  == 0 .. MaxVal
Holds(s) == IF s[1] = "arr" THEN Val \cup {NoData} ELSE Val

\* ArrayInit::apply touches an array only for values other than 0.
Initial(s) == IF s[1] = "arr" THEN (Val \ {0}) \cup {NoData} ELSE Val

\* importV, the initial values, the exported and the imported names of the
\* modules.
CodeType ==
  [importV : [Module -> Seq(Module)],
   initV   : [Module -> [Slot -> Val \cup {NoData}]],
   nameV   : [Module -> [Slot -> Name \cup {NoName}]],
   impV    : [Module -> [Slot -> Name \cup {NoName}]]]

ASSUME ConstantsAssumption ==
  /\ RegC \in Nat /\ ArrC \in Nat
  /\ MaxVal \in Nat /\ MaxRoots \in Nat
  /\ NoData \notin Val
  /\ Code \subseteq CodeType
  /\ \A c \in Code, m \in Module, s \in Slot : c.initV[m][s] \in Initial(s)

VARIABLES
  code,       \* the modules; does not change
  pc,         \* whether the map has modules, or gets them
  work,       \* modules that addModules has still to look at, in order
  vec,        \* modules found so far; the scopes of the map
  loading,    \* addModules is called by loadModules
  val,        \* selfRegV and selfArrV
  bind,       \* regV and arrV: the variable each variable refers to
  saved,      \* the last save
  roots,      \* history: the modules addModules was called with
  atSave      \* history: the scopes when they were saved

vars == <<code, pc, work, vec, loading, val, bind, saved, roots, atSave>>

Init ==
  /\ code \in Code
  /\ pc = "free"
  /\ work = <<>>
  /\ vec = <<>>
  /\ loading = FALSE
  /\ val = [m \in {} |-> 0]
  /\ bind = [m \in {} |-> 0]
  /\ saved = NoSave
  /\ roots = <<>>
  /\ atSave = NoSave
-----------------------------------------------------------------------------
(* addModules. *)

StartAdding(list, load) ==
  /\ pc' = "adding"
  /\ work' = list
  /\ vec' = <<>>
  /\ loading' = load
  /\ roots' = list
  /\ val' = [m \in {} |-> 0] /\ bind' = [m \in {} |-> 0]

\* LoadHubMap of a map without modules.
AddModules ==
  /\ pc = "free"
  /\ \E list \in BoundedSeq(Module, MaxRoots) : list # <<>> /\ StartAdding(list, FALSE)
  /\ UNCHANGED <<code, saved, atSave>>

\* Mutant: imports of imports are not looked at.
ThenRootsOnly(m, rest) == IF m \in ToSet(roots) THEN code.importV[m] \o rest ELSE rest

\* What is left when m was new: add(import) comes before the return of add(m).
Then(m, rest) == code.importV[m] \o rest

\* Mutant: the imports of a module that was found before are looked at again.
AddForgets ==
  LET m == Head(work) IN
  /\ pc = "adding"
  /\ work # <<>>
  /\ vec' = IF m \in ToSet(vec) THEN vec ELSE Append(vec, m)
  /\ work' = Then(m, Tail(work))
  /\ UNCHANGED <<code, pc, loading, val, bind, saved, roots, atSave>>

\* Mutant: work is a stack, also for the modules given.
AddPops ==
  LET m == Last(work) IN
  /\ pc = "adding"
  /\ work # <<>>
  /\ IF m \in ToSet(vec) THEN vec' = vec /\ work' = Front(work)
     ELSE vec' = Append(vec, m) /\ work' = Front(work) \o Reverse(code.importV[m])
  /\ UNCHANGED <<code, pc, loading, val, bind, saved, roots, atSave>>

\* add of the first module of work.
Add ==
  LET m == Head(work) IN
  /\ pc = "adding"
  /\ work # <<>>
  /\ IF m \in ToSet(vec) THEN vec' = vec /\ work' = Tail(work)
     ELSE vec' = Append(vec, m) /\ work' = Then(m, Tail(work))
  /\ UNCHANGED <<code, pc, loading, val, bind, saved, roots, atSave>>

\* Where the direct imports of m export the name that m imports at s: the
\* position in importV and the variable.
Exports(m, s) ==
  {e \in (1 .. Len(code.importV[m])) \X Slot :
     /\ e[2][1] = s[1]
     /\ code.nameV[code.importV[m][e[1]]][e[2]] = code.impV[m][s]}

Before(p, q) == p[1] < q[1] \/ (p[1] = q[1] /\ p[2][2] <= q[2][2])

\* ModuleScope::import: the variable that s of m refers to.
Import(m, s) ==
  IF code.impV[m][s] = NoName \/ Exports(m, s) = {} THEN <<m, s>>
  ELSE LET p == CHOOSE p \in Exports(m, s) : \A q \in Exports(m, s) : Before(p, q)
       IN <<code.importV[m][p[1]], p[2]>>

\* The scopes are created, then every one of them imports.
Build ==
  /\ pc = "adding"
  /\ work = <<>>
  /\ pc' = IF loading THEN "restore" ELSE "ready"
  /\ val' = [m \in ToSet(vec) |-> code.initV[m]]
  /\ bind' = [m \in ToSet(vec) |-> [s \in Slot |-> Import(m, s)]]
  /\ UNCHANGED <<code, work, vec, loading, saved, roots, atSave>>
-----------------------------------------------------------------------------
(* Scripts. *)

\* A script of the module m assigns the variable s; the first use of an array
\* gives it data.
Assign ==
  /\ pc = "ready"
  /\ \E m \in ToSet(vec), s \in Slot, v \in Val :
       val' = [val EXCEPT ![bind[m][s][1]][bind[m][s][2]] = v]
  /\ UNCHANGED <<code, pc, work, vec, loading, bind, saved, roots, atSave>>

Reset ==
  /\ pc = "ready"
  /\ pc' = "free"
  /\ vec' = <<>>
  /\ val' = [m \in {} |-> 0] /\ bind' = [m \in {} |-> 0]
  /\ UNCHANGED <<code, work, loading, saved, roots, atSave>>
-----------------------------------------------------------------------------
(* Saves and loads. *)

Content(v) == IF v = NoData THEN 0 ELSE v

Blank(kind) == IF kind = "reg" THEN 0 ELSE NoData

\* Mutant: arrays that hold no value are skipped, also if they have data.
NotBlankContent(v, kind) == {s \in Slot : s[1] = kind /\ Content(v[s]) # 0}

\* The registers, or the arrays, that keep what is before them in the save.
NotBlank(v, kind) == {s \in Slot : s[1] = kind /\ v[s] # Blank(kind)}

\* SaveRegV and SaveArrV: all up to the last one that is not blank.
SavedVars(v) ==
  [s \in {t \in Slot : \E u \in NotBlank(v, t[1]) : t[2] <= u[2]} |-> Content(v[s])]

\* Array::loadState clears the array first, and reads no zeros.
LoadedVar(s, v, old) ==
  IF s[1] = "arr" /\ v = 0 THEN NoData ELSE v

\* LoadRegV and LoadArrV over the initial values.
LoadedVars(old, sv) ==
  [s \in Slot |-> IF s \in DOMAIN sv THEN LoadedVar(s, sv[s], old[s]) ELSE old[s]]

SaveState ==
  /\ pc = "ready"
  /\ saved' = [modules |-> vec, vars |-> [m \in ToSet(vec) |-> SavedVars(val[m])]]
  /\ atSave' = [modules |-> vec, val |-> val, bind |-> bind]
  /\ UNCHANGED <<code, pc, work, vec, loading, val, bind, roots>>

LoadState ==
  /\ pc \in {"free", "ready"}
  /\ saved # NoSave
  /\ StartAdding(saved.modules, TRUE)
  /\ UNCHANGED <<code, saved, atSave>>

LoadScopes ==
  /\ pc = "restore"
  /\ pc' = "ready"
  /\ val' = [m \in ToSet(vec) |->
       IF m \in ToSet(saved.modules) THEN LoadedVars(val[m], saved.vars[m]) ELSE val[m]]
  /\ UNCHANGED <<code, work, vec, loading, bind, saved, roots, atSave>>
-----------------------------------------------------------------------------
Next == \/ AddModules \/ Add \/ Build \/ Assign \/ Reset
        \/ SaveState \/ LoadState \/ LoadScopes

Spec == Init /\ [][Next]_vars

FairSpec == Spec /\ WF_vars(Add \/ Build \/ LoadScopes)
-----------------------------------------------------------------------------
Scopes == IF pc \in {"restore", "ready"} THEN ToSet(vec) ELSE {}

Vars == {v \in [Slot -> Val \cup {NoData}] : \A s \in Slot : v[s] \in Holds(s)}

\* Type invariant.
TypeOK ==
  /\ code \in Code
  /\ pc \in {"free", "adding", "restore", "ready"}
  /\ work \in Seq(Module)
  /\ vec \in Seq(Module)
  /\ loading \in BOOLEAN
  /\ val \in [Scopes -> Vars]
  /\ bind \in [Scopes -> [Slot -> Module \X Slot]]
  /\ roots \in Seq(Module)
  /\ saved # NoSave =>
       /\ saved.modules \in Seq(Module)
       /\ DOMAIN saved.vars = ToSet(saved.modules)
       /\ \A m \in ToSet(saved.modules) :
            /\ DOMAIN saved.vars[m] \subseteq Slot
            /\ \A s \in DOMAIN saved.vars[m] : saved.vars[m][s] \in Val

\* The modules that every set with the roots and all imports of its members has.
Closed(S) == \A m \in S : ToSet(code.importV[m]) \subseteq S
Reachable == {m \in Module : \A S \in SUBSET Module :
                ToSet(roots) \subseteq S /\ Closed(S) => m \in S}

(***************************************************************************)
(* What AllReached needs to be inductive: the modules found so far and     *)
(* those still to be looked at are reachable, and cover the modules given  *)
(* and all imports of the modules found.                                   *)
(***************************************************************************)
SearchInv ==
  LET seen == ToSet(vec) \cup ToSet(work) IN
  pc = "adding" =>
    /\ IsInjective(vec)
    /\ ToSet(roots) \subseteq seen
    /\ \A m \in ToSet(vec) : ToSet(code.importV[m]) \subseteq seen
    /\ seen \subseteq Reachable

(***************************************************************************)
(* A map has a scope, and one only, for every module that is imported by   *)
(* those it was given, through any number of modules.                      *)
(* Else import would dereference a null scope, or scripts of one module    *)
(* would see different variables.                                          *)
(***************************************************************************)
AllReached ==
  pc \in {"restore", "ready"} => IsInjective(vec) /\ ToSet(vec) = Reachable

(***************************************************************************)
(* Every variable of a module refers to one of the same kind in a scope of *)
(* the map, also when it is imported: what import stores are pointers into *)
(* the scopes, which are freed together.                                   *)
(***************************************************************************)
BoundInside ==
  \A m \in Scopes, s \in Slot : bind[m][s][1] \in Scopes /\ bind[m][s][2][1] = s[1]

\* Only a save is loaded.
LoadingInv == pc = "restore" \/ (pc = "adding" /\ loading) => saved # NoSave

IInv == TypeOK /\ SearchInv /\ LoadingInv /\ AllReached /\ BoundInside

(***************************************************************************)
(* A load finds the modules in the order they had when they were saved,    *)
(* though it adds all of them as roots, and every imported variable refers *)
(* to the same one.  The first module gives the strings of the map, and a  *)
(* script number belongs to the first module that has it.                  *)
(***************************************************************************)
LoadKeepsModules ==
  pc = "restore" => vec = atSave.modules /\ bind = atSave.bind

SameContent(m, s) == Content(val'[m][s]) = Content(atSave.val[m][s])

\* The variable was not saved: it and those of its kind behind it were blank.
WasTrailing(m, s) ==
  \A u \in Slot : u[1] = s[1] /\ u[2] >= s[2] => atSave.val[m][u] = Blank(s[1])

(***************************************************************************)
(* A load gives every variable what it had when it was saved, except that  *)
(* the blank ones behind all others get the initial values of the module.  *)
(* These are registers with 0 and arrays without data, and a load leaves   *)
(* every array that holds only 0 without data: what one load keeps, the    *)
(* second may lose.                                                        *)
(***************************************************************************)
VariablesRestored ==
  [][pc = "restore" =>
       \A m \in ToSet(vec), s \in Slot :
         SameContent(m, s) \/ (WasTrailing(m, s) /\ val'[m][s] = code.initV[m][s])]_vars

\* What VariablesRestored needs: a save is what SavedVars makes of the scopes
\* at the time, with a module the save has all that it imports, and a load
\* starts with the modules of the save and comes to initial values.
SaveInv ==
  saved # NoSave =>
    /\ saved.modules = atSave.modules
    /\ Closed(ToSet(saved.modules))
    /\ \A m \in ToSet(saved.modules) :
         atSave.val[m] \in Vars /\ saved.vars[m] = SavedVars(atSave.val[m])

RestoreInv ==
  /\ pc = "restore" \/ (pc = "adding" /\ loading) => roots = saved.modules
  /\ pc = "restore" => \A m \in ToSet(vec) : val[m] = code.initV[m]

\* x is in list, and y is neither in front of it nor x.
Ahead(list, x, y) ==
  \E i \in DOMAIN list : list[i] = x /\ \A k \in 1 .. i : list[k] # y

\* The modules list[j .. k] do not import y.
NotImported(list, j, k, y) == \A i \in j .. k : y \notin ToSet(code.importV[list[i]])

\* What LoadKeepsModules needs of the search: of the modules not found so far,
\* work has those first that were imported last, in the order of the imports,
\* and then the modules given.
OrderInv ==
  pc = "adding" =>
    \A x, y \in Module \ ToSet(vec) : x # y =>
      /\ \A j \in DOMAIN vec :
           Ahead(code.importV[vec[j]], x, y) /\ NotImported(vec, j + 1, Len(vec), y)
             => Ahead(work, x, y)
      /\ Ahead(roots, x, y) /\ NotImported(vec, 1, Len(vec), y) => Ahead(work, x, y)

\* Of the modules that those in front of it import, each module of list is the
\* first of the last import list that has one not yet found.
Preordered(list) ==
  \A k \in DOMAIN list : \A y \in Module \ {list[i] : i \in 1 .. k} :
    \/ NotImported(list, 1, k - 1, y)
    \/ \E j \in 1 .. k - 1 :
         Ahead(code.importV[list[j]], list[k], y) /\ NotImported(list, j + 1, k - 1, y)

Binding(list) == [m \in ToSet(list) |-> [s \in Slot |-> Import(m, s)]]

\* What LoadKeepsModules needs: the scopes and those of the save are in the
\* order of a search, and a load finds them in this order.
KeepInv ==
  /\ Preordered(vec)
  /\ pc \in {"restore", "ready"} => bind = Binding(vec)
  /\ saved # NoSave =>
       /\ IsInjective(saved.modules)
       /\ Preordered(saved.modules)
       /\ atSave.bind = Binding(saved.modules)
  /\ pc = "adding" /\ loading =>
       \A i \in DOMAIN vec : i \in DOMAIN saved.modules /\ vec[i] = saved.modules[i]

(***************************************************************************)
(* A load gives every register what it had when it was saved: loadState    *)
(* "Restores the environment state from a previously serialized instance." *)
(* (doc/ACSVM.txt:508).  It does not: a register with an initial value     *)
(* that is set to 0 comes back with the initial value.                     *)
(***************************************************************************)
RegistersRestored ==
  [][pc = "restore" =>
       \A m \in ToSet(vec), s \in Slot : s[1] = "reg" => SameContent(m, s)]_vars

(***************************************************************************)
(* addModules ends, for any imports, and a load with it.                   *)
(***************************************************************************)
AddingEnds == pc = "adding" ~> pc = "ready"
=============================================================================
