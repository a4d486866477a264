--------------------------- MODULE MapModulesProof ---------------------------
(***************************************************************************)
(* The modules of a map, for any number of modules with any imports, in    *)
(* any number of loads and saves.                                          *)
(***************************************************************************)
EXTENDS MapModules, ListLinksProof

LEMMA CodeParts ==
  ASSUME code \in Code
  PROVE  /\ code.importV \in [Module -> Seq(Module)]
         /\ \A m \in Module, s \in Slot : code.initV[m][s] \in Initial(s)
         /\ \A m \in Module : code.initV[m] \in [Slot -> Val \cup {NoData}]
BY ConstantsAssumption DEF CodeType

LEMMA SlotKinds ==
  \A s \in Slot : s[2] \in Nat /\ s = <<s[1], s[2]>>
BY ConstantsAssumption DEF Slot

(* Of the exports of a name there is a first one, which import takes.       *)
LEMMA FirstExport ==
  ASSUME NEW m, NEW s, Exports(m, s) # {}
  PROVE  \E p \in Exports(m, s) : \A q \in Exports(m, s) : Before(p, q)
<1> DEFINE E == Exports(m, s)
           K == {k \in Nat : \E p \in E : p[1] = k}
<1>1. \A p \in E : p[1] \in Nat /\ p[2] \in Slot /\ p[2][2] \in Nat
  <2>1. \A p \in E : p \in Nat \X Slot
    BY DEF Exports
  <2>2. QED
    BY <2>1, SlotKinds
<1> HIDE DEF E
<1>2. PICK k \in K : \A n \in K : k <= n
  <2>1. K # {} /\ K \subseteq Nat
    BY <1>1 DEF E
  <2>2. QED
    BY <2>1, LeastOf
<1> DEFINE J == {j \in Nat : \E p \in E : p[1] = k /\ p[2][2] = j}
<1>3. PICK j \in J : \A n \in J : j <= n
  <2>1. J # {}
    BY <1>1
  <2>2. QED
    BY <2>1, LeastOf
<1>4. PICK p \in E : p[1] = k /\ p[2][2] = j
  BY <1>3
<1>5. ASSUME NEW q \in E PROVE Before(p, q)
  <2>1. k <= q[1]
    BY <1>1, <1>2
  <2>2. q[1] = k => j <= q[2][2]
    BY <1>1, <1>3
  <2>3. QED
    BY <1>1, <1>4, <2>1, <2>2 DEF Before
<1>6. QED
  BY <1>4, <1>5 DEF E

(* An import is a variable of the module itself or of one it imports.       *)
LEMMA ImportInside ==
  ASSUME code \in Code, NEW m \in Module, NEW s \in Slot
  PROVE  /\ Import(m, s) \in ({m} \cup ToSet(code.importV[m])) \X Slot
         /\ Import(m, s)[2][1] = s[1]
<1>1. code.importV[m] \in Seq(Module)
  BY CodeParts
<1>2. CASE code.impV[m][s] = NoName \/ Exports(m, s) = {}
  BY <1>2 DEF Import
<1>3. CASE ~ (code.impV[m][s] = NoName \/ Exports(m, s) = {})
  <2> DEFINE p == CHOOSE p \in Exports(m, s) : \A q \in Exports(m, s) : Before(p, q)
  <2>1. p \in Exports(m, s)
    BY <1>3, FirstExport
  <2>2. Import(m, s) = <<code.importV[m][p[1]], p[2]>>
    BY <1>3 DEF Import
  <2> HIDE DEF p
  <2>3. p[1] \in 1 .. Len(code.importV[m]) /\ p[2] \in Slot /\ p[2][1] = s[1]
    BY <2>1 DEF Exports
  <2>4. code.importV[m][p[1]] \in ToSet(code.importV[m])
    BY <1>1, <2>3 DEF ToSet
  <2>5. QED
    BY <2>2, <2>3, <2>4
<1>4. QED
  BY <1>2, <1>3

(* What is saved of the variables of a module, and what a load makes of it. *)
LEMMA SavedType ==
  ASSUME NEW v \in Vars
  PROVE  /\ DOMAIN SavedVars(v) \subseteq Slot
         /\ \A s \in DOMAIN SavedVars(v) : SavedVars(v)[s] \in Val
<1>1. 0 \in Val
  BY ConstantsAssumption DEF Val
<1>2. \A s \in Slot : Content(v[s]) \in Val
  BY <1>1 DEF Vars, Content
<1>3. QED
  BY <1>2 DEF SavedVars

LEMMA LoadedType ==
  ASSUME NEW old \in Vars, NEW sv, DOMAIN sv \subseteq Slot,
         \A s \in DOMAIN sv : sv[s] \in Val
  PROVE  LoadedVars(old, sv) \in Vars
<1>1. \A s \in Slot : old[s] \in Holds(s) /\ Holds(s) \subseteq Val \cup {NoData}
  BY DEF Vars, Holds
<1>2. \A s \in DOMAIN sv : LoadedVar(s, sv[s], old[s]) \in Holds(s)
  BY DEF LoadedVar, Holds
<1>3. QED
  BY <1>1, <1>2 DEF LoadedVars, Vars
-----------------------------------------------------------------------------
(* The steps keep the invariant. *)

LEMMA InitInv == Init => IInv
<1> SUFFICES ASSUME Init PROVE IInv
  OBVIOUS
<1>1. <<>> \in Seq(Module) /\ Scopes = {}
  BY DEF Init, Scopes
<1>2. TypeOK
  BY <1>1 DEF Init, TypeOK
<1>3. SearchInv /\ LoadingInv /\ AllReached /\ BoundInside
  BY <1>1 DEF Init, SearchInv, LoadingInv, AllReached, BoundInside
<1>4. QED
  BY <1>2, <1>3 DEF IInv

LEMMA StartKeeps ==
  ASSUME IInv, NEW list \in Seq(Module), NEW load \in BOOLEAN, StartAdding(list, load),
         load => saved # NoSave, UNCHANGED <<code, saved>>
  PROVE  IInv'
<1>1. TypeOK /\ LoadingInv
  BY DEF IInv
<1>2. /\ pc' = "adding" /\ work' = list /\ vec' = <<>> /\ loading' = load /\ roots' = list
      /\ val' = [m \in {} |-> 0] /\ bind' = [m \in {} |-> 0]
  BY DEF StartAdding
<1>3. Scopes' = {} /\ ToSet(vec') = {} /\ IsInjective(vec')
  BY <1>2 DEF Scopes, ToSet, IsInjective
<1>4. TypeOK'
  BY <1>1, <1>2, <1>3 DEF TypeOK
<1>5. SearchInv'
  <2>1. ToSet(list) \subseteq Module
    BY DEF ToSet
  <2>2. ToSet(list) \subseteq Reachable'
    BY <1>2, <2>1 DEF Reachable
  <2>3. QED
    BY <1>2, <1>3, <2>2 DEF SearchInv
<1>6. LoadingInv' /\ AllReached' /\ BoundInside'
  BY <1>2, <1>3 DEF StartAdding, LoadingInv, AllReached, BoundInside
<1>7. QED
  BY <1>4, <1>5, <1>6 DEF IInv

LEMMA AddKeeps ==
  ASSUME IInv, Add PROVE IInv'
<1>1. TypeOK /\ SearchInv /\ LoadingInv
  BY DEF IInv
<1> DEFINE m == Head(work)
<1>2. /\ pc = "adding" /\ work # <<>>
      /\ UNCHANGED <<code, pc, loading, val, bind, saved, roots>>
  BY DEF Add
<1>3. /\ work \in Seq(Module) /\ vec \in Seq(Module)
      /\ m \in Module /\ m \in ToSet(work) /\ Tail(work) \in Seq(Module)
      /\ ToSet(Tail(work)) \subseteq ToSet(work)
  BY <1>1, <1>2, TailLink DEF TypeOK
<1>4. ToSet(work) = {m} \cup ToSet(Tail(work))
  <2>1. ASSUME NEW e \in ToSet(work), e # m PROVE e \in ToSet(Tail(work))
    <3>1. PICK i \in 1 .. Len(work) : work[i] = e
      BY <1>3 DEF ToSet
    <3>2. i # 1
      BY <1>2, <1>3, <2>1, <3>1
    <3>3. i - 1 \in 1 .. Len(Tail(work)) /\ Tail(work)[i - 1] = e
      BY <1>2, <1>3, <3>1, <3>2
    <3>4. i - 1 \in DOMAIN Tail(work)
      BY <1>3, <3>3
    <3>5. QED
      BY <3>3, <3>4 DEF ToSet
  <2>2. QED
    BY <1>3, <2>1
<1>5. code.importV[m] \in Seq(Module)
  BY <1>1, <1>3, CodeParts DEF TypeOK
<1>6. Reachable' = Reachable /\ Scopes = {} /\ Scopes' = {}
  BY <1>2 DEF Reachable, Closed, Scopes
<1>7. /\ IsInjective(vec)
      /\ ToSet(roots) \subseteq ToSet(vec) \cup ToSet(work)
      /\ \A n \in ToSet(vec) : ToSet(code.importV[n]) \subseteq ToSet(vec) \cup ToSet(work)
      /\ ToSet(vec) \cup ToSet(work) \subseteq Reachable
  BY <1>1, <1>2 DEF SearchInv
<1>8. /\ work' \in Seq(Module) /\ vec' \in Seq(Module)
      /\ SearchInv'
  <2>1. CASE m \in ToSet(vec)
    <3>1. vec' = vec /\ work' = Tail(work)
      BY <2>1 DEF Add
    <3>2. ToSet(vec) \cup ToSet(work) = ToSet(vec') \cup ToSet(work')
      BY <1>4, <2>1, <3>1
    <3>3. QED
      BY <1>2, <1>3, <1>6, <1>7, <3>1, <3>2 DEF SearchInv
  <2>2. CASE m \notin ToSet(vec)
    <3>1. vec' = Append(vec, m) /\ work' = code.importV[m] \o Tail(work)
      BY <2>2 DEF Add, Then
    <3>2. /\ vec' \in Seq(Module)
          /\ ToSet(vec') = ToSet(vec) \cup {m}
          /\ IsInjective(vec')
      BY <1>3, <1>7, <2>2, <3>1, AppendLink
    <3>3. /\ work' \in Seq(Module)
          /\ ToSet(work') = ToSet(code.importV[m]) \cup ToSet(Tail(work))
      <4> DEFINE first == code.importV[m]
                 rest  == Tail(work)
      <4>1. first \in Seq(Module) /\ rest \in Seq(Module) /\ work' = first \o rest
        BY <1>3, <1>5, <3>1
      <4> HIDE DEF first, rest
      <4>2. first \o rest \in Seq(Module) /\ ToSet(first \o rest) = ToSet(first) \cup ToSet(rest)
        BY <4>1, ConcatLinks
      <4>3. QED
        BY <4>1, <4>2 DEF first, rest
    <3>4. ToSet(code.importV[m]) \subseteq Reachable
      <4>1. m \in Reachable /\ ToSet(code.importV[m]) \subseteq Module
        BY <1>3, <1>5, <1>7 DEF ToSet
      <4>2. QED
        BY <4>1 DEF Reachable, Closed
    <3>5. QED
      BY <1>2, <1>4, <1>6, <1>7, <3>2, <3>3, <3>4 DEF SearchInv
  <2>3. QED
    BY <2>1, <2>2
<1>9. TypeOK'
  BY <1>1, <1>2, <1>6, <1>8 DEF TypeOK
<1>10. LoadingInv' /\ AllReached' /\ BoundInside'
  BY <1>1, <1>2, <1>6 DEF LoadingInv, AllReached, BoundInside
<1>11. QED
  BY <1>8, <1>9, <1>10 DEF IInv

LEMMA BuildKeeps ==
  ASSUME IInv, Build PROVE IInv'
<1>1. TypeOK /\ SearchInv /\ LoadingInv
  BY DEF IInv
<1>2. /\ pc = "adding" /\ work = <<>>
      /\ pc' \in {"restore", "ready"}
      /\ val' = [m \in ToSet(vec) |-> code.initV[m]]
      /\ bind' = [m \in ToSet(vec) |-> [s \in Slot |-> Import(m, s)]]
      /\ UNCHANGED <<code, work, vec, loading, saved, roots>>
  BY DEF Build
<1>3. ToSet(vec) \subseteq Module /\ Scopes' = ToSet(vec) /\ ToSet(work) = {}
  BY <1>1, <1>2 DEF TypeOK, ToSet, Scopes
<1>4. /\ IsInjective(vec)
      /\ ToSet(roots) \subseteq ToSet(vec)
      /\ \A m \in ToSet(vec) : ToSet(code.importV[m]) \subseteq ToSet(vec)
      /\ ToSet(vec) \subseteq Reachable
  BY <1>1, <1>2, <1>3 DEF SearchInv
<1>5. Reachable \subseteq ToSet(vec) /\ Reachable' = Reachable
  BY <1>2, <1>3, <1>4 DEF Reachable, Closed
<1>6. \A m \in ToSet(vec) : code.initV[m] \in Vars
  <2>1. \A s \in Slot : Initial(s) \subseteq Holds(s)
    BY DEF Initial, Holds
  <2>2. QED
    BY <1>1, <1>3, <2>1, CodeParts DEF Vars, TypeOK
<1>7. \A m \in ToSet(vec), s \in Slot :
        /\ Import(m, s) \in ToSet(vec) \X Slot
        /\ Import(m, s)[2][1] = s[1]
  BY <1>1, <1>3, <1>4, ImportInside DEF TypeOK
<1>8. bind' \in [ToSet(vec) -> [Slot -> ToSet(vec) \X Slot]]
  BY <1>2, <1>7
<1>9. TypeOK'
  <2>1. bind' \in [Scopes' -> [Slot -> Module \X Slot]]
    BY <1>3, <1>8
  <2>2. val' \in [Scopes' -> Vars]
    BY <1>2, <1>3, <1>6
  <2>3. QED
    BY <1>1, <1>2, <2>1, <2>2 DEF TypeOK
<1>10. SearchInv' /\ LoadingInv' /\ AllReached'
  BY <1>1, <1>2, <1>4, <1>5 DEF Build, SearchInv, LoadingInv, AllReached
<1>11. BoundInside'
  BY <1>2, <1>3, <1>7 DEF BoundInside
<1>12. QED
  BY <1>9, <1>10, <1>11 DEF IInv

LEMMA AssignKeeps ==
  ASSUME IInv, Assign PROVE IInv'
<1>1. TypeOK /\ LoadingInv /\ BoundInside /\ AllReached
  BY DEF IInv
<1>2. PICK m \in ToSet(vec), s \in Slot, v \in Val :
        val' = [val EXCEPT ![bind[m][s][1]][bind[m][s][2]] = v]
  BY DEF Assign
<1>3. pc = "ready" /\ UNCHANGED <<code, pc, work, vec, loading, bind, saved, roots>>
  BY DEF Assign
<1>4. Scopes = ToSet(vec) /\ Scopes' = Scopes /\ Reachable' = Reachable
  BY <1>3 DEF Scopes, Reachable, Closed
<1> DEFINE n == bind[m][s][1]
           t == bind[m][s][2]
<1>5. n \in Scopes /\ t \in Slot
  BY <1>1, <1>4 DEF TypeOK, BoundInside
<1> HIDE DEF n, t
<1>6. val[n] \in Vars /\ \A k \in Scopes : val[k] \in Vars
  BY <1>1, <1>5 DEF TypeOK
<1>7. [val[n] EXCEPT ![t] = v] \in Vars
  BY <1>5, <1>6 DEF Vars, Holds
<1>8. val' = [val EXCEPT ![n] = [val[n] EXCEPT ![t] = v]]
  BY <1>2 DEF n, t
<1>9. val' \in [Scopes -> Vars]
  BY <1>1, <1>5, <1>7, <1>8 DEF TypeOK
<1>10. TypeOK'
  BY <1>1, <1>3, <1>4, <1>9 DEF TypeOK
<1>11. SearchInv' /\ LoadingInv' /\ AllReached' /\ BoundInside'
  BY <1>1, <1>3, <1>4 DEF SearchInv, LoadingInv, AllReached, BoundInside
<1>12. QED
  BY <1>10, <1>11 DEF IInv

LEMMA ResetKeeps ==
  ASSUME IInv, Reset PROVE IInv'
<1>1. TypeOK /\ LoadingInv
  BY DEF IInv
<1>2. /\ pc' = "free" /\ vec' = <<>>
      /\ val' = [m \in {} |-> 0] /\ bind' = [m \in {} |-> 0]
      /\ UNCHANGED <<code, work, loading, saved, roots>>
  BY DEF Reset
<1>3. Scopes' = {} /\ vec' \in Seq(Module)
  BY <1>2 DEF Scopes
<1>4. TypeOK'
  BY <1>1, <1>2, <1>3 DEF TypeOK
<1>5. SearchInv' /\ LoadingInv' /\ AllReached' /\ BoundInside'
  BY <1>2, <1>3 DEF SearchInv, LoadingInv, AllReached, BoundInside
<1>6. QED
  BY <1>4, <1>5 DEF IInv

LEMMA SaveStateKeeps ==
  ASSUME IInv, SaveState PROVE IInv'
<1>1. TypeOK /\ SearchInv /\ LoadingInv /\ AllReached /\ BoundInside
  BY DEF IInv
<1>2. /\ pc = "ready"
      /\ saved' = [modules |-> vec, vars |-> [m \in ToSet(vec) |-> SavedVars(val[m])]]
      /\ UNCHANGED <<code, pc, work, vec, loading, val, bind, roots>>
  BY DEF SaveState
<1>3. Scopes = ToSet(vec) /\ Scopes' = Scopes /\ Reachable' = Reachable
  BY <1>2 DEF Scopes, Reachable, Closed
<1>4. \A m \in ToSet(vec) :
        /\ DOMAIN SavedVars(val[m]) \subseteq Slot
        /\ \A s \in DOMAIN SavedVars(val[m]) : SavedVars(val[m])[s] \in Val
  <2>1. \A m \in ToSet(vec) : val[m] \in Vars
    BY <1>1, <1>3 DEF TypeOK
  <2>2. QED
    BY <2>1, SavedType
<1>5. /\ saved'.modules = vec
      /\ DOMAIN saved'.vars = ToSet(vec)
      /\ \A m \in ToSet(vec) : saved'.vars[m] = SavedVars(val[m])
  BY <1>2
<1>6. TypeOK'
  BY <1>1, <1>2, <1>3, <1>4, <1>5 DEF TypeOK
<1>7. SearchInv' /\ LoadingInv' /\ AllReached' /\ BoundInside'
  BY <1>1, <1>2, <1>3 DEF SearchInv, LoadingInv, AllReached, BoundInside
<1>8. QED
  BY <1>6, <1>7 DEF IInv

LEMMA LoadScopesKeeps ==
  ASSUME IInv, LoadScopes PROVE IInv'
<1>1. TypeOK /\ SearchInv /\ LoadingInv /\ AllReached /\ BoundInside
  BY DEF IInv
<1>2. /\ pc = "restore" /\ pc' = "ready"
      /\ val' = [m \in ToSet(vec) |->
           IF m \in ToSet(saved.modules) THEN LoadedVars(val[m], saved.vars[m]) ELSE val[m]]
      /\ UNCHANGED <<code, work, vec, loading, bind, saved, roots>>
  BY DEF LoadScopes
<1>3. Scopes = ToSet(vec) /\ Scopes' = Scopes /\ Reachable' = Reachable
  BY <1>2 DEF Scopes, Reachable, Closed
<1>4. saved # NoSave
  BY <1>1, <1>2 DEF LoadingInv
<1>5. \A m \in ToSet(vec) : val'[m] \in Vars
  <2>1. \A m \in ToSet(vec) : val[m] \in Vars
    BY <1>1, <1>3 DEF TypeOK
  <2>2. \A m \in ToSet(saved.modules) :
          /\ DOMAIN saved.vars[m] \subseteq Slot
          /\ \A s \in DOMAIN saved.vars[m] : saved.vars[m][s] \in Val
    BY <1>1, <1>4 DEF TypeOK
  <2>3. QED
    BY <1>2, <2>1, <2>2, LoadedType
<1>6. val' \in [Scopes' -> Vars]
  BY <1>2, <1>3, <1>5
<1>7. TypeOK'
  BY <1>1, <1>2, <1>3, <1>6 DEF TypeOK
<1>8. SearchInv' /\ LoadingInv' /\ AllReached' /\ BoundInside'
  BY <1>1, <1>2, <1>3 DEF SearchInv, LoadingInv, AllReached, BoundInside
<1>9. QED
  BY <1>7, <1>8 DEF IInv
-----------------------------------------------------------------------------
LEMMA NextInv == IInv /\ [Next]_vars => IInv'
<1> SUFFICES ASSUME IInv, [Next]_vars PROVE IInv'
  OBVIOUS
<1>1. TypeOK /\ LoadingInv
  BY DEF IInv
<1>2. CASE AddModules
  <2>1. PICK list \in BoundedSeq(Module, MaxRoots) : StartAdding(list, FALSE)
    BY <1>2 DEF AddModules
  <2>2. list \in Seq(Module)
    <3>1. PICK n \in 0 .. MaxRoots : list \in [1 .. n -> Module]
      BY ConstantsAssumption DEF BoundedSeq, SeqOf
    <3>2. QED
      BY <3>1
  <2>3. UNCHANGED <<code, saved>>
    BY <1>2 DEF AddModules
  <2>4. QED
    BY <2>1, <2>2, <2>3, StartKeeps
<1>3. CASE LoadState
  <2>1. /\ saved.modules \in Seq(Module) /\ UNCHANGED <<code, saved>>
        /\ saved # NoSave /\ StartAdding(saved.modules, TRUE)
    BY <1>1, <1>3 DEF LoadState, TypeOK
  <2>2. QED
    BY <2>1, StartKeeps
<1>4. CASE UNCHANGED vars
  <2>1. Scopes' = Scopes /\ Reachable' = Reachable
    BY <1>4 DEF vars, Scopes, Reachable, Closed
  <2>2. QED
    BY <1>4, <2>1 DEF IInv, TypeOK, SearchInv, LoadingInv, AllReached, BoundInside, vars
<1>5. QED
  BY <1>2, <1>3, <1>4, AddKeeps, BuildKeeps, AssignKeeps, ResetKeeps, SaveStateKeeps,
     LoadScopesKeeps DEF Next

(* The inductive invariant of the search for modules and of the scopes that *)
(* are made from it holds in every behaviour.                               *)
THEOREM ModulesInvariant == Spec => []IInv
BY InitInv, NextInv, PTL DEF Spec

(* Registers hold numbers, arrays numbers or nothing, imports refer to      *)
(* variables, and what is saved is what can be loaded.                      *)
THEOREM ModulesTypes == Spec => []TypeOK
<1>1. IInv => TypeOK
  BY DEF IInv
<1>2. QED
  BY <1>1, ModulesInvariant, PTL

(* A map has exactly one scope for every module that those it was given     *)
(* import, whatever the import graph, also after loads.                     *)
THEOREM ModulesAllReached == Spec => []AllReached
<1>1. IInv => AllReached
  BY DEF IInv
<1>2. QED
  BY <1>1, ModulesInvariant, PTL

(* No variable of a module refers to one outside of the scopes of its map.  *)
THEOREM ImportsStayInside == Spec => []BoundInside
<1>1. IInv => BoundInside
  BY DEF IInv
<1>2. QED
  BY <1>1, ModulesInvariant, PTL
-----------------------------------------------------------------------------
(* What a load makes of the initial values and of a save of v.              *)
LEMMA SaveLoad ==
  ASSUME NEW v \in Vars, NEW old \in Vars, NEW s \in Slot
  PROVE  LET new == LoadedVars(old, SavedVars(v)) IN
         \/ Content(new[s]) = Content(v[s])
         \/ /\ \A u \in Slot : u[1] = s[1] /\ u[2] >= s[2] => v[u] = Blank(s[1])
            /\ new[s] = old[s]
<1> DEFINE sv  == SavedVars(v)
           new == LoadedVars(old, sv)
<1>1. new[s] = IF s \in DOMAIN sv THEN LoadedVar(s, sv[s], old[s]) ELSE old[s]
  BY DEF LoadedVars
<1>2. CASE s \in DOMAIN sv
  <2>1. sv[s] = Content(v[s])
    BY <1>2 DEF SavedVars
  <2>2. new[s] = LoadedVar(s, Content(v[s]), old[s])
    BY <1>1, <1>2, <2>1
  <2>3. 0 \in Val /\ NoData \notin Val /\ v[s] \in Val \cup {NoData}
    BY ConstantsAssumption DEF Val, Vars
  <2>4. Content(new[s]) = Content(v[s])
    BY <2>2, <2>3 DEF LoadedVar, Content
  <2>5. QED
    BY <2>4
<1>3. CASE s \notin DOMAIN sv
  <2>1. ASSUME NEW u \in Slot, u[1] = s[1], u[2] >= s[2] PROVE v[u] = Blank(s[1])
    <3>1. u \in NotBlank(v, s[1]) => s \in DOMAIN sv
      BY <2>1, SlotKinds DEF SavedVars
    <3>2. QED
      BY <1>3, <2>1, <3>1 DEF NotBlank
  <2>2. QED
    BY <1>1, <1>3, <2>1
<1>4. QED
  BY <1>2, <1>3

(* A module list that has all its imports is all that can be reached.       *)
LEMMA ReachedFromClosed ==
  ASSUME ToSet(roots) \subseteq Module, Closed(ToSet(roots))
  PROVE  Reachable = ToSet(roots)
BY DEF Reachable

HistInv == SaveInv /\ RestoreInv

LEMMA InitHist == Init => HistInv
BY DEF Init, HistInv, SaveInv, RestoreInv

LEMMA NextHist == IInv /\ HistInv /\ [Next]_vars => HistInv'
<1> SUFFICES ASSUME IInv, HistInv, [Next]_vars PROVE HistInv'
  OBVIOUS
<1>1. TypeOK /\ SearchInv /\ LoadingInv /\ AllReached /\ SaveInv /\ RestoreInv
  BY DEF IInv, HistInv
<1>2. ASSUME UNCHANGED <<code, saved, atSave>> PROVE SaveInv'
  BY <1>1, <1>2 DEF SaveInv, Closed
<1>3. CASE AddModules
  <2>1. PICK list : StartAdding(list, FALSE)
    BY <1>3 DEF AddModules
  <2>2. RestoreInv'
    BY <2>1 DEF StartAdding, RestoreInv
  <2>3. QED
    BY <1>2, <1>3, <2>2 DEF AddModules, HistInv
<1>4. CASE LoadState
  BY <1>2, <1>4 DEF LoadState, StartAdding, RestoreInv, HistInv
<1>5. CASE Add
  BY <1>1, <1>2, <1>5 DEF Add, RestoreInv, HistInv
<1>6. CASE Build
  <2>1. RestoreInv'
    BY <1>1, <1>6 DEF Build, RestoreInv
  <2>2. QED
    BY <1>2, <1>6, <2>1 DEF Build, HistInv
<1>7. CASE Assign \/ Reset \/ LoadScopes
  BY <1>1, <1>2, <1>7 DEF Assign, Reset, LoadScopes, RestoreInv, HistInv
<1>8. CASE SaveState
  <2>1. /\ pc = "ready" /\ UNCHANGED <<code, pc>>
        /\ saved' = [modules |-> vec, vars |-> [m \in ToSet(vec) |-> SavedVars(val[m])]]
        /\ atSave' = [modules |-> vec, val |-> val, bind |-> bind]
    BY <1>8 DEF SaveState
  <2>2. Closed(ToSet(vec))
    <3>1. ToSet(vec) = Reachable /\ \A m \in Module : code.importV[m] \in Seq(Module)
      BY <1>1, <2>1, CodeParts DEF AllReached, TypeOK
    <3>2. Closed(Reachable)
      BY <3>1 DEF Reachable, Closed, ToSet
    <3>3. QED
      BY <3>1, <3>2
  <2>3. \A m \in ToSet(vec) : val[m] \in Vars
    BY <1>1, <2>1 DEF TypeOK, Scopes
  <2>4. SaveInv'
    BY <2>1, <2>2, <2>3 DEF SaveInv, Closed
  <2>5. RestoreInv'
    BY <2>1 DEF RestoreInv
  <2>6. QED
    BY <2>4, <2>5 DEF HistInv
<1>9. CASE UNCHANGED vars
  BY <1>1, <1>2, <1>9 DEF vars, RestoreInv, HistInv
<1>10. QED
  BY <1>3, <1>4, <1>5, <1>6, <1>7, <1>8, <1>9 DEF Next

(* After a load every variable is as it was saved, but for the blank ones   *)
(* behind all others, which are as the module initializes them.             *)
THEOREM LoadRestores == Spec => VariablesRestored
<1> DEFINE Step ==
      pc = "restore" =>
        \A m \in ToSet(vec), s \in Slot :
          SameContent(m, s) \/ (WasTrailing(m, s) /\ val'[m][s] = code.initV[m][s])
<1>1. IInv /\ HistInv /\ [Next]_vars => [Step]_vars
  <2> SUFFICES ASSUME IInv, HistInv, Next, pc = "restore",
                      NEW m \in ToSet(vec), NEW s \in Slot
               PROVE  SameContent(m, s)
                        \/ (WasTrailing(m, s) /\ val'[m][s] = code.initV[m][s])
    OBVIOUS
  <2>1. TypeOK /\ AllReached /\ LoadingInv /\ SaveInv /\ RestoreInv
    BY DEF IInv, HistInv
  <2>2. LoadScopes
    BY DEF Next, AddModules, Add, Build, Assign, Reset, SaveState, LoadState
  <2>3. saved # NoSave /\ roots = saved.modules /\ val[m] = code.initV[m]
    BY <2>1 DEF LoadingInv, RestoreInv
  <2>4. m \in ToSet(saved.modules)
    <3>1. ToSet(roots) \subseteq Module
      BY <2>1 DEF TypeOK, ToSet
    <3>2. Reachable = ToSet(roots)
      BY <2>1, <2>3, <3>1, ReachedFromClosed DEF SaveInv
    <3>3. QED
      BY <2>1, <2>3, <3>2 DEF AllReached
  <2>5. val[m] \in Vars /\ atSave.val[m] \in Vars
    BY <2>1, <2>3, <2>4 DEF TypeOK, Scopes, SaveInv
  <2>6. val'[m] = LoadedVars(val[m], SavedVars(atSave.val[m]))
    BY <2>1, <2>2, <2>3, <2>4 DEF LoadScopes, SaveInv
  <2>7. QED
    BY <2>3, <2>5, <2>6, SaveLoad DEF SameContent, WasTrailing
<1>2. QED
  BY <1>1, InitHist, NextHist, ModulesInvariant, PTL DEF Spec, VariablesRestored
-----------------------------------------------------------------------------
(* A set of numbers up to n has a greatest one. *)
LEMMA GreatestOf ==
  ASSUME NEW n \in Nat, NEW T, T \subseteq 0 .. n, T # {}
  PROVE  \E k \in T : \A i \in T : i <= k
<1> DEFINE D == {d \in Nat : n - d \in T}
<1>1. D # {}
  <2>1. PICK i \in T : TRUE
    OBVIOUS
  <2>2. i \in Nat /\ n - i \in Nat /\ n - (n - i) = i
    BY <2>1
  <2>3. QED
    BY <2>2
<1>2. PICK d \in D : \A e \in D : d <= e
  BY <1>1, LeastOf
<1>3. ASSUME NEW i \in T PROVE i <= n - d
  <2>1. n - i \in D
    <3>1. i \in Nat /\ n - i \in Nat /\ n - (n - i) = i
      OBVIOUS
    <3>2. QED
      BY <3>1
  <2>2. d <= n - i
    BY <1>2, <2>1
  <2>3. QED
    BY <2>2
<1>4. QED
  BY <1>2, <1>3

(* What is ahead of what, in a list and in the lists made of it. *)
LEMMA AheadHead ==
  ASSUME NEW S, NEW list \in Seq(S), NEW x, NEW y, Ahead(list, x, y)
  PROVE  list # <<>> /\ Head(list) # y /\ x \in ToSet(list)
BY DEF Ahead, ToSet

LEMMA AheadTail ==
  ASSUME NEW S, NEW list \in Seq(S), NEW x, NEW y, Ahead(list, x, y), x # Head(list)
  PROVE  Ahead(Tail(list), x, y)
<1>1. PICK i \in 1 .. Len(list) : list[i] = x /\ \A k \in 1 .. i : list[k] # y
  BY DEF Ahead
<1>2. list # <<>> /\ i # 1
  BY <1>1
<1> DEFINE rest == Tail(list)
<1>3. Len(rest) = Len(list) - 1 /\ \A k \in 1 .. Len(list) - 1 : rest[k] = list[k + 1]
  BY <1>2
<1>4. rest \in Seq(S) /\ DOMAIN rest = 1 .. Len(rest)
  BY <1>2
<1> HIDE DEF rest
<1>5. i - 1 \in 1 .. Len(rest)
  BY <1>1, <1>2, <1>3
<1>6. rest[i - 1] = x
  BY <1>1, <1>3, <1>5
<1>7. ASSUME NEW k \in 1 .. i - 1 PROVE rest[k] # y
  <2>1. k \in 1 .. Len(list) - 1 /\ k + 1 \in 1 .. i
    BY <1>1
  <2>2. QED
    BY <1>1, <1>3, <2>1
<1>8. Ahead(rest, x, y)
  BY <1>4, <1>5, <1>6, <1>7 DEF Ahead
<1>9. QED
  BY <1>8 DEF rest

LEMMA AheadConcat ==
  ASSUME NEW S, NEW first \in Seq(S), NEW rest \in Seq(S), NEW x, NEW y
  PROVE  /\ Ahead(first, x, y) => Ahead(first \o rest, x, y)
         /\ y \notin ToSet(first) /\ Ahead(rest, x, y) => Ahead(first \o rest, x, y)
<1> DEFINE all == first \o rest
<1>1. /\ all \in Seq(S) /\ Len(all) = Len(first) + Len(rest)
      /\ Len(first) \in Nat /\ Len(rest) \in Nat
      /\ \A i \in 1 .. Len(first) : all[i] = first[i]
      /\ \A i \in 1 .. Len(rest) : all[Len(first) + i] = rest[i]
  OBVIOUS
<1>2. /\ DOMAIN all = 1 .. Len(all) /\ DOMAIN first = 1 .. Len(first)
      /\ DOMAIN rest = 1 .. Len(rest)
  BY <1>1
<1> HIDE DEF all
<1>3. ASSUME Ahead(first, x, y) PROVE Ahead(all, x, y)
  <2>1. PICK i \in 1 .. Len(first) : first[i] = x /\ \A k \in 1 .. i : first[k] # y
    BY <1>2, <1>3 DEF Ahead
  <2>2. i \in DOMAIN all /\ all[i] = x
    BY <1>1, <1>2, <2>1
  <2>3. ASSUME NEW k \in 1 .. i PROVE all[k] # y
    BY <1>1, <2>1
  <2>4. QED
    BY <2>2, <2>3 DEF Ahead
<1>4. ASSUME y \notin ToSet(first), Ahead(rest, x, y) PROVE Ahead(all, x, y)
  <2>1. PICK i \in 1 .. Len(rest) : rest[i] = x /\ \A k \in 1 .. i : rest[k] # y
    BY <1>2, <1>4 DEF Ahead
  <2>2. Len(first) + i \in DOMAIN all /\ all[Len(first) + i] = x
    BY <1>1, <1>2, <2>1
  <2>3. ASSUME NEW k \in 1 .. Len(first) + i PROVE all[k] # y
    <3>1. CASE k <= Len(first)
      <4>1. k \in 1 .. Len(first)
        BY <1>1, <3>1
      <4>2. QED
        BY <1>1, <1>2, <1>4, <4>1 DEF ToSet
    <3>2. CASE k > Len(first)
      <4>1. k - Len(first) \in 1 .. i /\ k = Len(first) + (k - Len(first))
        BY <1>1, <3>2
      <4>2. k - Len(first) \in 1 .. Len(rest)
        BY <1>1, <2>1, <4>1
      <4>3. all[k] = rest[k - Len(first)]
        BY <1>1, <4>1, <4>2
      <4>4. QED
        BY <2>1, <4>1, <4>3
    <3>3. QED
      BY <1>1, <3>1, <3>2
  <2>4. QED
    BY <2>2, <2>3 DEF Ahead
<1>5. QED
  BY <1>3, <1>4 DEF all

LEMMA AheadEither ==
  ASSUME NEW S, NEW list \in Seq(S), NEW x, NEW y, x # y, y \in ToSet(list)
  PROVE  Ahead(list, x, y) \/ Ahead(list, y, x)
<1> DEFINE T == {i \in 1 .. Len(list) : list[i] = y}
<1>1. T # {} /\ T \subseteq Nat
  BY DEF ToSet
<1>2. PICK i \in T : \A k \in T : i <= k
  BY <1>1, LeastOf
<1>3. i \in 1 .. Len(list) /\ list[i] = y /\ \A k \in 1 .. i : k # i => list[k] # y
  <2>1. ASSUME NEW k \in 1 .. i, k # i PROVE list[k] # y
    <3>1. k \in 1 .. Len(list) /\ ~ (i <= k)
      BY <1>2, <2>1
    <3>2. QED
      BY <1>2, <3>1
  <2>2. QED
    BY <1>2, <2>1
<1>4. CASE \A k \in 1 .. i : list[k] # x
  BY <1>3, <1>4 DEF Ahead
<1>5. CASE \E k \in 1 .. i : list[k] = x
  <2>1. PICK k \in 1 .. i : list[k] = x
    BY <1>5
  <2>2. k \in DOMAIN list /\ \A l \in 1 .. k : l \in 1 .. i /\ l # i
    BY <1>3, <2>1
  <2>3. QED
    BY <1>3, <2>1, <2>2 DEF Ahead
<1>6. QED
  BY <1>4, <1>5
-----------------------------------------------------------------------------
(* The order of the search. *)

(* Nothing found. *)
LEMMA StartOrder ==
  ASSUME NEW list \in Seq(Module), NEW load, StartAdding(list, load)
  PROVE  OrderInv' /\ vec' = <<>>
BY DEF StartAdding, OrderInv

(* The first module of work was found before, or its imports come first. *)
LEMMA AddOrder ==
  ASSUME IInv, OrderInv, Add
  PROVE  OrderInv'
<1> DEFINE m == Head(work)
<1>1. /\ pc = "adding" /\ work # <<>> /\ UNCHANGED <<code, roots>>
      /\ work \in Seq(Module) /\ vec \in Seq(Module) /\ m \in Module
      /\ code \in Code
  BY DEF Add, IInv, TypeOK
<1> SUFFICES ASSUME NEW x \in Module \ ToSet(vec'), NEW y \in Module \ ToSet(vec'), x # y
             PROVE  /\ \A j \in DOMAIN vec' :
                         /\ Ahead(code.importV[vec'[j]], x, y)
                         /\ \A i \in j + 1 .. Len(vec') :
                              y \notin ToSet(code.importV[vec'[i]])
                         => Ahead(work', x, y)
                    /\ /\ Ahead(roots, x, y)
                       /\ \A i \in 1 .. Len(vec') : y \notin ToSet(code.importV[vec'[i]])
                       => Ahead(work', x, y)
  BY <1>1 DEF OrderInv, NotImported
<1>2. ASSUME x \notin ToSet(vec), y \notin ToSet(vec)
      PROVE  /\ \A j \in DOMAIN vec :
                  /\ Ahead(code.importV[vec[j]], x, y)
                  /\ \A i \in j + 1 .. Len(vec) : y \notin ToSet(code.importV[vec[i]])
                  => Ahead(work, x, y)
             /\ /\ Ahead(roots, x, y)
                /\ \A i \in 1 .. Len(vec) : y \notin ToSet(code.importV[vec[i]])
                => Ahead(work, x, y)
  BY <1>1, <1>2 DEF OrderInv, NotImported
<1>3. CASE m \in ToSet(vec)
  <2>1. vec' = vec /\ work' = Tail(work)
    BY <1>3 DEF Add
  <2>2. x # m
    BY <1>3, <2>1
  <2>3. Ahead(work, x, y) => Ahead(work', x, y)
    BY <1>1, <2>1, <2>2, AheadTail
  <2>4. QED
    BY <1>2, <2>1, <2>3
<1>4. CASE m \notin ToSet(vec)
  <2>1. vec' = Append(vec, m) /\ work' = code.importV[m] \o Tail(work)
    BY <1>4 DEF Add, Then
  <2> DEFINE n == Len(vec)
             imp == code.importV[m]
             rest == Tail(work)
  <2>2. /\ n \in Nat /\ Len(vec') = n + 1 /\ DOMAIN vec = 1 .. n /\ DOMAIN vec' = 1 .. n + 1
        /\ vec'[n + 1] = m /\ \A i \in 1 .. n : vec'[i] = vec[i]
        /\ ToSet(vec') = ToSet(vec) \cup {m}
    <3>1. vec' \in Seq(Module) /\ ToSet(vec') = ToSet(vec) \cup {m}
      <4>1. IsInjective(vec)
        BY <1>1 DEF IInv, SearchInv
      <4>2. QED
        BY <1>1, <1>4, <2>1, <4>1, AppendLink
    <3>2. QED
      BY <1>1, <2>1, <3>1
  <2>3. imp \in Seq(Module) /\ rest \in Seq(Module) /\ work' = imp \o rest
    BY <1>1, <2>1, CodeParts
  <2>4. x \notin ToSet(vec) /\ y \notin ToSet(vec) /\ x # m
    BY <2>2
  <2>5. Ahead(work, x, y) => Ahead(rest, x, y)
    BY <1>1, <2>4, AheadTail
  <2> HIDE DEF n, imp, rest, m
  <2>6. /\ Ahead(imp, x, y) => Ahead(work', x, y)
        /\ y \notin ToSet(imp) /\ Ahead(rest, x, y) => Ahead(work', x, y)
    BY <2>3, AheadConcat
  <2>7. ASSUME NEW j \in DOMAIN vec', Ahead(code.importV[vec'[j]], x, y),
               \A i \in j + 1 .. Len(vec') : y \notin ToSet(code.importV[vec'[i]])
        PROVE  Ahead(work', x, y)
    <3>1. CASE j = n + 1
      BY <2>2, <2>6, <2>7, <3>1 DEF imp
    <3>2. CASE j # n + 1
      <4>1. j \in 1 .. n /\ vec'[j] = vec[j] /\ n + 1 \in j + 1 .. Len(vec')
        BY <2>2, <3>2
      <4>2. y \notin ToSet(imp)
        BY <2>2, <2>7, <4>1 DEF imp
      <4>3. \A i \in j + 1 .. Len(vec) : y \notin ToSet(code.importV[vec[i]])
        <5>1. ASSUME NEW i \in j + 1 .. n PROVE i \in j + 1 .. Len(vec') /\ vec'[i] = vec[i]
          BY <2>2, <4>1
        <5>2. QED
          BY <2>7, <5>1 DEF n
      <4>4. Ahead(work, x, y)
        BY <1>2, <2>2, <2>4, <2>7, <4>1, <4>3
      <4>5. QED
        BY <2>5, <2>6, <4>2, <4>4
    <3>3. QED
      BY <3>1, <3>2
  <2>8. ASSUME Ahead(roots, x, y),
               \A i \in 1 .. Len(vec') : y \notin ToSet(code.importV[vec'[i]])
        PROVE  Ahead(work', x, y)
    <3>1. \A i \in 1 .. n : i \in 1 .. Len(vec') /\ vec'[i] = vec[i]
      BY <2>2
    <3>2. n + 1 \in 1 .. Len(vec') /\ vec'[n + 1] = m
      BY <2>2
    <3>3. y \notin ToSet(imp)
      BY <2>8, <3>2 DEF imp
    <3>4. Ahead(work, x, y)
      BY <1>2, <2>4, <2>8, <3>1 DEF n
    <3>5. QED
      BY <2>5, <2>6, <3>3, <3>4
  <2>9. QED
    BY <2>7, <2>8
<1>5. QED
  BY <1>3, <1>4

(* The module that is found next is the first that is left of the imports. *)
LEMMA AddPreordered ==
  ASSUME IInv, OrderInv, Preordered(vec), Add
  PROVE  Preordered(vec)'
<1> DEFINE m == Head(work)
<1>1. /\ pc = "adding" /\ work # <<>> /\ UNCHANGED <<code, roots>>
      /\ work \in Seq(Module) /\ vec \in Seq(Module) /\ m \in Module
      /\ code \in Code
  BY DEF Add, IInv, TypeOK
<1>2. CASE m \in ToSet(vec)
  BY <1>1, <1>2 DEF Add, Preordered, NotImported
<1>3. CASE m \notin ToSet(vec)
  <2>1. vec' = Append(vec, m)
    BY <1>3 DEF Add
  <2> DEFINE n == Len(vec)
  <2>2. /\ n \in Nat /\ DOMAIN vec = 1 .. n /\ DOMAIN vec' = 1 .. n + 1
        /\ vec'[n + 1] = m /\ \A i \in 1 .. n : vec'[i] = vec[i]
        /\ ToSet(vec) = {vec[i] : i \in 1 .. n}
    BY <1>1, <2>1 DEF ToSet
  <2>3. \A k \in 1 .. n : \A y \in Module \ {vec[i] : i \in 1 .. k} :
          \/ \A i \in 1 .. k - 1 : y \notin ToSet(code.importV[vec[i]])
          \/ \E j \in 1 .. k - 1 :
               /\ Ahead(code.importV[vec[j]], vec[k], y)
               /\ \A i \in j + 1 .. k - 1 : y \notin ToSet(code.importV[vec[i]])
    BY <2>2 DEF Preordered, NotImported
  <2>4. \A j \in 1 .. n, x, y \in Module \ ToSet(vec) :
          /\ x # y /\ Ahead(code.importV[vec[j]], x, y)
          /\ \A i \in j + 1 .. n : y \notin ToSet(code.importV[vec[i]])
          => Ahead(work, x, y)
    BY <1>1, <2>2 DEF OrderInv, NotImported
  <2>5. \A i \in 1 .. n : code.importV[vec[i]] \in Seq(Module)
    BY <1>1, <2>2, CodeParts DEF ToSet
  <2> HIDE DEF n, m
  <2> SUFFICES ASSUME NEW k \in 1 .. n + 1, NEW y \in Module \ {vec'[i] : i \in 1 .. k}
               PROVE  \/ \A i \in 1 .. k - 1 : y \notin ToSet(code.importV[vec'[i]])
                      \/ \E j \in 1 .. k - 1 :
                           /\ Ahead(code.importV[vec'[j]], vec'[k], y)
                           /\ \A i \in j + 1 .. k - 1 :
                                y \notin ToSet(code.importV[vec'[i]])
    BY <1>1, <2>2 DEF Preordered, NotImported
  <2>6. /\ \A i \in 1 .. k - 1 : vec'[i] = vec[i]
        /\ \A j \in 1 .. k - 1 : \A i \in j + 1 .. k - 1 : vec'[i] = vec[i]
    BY <2>2
  <2>7. CASE k \in 1 .. n
    <3>1. vec'[k] = vec[k] /\ {vec'[i] : i \in 1 .. k} = {vec[i] : i \in 1 .. k}
      BY <2>2, <2>7
    <3>2. QED
      BY <2>3, <2>6, <2>7, <3>1
  <2>8. CASE k = n + 1
    <3>1. vec'[k] = m /\ k - 1 = n /\ y # m /\ y \notin ToSet(vec)
      BY <2>2, <2>8
    <3> DEFINE T == {j \in 1 .. n : {m, y} \cap ToSet(code.importV[vec[j]]) # {}}
    <3>2. CASE \A i \in 1 .. n : y \notin ToSet(code.importV[vec[i]])
      BY <2>6, <3>1, <3>2
    <3>3. CASE ~ \A i \in 1 .. n : y \notin ToSet(code.importV[vec[i]])
      <4>1. T # {} /\ T \subseteq 0 .. n
        <5>1. PICK i \in 1 .. n : y \in ToSet(code.importV[vec[i]])
          BY <3>3
        <5>2. i \in T
          BY <5>1
        <5>3. \A j \in T : j \in 0 .. n
          BY <2>2
        <5>4. QED
          BY <5>2, <5>3
      <4>2. PICK j \in T : \A i \in T : i <= j
        BY <2>2, <4>1, GreatestOf
      <4>3. /\ j \in 1 .. n
            /\ \A i \in j + 1 .. n : /\ m \notin ToSet(code.importV[vec[i]])
                                     /\ y \notin ToSet(code.importV[vec[i]])
        <5>1. \A i \in j + 1 .. n : i \in 1 .. n /\ ~ (i <= j)
          BY <2>2, <4>2
        <5>2. QED
          BY <4>2, <5>1
      <4>4. Ahead(code.importV[vec[j]], m, y) \/ Ahead(code.importV[vec[j]], y, m)
        <5>1. m \in ToSet(code.importV[vec[j]]) \/ y \in ToSet(code.importV[vec[j]])
          BY <4>2
        <5>2. QED
          BY <2>5, <3>1, <4>3, <5>1, AheadEither
      <4>5. ~ Ahead(code.importV[vec[j]], y, m)
        <5>1. ~ Ahead(work, y, m)
          BY <1>1, AheadHead DEF m
        <5>2. QED
          BY <1>1, <1>3, <2>4, <3>1, <4>3, <5>1
      <4>6. Ahead(code.importV[vec'[j]], vec'[k], y)
        BY <2>2, <3>1, <4>3, <4>4, <4>5
      <4>7. j \in 1 .. k - 1 /\ \A i \in j + 1 .. k - 1 : y \notin ToSet(code.importV[vec'[i]])
        BY <2>6, <3>1, <4>3
      <4>8. QED
        BY <4>6, <4>7
    <3>4. QED
      BY <3>2, <3>3
  <2>9. QED
    BY <2>2, <2>7, <2>8
<1>4. QED
  BY <1>2, <1>3

(* A load finds the modules in the order of the save. *)
LEMMA HeadIsNext ==
  ASSUME IInv, HistInv, OrderInv, KeepInv, pc = "adding", loading,
         work # <<>>, Head(work) \notin ToSet(vec)
  PROVE  /\ Len(vec) + 1 \in DOMAIN saved.modules
         /\ Head(work) = saved.modules[Len(vec) + 1]
<1> DEFINE u == Head(work)
           n == Len(vec)
           list == saved.modules
<1>1. /\ saved # NoSave /\ roots = list /\ Closed(ToSet(list)) /\ IsInjective(list)
      /\ Preordered(list)
      /\ \A i \in DOMAIN vec : i \in DOMAIN list /\ vec[i] = list[i]
  BY DEF IInv, LoadingInv, HistInv, SaveInv, RestoreInv, KeepInv
<1>2. /\ vec \in Seq(Module) /\ work \in Seq(Module) /\ list \in Seq(Module)
      /\ u \in Module /\ u \in ToSet(work) /\ code \in Code
  <2>1. work \in Seq(Module)
    BY DEF IInv, TypeOK
  <2>2. Head(work) \in ToSet(work)
    BY <2>1, TailLink
  <2>3. QED
    BY <1>1, <2>1, <2>2 DEF IInv, TypeOK
<1>3. n \in Nat /\ Len(list) \in Nat /\ DOMAIN vec = 1 .. n /\ DOMAIN list = 1 .. Len(list)
  BY <1>2
<1>4. u \in ToSet(list)
  <2>1. ToSet(list) \subseteq Module
    BY <1>2 DEF ToSet
  <2>2. Reachable = ToSet(list)
    BY <1>1, <2>1, ReachedFromClosed
  <2>3. QED
    BY <1>2, <2>2 DEF IInv, SearchInv
<1>5. PICK p \in 1 .. Len(list) : list[p] = u
  BY <1>3, <1>4 DEF ToSet
<1>6. p > n
  BY <1>1, <1>3, <1>5 DEF ToSet
<1>7. n + 1 \in 1 .. Len(list)
  BY <1>3, <1>5, <1>6
<1> DEFINE x == list[n + 1]
<1>8. /\ x \in Module /\ x \in ToSet(list)
      /\ \A i \in 1 .. n : list[i] # x /\ list[i] # u /\ list[i] = vec[i]
  <2>1. \A i \in 1 .. n : i \in 1 .. Len(list) /\ i # n + 1 /\ i # p
    BY <1>3, <1>6, <1>7
  <2>2. QED
    BY <1>1, <1>2, <1>3, <1>5, <1>7, <2>1 DEF IsInjective, ToSet
<1>9. x \in Module \ ToSet(vec) /\ u \in Module \ ToSet(vec)
  BY <1>2, <1>3, <1>8 DEF ToSet
<1>10. ~ Ahead(work, x, u)
  BY <1>2, AheadHead
<1>11. ASSUME x # u PROVE FALSE
  <2>1. \/ NotImported(list, 1, n, u)
        \/ \E j \in 1 .. n : Ahead(code.importV[list[j]], x, u) /\ NotImported(list, j + 1, n, u)
    <3>1. n + 1 \in DOMAIN list /\ (n + 1) - 1 = n
      BY <1>3, <1>7
    <3>2. \A i \in 1 .. n + 1 : list[i] # u
      BY <1>3, <1>8, <1>11
    <3>3. u \in Module \ {list[i] : i \in 1 .. n + 1}
      BY <1>2, <3>2
    <3>4. QED
      BY <1>1, <3>1, <3>3 DEF Preordered
  <2>2. \A j \in 1 .. n + 1 : NotImported(list, j, n, u) => NotImported(vec, j, n, u)
    BY <1>3, <1>8 DEF NotImported
  <2>3. CASE NotImported(list, 1, n, u)
    <3>1. NotImported(vec, 1, n, u)
      BY <1>3, <2>2, <2>3
    <3>2. Ahead(roots, x, u)
      <4>1. \A i \in 1 .. n + 1 : list[i] # u
        BY <1>3, <1>8, <1>11
      <4>2. QED
        BY <1>1, <1>3, <1>7, <4>1 DEF Ahead
    <3>3. QED
      BY <1>9, <1>10, <1>11, <3>1, <3>2 DEF OrderInv
  <2>4. CASE \E j \in 1 .. n :
               Ahead(code.importV[list[j]], x, u) /\ NotImported(list, j + 1, n, u)
    <3>1. PICK j \in 1 .. n :
            Ahead(code.importV[list[j]], x, u) /\ NotImported(list, j + 1, n, u)
      BY <2>4
    <3>2. j \in DOMAIN vec /\ Ahead(code.importV[vec[j]], x, u) /\ NotImported(vec, j + 1, n, u)
      BY <1>3, <1>8, <2>2, <3>1
    <3>3. QED
      BY <1>9, <1>10, <1>11, <3>2 DEF OrderInv
  <2>5. QED
    BY <2>1, <2>3, <2>4
<1>12. QED
  BY <1>3, <1>7, <1>11

(* A load finds all modules of the save. *)
LEMMA AllFound ==
  ASSUME IInv, HistInv, KeepInv, Build, loading
  PROVE  vec = saved.modules
<1> DEFINE n == Len(vec)
           list == saved.modules
<1>1. /\ saved # NoSave /\ roots = list /\ IsInjective(list) /\ list \in Seq(Module)
      /\ vec \in Seq(Module) /\ pc = "adding" /\ work = <<>>
      /\ \A i \in DOMAIN vec : i \in DOMAIN list /\ vec[i] = list[i]
      /\ ToSet(list) \subseteq ToSet(vec) \cup ToSet(work)
  BY DEF Build, IInv, TypeOK, LoadingInv, SearchInv, HistInv, SaveInv, RestoreInv, KeepInv
<1>2. n \in Nat /\ Len(list) \in Nat /\ DOMAIN vec = 1 .. n /\ DOMAIN list = 1 .. Len(list)
  BY <1>1
<1>3. ASSUME NEW i \in DOMAIN list PROVE i \in DOMAIN vec
  <2>1. list[i] \in ToSet(vec)
    <3>1. list[i] \in ToSet(list)
      BY <1>3 DEF ToSet
    <3>2. ToSet(work) = {}
      BY <1>1 DEF ToSet
    <3>3. QED
      BY <1>1, <3>1, <3>2
  <2>2. PICK k \in DOMAIN vec : vec[k] = list[i]
    BY <2>1 DEF ToSet
  <2>3. k \in DOMAIN list /\ list[k] = list[i]
    BY <1>1, <2>2
  <2>4. QED
    BY <1>1, <1>3, <2>2, <2>3 DEF IsInjective
<1>4. Len(list) = n
  <2>1. n # 0 => n \in 1 .. Len(list)
    BY <1>1, <1>2
  <2>2. Len(list) # 0 => Len(list) \in 1 .. n
    BY <1>2, <1>3
  <2> DEFINE l == Len(list)
  <2>3. n \in Nat /\ l \in Nat /\ (n # 0 => n \in 1 .. l) /\ (l # 0 => l \in 1 .. n)
    BY <1>2, <2>1, <2>2
  <2> HIDE DEF n, l
  <2>4. l = n
    BY <2>3
  <2>5. QED
    BY <2>4 DEF l
<1>5. QED
  BY <1>1, <1>2, <1>4

(* What an import refers to depends on the modules only. *)
LEMMA SameImport ==
  code' = code => \A m, s : Import(m, s)' = Import(m, s)
BY DEF Import, Exports

(* The invariant of LoadKeepsModules. *)
SearchOrder == OrderInv /\ KeepInv /\ LoadKeepsModules

LEMMA InitOrder == Init => SearchOrder
BY DEF Init, SearchOrder, OrderInv, KeepInv, LoadKeepsModules, Preordered

LEMMA NextOrder ==
  IInv /\ HistInv /\ SearchOrder /\ [Next]_vars => SearchOrder'
<1> SUFFICES ASSUME IInv, HistInv, SearchOrder, [Next]_vars PROVE SearchOrder'
  OBVIOUS
<1>1. TypeOK /\ OrderInv /\ KeepInv /\ LoadKeepsModules
  BY DEF IInv, SearchOrder
<1>2. ASSUME UNCHANGED <<code, vec>> PROVE Preordered(vec)'
  BY <1>1, <1>2 DEF KeepInv, Preordered, NotImported
<1>3. ASSUME UNCHANGED <<code, saved, atSave>>
      PROVE  saved' # NoSave =>
               /\ IsInjective(saved.modules)'
               /\ Preordered(saved.modules)'
               /\ atSave.bind' = Binding(saved.modules)'
  <2> SUFFICES ASSUME saved # NoSave
               PROVE  /\ IsInjective(saved.modules)'
                      /\ Preordered(saved.modules)'
                      /\ atSave.bind' = Binding(saved.modules)'
    BY <1>3
  <2>1. /\ IsInjective(saved.modules) /\ Preordered(saved.modules)
        /\ atSave.bind = Binding(saved.modules)
    BY <1>1 DEF KeepInv
  <2>2. Preordered(saved.modules)' /\ IsInjective(saved.modules)'
    BY <1>3, <2>1 DEF Preordered, NotImported, IsInjective
  <2>3. Binding(saved.modules)' = Binding(saved.modules)
    BY <1>3, SameImport DEF Binding
  <2>4. QED
    BY <1>3, <2>1, <2>2, <2>3
<1>4. ASSUME UNCHANGED <<code, vec, bind>>, pc \in {"restore", "ready"}
      PROVE  bind' = Binding(vec)'
  <2>1. bind = Binding(vec)
    BY <1>1, <1>4 DEF KeepInv
  <2>2. Binding(vec)' = Binding(vec)
    BY <1>4, SameImport DEF Binding
  <2>3. QED
    BY <1>4, <2>1, <2>2
<1>5. CASE AddModules \/ LoadState
  <2>1. /\ UNCHANGED <<code, saved, atSave>> /\ pc' = "adding"
        /\ \E list \in Seq(Module) : \E load : StartAdding(list, load)
    <3>1. CASE AddModules
      <4>1. PICK list \in BoundedSeq(Module, MaxRoots) : StartAdding(list, FALSE)
        BY <3>1 DEF AddModules
      <4>2. list \in Seq(Module)
        <5>1. PICK n \in 0 .. MaxRoots : list \in [1 .. n -> Module]
          BY ConstantsAssumption DEF BoundedSeq, SeqOf
        <5>2. QED
          BY <5>1
      <4>3. QED
        BY <3>1, <4>1, <4>2 DEF AddModules, StartAdding
    <3>2. CASE LoadState
      BY <1>1, <3>2 DEF LoadState, StartAdding, TypeOK
    <3>3. QED
      BY <1>5, <3>1, <3>2
  <2>2. OrderInv' /\ vec' = <<>>
    BY <2>1, StartOrder
  <2>3. Preordered(vec)'
    BY <2>2 DEF Preordered
  <2>4. KeepInv' /\ LoadKeepsModules'
    BY <1>3, <2>1, <2>2, <2>3 DEF KeepInv, LoadKeepsModules
  <2>5. QED
    BY <2>2, <2>4 DEF SearchOrder
<1>6. CASE Add
  <2>1. /\ pc = "adding" /\ pc' = "adding" /\ work # <<>>
        /\ UNCHANGED <<code, loading, saved, atSave>>
    BY <1>6 DEF Add
  <2>2. OrderInv' /\ Preordered(vec)'
    BY <1>1, <1>6, AddOrder, AddPreordered DEF KeepInv
  <2>3. ASSUME loading, NEW i \in DOMAIN vec'
        PROVE  i \in DOMAIN saved.modules /\ vec'[i] = saved.modules[i]
    <3>1. \A k \in DOMAIN vec : k \in DOMAIN saved.modules /\ vec[k] = saved.modules[k]
      BY <1>1, <2>1, <2>3 DEF KeepInv
    <3>2. CASE Head(work) \in ToSet(vec)
      BY <1>6, <2>3, <3>1, <3>2 DEF Add
    <3>3. CASE Head(work) \notin ToSet(vec)
      <4>1. vec' = Append(vec, Head(work)) /\ vec \in Seq(Module)
        BY <1>1, <1>6, <3>3 DEF Add, TypeOK
      <4>2. /\ Len(vec) + 1 \in DOMAIN saved.modules
            /\ Head(work) = saved.modules[Len(vec) + 1]
        BY <1>1, <2>1, <2>3, <3>3, HeadIsNext
      <4>3. i \in 1 .. Len(vec) \/ i = Len(vec) + 1
        BY <2>3, <4>1
      <4>4. QED
        BY <3>1, <4>1, <4>2, <4>3
    <3>4. QED
      BY <3>2, <3>3
  <2>4. KeepInv' /\ LoadKeepsModules'
    BY <1>3, <2>1, <2>2, <2>3 DEF KeepInv, LoadKeepsModules
  <2>5. QED
    BY <2>2, <2>4 DEF SearchOrder
<1>7. CASE Build
  <2>1. /\ UNCHANGED <<code, vec, loading, saved, atSave>> /\ pc' = IF loading THEN "restore" ELSE "ready"
        /\ bind' = Binding(vec)'
    BY <1>7, SameImport DEF Build, Binding
  <2>2. KeepInv' /\ OrderInv'
    BY <1>2, <1>3, <2>1 DEF KeepInv, OrderInv
  <2>3. LoadKeepsModules'
    <3>1. CASE loading
      <4>1. vec = saved.modules /\ saved # NoSave /\ saved.modules = atSave.modules
        BY <1>1, <1>7, <3>1, AllFound DEF Build, IInv, LoadingInv, HistInv, SaveInv
      <4>2. atSave.bind' = Binding(saved.modules)'
        BY <1>3, <2>1, <4>1
      <4>3. atSave' = atSave /\ Binding(saved.modules)' = Binding(vec)'
        BY <2>1, <4>1 DEF Binding
      <4>4. QED
        BY <2>1, <4>1, <4>2, <4>3 DEF LoadKeepsModules
    <3>2. CASE ~loading
      BY <1>1, <2>1, <3>2 DEF LoadKeepsModules, TypeOK
    <3>3. QED
      BY <3>1, <3>2
  <2>4. QED
    BY <2>2, <2>3 DEF SearchOrder
<1>8. CASE Assign \/ LoadScopes
  <2>1. /\ UNCHANGED <<code, vec, bind, saved, atSave>>
        /\ pc \in {"restore", "ready"} /\ pc' = "ready"
    BY <1>8 DEF Assign, LoadScopes
  <2>2. QED
    BY <1>2, <1>3, <1>4, <2>1 DEF SearchOrder, OrderInv, KeepInv, LoadKeepsModules
<1>9. CASE Reset
  <2>1. pc' = "free" /\ vec' = <<>> /\ UNCHANGED <<code, saved, atSave>>
    BY <1>9 DEF Reset
  <2>2. Preordered(vec)'
    BY <2>1 DEF Preordered
  <2>3. QED
    BY <1>3, <2>1, <2>2 DEF SearchOrder, OrderInv, KeepInv, LoadKeepsModules
<1>10. CASE SaveState
  <2>1. /\ pc = "ready" /\ UNCHANGED <<code, pc, vec, bind>>
        /\ saved'.modules = vec /\ atSave'.bind = bind
    BY <1>10 DEF SaveState
  <2>2. IsInjective(vec)
    BY <2>1 DEF IInv, AllReached
  <2>3. Preordered(vec)' /\ bind' = Binding(vec)'
    BY <1>2, <1>4, <2>1
  <2>4. /\ IsInjective(saved.modules)' /\ Preordered(saved.modules)'
        /\ atSave.bind' = Binding(saved.modules)'
    BY <2>1, <2>2, <2>3 DEF Preordered, NotImported, IsInjective, Binding
  <2>5. QED
    BY <2>1, <2>3, <2>4 DEF SearchOrder, OrderInv, KeepInv, LoadKeepsModules
<1>11. CASE UNCHANGED vars
  BY <1>1, <1>2, <1>3, <1>4, <1>11
     DEF vars, SearchOrder, OrderInv, KeepInv, LoadKeepsModules, NotImported
<1>12. QED
  BY <1>5, <1>6, <1>7, <1>8, <1>9, <1>10, <1>11 DEF Next

(* A load finds the modules of a save in the order they had, whatever they  *)
(* import, and every variable refers to the one it referred to.             *)
THEOREM LoadFindsModules == Spec => []LoadKeepsModules
<1>1. SearchOrder => LoadKeepsModules
  BY DEF SearchOrder
<1>2. QED
  BY <1>1, InitHist, InitOrder, NextHist, NextOrder, ModulesInvariant, PTL DEF Spec
=============================================================================
