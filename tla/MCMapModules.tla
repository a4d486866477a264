---------------------------- MODULE MCMapModules ----------------------------
(* Instances of MapModules for TLC. *)
EXTENDS MapModules, TLC

CONSTANTS a, b, c, x

Every(S) == [Module -> S]
Plain == {[m \in Module |-> [s \in Slot |-> NoName]]}
Zero  == {[m \in Module |-> [s \in Slot |-> IF s[1] = "arr" THEN NoData ELSE 0]]}

Modules(Imported, Inits, Names, Imports) ==
  {[importV |-> g, initV |-> i, nameV |-> n, impV |-> p] :
     g \in Imported, i \in Inits, n \in Names, p \in Imports}

\* A module that imports itself gets itself; longer cycles cannot be loaded.
Loadable(g) ==
  ~ \E S \in SUBSET Module :
      S # {} /\ \A m \in S : \E n \in ToSet(g[m]) \ {m} : n \in S

\* All graphs with up to two imports of a module and four in all, without
\* variables.
FewImports(g) == MapThenSumSet(LAMBDA m : Len(g[m]), Module) <= 4
AllGraphs ==
  Modules({g \in Every(BoundedSeq(Module, 2)) : Loadable(g) /\ FewImports(g)},
          Zero, Plain, Plain)

\* The module a without imports, with all initial values.
AllValues ==
  Modules(Every({<<>>}),
          {[m \in Module |-> IF m = a THEN v ELSE [s \in Slot |-> Blank(s[1])]] :
             v \in {w \in Vars : \A s \in Slot : w[s] \in Initial(s)}},
          Plain, Plain)

\* The module a imports the register x from b or c, or thinks so.
Named ==
  {[s \in Slot |-> IF s \in S THEN x ELSE NoName] : S \in SUBSET ({"reg"} \X (1 .. RegC))}
SomeGraphs ==
  {(a :> <<c, b>> @@ b :> <<>>     @@ c :> <<b>>),
   (a :> <<b>>    @@ b :> <<b>>    @@ c :> <<b, a>>),
   (a :> <<a, b>> @@ b :> <<c>>    @@ c :> <<>>)}
AllNames ==
  Modules(SomeGraphs, Zero, Every(Named),
          {[m \in Module |-> IF m = a THEN n ELSE [s \in Slot |-> NoName]] : n \in Named})

AllCode == AllGraphs \cup AllNames \cup AllValues

\* Scripts assign variables only where no module imports another, and the map has a.
ValuesOrGraphs ==
  IF \E m \in Module : code.importV[m] # <<>>
    THEN \A m \in DOMAIN val : val[m] = code.initV[m]
    ELSE ToSet(roots) \subseteq {a}
=============================================================================
