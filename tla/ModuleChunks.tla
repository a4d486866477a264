---------------------------- MODULE ModuleChunks ----------------------------
(***************************************************************************)
(* How a module is read: readBytecode and the chunks of an ACSE file       *)
(* (ModuleACS0.cpp, ModuleACSE.cpp), the functions of the environment and  *)
(* the initial values of variables (Init.cpp).                             *)
(*                                                                         *)
(* A file is a record with its header and its chunks in order; a chunk has *)
(* its name, its entries, and whether its size and its strings are right.  *)
(* The file may be cut behind its last chunk, or have bad code.  Strings   *)
(* that a bad chunk interns before it fails are left out.                  *)
(* Operators take and give the environment env: its string table, its      *)
(* functions, its modules, and whether an exception is under way.          *)
(***************************************************************************)
EXTENDS StringTable, FiniteSetsExt, TLC

CONSTANTS
  NoFunc,      \* a null Function
  NoModule,    \* a null Module
  ScriptRegC   \* scriptLocRegC

\* A module before it is read, and after a reset.
Blank ==
  [arrImpV |-> <<>>, arrInitV |-> <<>>, arrNameV |-> <<>>, arrSizeV |-> <<>>,
   funcNameV |-> <<>>, functionV |-> <<>>, importV |-> <<>>, jumpV |-> <<>>,
   regImpV |-> <<>>, regInitV |-> <<>>, regNameV |-> <<>>, scrNameV |-> <<>>,
   scriptV |-> <<>>, stringV |-> <<>>, isACS0 |-> FALSE, loaded |-> FALSE]

NewEnvironment ==
  [tab |-> Empty, byName |-> [k \in {} |-> 0], byIdx |-> <<NoFunc>>,
   func |-> [f \in {} |-> 0], mods |-> [m \in {} |-> Blank], failed |-> FALSE]

\* A function with another value, or with another argument.
Put(f, x, v) == [y \in DOMAIN f \cup {x} |-> IF y = x THEN v ELSE f[y]]

Fail(env) == [env EXCEPT !.failed = TRUE]

Indexes(v) == [i \in DOMAIN v |-> i]

\* v with at least n elements.
Extend(v, n, x) == [i \in 1 .. Max({n, Len(v)}) |-> IF i <= Len(v) THEN v[i] ELSE x]

\* One more than the greatest index of the entries <<index, ...>>.
CountOf(entries) == Max({0} \cup {p[1] + 1 : p \in ToSet(entries)})

\* The entries for the element i.
Listed(entries, i) == {k \in DOMAIN entries : entries[k][1] + 1 = i}

\* An array with the entries <<index, value>>; the last one of an index counts.
Place(entries, x) ==
  [i \in 1 .. CountOf(entries) |->
     LET mine == Listed(entries, i) IN IF mine = {} THEN x ELSE entries[Max(mine)][2]]
-----------------------------------------------------------------------------
(* Functions.  A function is named by its module and its name; one without *)
(* a name by its position.                                                 *)

\* getFunction: keeps the index of a name, and its function if there is one.
GetFunction(env, m, name, i) ==
  LET key   == <<m, name>>
      known == key \in DOMAIN env.byName
      idx   == IF known THEN env.byName[key] ELSE Len(env.byIdx)
      named == IF known THEN env
               ELSE [env EXCEPT !.byName = Put(@, key, idx), !.byIdx = Append(@, NoFunc)]
  IN CASE name = NoString ->
            [env EXCEPT !.func = Put(@, <<m, i>>, [idx |-> 0])]
       [] name # NoString /\ named.byIdx[idx + 1] = NoFunc ->
            [named EXCEPT !.byIdx[idx + 1] = key, !.func = Put(@, key, [idx |-> idx])]
       [] OTHER -> named

FunctionOf(env, m, name, i) ==
  IF name = NoString THEN <<m, i>> ELSE env.byIdx[env.byName[<<m, name>>] + 1]

\* freeFunction: every module forgets the function.
FreeFunctions(env, fs) ==
  LET Forget(v) == [i \in DOMAIN v |-> IF v[i] \in fs THEN NoFunc ELSE v[i]]
  IN [env EXCEPT
        !.mods = [m \in DOMAIN env.mods |-> [env.mods[m] EXCEPT !.functionV = Forget(@)]],
        !.byIdx = [i \in DOMAIN env.byIdx |-> IF \E f \in fs : env.func[f].idx = i - 1
                                             THEN NoFunc ELSE env.byIdx[i]],
        !.func = [f \in DOMAIN env.func \ fs |-> env.func[f]]]

\* Mutant: a module is left as it is.
ResetNothing(env, m) == env

\* Module::reset.
Reset(env, m) ==
  LET own == {f \in ToSet(env.mods[m].functionV) : f # NoFunc /\ f[1] = m}
  IN [FreeFunctions(env, own) EXCEPT !.mods[m] = Blank]
-----------------------------------------------------------------------------
(* Initial values: a value and what it is. *)

Zero == [val |-> 0, tag |-> "Integer"]

SetVals(init, vals) ==
  LET v == Extend(init, Len(vals), Zero)
  IN [i \in DOMAIN v |-> IF i <= Len(vals) THEN [v[i] EXCEPT !.val = vals[i]] ELSE v[i]]

\* Tags that are none of the three do nothing.
SetTags(init, tags) ==
  LET set == {i \in DOMAIN tags : tags[i] \in {"Integer", "String", "Function"}}
      v   == Extend(init, Max({0} \cup set), Zero)
  IN [i \in DOMAIN v |-> IF i \in set THEN [v[i] EXCEPT !.tag = tags[i]] ELSE v[i]]

\* Mutant: a trailing index of the string 0 is taken for a zero.
FinishZeros(init) ==
  SubSeq(init, 1, Max({0} \cup {i \in DOMAIN init : init[i].val # 0}))

\* ArrayInit::finish.
Finish(init) == SubSeq(init, 1, Max({0} \cup {i \in DOMAIN init : init[i] # Zero}))

-----------------------------------------------------------------------------
(* The chunks. *)

Strings(env, m, field, ss) ==
  [env EXCEPT !.tab = InternAll(@, ss), !.mods[m][field] = ss]

\* ARAY: an array takes the name that MEXP gave the variable of its number; an
\* array that is listed again loses it.
Arrays(md, entries) ==
  LET sizes == Place(entries, 0) IN
  [md EXCEPT
     !.arrSizeV = sizes,
     !.arrInitV = [i \in DOMAIN sizes |-> [j \in 1 .. sizes[i] |-> Zero]],
     !.arrNameV = [i \in DOMAIN sizes |->
                     IF Cardinality(Listed(entries, i)) = 1 /\ i \in DOMAIN md.regNameV
                     THEN md.regNameV[i] ELSE NoString],
     !.regNameV = [i \in DOMAIN @ |-> IF Listed(entries, i) = {} THEN @[i] ELSE NoString]]

\* AINI, ATAG and ASTR skip arrays that the module has not.
OnArray(md, idx, Op(_)) ==
  IF idx + 1 \in DOMAIN md.arrInitV THEN [md EXCEPT !.arrInitV[idx + 1] = Op(@)] ELSE md

InitArray(md, d) == OnArray(md, d[1], LAMBDA v : SetVals(v, d[2]))
TagArray(md, d) == OnArray(md, d[1], LAMBDA v : SetTags(v, d[2]))

StringArrays(md, d) ==
  FoldLeft(LAMBDA a, i : OnArray(a, i, LAMBDA v :
             SetTags(v, [j \in 1 .. a.arrSizeV[i + 1] |-> "String"])), md, d)

\* FUNC: an entry without code is an import, if anything.
ReadFunction(m, entries, e, i) ==
  LET names == e.mods[m].funcNameV
      name  == IF i \in DOMAIN names THEN names[i] ELSE NoString
      got   == GetFunction(e, m, name, i)
      f     == FunctionOf(got, m, name, i)
  IN IF entries[i].codeIdx = 0
     THEN [e EXCEPT !.mods[m].functionV = Append(@, NoFunc)]
     ELSE [got EXCEPT !.mods[m].functionV = Append(@, f),
                      !.func[f] = [idx |-> @.idx, locArrC |-> 0, argC |-> entries[i].argC,
                                   codeIdx |-> entries[i].codeIdx]]

Functions(env, m, entries) ==
  FoldLeft(LAMBDA e, i : ReadFunction(m, entries, e, i), env, Indexes(entries))

FunctionArrays(env, m, idx, n) ==
  LET v == env.mods[m].functionV IN
  IF idx + 1 \in DOMAIN v /\ v[idx + 1] # NoFunc
  THEN [env EXCEPT !.func[v[idx + 1]].locArrC = n] ELSE env

\* MINI: the values of the variables from idx on.
Registers(md, idx, vals) ==
  LET v == Extend(md.regInitV, idx + Len(vals), Zero) IN
  [md EXCEPT !.regInitV =
     [i \in DOMAIN v |-> IF i - idx \in DOMAIN vals
                         THEN [val |-> vals[i - idx], tag |-> "Integer"] ELSE v[i]]]

RegisterStrings(md, idxs) ==
  [md EXCEPT !.regInitV =
     [i \in DOMAIN @ |-> IF i - 1 \in ToSet(idxs) THEN [@[i] EXCEPT !.tag = "String"] ELSE @[i]]]

\* SPTR and the script table of ACS0: number ~k is the name k of SNAM.
Script(md, e) ==
  [num |-> e.num, codeIdx |-> e.codeIdx, argC |-> e.argC,
   name |-> IF e.num < 0 /\ -e.num \in DOMAIN md.scrNameV THEN md.scrNameV[-e.num] ELSE NoString,
   locArrC |-> 0, locRegC |-> ScriptRegC, flags |-> 0]

\* SARY, SFLG, SVCT: all scripts of the number.
SetScripts(md, field, entries) ==
  FoldLeft(LAMBDA d, p : [d EXCEPT !.scriptV = [i \in DOMAIN @ |->
             IF @[i].num = p[1] THEN [@[i] EXCEPT ![field] = p[2]] ELSE @[i]]],
           md, entries)

\* AIMP and MIMP: the names of imports, in order of their appearance.
Imports(env, m, field, entries) ==
  [env EXCEPT !.mods[m][field] = Place(entries, NoString),
              !.tab = InternAll(@, [i \in DOMAIN entries |-> entries[i][2]])]

\* The chunk c of the module m, its size and strings being right.
Chunk(env, m, c) ==
  LET d == c.data
      With(md) == [env EXCEPT !.mods[m] = md]
      md == env.mods[m]
  IN CASE c.id = "MEXP" -> Strings(env, m, "regNameV", d)
       [] c.id = "FNAM" -> Strings(env, m, "funcNameV", d)
       [] c.id = "SNAM" -> Strings(env, m, "scrNameV", d)
       [] c.id \in {"STRE", "STRL"} -> Strings(env, m, "stringV", d)
       [] c.id = "ARAY" -> With(Arrays(md, d))
       [] c.id = "AINI" -> With(InitArray(md, d))
       [] c.id = "ATAG" -> With(TagArray(md, d))
       [] c.id = "ASTR" -> With(StringArrays(md, d))
       [] c.id = "FUNC" -> Functions(env, m, d)
       [] c.id = "FARY" -> FunctionArrays(env, m, d[1], d[2])
       [] c.id = "JUMP" -> With([md EXCEPT !.jumpV = d])
       [] c.id = "MINI" -> With(Registers(md, d[1], d[2]))
       [] c.id = "MSTR" -> With(RegisterStrings(md, d))
       [] c.id = "SPTR" -> With([md EXCEPT !.scriptV = [i \in DOMAIN d |-> Script(md, d[i])]])
       [] c.id = "SARY" -> With(SetScripts(md, "locArrC", <<d>>))
       [] c.id = "SFLG" -> With(SetScripts(md, "flags", d))
       [] c.id = "SVCT" -> With(SetScripts(md, "locRegC", d))
       [] c.id = "AIMP" -> Imports(env, m, "arrImpV", d)
       [] c.id = "MIMP" -> Imports(env, m, "regImpV", d)

\* Chunks whose first one ends the search; of the others, all are read.
Once == {"MEXP", "ARAY", "FNAM", "FUNC", "JUMP", "MINI", "SNAM", "SPTR", "STRE",
         "STRL", "LOAD", "AIMP", "MIMP"}

Found(file, id) ==
  LET all == Chosen(file.chunks, LAMBDA c : c.id = id)
  IN IF id \in Once /\ all # <<>> THEN <<all[1]>> ELSE all

\* What a chunk has whose size and strings are right.
ChunkOK(c) ==
  /\ c.id \in {"MEXP", "FNAM", "SNAM", "STRE", "STRL"} => c.data \in Seq(String)
  /\ c.id \in {"AIMP", "MIMP"} => c.data \in Seq(Nat \X String)
  /\ c.id \in {"FUNC", "ASTR", "SFLG", "SVCT"} => c.data \in Seq(ToSet(c.data))

\* A file, as far as chunks tell.
WellFormed(file, modules) ==
  CASE file.head \in {"ACSE", "ACSe"} ->
         /\ file.chunks \in Seq(ToSet(file.chunks))
         /\ \A c \in ToSet(file.chunks) :
              /\ c.ok => ChunkOK(c)
              /\ c.id = "LOAD" => c.data \in Seq(modules)
    [] file.head = "ACS0" -> file.strings \in Seq(String)
    [] OTHER -> file.head \in {"short", "unknown"}

\* chunkIterACSE: a search that comes to the end of a cut file fails.
Pass(env, m, file, id) ==
  LET all  == Found(file, id)
      read == FoldLeft(LAMBDA e, c : IF e.failed THEN e
                                     ELSE IF c.ok THEN Chunk(e, m, c) ELSE Fail(e), env, all)
  IN IF file.cut /\ ~(id \in Once /\ all # <<>>) THEN Fail(read) ELSE read

Passes(env, m, file, ids) ==
  FoldLeft(LAMBDA e, id : IF e.failed THEN e ELSE Pass(e, m, file, id), env, ids)

\* readChunksACSE before LOAD; STRL is read only without STRE.
BeforeLoad(file) ==
  <<"MEXP", "ARAY", "AINI", "FNAM", "FUNC", "FARY", "JUMP", "MINI", "SNAM", "SPTR",
    "SARY", "SFLG", "SVCT">>
  \o (IF Found(file, "STRE") # <<>> THEN <<"STRE">> ELSE <<"STRE", "STRL">>)

AfterLoad == <<"AIMP", "MIMP", "ASTR", "ATAG", "MSTR">>

\* The first function with the name in the modules imported, in order.
Imported(env, m, name) ==
  LET imports == env.mods[m].importV
      Fit(v) == {j \in DOMAIN v : v[j] # NoFunc /\ v[j][2] = name}
      with == {i \in DOMAIN imports :
                 imports[i] # NoModule /\ Fit(env.mods[imports[i]].functionV) # {}}
  IN IF with = {} THEN NoFunc
     ELSE LET v == env.mods[imports[Min(with)]].functionV IN v[Min(Fit(v))]

ImportFunction(m, names, e, i) ==
  IF e.mods[m].functionV[i] = NoFunc /\ i \in DOMAIN names /\ names[i] # NoString
  THEN [e EXCEPT !.mods[m].functionV[i] = Imported(e, m, names[i])] ELSE e

ImportFunctions(env, m) ==
  FoldLeft(LAMBDA e, i : ImportFunction(m, env.mods[m].funcNameV, e, i), env,
           Indexes(env.mods[m].functionV))

\* readBytecode and, of an ACSE file, the chunks before LOAD.
ReadBytecode(env, m, file) ==
  CASE file.head = "short" -> Fail(env)
    [] file.head = "unknown" -> env
    [] file.head = "ACS0" ->
         LET e == [Strings(env, m, "stringV", file.strings) EXCEPT
                     !.mods[m].scriptV = [i \in DOMAIN file.scripts |->
                                            Script(Blank, file.scripts[i])],
                     !.mods[m].isACS0 = TRUE]
         IN IF file.badCode THEN Fail(e) ELSE [e EXCEPT !.mods[m].loaded = TRUE]
    [] file.head \in {"ACSE", "ACSe"} -> Passes(env, m, file, BeforeLoad(file))

\* readChunksACSE behind LOAD, and the code.
ReadRest(env, m, file) ==
  LET e == Passes(ImportFunctions(env, m), m, file, AfterLoad)
  IN IF e.failed \/ file.badCode THEN Fail(e)
     ELSE [e EXCEPT !.mods[m].arrInitV = [i \in DOMAIN @ |-> Finish(@[i])],
                    !.mods[m].loaded = TRUE]
=============================================================================
