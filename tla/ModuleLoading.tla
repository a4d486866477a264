---------------------------- MODULE ModuleLoading ----------------------------
(***************************************************************************)
(* Loading modules, and what strings and functions mean over time: the     *)
(* getModule, collectStrings, saveState and loadState of Environment.cpp.  *)
(*                                                                         *)
(* getModule reads the file of a module and, for the names in its LOAD     *)
(* chunk, calls itself: stack has the calls.  An exception leaves all of   *)
(* them, and each resets its module.                                       *)
(*                                                                         *)
(* A script holds strings and functions by their indexes, in the data      *)
(* stacks, registers and arrays of the VM: memory.  The history variable   *)
(* means tells what the script was given.                                  *)
(*                                                                         *)
(* A load that fails leaves a deferred action behind whose name is gone;   *)
(* nothing is collected or saved then, as the program is undefined.        *)
(***************************************************************************)
EXTENDS ModuleChunks

CONSTANTS
  Module,          \* names of modules, which are strings, too
  FilesOf,         \* the files that the host may give for a module
  Dynamic,         \* strings that scripts make
  Cell,            \* words of memory
  NoMeaning,       \* a word that is neither a string nor a function
  NoAction,        \* no action is deferred
  Dangling,        \* the name of the action was freed
  NoSave,          \* nothing saved yet
  MaxIdx           \* strings and functions in the tables (bound)

ASSUME ModuleAssumption == Module \subseteq String /\ Dynamic \subseteq String

\* Strings, functions, and what is neither, are different things.
ASSUME NamesAssumption ==
  /\ NoMeaning \notin String \cup (String \X String)
  /\ NoFunc \notin String \X (String \cup Nat)
  /\ NoModule \notin Module
  /\ \A s \in String : s \notin Nat /\ s \notin String \X String

\* What the files of a module may be.
ASSUME FileAssumption == \A m \in Module : \A file \in FilesOf[m] : WellFormed(file, Module)

VARIABLES
  env,        \* the string table, the functions and the modules
  stack,      \* the modules being read: the file and the imports left
  memory,     \* words of scripts
  action,     \* name of a deferred action, a pointer
  kept,       \* the words of scopes whose strings the host has locked
  saved,      \* the last save
  restoring,  \* modules that loadState has to load again, before the memory
  means,      \* history: what the words in memory mean
  keptMeans   \* history: what the words in kept mean

vars == <<env, stack, memory, action, kept, saved, restoring, means, keptMeans>>

Zeros == [c \in Cell |-> 0]
Nothing == [c \in Cell |-> NoMeaning]

Init ==
  /\ env = NewEnvironment
  /\ stack = <<>>
  /\ memory = Zeros /\ kept = Zeros
  /\ action = NoAction
  /\ saved = NoSave
  /\ restoring = <<>>
  /\ means = Nothing /\ keptMeans = Nothing

Scripts == <<memory, action, kept, saved, restoring, means, keptMeans>>
-----------------------------------------------------------------------------
(* getModule. *)

IsLoaded(m) == m \in DOMAIN env.mods /\ env.mods[m].loaded

\* A module is created before it is read, and its name is a string.
Created(e, m) ==
  [e EXCEPT !.tab = Intern(@, m),
            !.mods = IF m \in DOMAIN @ THEN @ ELSE Put(@, m, Blank)]

\* The names of LOAD, if there is nothing wrong with it.
LoadOf(file) ==
  IF file.head \in {"ACSE", "ACSe"} /\ Found(file, "LOAD") # <<>>
  THEN Found(file, "LOAD")[1].data ELSE <<>>

BadLoad(file) ==
  /\ file.head \in {"ACSE", "ACSe"}
  /\ IF Found(file, "LOAD") # <<>> THEN ~Found(file, "LOAD")[1].ok ELSE file.cut

\* loadModule and the first part of readBytecode.
Enter(m, onto) ==
  \E file \in FilesOf[m] :
    LET e == ReadBytecode(Created(env, m), m, file)
        r == IF e.failed \/ BadLoad(file) THEN Fail(e)
             ELSE [e EXCEPT !.mods[m].importV = [i \in DOMAIN LoadOf(file) |-> NoModule]]
    IN /\ env' = r
       /\ stack' = Append(onto, [mod |-> m, file |-> file, next |-> 1])

Top == Last(stack)
Name == LoadOf(Top.file)[Top.next]
Importing == stack # <<>> /\ ~env.failed /\ Top.next <= Len(LoadOf(Top.file))

Idle == stack = <<>> /\ restoring = <<>>

\* The host needs a module.
GetModule ==
  /\ Idle
  /\ \E m \in Module : ~IsLoaded(m) /\ Enter(m, <<>>)
  /\ UNCHANGED Scripts

\* The next name in LOAD is the module itself, or one that is loaded.
ImportKnown ==
  /\ Importing
  /\ Name = Top.mod \/ IsLoaded(Name)
  /\ env' = [env EXCEPT !.tab = Intern(@, Name), !.mods[Top.mod].importV[Top.next] = Name]
  /\ stack' = [stack EXCEPT ![Len(stack)].next = @ + 1]
  /\ UNCHANGED Scripts

ImportNew ==
  /\ Importing
  /\ Name # Top.mod /\ ~IsLoaded(Name)
  /\ Enter(Name, [stack EXCEPT ![Len(stack)].next = @ + 1])
  /\ UNCHANGED Scripts

\* The importing module gets the module that is done.
Returned(e) ==
  IF Len(stack) = 1 THEN e
  ELSE LET up == stack[Len(stack) - 1]
       IN [e EXCEPT !.mods[up.mod].importV[up.next - 1] = Top.mod]

\* The end of readBytecode, and the return of getModule.  A file of an unknown
\* kind leaves the module as it is.
Read ==
  /\ stack # <<>> /\ ~env.failed /\ ~Importing
  /\ LET e == IF Top.file.head \in {"ACSE", "ACSe"}
              THEN ReadRest(env, Top.mod, Top.file) ELSE env
     IN IF e.failed THEN env' = e /\ UNCHANGED stack
        ELSE env' = Returned(e) /\ stack' = Front(stack)
  /\ UNCHANGED Scripts

\* The exception leaves readBytecode.
Unwind ==
  /\ stack # <<>> /\ env.failed
  /\ env' = [Reset(env, Top.mod) EXCEPT !.failed = Len(stack) > 1]
  /\ stack' = Front(stack)
  /\ restoring' = IF Len(stack) > 1 THEN restoring ELSE <<>>
  /\ UNCHANGED <<memory, action, kept, saved, means, keptMeans>>

Loading == ImportKnown \/ ImportNew \/ Read \/ Unwind
-----------------------------------------------------------------------------
(* Scripts. *)

SetCell(c, word, meaning) ==
  /\ memory' = [memory EXCEPT ![c] = word]
  /\ means' = [means EXCEPT ![c] = meaning]

\* Pstr_Stk.
PushString ==
  /\ Idle
  /\ \E c \in Cell, m \in DOMAIN env.mods : \E s \in ToSet(env.mods[m].stringV) :
       SetCell(c, WordOf(env.tab, s), s)
  /\ UNCHANGED <<env, stack, action, kept, saved, restoring, keptMeans>>

\* PrintEndStr and the like.
MakeString ==
  /\ Idle
  /\ \E c \in Cell, s \in Dynamic :
       LET t == Intern(env.tab, s) IN
       /\ env' = [env EXCEPT !.tab = t]
       /\ SetCell(c, WordOf(t, s), s)
  /\ UNCHANGED <<stack, action, kept, saved, restoring, keptMeans>>

\* Pfun_Lit.  Index 0 is no function.
PushFunction ==
  /\ Idle
  /\ \E c \in Cell, m \in DOMAIN env.mods : \E f \in ToSet(env.mods[m].functionV) \ {NoFunc} :
       SetCell(c, env.func[f].idx, IF env.func[f].idx = 0 THEN NoMeaning ELSE f)
  /\ UNCHANGED <<env, stack, action, kept, saved, restoring, keptMeans>>

\* A named script of another map is started; the name is a valid string.
Defer ==
  /\ Idle
  /\ action = NoAction
  /\ \E c \in Cell : GetString(env.tab, memory[c]) # NoString
                     /\ action' = GetString(env.tab, memory[c])
  /\ UNCHANGED <<env, stack, memory, kept, saved, restoring, means, keptMeans>>

Apply ==
  /\ Idle
  /\ action # NoAction
  /\ action' = NoAction
  /\ UNCHANGED <<env, stack, memory, kept, saved, restoring, means, keptMeans>>

WordsOf(words) == {GetString(env.tab, words[c]) : c \in Cell} \ {NoString}

\* lockStrings of the scopes.
Keep ==
  /\ Idle
  /\ kept = Zeros
  /\ kept' = memory /\ keptMeans' = means
  /\ env' = [env EXCEPT !.tab = AddLocks(@, SetToSeq(WordsOf(memory)), 1)]
  /\ UNCHANGED <<stack, memory, action, saved, restoring, means>>

\* The words come back, and unlockStrings of the scopes.
Return ==
  /\ Idle
  /\ kept # Zeros
  /\ memory' = kept /\ means' = keptMeans
  /\ kept' = Zeros /\ keptMeans' = Nothing
  /\ env' = [env EXCEPT !.tab = AddLocks(@, SetToSeq(WordsOf(kept)), -1)]
  /\ UNCHANGED <<stack, action, saved, restoring>>
-----------------------------------------------------------------------------
(* Strings that are in use. *)

Named(v) == ToSet(v) \ {NoString}

\* Module::refStrings.
ModuleStrings(m) ==
  LET md == env.mods[m] IN
  {m} \cup Named(md.arrImpV) \cup Named(md.arrNameV) \cup Named(md.funcNameV)
      \cup Named(md.regImpV) \cup Named(md.regNameV) \cup Named(md.scrNameV)
      \cup Named(md.stringV) \cup Named([i \in DOMAIN md.scriptV |-> md.scriptV[i].name])
      \cup {f[2] : f \in {g \in ToSet(md.functionV) : g # NoFunc /\ g[2] \in String}}

KeyStrings == UNION {{k[1], k[2]} : k \in DOMAIN env.byName}

\* Environment::refStrings.
RefStrings ==
  (UNION {ModuleStrings(m) : m \in DOMAIN env.mods}) \cup KeyStrings
    \cup WordsOf(memory) \cup ({action} \ {NoAction})

CollectStrings ==
  /\ Idle
  /\ action # Dangling
  /\ env' = [env EXCEPT !.tab = Collect(@, SetToSeq(Unused(@, RefStrings)))]
  /\ UNCHANGED <<stack, memory, action, kept, saved, restoring, means, keptMeans>>
-----------------------------------------------------------------------------
(* Saves and loads. *)

\* Pointers are saved as indexes.  What the host has locked, it saves, too.
SaveState ==
  /\ Idle
  /\ action # Dangling
  /\ saved' = [tab    |-> Saved(env.tab),
               byName |-> {<<IdxOf(env.tab, k[1]), IdxOf(env.tab, k[2]), env.byName[k]>> :
                             k \in DOMAIN env.byName},
               size   |-> Len(env.byIdx),
               mods   |-> {IdxOf(env.tab, m) : m \in {n \in DOMAIN env.mods : env.mods[n].loaded}},
               memory |-> memory, kept |-> kept,
               action |-> IF action = NoAction THEN NoAction ELSE IdxOf(env.tab, action),
               means  |-> means, keptMeans |-> keptMeans]
  /\ UNCHANGED <<env, stack, memory, action, kept, restoring, means, keptMeans>>

\* Mutant: modules keep their strings, which the new table may not have.
ResetStringsKeys(tab) ==
  InternAll(tab, SetToSeq(KeyStrings \cup {m : m \in DOMAIN env.mods}))

\* loadStringTable: the strings in use are interned in the table of the save.
\* One order of the hash tables stands for all.
ResetStrings(tab) ==
  InternAll(tab, SetToSeq(KeyStrings \cup (UNION {ModuleStrings(m) : m \in DOMAIN env.mods})))

\* Mutant: functions keep their indexes.
LoadFunctionsKeep(e, sv) ==
  [e EXCEPT !.byName = [k \in {<<At(e.tab, r[1]), At(e.tab, r[2])>> : r \in sv.byName} |->
                          (CHOOSE r \in sv.byName : k = <<At(e.tab, r[1]), At(e.tab, r[2])>>)[3]],
            !.byIdx = [i \in 1 .. Max({sv.size, Len(@)}) |-> IF i <= Len(@) THEN @[i] ELSE NoFunc]]

\* loadFunctions: the functions that are there get the indexes of the save,
\* those that it has not get index 0; the last one for an index is in the table.
LoadFunctions(e, sv) ==
  LET KeyOf(r) == <<At(e.tab, r[1]), At(e.tab, r[2])>>
      byName == [k \in {KeyOf(r) : r \in sv.byName} |->
                   (CHOOSE r \in sv.byName : KeyOf(r) = k)[3]]
      old == ToSet(e.byIdx) \ {NoFunc}
      NewIdx(f) == IF f \in DOMAIN byName THEN byName[f] ELSE 0
  IN [e EXCEPT
        !.byName = byName,
        !.byIdx = [i \in 1 .. sv.size |->
                     LET mine == {j \in DOMAIN e.byIdx :
                                    e.byIdx[j] # NoFunc /\ NewIdx(e.byIdx[j]) + 1 = i}
                     IN IF mine = {} THEN NoFunc ELSE e.byIdx[Max(mine)]],
        !.func = [f \in DOMAIN @ |-> IF f \in old THEN [@[f] EXCEPT !.idx = NewIdx(f)]
                                     ELSE @[f]]]

\* loadState up to the scopes, which are freed.  The action stays until the end
\* of the load, but not the table of its name.
LoadState ==
  /\ Idle
  /\ saved # NoSave
  /\ env' = LoadFunctions([env EXCEPT !.tab = ResetStrings(Loaded(saved.tab))], saved)
  /\ memory' = Zeros /\ means' = Nothing
  /\ kept' = saved.kept /\ keptMeans' = saved.keptMeans
  /\ action' = IF action = NoAction THEN NoAction ELSE Dangling
  /\ restoring' = SetToSeq({At(Loaded(saved.tab), i) : i \in saved.mods}) \o <<NoModule>>
  /\ UNCHANGED <<stack, saved>>

\* The program ends, and a new one starts.
Restart ==
  /\ Idle
  /\ env' = NewEnvironment
  /\ memory' = Zeros /\ means' = Nothing
  /\ kept' = Zeros /\ keptMeans' = Nothing
  /\ action' = NoAction
  /\ UNCHANGED <<stack, saved, restoring>>

\* loadModules of the scopes.
LoadModule ==
  /\ stack = <<>> /\ restoring # <<>> /\ Head(restoring) # NoModule
  /\ IF IsLoaded(Head(restoring)) THEN UNCHANGED <<env, stack>>
     ELSE Enter(Head(restoring), <<>>)
  /\ restoring' = Tail(restoring)
  /\ UNCHANGED <<memory, action, kept, saved, means, keptMeans>>

\* The words of the scopes, and the actions.
LoadScopes ==
  /\ stack = <<>> /\ restoring = <<NoModule>>
  /\ restoring' = <<>>
  /\ memory' = saved.memory /\ means' = saved.means
  /\ action' = IF saved.action = NoAction THEN NoAction ELSE At(env.tab, saved.action)
  /\ UNCHANGED <<env, stack, kept, saved, keptMeans>>
-----------------------------------------------------------------------------
Next == \/ GetModule \/ Loading \/ PushString \/ MakeString \/ PushFunction
        \/ Defer \/ Apply \/ Keep \/ Return \/ CollectStrings
        \/ SaveState \/ LoadState \/ Restart \/ LoadModule \/ LoadScopes

Spec == Init /\ [][Next]_vars

\* Bound of the model.
Bounded == Len(env.tab.byIdx) <= MaxIdx /\ Len(env.byIdx) <= MaxIdx
-----------------------------------------------------------------------------
SameString(word, meaning) == meaning \in String => GetString(env.tab, word) = meaning

(***************************************************************************)
(* What a script holds as a string stays the string that it was, when      *)
(* strings are collected, and when the state is saved and loaded, by this  *)
(* program or another, with other modules loaded in between; also what the *)
(* host has locked and put aside.                                          *)
(***************************************************************************)
StringsMean ==
  \A c \in Cell : /\ SameString(memory[c], means[c])
                  /\ SameString(kept[c], keptMeans[c])

(***************************************************************************)
(* What a script holds as a function is never another function: it is that *)
(* one, or none if its module is not loaded.                               *)
(***************************************************************************)
FunctionsMean ==
  \A c \in Cell : means[c] \in DOMAIN env.byName =>
    /\ memory[c] + 1 \in DOMAIN env.byIdx
    /\ env.byIdx[memory[c] + 1] \in {NoFunc, means[c]}

(***************************************************************************)
(* No module and no name of a function points to a string that was freed,  *)
(* and no module to a function that was freed: not after an exception left *)
(* half of the modules read, and not after a load replaced the table.      *)
(***************************************************************************)
NothingDangles ==
  /\ KeyStrings \subseteq Live(env.tab)
  /\ \A m \in DOMAIN env.mods :
       /\ ModuleStrings(m) \subseteq Live(env.tab)
       /\ ToSet(env.mods[m].functionV) \subseteq DOMAIN env.func \cup {NoFunc}

(***************************************************************************)
(* A module is loaded, is being read, or is blank: whatever failed, it can *)
(* be read again.                                                          *)
(***************************************************************************)
LoadedOrBlank ==
  \A m \in DOMAIN env.mods :
    \/ env.mods[m].loaded
    \/ m \in {stack[i].mod : i \in DOMAIN stack}
    \/ env.mods[m] = Blank

(***************************************************************************)
(* A string is locked as long as the host has it put aside, and no longer. *)
(***************************************************************************)
LocksMatch ==
  \A s \in String : env.tab.lock[s] = IF s \in WordsOf(kept) THEN 1 ELSE 0

Entries(file, id) == IF Found(file, id) = <<>> THEN <<>> ELSE Found(file, id)[1].data

\* What the chunks say, in terms of the module and not of their order.
Written(file, md, mods) ==
  LET names  == Entries(file, "MEXP")
      arrays == {p[1] + 1 : p \in ToSet(Entries(file, "ARAY"))}
      texts  == IF Found(file, "ASTR") = <<>> THEN {} ELSE ToSet(Found(file, "ASTR")[1].data)
      funcs  == Entries(file, "FUNC")
      named  == Entries(file, "FNAM")
  IN /\ \A i \in DOMAIN names :
          IF i \in arrays THEN md.arrNameV[i] = names[i] /\ md.regNameV[i] = NoString
          ELSE md.regNameV[i] = names[i]
     /\ \A i \in texts : i + 1 \in arrays => \A j \in 1 .. md.arrSizeV[i + 1] :
          j \in DOMAIN md.arrInitV[i + 1] /\ md.arrInitV[i + 1][j].tag = "String"
     /\ \A i \in DOMAIN funcs :
          LET others == (UNION {ToSet(mods[n].functionV) : n \in ToSet(md.importV)}) \ {NoFunc}
          IN IF funcs[i].codeIdx # 0 THEN md.functionV[i] # NoFunc
             ELSE IF i \in DOMAIN named /\ \E f \in others : f[2] = named[i]
                  THEN md.functionV[i] \in others /\ md.functionV[i][2] = named[i]
                  ELSE md.functionV[i] = NoFunc

(***************************************************************************)
(* A module that is loaded is what its file says: a name of MEXP is that   *)
(* of an array if ARAY has its number and else that of a register, all     *)
(* elements of an array in ASTR are strings, and a function without code   *)
(* is the one of its name of an imported module, if any has it.            *)
(***************************************************************************)
LoadedAsWritten ==
  [][\A m \in DOMAIN env'.mods :
       env'.mods[m].loaded /\ ~IsLoaded(m) /\ stack # <<>> /\ Top.mod = m
         => env'.mods[m].isACS0 \/ Written(Top.file, env'.mods[m], env'.mods)]_vars
-----------------------------------------------------------------------------
(* The inductive invariant. *)

(***************************************************************************)
(* A table has every string once, and no index of a string is free.        *)
(***************************************************************************)
TabOK(t) ==
  /\ DOMAIN t = DOMAIN Empty
  /\ t.byIdx \in Seq(String \cup {NoString}) /\ t.free \in Seq(Nat) /\ t.lock \in [String -> Int]
  /\ \A i, j \in DOMAIN t.byIdx : t.byIdx[i] = t.byIdx[j] /\ t.byIdx[i] # NoString => i = j
  /\ \A k \in DOMAIN t.free :
       t.free[k] + 1 \in DOMAIN t.byIdx /\ t.byIdx[t.free[k] + 1] = NoString
  /\ \A k, l \in DOMAIN t.free : t.free[k] = t.free[l] => k = l

\* Every string of t has its index in u, too, and its locks.
Grown(t, u) ==
  /\ \A i \in DOMAIN t.byIdx :
       t.byIdx[i] # NoString => i \in DOMAIN u.byIdx /\ u.byIdx[i] = t.byIdx[i]
  /\ u.lock = t.lock

\* The strings of v are in L.
Among(v, L) == \A i \in DOMAIN v : v[i] \in L \cup {NoString}

\* A module, L being the strings, F the functions and M the modules there are.
NameFields == {"arrImpV", "arrNameV", "funcNameV", "regImpV", "regNameV", "scrNameV"}

ModOK(md, L, F, M) ==
  /\ DOMAIN md = DOMAIN Blank
  /\ md.loaded \in BOOLEAN
  /\ \A field \in NameFields : Among(md[field], L)
  /\ ToSet(md.stringV) \subseteq L
  /\ \A i \in DOMAIN md.scriptV : LET script == md.scriptV[i] IN
       "name" \in DOMAIN script /\ script.name \in L \cup {NoString}
  /\ md.functionV \in Seq(F \cup {NoFunc})
  /\ md.importV \in Seq(M \cup {NoModule})

\* Indexes of functions by name.
NamesOK(byName, n, L) ==
  /\ DOMAIN byName \subseteq L \X L
  /\ \A k \in DOMAIN byName : byName[k] \in 1 .. n - 1
  /\ \A k, l \in DOMAIN byName : byName[k] = byName[l] => k = l

(***************************************************************************)
(* A function that has an index is in the table there and has that index   *)
(* by its name; what is in the table is there.  A function belongs to a    *)
(* module that has it, and one of a module that is not loaded, or that is  *)
(* being read, has the index of its name: only modules loaded before a     *)
(* load have functions that the save does not know.                        *)
(***************************************************************************)
FuncOK(e, reading) ==
  /\ DOMAIN e.func \subseteq Module \X (Live(e.tab) \cup Nat)
  /\ e.byIdx \in Seq(DOMAIN e.func \cup {NoFunc}) /\ e.byIdx # <<>>
  /\ \A i \in DOMAIN e.byIdx : e.byIdx[i] # NoFunc => e.func[e.byIdx[i]].idx = i - 1
  /\ \A f \in DOMAIN e.func :
       /\ "idx" \in DOMAIN e.func[f] /\ e.func[f].idx \in Nat
       /\ e.func[f].idx # 0 =>
            /\ f \in DOMAIN e.byName /\ e.byName[f] = e.func[f].idx
            /\ e.byIdx[e.func[f].idx + 1] = f
       /\ f[1] \in DOMAIN e.mods /\ f \in ToSet(e.mods[f[1]].functionV)
       /\ f[2] \in String /\ (f[1] \in reading \/ ~e.mods[f[1]].loaded) => e.func[f].idx # 0

EnvOK(e, reading) ==
  /\ DOMAIN e = DOMAIN NewEnvironment
  /\ e.failed \in BOOLEAN
  /\ TabOK(e.tab)
  /\ NamesOK(e.byName, Len(e.byIdx), Live(e.tab))
  /\ FuncOK(e, reading)
  /\ DOMAIN e.mods \subseteq Module \cap Live(e.tab)
  /\ \A m \in DOMAIN e.mods :
       ModOK(e.mods[m], Live(e.tab), DOMAIN e.func, DOMAIN e.mods)

\* Words, and what they mean: only strings have words below 0.
Means(tab, byName, words, meanings) ==
  /\ words \in [Cell -> Int] /\ DOMAIN meanings = Cell
  /\ \A c \in Cell :
       LET w == words[c] s == meanings[c] IN
       \/ s \in String /\ GetString(tab, w) = s
       \/ s = NoMeaning /\ w >= 0
       \/ s \in DOMAIN byName /\ byName[s] = w

\* The names in a save.
NamesOf(sv) ==
  LET KeyOf(r) == <<At(Loaded(sv.tab), r[1]), At(Loaded(sv.tab), r[2])>>
  IN [k \in {KeyOf(r) : r \in sv.byName} |-> (CHOOSE r \in sv.byName : KeyOf(r) = k)[3]]

LocksOf(tab, words) ==
  \A s \in String :
    tab.lock[s] = IF s \in {GetString(tab, words[c]) : c \in Cell} THEN 1 ELSE 0

SavedOK(sv) ==
  /\ TabOK(Loaded(sv.tab))
  /\ LocksOf(Loaded(sv.tab), sv.kept)
  /\ sv.size \in Nat \ {0} /\ NamesOK(NamesOf(sv), sv.size, Live(Loaded(sv.tab)))
  /\ \A i \in sv.mods : At(Loaded(sv.tab), i) \in Module
  /\ Means(Loaded(sv.tab), NamesOf(sv), sv.memory, sv.means)
  /\ Means(Loaded(sv.tab), NamesOf(sv), sv.kept, sv.keptMeans)

ACSE == {"ACSE", "ACSe"}
Reading == {stack[i].mod : i \in DOMAIN stack}

\* The calls of getModule.  All but the innermost read an ACSE file; a module
\* whose file has no chunks is done, or as it was.
StackOK ==
  /\ stack \in Seq([mod : Module, file : UNION {FilesOf[m] : m \in Module}, next : Nat \ {0}])
  /\ Reading \subseteq DOMAIN env.mods
  /\ stack = <<>> => ~env.failed
  /\ \A i \in 1 .. Len(stack) - 1 : stack[i].file.head \in ACSE
  /\ stack # <<>> /\ ~env.failed /\ Top.file.head \notin ACSE =>
       \/ env.mods[Top.mod].loaded \/ env.mods[Top.mod] = Blank
       \/ \E i \in 1 .. Len(stack) - 1 : stack[i].mod = Top.mod

\* While modules are loaded again, the save can still be read.
RestoringOK ==
  /\ restoring \in Seq(Module \cup {NoModule})
  /\ restoring # <<>> =>
       /\ saved # NoSave /\ Grown(Loaded(saved.tab), env.tab)
       /\ \A k \in DOMAIN NamesOf(saved) :
            k \in DOMAIN env.byName /\ env.byName[k] = NamesOf(saved)[k]

IInv ==
  /\ EnvOK(env, Reading)
  /\ StackOK
  /\ LoadedOrBlank
  /\ LocksMatch
  /\ Means(env.tab, env.byName, memory, means)
  /\ Means(env.tab, env.byName, kept, keptMeans)
  /\ saved # NoSave => SavedOK(saved)
  /\ RestoringOK
=============================================================================
