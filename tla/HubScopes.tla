----------------------------- MODULE HubScopes -----------------------------
(***************************************************************************)
(* The tree of scopes of the ACS virtual machine and the journey of a game *)
(* through it: Executor (HelionACS.cpp), Environment, and GlobalScope,     *)
(* HubScope and MapScope (Scope.cpp).                                      *)
(*                                                                         *)
(* A game is in one map of one hub.  The maps of a hub that were visited   *)
(* keep their variables and threads, inactive; leaving the hub resets all  *)
(* of it.  A call for a script of another map is deferred: the action is   *)
(* queued in the environment, and each tic hands it down to the global,    *)
(* hub and map scope it is for, as far as these are active.                *)
(*                                                                         *)
(* Calls for a script of the current map take effect at once: they and the *)
(* actions a map applies are the subject of ScriptThreads.  Here a map is  *)
(* its variables (the registers of its modules, and by extension all that  *)
(* addModules creates and reset deletes).                                  *)
(***************************************************************************)
EXTENDS Naturals, SequencesExt, FiniteSetsExt

CONSTANTS
  Hub,         \* hub ids
  Map,         \* map ids
  LoneHub,     \* hub id 0: a hub that every LoadHubMap starts anew
  NoHub,       \* null HubScope pointer
  NoMap,       \* null MapScope pointer
  Name,        \* what a deferred action asks for
  NoSave,      \* nothing saved yet
  MaxPending,  \* most actions not yet delivered (bound)
  MaxVal       \* greatest value of a variable (bound)

ASSUME ConstantsAssumption ==
  /\ LoneHub \in Hub
  /\ NoHub \notin Hub
  /\ NoMap \notin Map
  /\ MaxPending \in Nat
  /\ MaxVal \in Nat

MapId  == Hub \X Map        \* a map scope: its hub and its id
NoId   == <<NoHub, NoMap>>
Action == [to : MapId, name : Name]
Val    == 0 .. MaxVal

VARIABLES
  envAction, globalAction,  \* scriptAction of Environment and GlobalScope
  hubAction, mapAction,     \* scriptAction of every HubScope and MapScope
  globalActive, hubActive, mapActive,
  hasModules,               \* the maps that addModules was called for
  globalReg, hubReg, mapReg,
  current,                  \* currentHubScope and currentMapScope
  pc,                       \* where control is
  pos,                      \* position in the list that is being handed down
  at,                       \* the hub and the map whose exec is running
  hubDue, mapDue,           \* scopes the exec of their parent has still to run
  saved                     \* the last save

lists   == <<envAction, globalAction, hubAction, mapAction>>
flags   == <<globalActive, hubActive, mapActive, hasModules>>
regs    == <<globalReg, hubReg, mapReg>>
control == <<pc, pos, at, hubDue, mapDue>>
vars    == <<lists, flags, regs, current, control, saved>>

(***************************************************************************)
(* Where control is: with the host; in the delegation loop of Environment, *)
(* GlobalScope or HubScope; in the loop of a GlobalScope over its hubs or  *)
(* of a HubScope over its maps; in the actions or threads of a map.        *)
(***************************************************************************)
Place == {"host", "env", "global", "hubs", "hub", "maps", "actions", "scripts"}

Init ==
  /\ envAction = <<>>
  /\ globalAction = <<>>
  /\ hubAction = [h \in Hub |-> <<>>]
  /\ mapAction = [m \in MapId |-> <<>>]
  /\ globalActive = FALSE
  /\ hubActive = [h \in Hub |-> FALSE]
  /\ mapActive = [m \in MapId |-> FALSE]
  /\ hasModules = [m \in MapId |-> FALSE]
  /\ globalReg = 0
  /\ hubReg = [h \in Hub |-> 0]
  /\ mapReg = [m \in MapId |-> 0]
  /\ current = NoId
  /\ pc = "host" /\ pos = 1 /\ at = NoId /\ hubDue = {} /\ mapDue = {}
  /\ saved = NoSave
-----------------------------------------------------------------------------
(* LoadHubMap. *)

\* The current hub is left, or is the lone one: it is reset.
Leaves(h) == current # NoId /\ (h = LoneHub \/ current[1] # h)

Resets(m, h) == Leaves(m[1]) /\ h = current[1]

\* Mutant: the map that is left for another of its hub stays active.
IsActiveKeepsOld(m, n) == n = m \/ (mapActive[n] /\ ~ Resets(m, n[1]))

\* Mutant: only a map that is new is made active.
IsActiveNewOnly(m, n) ==
  (n = m /\ ~ hasModules[n]) \/ (mapActive[n] /\ n # current /\ ~ Resets(m, n[1]))

\* LoadHubMap(m) leaves the map n active.
IsActive(m, n) == n = m \/ (mapActive[n] /\ n # current /\ ~ Resets(m, n[1]))

\* LoadHubMap(m) adds modules to the map n, with their variables.
AddsModules(m, n) == n = m /\ ~ hasModules[n]

\* LoadHubMap of the map m.  The host names at least one module, and none of
\* its callbacks calls back.  The maps of a hub that is reset are freed: they
\* have no modules, actions or threads when their hub is entered again.
LoadHubMap(m) ==
  /\ pc = "host"
  /\ ~ (m[1] # LoneHub /\ current = m)
  /\ globalActive' = TRUE
  /\ current' = m
  /\ hubActive' = [h \in Hub |-> h = m[1] \/ (hubActive[h] /\ ~ Resets(m, h))]
  /\ hubAction' = [h \in Hub |-> IF Resets(m, h) THEN <<>> ELSE hubAction[h]]
  /\ hubReg'    = [h \in Hub |-> IF Resets(m, h) THEN 0 ELSE hubReg[h]]
  /\ mapActive' = [n \in MapId |-> IsActive(m, n)]
  /\ mapAction' = [n \in MapId |-> IF Resets(m, n[1]) THEN <<>> ELSE mapAction[n]]
  /\ hasModules' = [n \in MapId |-> n = m \/ (hasModules[n] /\ ~ Resets(m, n[1]))]
  /\ mapReg' = [n \in MapId |->
       IF Resets(m, n[1]) \/ AddsModules(m, n) THEN 0 ELSE mapReg[n]]
  /\ UNCHANGED <<envAction, globalAction, globalReg, control, saved>>
-----------------------------------------------------------------------------
(* Deferred actions and variables. *)

Pending == Len(envAction) + Len(globalAction)
             + MapThenSumSet(LAMBDA h : Len(hubAction[h]), Hub)

Defer(a) == Pending < MaxPending /\ envAction' = Append(envAction, a)

\* ScriptStart, ScriptStartForced, ScriptStop and ScriptPause of Executor for
\* a map other than the current one; they do nothing when there is none.
HostDefers ==
  /\ pc = "host"
  /\ current # NoId
  /\ \E m \in MapId \ {current}, n \in Name : Defer([to |-> m, name |-> n])
  /\ UNCHANGED <<globalAction, hubAction, mapAction, flags, regs, current, control, saved>>

\* The same calls of a script.  getScopeID takes the number of a map of the
\* current hub; the script's own map is that of its thread.
ScriptDefers ==
  /\ pc = "scripts"
  /\ \E m \in Map, n \in Name :
       /\ <<current[1], m>> # at
       /\ Defer([to |-> <<current[1], m>>, name |-> n])
  /\ UNCHANGED <<globalAction, hubAction, mapAction, flags, regs, current, control, saved>>

\* A script assigns a global, hub or map variable.
ScriptAssigns ==
  /\ pc = "scripts"
  /\ \E v \in Val :
       \/ globalReg' = v /\ UNCHANGED <<hubReg, mapReg>>
       \/ hubReg' = [hubReg EXCEPT ![at[1]] = v] /\ UNCHANGED <<globalReg, mapReg>>
       \/ mapReg' = [mapReg EXCEPT ![at] = v] /\ UNCHANGED <<globalReg, hubReg>>
  /\ UNCHANGED <<lists, flags, current, control, saved>>
-----------------------------------------------------------------------------
(* A tic: Environment::exec and the exec of the scopes below. *)

BeginTic ==
  /\ pc = "host"
  /\ pc' = "env"
  /\ UNCHANGED <<lists, flags, regs, current, pos, at, hubDue, mapDue, saved>>

\* Mutant: the iterator goes one back when its object is relinked.
DelegateBack(list, goes, done) ==
  IF pos <= Len(list)
  THEN pc' = pc /\ pos' = IF goes THEN pos - 1 ELSE pos + 1
  ELSE pc' = done /\ pos' = 1

\* Mutant: the iterator is advanced after its object was relinked.
DelegateSkips(list, goes, done) ==
  IF pos <= Len(list)
  THEN pc' = pc /\ pos' = pos + 1
  ELSE pc' = done /\ pos' = 1

\* One step of a delegation loop over list, which ends at pc = done.  The
\* action at pos is relinked to the list of its scope if that is active.
Delegate(list, goes, done) ==
  IF pos <= Len(list)
  THEN pc' = pc /\ pos' = IF goes THEN pos ELSE pos + 1
  ELSE pc' = done /\ pos' = 1

Rest(list, goes) == IF pos <= Len(list) /\ goes THEN RemoveAt(list, pos) ELSE list

Joined(list, from, goes) ==
  IF pos <= Len(from) /\ goes THEN Append(list, from[pos]) ELSE list

DelegateEnv ==
  /\ pc = "env"
  /\ Delegate(envAction, globalActive, IF globalActive THEN "global" ELSE "host")
  /\ envAction' = Rest(envAction, globalActive)
  /\ globalAction' = Joined(globalAction, envAction, globalActive)
  /\ UNCHANGED <<hubAction, mapAction, flags, regs, current, at, hubDue, mapDue, saved>>

\* Mutant: an action goes to the hub that is active, whichever it is for.
DelegateGlobalAny ==
  LET h == current[1] IN
  /\ pc = "global"
  /\ Delegate(globalAction, hubActive[h], "hubs")
  /\ globalAction' = Rest(globalAction, hubActive[h])
  /\ hubAction' = [k \in Hub |-> Joined(hubAction[k], globalAction, hubActive[h] /\ k = h)]
  /\ hubDue' = IF pos <= Len(globalAction) THEN hubDue ELSE {k \in Hub : hubActive[k]}
  /\ UNCHANGED <<envAction, mapAction, flags, regs, current, at, mapDue, saved>>

DelegateGlobal ==
  LET h == globalAction[pos].to[1] IN
  /\ pc = "global"
  /\ Delegate(globalAction, hubActive[h], "hubs")
  /\ globalAction' = Rest(globalAction, hubActive[h])
  /\ hubAction' = [k \in Hub |-> Joined(hubAction[k], globalAction, hubActive[h] /\ k = h)]
  /\ hubDue' = IF pos <= Len(globalAction) THEN hubDue ELSE {k \in Hub : hubActive[k]}
  /\ UNCHANGED <<envAction, mapAction, flags, regs, current, at, mapDue, saved>>

BeginHub ==
  /\ pc = "hubs"
  /\ \E h \in hubDue :
       /\ hubDue' = hubDue \ {h}
       /\ at' = <<h, NoMap>>
  /\ pc' = "hub"
  /\ UNCHANGED <<lists, flags, regs, current, pos, mapDue, saved>>

DelegateHub ==
  LET h == at[1]
      m == hubAction[h][pos].to
  IN
  /\ pc = "hub"
  /\ Delegate(hubAction[h], mapActive[m], "maps")
  /\ hubAction' = [hubAction EXCEPT ![h] = Rest(@, mapActive[m])]
  /\ mapAction' = [n \in MapId |-> Joined(mapAction[n], hubAction[h], mapActive[m] /\ n = m)]
  /\ mapDue' = IF pos <= Len(hubAction[h]) THEN mapDue
               ELSE {n \in Map : mapActive[<<h, n>>]}
  /\ UNCHANGED <<envAction, globalAction, flags, regs, current, at, hubDue, saved>>

BeginMap ==
  /\ pc = "maps"
  /\ \E m \in mapDue :
       /\ mapDue' = mapDue \ {m}
       /\ at' = <<at[1], m>>
  /\ pc' = "actions"
  /\ UNCHANGED <<lists, flags, regs, current, pos, hubDue, saved>>

\* MapScope::exec applies an action (RunAction of ScriptThreads).
ApplyAction ==
  /\ pc = "actions"
  /\ mapAction[at] # <<>>
  /\ mapAction' = [mapAction EXCEPT ![at] = Tail(@)]
  /\ UNCHANGED <<envAction, globalAction, hubAction, flags, regs, current, control, saved>>

BeginScripts ==
  /\ pc = "actions"
  /\ mapAction[at] = <<>>
  /\ pc' = "scripts"
  /\ UNCHANGED <<lists, flags, regs, current, pos, at, hubDue, mapDue, saved>>

EndMap ==
  /\ pc = "scripts"
  /\ pc' = "maps"
  /\ at' = <<at[1], NoMap>>
  /\ UNCHANGED <<lists, flags, regs, current, pos, hubDue, mapDue, saved>>

\* A stack underflow of a script, which Executor::Exec catches.
Underflow ==
  /\ pc = "scripts"
  /\ pc' = "host" /\ pos' = 1 /\ at' = NoId /\ hubDue' = {} /\ mapDue' = {}
  /\ UNCHANGED <<lists, flags, regs, current, saved>>

EndHub ==
  /\ pc = "maps"
  /\ mapDue = {}
  /\ pc' = "hubs"
  /\ at' = NoId
  /\ UNCHANGED <<lists, flags, regs, current, pos, hubDue, mapDue, saved>>

EndTic ==
  /\ pc = "hubs"
  /\ hubDue = {}
  /\ pc' = "host"
  /\ UNCHANGED <<lists, flags, regs, current, pos, at, hubDue, mapDue, saved>>
-----------------------------------------------------------------------------
(* SaveState and LoadState: the tree is written between tics, read back    *)
(* later, and the host names the map the game was in when it was saved.    *)

\* All that SaveState writes.
tree == [envAction |-> envAction, globalAction |-> globalAction,
         hubAction |-> hubAction, mapAction |-> mapAction,
         globalActive |-> globalActive, hubActive |-> hubActive,
         mapActive |-> mapActive, hasModules |-> hasModules,
         globalReg |-> globalReg, hubReg |-> hubReg, mapReg |-> mapReg,
         current |-> current]

SaveState ==
  /\ pc = "host"
  /\ current # NoId
  /\ saved' = tree
  /\ UNCHANGED <<lists, flags, regs, current, control>>

\* The scopes of a new Executor.
NewTree == [envAction |-> <<>>, globalAction |-> <<>>,
            hubAction |-> [h \in Hub |-> <<>>], mapAction |-> [m \in MapId |-> <<>>],
            globalActive |-> FALSE, hubActive |-> [h \in Hub |-> FALSE],
            mapActive |-> [m \in MapId |-> FALSE], hasModules |-> [m \in MapId |-> FALSE],
            globalReg |-> 0, hubReg |-> [h \in Hub |-> 0], mapReg |-> [m \in MapId |-> 0],
            current |-> NoId]

\* The scopes are freed, and created anew as in t.
Become(t) ==
  /\ envAction' = t.envAction
  /\ globalAction' = t.globalAction
  /\ hubAction' = t.hubAction
  /\ mapAction' = t.mapAction
  /\ globalActive' = t.globalActive
  /\ hubActive' = t.hubActive
  /\ mapActive' = t.mapActive
  /\ hasModules' = t.hasModules
  /\ globalReg' = t.globalReg
  /\ hubReg' = t.hubReg
  /\ mapReg' = t.mapReg
  /\ current' = t.current

LoadState == pc = "host" /\ saved # NoSave /\ Become(saved) /\ UNCHANGED <<control, saved>>

\* A new Executor takes the place of the old one, at any point: FreeExecutor
\* and MakeExecutor, or the process ends and another begins.
Restart ==
  /\ Become(NewTree)
  /\ pc' = "host" /\ pos' = 1 /\ at' = NoId /\ hubDue' = {} /\ mapDue' = {}
  /\ UNCHANGED saved
-----------------------------------------------------------------------------
HostCall == (\E m \in MapId : LoadHubMap(m)) \/ HostDefers \/ SaveState \/ LoadState

Exec == \/ DelegateEnv \/ DelegateGlobal \/ BeginHub \/ DelegateHub \/ BeginMap
        \/ ApplyAction \/ BeginScripts \/ EndMap \/ EndHub \/ EndTic

Scripts == ScriptDefers \/ ScriptAssigns

Next == HostCall \/ BeginTic \/ Exec \/ Scripts \/ Underflow \/ Restart

Spec == Init /\ [][Next]_vars

\* The host keeps calling Exec, and no map executes forever.
FairSpec == Spec /\ WF_vars(BeginTic) /\ WF_vars(Exec)
-----------------------------------------------------------------------------
\* The type of tree.
Tree == [envAction : Seq(Action), globalAction : Seq(Action),
         hubAction : [Hub -> Seq(Action)], mapAction : [MapId -> Seq(Action)],
         globalActive : BOOLEAN, hubActive : [Hub -> BOOLEAN],
         mapActive : [MapId -> BOOLEAN], hasModules : [MapId -> BOOLEAN],
         globalReg : Val, hubReg : [Hub -> Val], mapReg : [MapId -> Val],
         current : MapId \cup {NoId}]

ASSUME NoSaveAssumption == NoSave \notin Tree

\* Type invariant.
TypeOK ==
  /\ envAction \in Seq(Action)
  /\ globalAction \in Seq(Action)
  /\ hubAction \in [Hub -> Seq(Action)]
  /\ mapAction \in [MapId -> Seq(Action)]
  /\ globalActive \in BOOLEAN
  /\ hubActive \in [Hub -> BOOLEAN]
  /\ mapActive \in [MapId -> BOOLEAN]
  /\ hasModules \in [MapId -> BOOLEAN]
  /\ globalReg \in Val
  /\ hubReg \in [Hub -> Val]
  /\ mapReg \in [MapId -> Val]
  /\ current \in MapId \cup {NoId}
  /\ saved \in Tree \cup {NoSave}
  /\ pc \in Place
  /\ pos \in Nat \ {0}
  /\ at \in (Hub \cup {NoHub}) \X (Map \cup {NoMap})
  /\ hubDue \subseteq Hub
  /\ mapDue \subseteq Map

(***************************************************************************)
(* The scopes follow the game: exactly the hub and the map it is in are    *)
(* active, and the map has its modules; any other hub is as if new, with   *)
(* no variables, actions and maps.  Else scripts of a map that was left    *)
(* would go on executing, deferred actions would reach them, or a hub that *)
(* is entered again would find what was there before.                      *)
(***************************************************************************)
Follows(t) ==
  /\ t.globalActive <=> t.current # NoId
  /\ \A h \in Hub :
       /\ t.hubActive[h] <=> h = t.current[1]
       /\ h # t.current[1] => t.hubReg[h] = 0 /\ t.hubAction[h] = <<>>
  /\ \A m \in MapId :
       /\ t.mapActive[m] <=> m = t.current
       /\ m = t.current => t.hasModules[m]
       /\ m[1] # t.current[1] => ~ t.hasModules[m]
       /\ ~ t.hasModules[m] => t.mapReg[m] = 0
       /\ m # t.current => t.mapAction[m] = <<>>

ScopesFollowGame == Follows(tree) /\ (saved # NoSave => Follows(saved))

(***************************************************************************)
(* Deferred actions only go down: the list of a hub or a map holds actions *)
(* for that hub or that map, and outside the exec of a hub no map has any, *)
(* nor has a save.  Else an action would be applied by the wrong map, or   *)
(* be stuck in a map that was left.                                        *)
(***************************************************************************)
Routes(t) ==
  /\ \A h \in Hub : \A a \in ToSet(t.hubAction[h]) : a.to[1] = h
  /\ \A m \in MapId : \A a \in ToSet(t.mapAction[m]) : a.to = m

Idle(t) == \A m \in MapId : t.mapAction[m] = <<>>

Routed ==
  /\ Routes(tree)
  /\ pc \notin {"hub", "maps", "actions"} => Idle(tree)
  /\ saved # NoSave => Routes(saved) /\ Idle(saved)

(***************************************************************************)
(* What the rest of the invariant needs to be inductive: below the         *)
(* environment a tic is in the current hub and map, the scopes still due   *)
(* are active, and a map with actions to apply is due.                     *)
(***************************************************************************)
TicInv ==
  /\ pc \in {"hub", "maps", "actions", "scripts"} =>
       current # NoId /\ at[1] = current[1]
  /\ pc \in {"actions", "scripts"} => at = current
  /\ pc \in {"host", "env", "global"} => hubDue = {}
  /\ pc \notin {"maps", "actions", "scripts"} => mapDue = {}
  /\ \A h \in hubDue : hubActive[h]
  /\ \A m \in mapDue : mapActive[<<at[1], m>>]
  /\ pc = "maps" => mapAction[current] = <<>> \/ current[2] \in mapDue

IInv == TypeOK /\ ScopesFollowGame /\ Routed /\ TicInv

(***************************************************************************)
(* What a delegation loop has passed over stays: it is for a scope that is *)
(* not active.  So an action that goes is the first one for its map.       *)
(***************************************************************************)
PassedInv ==
  /\ pc \notin {"env", "global", "hub"} => pos = 1
  /\ pc = "env" /\ globalActive => pos = 1
  /\ pc = "global" =>
       \A i \in DOMAIN globalAction : i < pos => globalAction[i].to[1] # current[1]
  /\ pc = "hub" =>
       \A i \in DOMAIN hubAction[current[1]] : i < pos => hubAction[current[1]][i].to # current

\* The actions of the list that are for the map m.
For(list, m) ==
  LET first[i \in 0 .. Len(list)] ==
        IF i = 0 THEN <<>>
        ELSE IF list[i].to = m THEN Append(first[i - 1], list[i]) ELSE first[i - 1]
  IN first[Len(list)]

\* The actions for the map m that are deferred, in the order of their calls.
Mailbox(t, m) ==
  t.mapAction[m] \o For(t.hubAction[m[1]], m) \o For(t.globalAction, m) \o For(t.envAction, m)

(***************************************************************************)
(* An action for the map the game is in is applied by a coming tic, unless *)
(* the game leaves the map before.                                         *)
(***************************************************************************)
PendingApplied ==
  \A m \in MapId : current = m ~> Mailbox(tree, m) = <<>> \/ current # m
-----------------------------------------------------------------------------
(* Refinement of HubJourney. *)

Journey(t) ==
  [where |-> t.current,
   globalVar |-> t.globalReg,
   hubVar |-> IF t.current = NoId THEN 0 ELSE t.hubReg[t.current[1]],
   mapVar |-> [m \in {n \in MapId : t.hasModules[n]} |-> t.mapReg[m]],
   box |-> [m \in MapId |-> Mailbox(t, m)]]

Game == INSTANCE HubJourney WITH
  game  <- Journey(tree),
  saved <- IF saved = NoSave THEN {} ELSE {Journey(saved)}

(***************************************************************************)
(* The tree of scopes, with its flags and resets and with the lists that   *)
(* actions are handed down through, gives the game what HubJourney         *)
(* promises: variables that last as long as their scope and deferred       *)
(* actions that are neither lost, doubled nor overtaken on the way.        *)
(***************************************************************************)
ImplementsJourney == Game!Spec
=============================================================================
