--------------------------- MODULE HubScopesProof ---------------------------
(***************************************************************************)
(* The invariant of HubScopes holds, and the tree of scopes implements the *)
(* journey of a game, which is what HubJourney promises: for any sets of   *)
(* hubs, maps and actions and any bounds.                                  *)
(***************************************************************************)
EXTENDS HubScopes, ListLinksProof

(* Taking the object at pos out of a list. *)
LEMMA RestOfList ==
  ASSUME NEW S, NEW list \in Seq(S), NEW goes \in BOOLEAN, pos \in Nat \ {0}
  PROVE  /\ Rest(list, goes) \in Seq(S)
         /\ ToSet(Rest(list, goes)) \subseteq ToSet(list)
<1>1. CASE pos <= Len(list) /\ goes
  <2>1. Rest(list, goes) = RemoveAt(list, pos) /\ pos \in 1 .. Len(list)
    BY <1>1 DEF Rest
  <2> DEFINE r == RemoveAt(list, pos)
  <2>2. /\ r \in Seq(S)
        /\ Len(r) = Len(list) - 1
        /\ \A i \in 1 .. Len(list) - 1 : r[i] = IF i < pos THEN list[i] ELSE list[i + 1]
    BY <2>1, RemoveAtPositions
  <2>3. ASSUME NEW e \in ToSet(r) PROVE e \in ToSet(list)
    <3> HIDE DEF r
    <3>1. PICK i \in 1 .. Len(list) - 1 : e = r[i]
      BY <2>2 DEF ToSet
    <3>2. i \in 1 .. Len(list) /\ i + 1 \in 1 .. Len(list)
      BY <3>1
    <3>3. e = list[i] \/ e = list[i + 1]
      BY <2>2, <3>1
    <3>4. QED
      BY <3>2, <3>3 DEF ToSet
  <2>4. QED
    BY <2>1, <2>2, <2>3
<1>2. CASE ~ (pos <= Len(list) /\ goes)
  BY <1>2 DEF Rest
<1>3. QED
  BY <1>1, <1>2

(* Appending the object at pos of another list. *)
LEMMA JoinedList ==
  ASSUME NEW S, NEW list \in Seq(S), NEW from \in Seq(S), NEW goes \in BOOLEAN,
         pos \in Nat \ {0}
  PROVE  /\ Joined(list, from, goes) \in Seq(S)
         /\ pos <= Len(from) => from[pos] \in S /\ from[pos] \in ToSet(from)
         /\ pos <= Len(from) /\ goes
              => ToSet(Joined(list, from, goes)) = ToSet(list) \cup {from[pos]}
         /\ ~ (pos <= Len(from) /\ goes) => Joined(list, from, goes) = list
<1>1. pos <= Len(from) => from[pos] \in S /\ from[pos] \in ToSet(from)
  BY DEF ToSet
<1>2. CASE pos <= Len(from) /\ goes
  BY <1>1, <1>2, AppendLink DEF Joined
<1>3. CASE ~ (pos <= Len(from) /\ goes)
  BY <1>1, <1>3 DEF Joined
<1>4. QED
  BY <1>2, <1>3

(* A step of a delegation loop keeps the types of its iterator. *)
LEMMA DelegateType ==
  ASSUME NEW S, NEW list \in Seq(S), NEW goes \in BOOLEAN, NEW done \in Place,
         pos \in Nat \ {0}, pc \in Place, Delegate(list, goes, done)
  PROVE  /\ pos' \in Nat \ {0}
         /\ pos <= Len(list) => pc' = pc
         /\ ~ (pos <= Len(list)) => pc' = done
BY DEF Delegate

-----------------------------------------------------------------------------
(* The parts of IInv that speak of the tree, on its variables. *)

Types ==
  /\ envAction \in Seq(Action)
  /\ globalAction \in Seq(Action)
  /\ hubAction \in [Hub -> Seq(Action)]
  /\ mapAction \in [MapId -> Seq(Action)]
  /\ globalActive \in BOOLEAN
  /\ hubActive \in [Hub -> BOOLEAN]
  /\ mapActive \in [MapId -> BOOLEAN]
  /\ hasModules \in [MapId -> BOOLEAN]
  /\ globalReg \in Val
  /\ hubReg \in [Hub -> Val]
  /\ mapReg \in [MapId -> Val]
  /\ current \in MapId \cup {NoId}

Control ==
  /\ pc \in Place
  /\ pos \in Nat \ {0}
  /\ at \in (Hub \cup {NoHub}) \X (Map \cup {NoMap})
  /\ hubDue \subseteq Hub
  /\ mapDue \subseteq Map

Scopes ==
  /\ globalActive <=> current # NoId
  /\ \A h \in Hub :
       /\ hubActive[h] <=> h = current[1]
       /\ h # current[1] => hubReg[h] = 0 /\ hubAction[h] = <<>>
  /\ \A m \in MapId :
       /\ mapActive[m] <=> m = current
       /\ m = current => hasModules[m]
       /\ m[1] # current[1] => ~ hasModules[m]
       /\ ~ hasModules[m] => mapReg[m] = 0
       /\ m # current => mapAction[m] = <<>>

Lists ==
  /\ \A h \in Hub : \A a \in ToSet(hubAction[h]) : a.to[1] = h
  /\ \A m \in MapId : \A a \in ToSet(mapAction[m]) : a.to = m

Quiet == pc \notin {"hub", "maps", "actions"} => \A m \in MapId : mapAction[m] = <<>>

TreeInv == Types /\ Control /\ Scopes /\ Lists /\ Quiet /\ TicInv

SavedInv ==
  /\ saved \in Tree \cup {NoSave}
  /\ saved # NoSave => Follows(saved) /\ Routes(saved) /\ Idle(saved)

LEMMA Parts == IInv <=> TreeInv /\ SavedInv
<1>1. TypeOK <=> Types /\ Control /\ saved \in Tree \cup {NoSave}
  BY DEF TypeOK, Types, Control
<1>2. Follows(tree) <=> Scopes
  BY DEF Follows, tree, Scopes
<1>3. Routes(tree) <=> Lists
  BY DEF Routes, tree, Lists
<1>4. Idle(tree) <=> \A m \in MapId : mapAction[m] = <<>>
  BY DEF Idle, tree
<1>5. QED
  BY <1>1, <1>2, <1>3, <1>4
  DEF IInv, ScopesFollowGame, Routed, TreeInv, SavedInv, Quiet

LEMMA PartsNext == IInv' <=> TreeInv' /\ SavedInv'
BY Parts, PTL

LEMMA Ids ==
  /\ NoId \notin MapId
  /\ NoId[1] = NoHub /\ NoHub \notin Hub
  /\ NoId \in (Hub \cup {NoHub}) \X (Map \cup {NoMap})
  /\ \A m \in MapId : m[1] \in Hub /\ m[2] \in Map /\ m = <<m[1], m[2]>>
  /\ \A h \in Hub, n \in Map : <<h, n>> \in MapId
  /\ \A h \in Hub, n \in Map \cup {NoMap} :
       /\ <<h, n>> \in (Hub \cup {NoHub}) \X (Map \cup {NoMap})
       /\ <<h, n>>[1] = h
BY ConstantsAssumption DEF NoId, MapId

LEMMA InitInv == Init => IInv
<1> SUFFICES ASSUME Init PROVE IInv
  OBVIOUS
<1>1. <<>> \in Seq(Action) /\ 0 \in Val
  BY ConstantsAssumption DEF Val
<1>2. Types
  BY <1>1 DEF Init, Types
<1>3. Control
  BY Ids DEF Init, Control, Place
<1>4. Scopes
  BY Ids DEF Init, Scopes
<1>5. Lists
  BY DEF Init, Lists, ToSet
<1>6. Quiet /\ TicInv /\ SavedInv
  BY DEF Init, Quiet, TicInv, SavedInv
<1>7. QED
  BY <1>2, <1>3, <1>4, <1>5, <1>6, Parts DEF TreeInv
-----------------------------------------------------------------------------
(* Every step keeps the invariant of the tree. *)

LEMMA LoadHubMapKeeps ==
  ASSUME TreeInv, NEW m \in MapId, LoadHubMap(m) PROVE TreeInv'
<1> DEFINE reset(h) == Resets(m, h)
<1>1. Types /\ Control /\ Scopes /\ Lists /\ Quiet /\ TicInv
  BY DEF TreeInv
<1>2. /\ pc = "host"
      /\ globalActive' = TRUE
      /\ current' = m
      /\ hubActive' = [h \in Hub |-> h = m[1] \/ (hubActive[h] /\ ~ reset(h))]
      /\ hubAction' = [h \in Hub |-> IF reset(h) THEN <<>> ELSE hubAction[h]]
      /\ hubReg'    = [h \in Hub |-> IF reset(h) THEN 0 ELSE hubReg[h]]
      /\ mapActive' = [n \in MapId |->
           n = m \/ (mapActive[n] /\ n # current /\ ~ reset(n[1]))]
      /\ mapAction' = [n \in MapId |-> IF reset(n[1]) THEN <<>> ELSE mapAction[n]]
      /\ hasModules' = [n \in MapId |-> n = m \/ (hasModules[n] /\ ~ reset(n[1]))]
      /\ mapReg' = [n \in MapId |->
           IF reset(n[1]) \/ (n = m /\ ~ hasModules[n]) THEN 0 ELSE mapReg[n]]
      /\ UNCHANGED <<envAction, globalAction, globalReg, pc, pos, at, hubDue, mapDue>>
  BY DEF LoadHubMap, IsActive, AddsModules, control
<1>3. m[1] \in Hub /\ (current # NoId => current \in MapId)
  BY <1>1, Ids DEF Types
<1>4. \A h \in Hub : h = current[1] /\ h # m[1] => reset(h)
  BY <1>1, Ids DEF Resets, Leaves, Types
<1>5. \A n \in MapId : mapAction[n] = <<>>
  BY <1>1, <1>2 DEF Quiet
<1> HIDE DEF reset
<1>6. <<>> \in Seq(Action) /\ 0 \in Val
  BY ConstantsAssumption DEF Val
<1>7. Types'
  BY <1>1, <1>2, <1>6 DEF Types
<1>8. Control'
  BY <1>1, <1>2 DEF Control
<1>9. Scopes'
  <2>1. globalActive' <=> current' # NoId
    BY <1>2, Ids
  <2>2. ASSUME NEW h \in Hub
        PROVE  /\ hubActive'[h] <=> h = current'[1]
               /\ h # current'[1] => hubReg'[h] = 0 /\ hubAction'[h] = <<>>
    BY <1>1, <1>2, <1>4 DEF Scopes
  <2>3. ASSUME NEW n \in MapId
        PROVE  /\ mapActive'[n] <=> n = current'
               /\ n = current' => hasModules'[n]
               /\ n[1] # current'[1] => ~ hasModules'[n]
               /\ ~ hasModules'[n] => mapReg'[n] = 0
               /\ n # current' => mapAction'[n] = <<>>
    <3>1. n[1] \in Hub
      BY Ids
    <3>2. QED
      BY <1>1, <1>2, <1>4, <1>5, <3>1 DEF Scopes
  <2>4. QED
    BY <2>1, <2>2, <2>3 DEF Scopes
<1>10. Lists'
  <2>1. ToSet(<<>>) = {}
    BY DEF ToSet
  <2>2. QED
    BY <1>1, <1>2, <2>1 DEF Lists
<1>11. Quiet'
  BY <1>2, <1>5 DEF Quiet
<1>12. TicInv'
  BY <1>1, <1>2 DEF TicInv
<1>13. QED
  BY <1>7, <1>8, <1>9, <1>10, <1>11, <1>12 DEF TreeInv

LEMMA DefersKeeps ==
  ASSUME TreeInv, HostDefers \/ ScriptDefers PROVE TreeInv'
<1>1. Types /\ Control /\ Scopes /\ Lists /\ Quiet /\ TicInv
  BY DEF TreeInv
<1>2. UNCHANGED <<globalAction, hubAction, mapAction, flags, regs, current, control>>
  BY DEF HostDefers, ScriptDefers
<1>3. envAction' \in Seq(Action)
  <2>1. CASE HostDefers
    <3>1. PICK m \in MapId, n \in Name : envAction' = Append(envAction, [to |-> m, name |-> n])
      BY <2>1 DEF HostDefers, Defer
    <3>2. [to |-> m, name |-> n] \in Action
      BY DEF Action
    <3>3. QED
      BY <1>1, <3>1, <3>2, AppendLink DEF Types
  <2>2. CASE ScriptDefers
    <3>1. PICK m \in Map, n \in Name :
            envAction' = Append(envAction, [to |-> <<current[1], m>>, name |-> n])
      BY <2>2 DEF ScriptDefers, Defer
    <3>2. current \in MapId
      BY <1>1, <2>2 DEF ScriptDefers, TicInv, Types
    <3>3. [to |-> <<current[1], m>>, name |-> n] \in Action
      BY <3>2, Ids DEF Action
    <3>4. QED
      BY <1>1, <3>1, <3>3, AppendLink DEF Types
  <2>3. QED
    BY <2>1, <2>2
<1>4. Types' /\ Control'
  BY <1>1, <1>2, <1>3 DEF Types, Control, flags, regs, control
<1>5. Scopes' /\ Lists' /\ Quiet' /\ TicInv'
  BY <1>1, <1>2 DEF Scopes, Lists, Quiet, TicInv, flags, regs, control
<1>6. QED
  BY <1>4, <1>5 DEF TreeInv

LEMMA AssignsKeeps ==
  ASSUME TreeInv, ScriptAssigns PROVE TreeInv'
<1>1. Types /\ Control /\ Scopes /\ Lists /\ Quiet /\ TicInv
  BY DEF TreeInv
<1>2. pc = "scripts" /\ UNCHANGED <<lists, flags, current, control>>
  BY DEF ScriptAssigns
<1>3. at = current /\ current \in MapId /\ hasModules[current]
  BY <1>1, <1>2 DEF TicInv, Types, Scopes
<1>4. /\ globalReg' \in Val
      /\ hubReg' \in [Hub -> Val]
      /\ mapReg' \in [MapId -> Val]
      /\ \A h \in Hub : h # at[1] => hubReg'[h] = hubReg[h]
      /\ \A m \in MapId : m # at => mapReg'[m] = mapReg[m]
  BY <1>1 DEF ScriptAssigns, Types
<1>5. Types' /\ Control'
  BY <1>1, <1>2, <1>4 DEF Types, Control, lists, flags, control
<1>6. Scopes'
  BY <1>1, <1>2, <1>3, <1>4 DEF Scopes, lists, flags
<1>7. Lists' /\ Quiet' /\ TicInv'
  BY <1>1, <1>2 DEF Lists, Quiet, TicInv, lists, flags, control
<1>8. QED
  BY <1>5, <1>6, <1>7 DEF TreeInv

LEMMA DelegateEnvKeeps ==
  ASSUME TreeInv, DelegateEnv PROVE TreeInv'
<1>1. Types /\ Control /\ Scopes /\ Lists /\ Quiet /\ TicInv
  BY DEF TreeInv
<1> DEFINE done == IF globalActive THEN "global" ELSE "host"
<1>2. /\ pc = "env"
      /\ Delegate(envAction, globalActive, done)
      /\ UNCHANGED <<hubAction, mapAction, flags, regs, current, at, hubDue, mapDue>>
  BY DEF DelegateEnv
<1>3. done \in Place /\ pos \in Nat \ {0} /\ pc \in Place
  BY <1>1 DEF Control, Place
<1>4. envAction' \in Seq(Action) /\ globalAction' \in Seq(Action)
  BY <1>1, <1>3, RestOfList, JoinedList DEF DelegateEnv, Types
<1>5. pos' \in Nat \ {0} /\ pc' \in {"env", "global", "host"}
  BY <1>1, <1>2, <1>3, DelegateType DEF Types
<1>6. Types' /\ Control'
  BY <1>1, <1>2, <1>4, <1>5 DEF Types, Control, flags, regs, Place
<1>7. Scopes' /\ Lists'
  BY <1>1, <1>2 DEF Scopes, Lists, flags, regs
<1>8. Quiet' /\ TicInv'
  BY <1>1, <1>2, <1>5 DEF Quiet, TicInv, flags
<1>9. QED
  BY <1>6, <1>7, <1>8 DEF TreeInv

LEMMA DelegateGlobalKeeps ==
  ASSUME TreeInv, DelegateGlobal PROVE TreeInv'
<1>1. Types /\ Control /\ Scopes /\ Lists /\ Quiet /\ TicInv
  BY DEF TreeInv
<1> DEFINE h == globalAction[pos].to[1]
<1>2. /\ pc = "global"
      /\ Delegate(globalAction, hubActive[h], "hubs")
      /\ globalAction' = Rest(globalAction, hubActive[h])
      /\ hubAction' = [k \in Hub |->
           Joined(hubAction[k], globalAction, hubActive[h] /\ k = h)]
      /\ hubDue' = IF pos <= Len(globalAction) THEN hubDue ELSE {k \in Hub : hubActive[k]}
      /\ UNCHANGED <<envAction, mapAction, flags, regs, current, at, mapDue>>
  BY DEF DelegateGlobal
<1>3. pos \in Nat \ {0} /\ pc \in Place /\ "hubs" \in Place
  BY <1>1 DEF Control, Place
<1>4. CASE pos <= Len(globalAction)
  <2>1. globalAction[pos] \in Action /\ h \in Hub
    <3>1. globalAction[pos] \in Action
      BY <1>1, <1>3, <1>4 DEF Types
    <3>2. QED
      BY <3>1, Ids DEF Action
  <2>2. hubActive[h] \in BOOLEAN
    BY <1>1, <2>1 DEF Types
  <2>3. globalAction' \in Seq(Action)
    BY <1>1, <1>2, <1>3, <2>2, RestOfList DEF Types
  <2>4. ASSUME NEW k \in Hub
        PROVE  /\ hubAction'[k] \in Seq(Action)
               /\ \A a \in ToSet(hubAction'[k]) : a.to[1] = k
               /\ k # current[1] => hubAction'[k] = <<>>
    <3> DEFINE goes == hubActive[h] /\ k = h
    <3>1. goes \in BOOLEAN /\ hubAction[k] \in Seq(Action) /\ globalAction \in Seq(Action)
      BY <1>1, <2>2 DEF Types
    <3>2. hubAction'[k] = Joined(hubAction[k], globalAction, goes)
      BY <1>2
    <3>3. \A a \in ToSet(hubAction[k]) : a.to[1] = k
      BY <1>1 DEF Lists
    <3>4. CASE goes
      <4>1. k = current[1]
        BY <1>1, <3>4 DEF Scopes
      <4>2. /\ hubAction'[k] \in Seq(Action)
            /\ ToSet(hubAction'[k]) = ToSet(hubAction[k]) \cup {globalAction[pos]}
        <5> HIDE DEF goes
        <5> DEFINE new == Joined(hubAction[k], globalAction, goes)
        <5>1. /\ new \in Seq(Action)
              /\ pos <= Len(globalAction) /\ goes
                   => ToSet(new) = ToSet(hubAction[k]) \cup {globalAction[pos]}
          BY <1>3, <3>1, JoinedList
        <5>2. QED
          BY <1>4, <3>2, <3>4, <5>1
      <4>3. QED
        BY <3>3, <3>4, <4>1, <4>2
    <3>5. CASE ~ goes
      <4>1. hubAction'[k] = hubAction[k]
        BY <1>3, <3>1, <3>2, <3>5, JoinedList
      <4>2. QED
        BY <1>1, <3>1, <3>3, <4>1 DEF Scopes
    <3>6. QED
      BY <3>4, <3>5
  <2>5. pos' \in Nat \ {0} /\ pc' = "global" /\ hubDue' = hubDue
    BY <1>1, <1>2, <1>3, <1>4, <2>2, DelegateType DEF Types
  <2>6. hubAction' \in [Hub -> Seq(Action)]
    BY <1>2, <2>4
  <2>7. Types' /\ Control'
    BY <1>1, <1>2, <2>3, <2>5, <2>6 DEF Types, Control, flags, regs, Place
  <2>8. Scopes' /\ Lists'
    BY <1>1, <1>2, <2>4 DEF Scopes, Lists, flags, regs
  <2>9. Quiet' /\ TicInv'
    BY <1>1, <1>2, <2>5 DEF Quiet, TicInv, flags
  <2>10. QED
    BY <2>7, <2>8, <2>9 DEF TreeInv
<1>5. CASE ~ (pos <= Len(globalAction))
  <2>1. pc' = "hubs" /\ pos' = 1 /\ hubDue' = {k \in Hub : hubActive[k]}
    BY <1>2, <1>5 DEF Delegate
  <2>2. globalAction' = globalAction /\ hubAction' = hubAction
    BY <1>1, <1>2, <1>5 DEF Rest, Joined, Types
  <2>3. Types' /\ Control'
    BY <1>1, <1>2, <2>1, <2>2 DEF Types, Control, flags, regs, Place
  <2>4. Scopes' /\ Lists'
    BY <1>1, <1>2, <2>2 DEF Scopes, Lists, flags, regs
  <2>5. Quiet' /\ TicInv'
    BY <1>1, <1>2, <2>1 DEF Quiet, TicInv, flags
  <2>6. QED
    BY <2>3, <2>4, <2>5 DEF TreeInv
<1>6. QED
  BY <1>4, <1>5

LEMMA DelegateHubKeeps ==
  ASSUME TreeInv, DelegateHub PROVE TreeInv'
<1>1. Types /\ Control /\ Scopes /\ Lists /\ Quiet /\ TicInv
  BY DEF TreeInv
<1> DEFINE h == at[1]
           m == hubAction[h][pos].to
<1>2. /\ pc = "hub"
      /\ Delegate(hubAction[h], mapActive[m], "maps")
      /\ hubAction' = [hubAction EXCEPT ![h] = Rest(@, mapActive[m])]
      /\ mapAction' = [n \in MapId |->
           Joined(mapAction[n], hubAction[h], mapActive[m] /\ n = m)]
      /\ mapDue' = IF pos <= Len(hubAction[h]) THEN mapDue
                   ELSE {n \in Map : mapActive[<<h, n>>]}
      /\ UNCHANGED <<envAction, globalAction, flags, regs, current, at, hubDue>>
  BY DEF DelegateHub
<1>3. pos \in Nat \ {0} /\ pc \in Place /\ "maps" \in Place
  BY <1>1 DEF Control, Place
<1>4. h = current[1] /\ current \in MapId /\ h \in Hub
  BY <1>1, <1>2, Ids DEF TicInv, Types
<1>5. hubAction[h] \in Seq(Action) /\ \A a \in ToSet(hubAction[h]) : a.to[1] = h
  BY <1>1, <1>4 DEF Types, Lists
<1>6. CASE pos <= Len(hubAction[h])
  <2>1. hubAction[h][pos] \in Action /\ m \in MapId
    <3>1. hubAction[h][pos] \in Action
      BY <1>3, <1>5, <1>6
    <3>2. QED
      BY <3>1 DEF Action
  <2>2. mapActive[m] \in BOOLEAN
    BY <1>1, <2>1 DEF Types
  <2> HIDE DEF m
  <2>3. /\ Rest(hubAction[h], mapActive[m]) \in Seq(Action)
        /\ ToSet(Rest(hubAction[h], mapActive[m])) \subseteq ToSet(hubAction[h])
    BY <1>3, <1>5, <2>2, RestOfList
  <2>4. /\ hubAction' \in [Hub -> Seq(Action)]
        /\ \A k \in Hub : \A a \in ToSet(hubAction'[k]) : a.to[1] = k
        /\ \A k \in Hub : k # h => hubAction'[k] = hubAction[k]
    BY <1>1, <1>2, <1>5, <2>3 DEF Types, Lists
  <2>5. ASSUME NEW n \in MapId
        PROVE  /\ mapAction'[n] \in Seq(Action)
               /\ \A a \in ToSet(mapAction'[n]) : a.to = n
               /\ n # current => mapAction'[n] = <<>>
    <3> DEFINE goes == mapActive[m] /\ n = m
               new == Joined(mapAction[n], hubAction[h], goes)
    <3>1. goes \in BOOLEAN /\ mapAction[n] \in Seq(Action) /\ hubAction[h] \in Seq(Action)
      BY <1>1, <1>5, <2>2 DEF Types
    <3>2. mapAction'[n] = new
      BY <1>2
    <3>3. \A a \in ToSet(mapAction[n]) : a.to = n
      BY <1>1 DEF Lists
    <3>4. goes => n = current /\ hubAction[h][pos].to = n
      BY <1>1 DEF Scopes, m
    <3> HIDE DEF goes, h
    <3>5. /\ new \in Seq(Action)
          /\ goes => ToSet(new) = ToSet(mapAction[n]) \cup {hubAction[h][pos]}
          /\ ~ goes => new = mapAction[n]
      <4>1. /\ new \in Seq(Action)
            /\ pos <= Len(hubAction[h]) /\ goes
                 => ToSet(new) = ToSet(mapAction[n]) \cup {hubAction[h][pos]}
            /\ ~ (pos <= Len(hubAction[h]) /\ goes) => new = mapAction[n]
        BY <1>3, <3>1, JoinedList
      <4>2. QED
        BY <1>6, <4>1
    <3>6. QED
      BY <1>1, <3>2, <3>3, <3>4, <3>5 DEF Scopes
  <2>6. pos' \in Nat \ {0} /\ pc' = "hub" /\ mapDue' = mapDue
    <3>1. pos' \in Nat \ {0} /\ pc' = pc
      BY <1>2, <1>3, <1>5, <1>6, <2>2, DelegateType
    <3>2. QED
      BY <1>2, <1>6, <3>1
  <2>7. Types' /\ Control'
    BY <1>1, <1>2, <2>4, <2>5, <2>6 DEF Types, Control, flags, regs, Place
  <2>8. Scopes'
    BY <1>1, <1>2, <1>4, <2>4, <2>5 DEF Scopes, flags, regs
  <2>9. Lists' /\ Quiet'
    BY <2>4, <2>5, <2>6 DEF Lists, Quiet
  <2>10. TicInv'
    BY <1>1, <1>2, <2>6 DEF TicInv, flags
  <2>11. QED
    BY <2>7, <2>8, <2>9, <2>10 DEF TreeInv
<1>7. CASE ~ (pos <= Len(hubAction[h]))
  <2>1. pc' = "maps" /\ pos' = 1 /\ mapDue' = {n \in Map : mapActive[<<h, n>>]}
    BY <1>2, <1>7 DEF Delegate
  <2>2. hubAction' = hubAction /\ mapAction' = mapAction
    BY <1>1, <1>2, <1>7 DEF Rest, Joined, Types
  <2>3. current = <<h, current[2]>> /\ current[2] \in Map /\ mapActive[current]
    BY <1>1, <1>4, Ids DEF Scopes
  <2>4. Types'
    BY <1>1, <1>2, <2>2 DEF Types, flags, regs
  <2>5. Control'
    BY <1>1, <1>2, <2>1 DEF Control, Place
  <2>6. Scopes' /\ Lists' /\ Quiet'
    BY <1>1, <1>2, <2>1, <2>2 DEF Scopes, Lists, Quiet, flags, regs
  <2>7. TicInv'
    BY <1>1, <1>2, <2>1, <2>2, <2>3 DEF TicInv, flags
  <2>8. QED
    BY <2>4, <2>5, <2>6, <2>7 DEF TreeInv
<1>8. QED
  BY <1>6, <1>7

LEMMA BeginHubKeeps ==
  ASSUME TreeInv, BeginHub PROVE TreeInv'
<1>1. Types /\ Control /\ Scopes /\ Lists /\ Quiet /\ TicInv
  BY DEF TreeInv
<1>2. PICK h \in hubDue : hubDue' = hubDue \ {h} /\ at' = <<h, NoMap>>
  BY DEF BeginHub
<1>3. pc = "hubs" /\ pc' = "hub" /\ UNCHANGED <<lists, flags, regs, current, pos, mapDue>>
  BY DEF BeginHub
<1>4. h \in Hub /\ h = current[1]
  BY <1>1 DEF Control, TicInv, Scopes
<1>5. current # NoId
  BY <1>4, Ids
<1>6. Types' /\ Control'
  BY <1>1, <1>2, <1>3, <1>4, Ids DEF Types, Control, Place, lists, flags, regs
<1>7. Scopes' /\ Lists' /\ Quiet'
  BY <1>1, <1>3 DEF Scopes, Lists, Quiet, lists, flags, regs
<1>8. TicInv'
  <2>1. at'[1] = current[1] /\ mapDue' = {}
    BY <1>1, <1>2, <1>3, <1>4 DEF TicInv
  <2>2. QED
    BY <1>1, <1>2, <1>3, <1>5, <2>1 DEF TicInv, flags
<1>9. QED
  BY <1>6, <1>7, <1>8 DEF TreeInv

LEMMA BeginMapKeeps ==
  ASSUME TreeInv, BeginMap PROVE TreeInv'
<1>1. Types /\ Control /\ Scopes /\ Lists /\ Quiet /\ TicInv
  BY DEF TreeInv
<1>2. PICK m \in mapDue : mapDue' = mapDue \ {m} /\ at' = <<at[1], m>>
  BY DEF BeginMap
<1>3. pc = "maps" /\ pc' = "actions" /\ UNCHANGED <<lists, flags, regs, current, pos, hubDue>>
  BY DEF BeginMap
<1>4. m \in Map /\ at[1] = current[1] /\ current \in MapId /\ current[1] \in Hub
  BY <1>1, <1>3, Ids DEF Control, TicInv, Types
<1>5. <<at[1], m>> \in MapId /\ at' = current
  BY <1>1, <1>2, <1>4, Ids DEF TicInv, Scopes
<1>6. at' \in (Hub \cup {NoHub}) \X (Map \cup {NoMap})
  BY <1>2, <1>4, Ids
<1>7. Types' /\ Control'
  BY <1>1, <1>2, <1>3, <1>6 DEF Types, Control, Place, lists, flags, regs
<1>8. Scopes' /\ Lists' /\ Quiet'
  BY <1>1, <1>3 DEF Scopes, Lists, Quiet, lists, flags, regs
<1>9. at'[1] = at[1]
  BY <1>4, <1>5
<1>10. TicInv'
  BY <1>1, <1>2, <1>3, <1>5, <1>9, Ids DEF TicInv, flags
<1>11. QED
  BY <1>7, <1>8, <1>10 DEF TreeInv

LEMMA ApplyActionKeeps ==
  ASSUME TreeInv, ApplyAction PROVE TreeInv'
<1>1. Types /\ Control /\ Scopes /\ Lists /\ Quiet /\ TicInv
  BY DEF TreeInv
<1>2. /\ pc = "actions" /\ mapAction[at] # <<>>
      /\ mapAction' = [mapAction EXCEPT ![at] = Tail(@)]
      /\ UNCHANGED <<envAction, globalAction, hubAction, flags, regs, current, control>>
  BY DEF ApplyAction
<1>3. at = current /\ current \in MapId /\ mapAction[at] \in Seq(Action)
  BY <1>1, <1>2 DEF TicInv, Types
<1>4. /\ Tail(mapAction[at]) \in Seq(Action)
      /\ ToSet(Tail(mapAction[at])) \subseteq ToSet(mapAction[at])
  BY <1>2, <1>3, TailLink
<1>5. Types' /\ Control'
  BY <1>1, <1>2, <1>4 DEF Types, Control, flags, regs, control
<1>6. Scopes'
  BY <1>1, <1>2, <1>3 DEF Scopes, Types, flags, regs
<1>7. Lists'
  BY <1>1, <1>2, <1>3, <1>4 DEF Lists, Types
<1>8. Quiet' /\ TicInv'
  BY <1>1, <1>2 DEF Quiet, TicInv, flags, control
<1>9. QED
  BY <1>5, <1>6, <1>7, <1>8 DEF TreeInv

LEMMA BeginScriptsKeeps ==
  ASSUME TreeInv, BeginScripts PROVE TreeInv'
<1>1. Types /\ Control /\ Scopes /\ Lists /\ Quiet /\ TicInv
  BY DEF TreeInv
<1>2. /\ pc = "actions" /\ mapAction[at] = <<>> /\ pc' = "scripts"
      /\ UNCHANGED <<lists, flags, regs, current, pos, at, hubDue, mapDue>>
  BY DEF BeginScripts
<1>3. \A m \in MapId : mapAction[m] = <<>>
  BY <1>1, <1>2 DEF TicInv, Scopes
<1>4. Types' /\ Control'
  BY <1>1, <1>2 DEF Types, Control, Place, lists, flags, regs
<1>5. Scopes' /\ Lists' /\ Quiet'
  BY <1>1, <1>2, <1>3 DEF Scopes, Lists, Quiet, lists, flags, regs
<1>6. TicInv'
  BY <1>1, <1>2 DEF TicInv, flags, lists
<1>7. QED
  BY <1>4, <1>5, <1>6 DEF TreeInv

LEMMA EndMapKeeps ==
  ASSUME TreeInv, EndMap PROVE TreeInv'
<1>1. Types /\ Control /\ Scopes /\ Lists /\ Quiet /\ TicInv
  BY DEF TreeInv
<1>2. /\ pc = "scripts" /\ pc' = "maps" /\ at' = <<at[1], NoMap>>
      /\ UNCHANGED <<lists, flags, regs, current, pos, hubDue, mapDue>>
  BY DEF EndMap
<1>3. at = current /\ current \in MapId /\ current[1] \in Hub
  BY <1>1, <1>2, Ids DEF TicInv, Types
<1>4. /\ at' \in (Hub \cup {NoHub}) \X (Map \cup {NoMap})
      /\ at'[1] = at[1]
  BY <1>2, <1>3, Ids
<1>5. mapAction[current] = <<>>
  BY <1>1, <1>2, <1>3 DEF Quiet
<1>6. Types' /\ Control'
  BY <1>1, <1>2, <1>4 DEF Types, Control, Place, lists, flags, regs
<1>7. Scopes' /\ Lists' /\ Quiet'
  BY <1>1, <1>2 DEF Scopes, Lists, Quiet, lists, flags, regs
<1>8. TicInv'
  BY <1>1, <1>2, <1>3, <1>4, <1>5 DEF TicInv, flags, lists
<1>9. QED
  BY <1>6, <1>7, <1>8 DEF TreeInv

LEMMA EndHubKeeps ==
  ASSUME TreeInv, EndHub PROVE TreeInv'
<1>1. Types /\ Control /\ Scopes /\ Lists /\ Quiet /\ TicInv
  BY DEF TreeInv
<1>2. /\ pc = "maps" /\ mapDue = {} /\ pc' = "hubs" /\ at' = NoId
      /\ UNCHANGED <<lists, flags, regs, current, pos, hubDue, mapDue>>
  BY DEF EndHub
<1>3. \A m \in MapId : mapAction[m] = <<>>
  BY <1>1, <1>2 DEF TicInv, Scopes
<1>4. Types' /\ Control'
  BY <1>1, <1>2, Ids DEF Types, Control, Place, lists, flags, regs
<1>5. Scopes' /\ Lists' /\ Quiet'
  BY <1>1, <1>2, <1>3 DEF Scopes, Lists, Quiet, lists, flags, regs
<1>6. TicInv'
  BY <1>1, <1>2 DEF TicInv, flags
<1>7. QED
  BY <1>4, <1>5, <1>6 DEF TreeInv

LEMMA TicKeeps ==
  ASSUME TreeInv, BeginTic \/ EndTic PROVE TreeInv'
<1>1. Types /\ Control /\ Scopes /\ Lists /\ Quiet /\ TicInv
  BY DEF TreeInv
<1>2. /\ \/ pc = "host" /\ pc' = "env"
         \/ pc = "hubs" /\ hubDue = {} /\ pc' = "host"
      /\ UNCHANGED <<lists, flags, regs, current, pos, at, hubDue, mapDue>>
  BY DEF BeginTic, EndTic
<1>3. Types' /\ Control'
  BY <1>1, <1>2 DEF Types, Control, Place, lists, flags, regs
<1>4. Scopes' /\ Lists' /\ Quiet'
  BY <1>1, <1>2 DEF Scopes, Lists, Quiet, lists, flags, regs
<1>5. TicInv'
  BY <1>1, <1>2 DEF TicInv, flags
<1>6. QED
  BY <1>3, <1>4, <1>5 DEF TreeInv

LEMMA UnderflowKeeps ==
  ASSUME TreeInv, Underflow PROVE TreeInv'
<1>1. Types /\ Control /\ Scopes /\ Lists /\ Quiet /\ TicInv
  BY DEF TreeInv
<1>2. /\ pc = "scripts"
      /\ pc' = "host" /\ pos' = 1 /\ at' = NoId /\ hubDue' = {} /\ mapDue' = {}
      /\ UNCHANGED <<lists, flags, regs, current>>
  BY DEF Underflow
<1>3. Types' /\ Control'
  BY <1>1, <1>2, Ids DEF Types, Control, Place, lists, flags, regs
<1>4. Scopes' /\ Lists' /\ Quiet'
  BY <1>1, <1>2 DEF Scopes, Lists, Quiet, lists, flags, regs
<1>5. TicInv'
  BY <1>2 DEF TicInv
<1>6. QED
  BY <1>3, <1>4, <1>5 DEF TreeInv

LEMMA RestartKeeps ==
  ASSUME Restart PROVE TreeInv'
<1>1. <<>> \in Seq(Action) /\ 0 \in Val
  BY ConstantsAssumption DEF Val
<1>2. Types'
  BY <1>1 DEF Restart, Become, NewTree, Types
<1>3. Control'
  BY Ids DEF Restart, Become, NewTree, Control, Place
<1>4. Scopes'
  BY Ids DEF Restart, Become, NewTree, Scopes
<1>5. Lists'
  BY DEF Restart, Become, NewTree, Lists, ToSet
<1>6. Quiet' /\ TicInv'
  BY DEF Restart, Become, NewTree, Quiet, TicInv
<1>7. QED
  BY <1>2, <1>3, <1>4, <1>5, <1>6 DEF TreeInv

LEMMA LoadStateKeeps ==
  ASSUME TreeInv, SavedInv, LoadState PROVE TreeInv'
<1>1. Control /\ TicInv
  BY DEF TreeInv
<1>2. saved \in Tree /\ Follows(saved) /\ Routes(saved) /\ Idle(saved)
  BY DEF SavedInv, LoadState
<1>3. pc = "host" /\ UNCHANGED control
  BY DEF LoadState
<1>4. Types'
  BY <1>2 DEF LoadState, Become, Types, Tree
<1>5. Control' /\ TicInv'
  BY <1>1, <1>3 DEF Control, TicInv, control
<1>6. Scopes'
  BY <1>2 DEF LoadState, Become, Scopes, Follows
<1>7. Lists' /\ Quiet'
  BY <1>2 DEF LoadState, Become, Lists, Quiet, Routes, Idle
<1>8. QED
  BY <1>4, <1>5, <1>6, <1>7 DEF TreeInv

LEMMA SaveStateKeeps ==
  ASSUME IInv, SaveState PROVE IInv'
<1>1. TreeInv
  BY Parts
<1>2. TreeInv'
  <2>1. UNCHANGED <<lists, flags, regs, current, control>>
    BY DEF SaveState
  <2>2. QED
    BY <1>1, <2>1 DEF TreeInv, Types, Control, Scopes, Lists, Quiet, TicInv,
                      lists, flags, regs, control
<1>3. saved' \in Tree
  BY <1>1 DEF SaveState, TreeInv, Types, Tree, tree
<1>4. Follows(saved') /\ Routes(saved') /\ Idle(saved')
  <2>1. saved' = tree /\ pc = "host"
    BY DEF SaveState
  <2>2. Follows(tree) /\ Routes(tree) /\ Idle(tree)
    BY <2>1 DEF IInv, ScopesFollowGame, Routed
  <2>3. QED
    BY <2>1, <2>2
<1>5. SavedInv'
  BY <1>3, <1>4 DEF SavedInv, Follows, Routes, Idle
<1>6. QED
  BY <1>2, <1>5, PartsNext
-----------------------------------------------------------------------------
LEMMA NextInv == IInv /\ [Next]_vars => IInv'
<1> SUFFICES ASSUME IInv, [Next]_vars PROVE IInv'
  OBVIOUS
<1>1. TreeInv /\ SavedInv
  BY Parts
<1>2. CASE SaveState
  BY <1>2, SaveStateKeeps
<1>3. CASE UNCHANGED vars
  <2>1. TreeInv'
    BY <1>1, <1>3 DEF TreeInv, Types, Control, Scopes, Lists, Quiet, TicInv,
                      vars, lists, flags, regs, control
  <2>2. SavedInv'
    BY <1>1, <1>3 DEF SavedInv, vars
  <2>3. QED
    BY <2>1, <2>2, PartsNext
<1>4. CASE (\E m \in MapId : LoadHubMap(m)) \/ HostDefers \/ LoadState
             \/ BeginTic \/ Exec \/ Scripts \/ Underflow \/ Restart
  <2>1. UNCHANGED saved
    BY <1>4 DEF LoadHubMap, HostDefers, LoadState, BeginTic, Exec, Scripts, Underflow,
                Restart, DelegateEnv, DelegateGlobal, BeginHub, DelegateHub, BeginMap,
                ApplyAction, BeginScripts, EndMap, EndHub, EndTic, ScriptDefers,
                ScriptAssigns
  <2>2. SavedInv'
    BY <1>1, <2>1 DEF SavedInv
  <2>3. TreeInv'
    <3>1. CASE (\E m \in MapId : LoadHubMap(m)) \/ HostDefers \/ LoadState
      BY <1>1, <3>1, LoadHubMapKeeps, DefersKeeps, LoadStateKeeps
    <3>2. CASE Exec
      BY <1>1, <3>2, DelegateEnvKeeps, DelegateGlobalKeeps, DelegateHubKeeps,
         BeginHubKeeps, BeginMapKeeps, ApplyActionKeeps, BeginScriptsKeeps,
         EndMapKeeps, EndHubKeeps, TicKeeps DEF Exec
    <3>3. CASE BeginTic \/ Scripts \/ Underflow \/ Restart
      BY <1>1, <3>3, TicKeeps, DefersKeeps, AssignsKeeps, UnderflowKeeps, RestartKeeps
      DEF Scripts
    <3>4. QED
      BY <1>4, <3>1, <3>2, <3>3
  <2>4. QED
    BY <2>2, <2>3, PartsNext
<1>5. QED
  BY <1>2, <1>3, <1>4 DEF Next, HostCall

(* The inductive invariant holds in every behaviour of the tree of scopes,  *)
(* however many hubs and maps there are and however many actions pend.      *)
THEOREM HubInvariant == Spec => []IInv
BY InitInv, NextInv, PTL DEF Spec

(* Every list, flag, variable and cursor of the tree keeps its type.        *)
THEOREM HubTypes == Spec => []TypeOK
<1>1. IInv => TypeOK
  BY DEF IInv
<1>2. QED
  BY <1>1, HubInvariant, PTL

(* Between and within tics exactly the scopes of the game are active, and a *)
(* hub that was left has no variables, actions or maps: LoadHubMap, exec,   *)
(* reset and the save keep it so, for any journey.                          *)
THEOREM ScopesAlwaysFollow == Spec => []ScopesFollowGame
<1>1. IInv => ScopesFollowGame
  BY DEF IInv
<1>2. QED
  BY <1>1, HubInvariant, PTL

(* A deferred action is only ever in a list on the way to its own map, and  *)
(* the lists of the maps are empty whenever no hub is executing.            *)
THEOREM ActionsAlwaysRouted == Spec => []Routed
<1>1. IInv => Routed
  BY DEF IInv
<1>2. QED
  BY <1>1, HubInvariant, PTL
-----------------------------------------------------------------------------
(* The actions of a list that are for one map. *)

\* Joining lists is associative.
LEMMA Regroup ==
  ASSUME NEW x \in Seq(Action), NEW y \in Seq(Action), NEW z \in Seq(Action)
  PROVE  (x \o y) \o z = x \o (y \o z)
BY ConcatAssociative

\* The same fact under a name, for the steps that must not look into the lists.
Regrouped(x, y, z) == (x \o y) \o z = x \o (y \o z)

LEMMA Grouped ==
  ASSUME NEW x \in Seq(Action), NEW y \in Seq(Action), NEW z \in Seq(Action)
  PROVE  Regrouped(x, y, z)
BY Regroup DEF Regrouped

FirstRule(f, list, m) ==
  f = [i \in 0 .. Len(list) |->
        IF i = 0 THEN <<>>
        ELSE IF list[i].to = m THEN Append(f[i - 1], list[i]) ELSE f[i - 1]]

\* f[i] is made of the first i actions.
Firsts(f, list, m) ==
  /\ f \in [0 .. Len(list) -> Seq(Action)]
  /\ f[0] = <<>>
  /\ \A i \in 1 .. Len(list) :
       f[i] = IF list[i].to = m THEN Append(f[i - 1], list[i]) ELSE f[i - 1]

\* For is the last value of its recursion.
LEMMA ForIsLast ==
  ASSUME NEW list \in Seq(Action), NEW m
  PROVE  \E f : Firsts(f, list, m) /\ For(list, m) = f[Len(list)]
<1> DEFINE l == Len(list)
           P == [i \in 1 .. l |-> i - 1]
           G == [e \in (1 .. l) \X Seq(Action) |->
                  IF list[e[1]].to = m THEN Append(e[2], list[e[1]]) ELSE e[2]]
           r == CHOOSE r : FirstRule(r, list, m)
<1>1. l \in Nat /\ \A i \in 1 .. l : list[i] \in Action
  OBVIOUS
<1>2. \E f : FirstRule(f, list, m)
  <2>1. Decreasing(P, l)
    BY <1>1 DEF Decreasing
  <2>2. G \in [(1 .. l) \X Seq(Action) -> Seq(Action)]
    BY <1>1
  <2>3. <<>> \in Seq(Action)
    OBVIOUS
  <2> HIDE DEF P, G
  <2>4. PICK f \in [0 .. l -> Seq(Action)] : Recursive(f, l, <<>>, P, G)
    BY <1>1, <2>1, <2>2, <2>3, RecursionTo
  <2>5. ASSUME NEW i \in 1 .. l
        PROVE  f[i] = IF list[i].to = m THEN Append(f[i - 1], list[i]) ELSE f[i - 1]
    <3>1. P[i] = i - 1 /\ f[i - 1] \in Seq(Action)
      BY <1>1 DEF P
    <3>2. QED
      BY <2>4, <3>1 DEF G, Recursive
  <2>6. f[0] = <<>>
    BY <2>4 DEF Recursive
  <2>7. FirstRule(f, list, m)
    <3>1. \A i \in 0 .. l : i # 0 => i \in 1 .. l
      BY <1>1
    <3>2. \A i \in 0 .. l : f[i] = IF i = 0 THEN <<>>
            ELSE IF list[i].to = m THEN Append(f[i - 1], list[i]) ELSE f[i - 1]
      BY <2>5, <2>6, <3>1, Zenon
    <3>3. QED
      BY <2>4, <3>2 DEF FirstRule
  <2>8. QED
    BY <2>7
<1>3. FirstRule(r, list, m)
  BY <1>2
<1>4. For(list, m) = r[l]
  BY DEF For, FirstRule
<1> HIDE DEF r
<1>5. /\ r[0] = <<>>
      /\ \A i \in 1 .. l : r[i] = IF list[i].to = m THEN Append(r[i - 1], list[i]) ELSE r[i - 1]
  <2>1. ASSUME NEW i \in 0 .. l
        PROVE  r[i] = IF i = 0 THEN <<>>
                      ELSE IF list[i].to = m THEN Append(r[i - 1], list[i]) ELSE r[i - 1]
    BY <1>3, Zenon DEF FirstRule
  <2>2. \A i \in 1 .. l : i \in 0 .. l /\ i # 0
    BY <1>1
  <2>3. 0 \in 0 .. l
    BY <1>1
  <2> HIDE DEF l
  <2>4. QED
    BY <2>1, <2>2, <2>3
<1>6. \A i \in 0 .. l : r[i] \in Seq(Action)
  <2> DEFINE T == {i \in 0 .. l : r[i] \in Seq(Action)}
  <2>1. 0 \in T
    <3>1. 0 \in 0 .. l /\ <<>> \in Seq(Action)
      BY <1>1
    <3>2. QED
      BY <1>5, <3>1
  <2>2. ASSUME NEW i \in 1 .. l, i - 1 \in T PROVE i \in T
    <3>1. r[i - 1] \in Seq(Action) /\ list[i] \in Action /\ i \in 0 .. l
      BY <1>1, <2>2
    <3>2. Append(r[i - 1], list[i]) \in Seq(Action)
      BY <3>1, AppendProperties
    <3>3. r[i] = IF list[i].to = m THEN Append(r[i - 1], list[i]) ELSE r[i - 1]
      BY <1>5
    <3>4. r[i] \in Seq(Action)
      BY <3>1, <3>2, <3>3
    <3>5. QED
      BY <3>1, <3>4
  <2>3. \A i \in 0 .. l : i \in T
    <3> HIDE DEF T, l
    <3>1. QED
      BY <1>1, <2>1, <2>2, UpTo
  <2>4. QED
    BY <2>3
<1>7. r \in [0 .. l -> Seq(Action)]
  BY <1>3, <1>6 DEF FirstRule
<1>8. Firsts(r, list, m)
  BY <1>5, <1>7 DEF Firsts
<1>9. QED
  BY <1>4, <1>8

\* Lists that begin alike, with n actions, begin alike for the map.
AlikeTo(n, l1, l2) == n <= Len(l1) /\ n <= Len(l2) /\ \A i \in 1 .. n : l1[i] = l2[i]

\* Lists that are alike have the same recursion.
LEMMA FirstsAlike ==
  ASSUME NEW l1 \in Seq(Action), NEW l2 \in Seq(Action), NEW m, NEW n \in Nat,
         AlikeTo(n, l1, l2), NEW f, Firsts(f, l1, m), NEW g, Firsts(g, l2, m)
  PROVE  f[n] = g[n]
<1> DEFINE T == {i \in 0 .. n : f[i] = g[i]}
<1>1. 0 \in T
  BY DEF Firsts
<1>2. ASSUME NEW i \in 1 .. n, i - 1 \in T PROVE i \in T
  <2>1. i \in 1 .. Len(l1) /\ i \in 1 .. Len(l2) /\ l1[i] = l2[i] /\ f[i - 1] = g[i - 1]
    BY <1>2 DEF AlikeTo
  <2>2. f[i] = g[i]
    BY <2>1 DEF Firsts
  <2>3. QED
    BY <2>2
<1>3. \A i \in 0 .. n : i \in T
  <2> HIDE DEF T
  <2>1. QED
    BY <1>1, <1>2, UpTo
<1>4. n \in T
  BY <1>3
<1>5. QED
  BY <1>4

\* For picks actions from actions.
LEMMA ForType ==
  ASSUME NEW list \in Seq(Action), NEW m PROVE For(list, m) \in Seq(Action)
<1>1. PICK f : Firsts(f, list, m) /\ For(list, m) = f[Len(list)]
  BY ForIsLast
<1>2. Len(list) \in 0 .. Len(list)
  OBVIOUS
<1>3. QED
  BY <1>1, <1>2 DEF Firsts

\* A list without actions for m gives none.
LEMMA ForNone ==
  ASSUME NEW list \in Seq(Action), NEW m, \A i \in 1 .. Len(list) : list[i].to # m
  PROVE  For(list, m) = <<>>
<1>1. PICK f : Firsts(f, list, m) /\ For(list, m) = f[Len(list)]
  BY ForIsLast
<1> DEFINE l == Len(list)
           T == {i \in 0 .. l : f[i] = <<>>}
<1>2. 0 \in T /\ l \in Nat
  BY <1>1 DEF Firsts
<1>3. ASSUME NEW i \in 1 .. l, i - 1 \in T PROVE i \in T
  BY <1>1, <1>3 DEF Firsts
<1>4. \A i \in 0 .. l : i \in T
  <2> HIDE DEF T, l
  <2>1. QED
    BY <1>2, <1>3, UpTo
<1>5. l \in T
  BY <1>2, <1>4
<1>6. QED
  BY <1>1, <1>5

\* The empty list gives none.
LEMMA ForEmpty == \A m : For(<<>>, m) = <<>>
<1> DEFINE e == <<>>
<1>1. e \in Seq(Action) /\ Len(e) = 0
  OBVIOUS
<1> HIDE DEF e
<1>2. \A i \in 1 .. Len(e) : FALSE
  BY <1>1
<1>3. ASSUME NEW m PROVE For(e, m) = <<>>
  BY <1>1, <1>2, ForNone
<1>4. QED
  BY <1>3 DEF e

\* A list of one action gives that action or none.
LEMMA ForOne ==
  ASSUME NEW a \in Action, NEW m
  PROVE  For(<<a>>, m) = IF a.to = m THEN <<a>> ELSE <<>>
<1> DEFINE o == <<a>>
<1>1. o \in Seq(Action) /\ Len(o) = 1 /\ o[1] = a
  OBVIOUS
<1> HIDE DEF o
<1>2. PICK f : Firsts(f, o, m) /\ For(o, m) = f[Len(o)]
  BY <1>1, ForIsLast
<1>3. f[0] = <<>> /\ f[1] = IF a.to = m THEN Append(f[0], a) ELSE f[0]
  BY <1>1, <1>2 DEF Firsts
<1>4. Append(<<>>, a) = <<a>>
  OBVIOUS
<1>5. QED
  BY <1>1, <1>2, <1>3, <1>4 DEF o

\* For of two lists, one after the other.
LEMMA ForConcat ==
  ASSUME NEW l1 \in Seq(Action), NEW l2 \in Seq(Action), NEW m
  PROVE  For(l1 \o l2, m) = For(l1, m) \o For(l2, m)
<1> DEFINE c == l1 \o l2
           n1 == Len(l1)
           n2 == Len(l2)
           F1 == For(l1, m)
<1>1. /\ c \in Seq(Action) /\ Len(c) = n1 + n2 /\ n1 \in Nat /\ n2 \in Nat
      /\ \A i \in 1 .. n1 + n2 : c[i] = IF i <= n1 THEN l1[i] ELSE l2[i - n1]
  BY ConcatProperties
<1> HIDE DEF c
<1>2. PICK f : Firsts(f, l1, m) /\ F1 = f[n1]
  BY ForIsLast
<1>3. PICK g : Firsts(g, l2, m) /\ For(l2, m) = g[n2]
  BY ForIsLast
<1>4. PICK h : Firsts(h, c, m) /\ For(c, m) = h[Len(c)]
  BY <1>1, ForIsLast
<1>5. F1 \in Seq(Action)
  BY ForType
<1> HIDE DEF F1
<1>6. h[n1] = F1
  <2>1. AlikeTo(n1, l1, c)
    BY <1>1 DEF AlikeTo
  <2>2. QED
    BY <1>1, <1>2, <1>4, <2>1, FirstsAlike
<1> HIDE DEF n1, n2
<1> DEFINE T == {i \in 0 .. n2 : h[n1 + i] = F1 \o g[i]}
<1>7. 0 \in T
  <2>1. g[0] = <<>> /\ F1 \o <<>> = F1
    BY <1>3, <1>5, ConcatEmptySeq DEF Firsts
  <2>2. n1 + 0 = n1 /\ 0 \in 0 .. n2
    BY <1>1
  <2>3. h[n1 + 0] = F1 \o g[0]
    BY <1>6, <2>1, <2>2
  <2>4. QED
    BY <2>2, <2>3
<1>8. ASSUME NEW i \in 1 .. n2, i - 1 \in T PROVE i \in T
  <2> DEFINE k == n1 + i
  <2>1. k \in 1 .. n1 + n2 /\ ~ (k <= n1) /\ k - n1 = i /\ k - 1 = n1 + (i - 1)
    BY <1>1
  <2>2. h[k - 1] = F1 \o g[i - 1] /\ g[i - 1] \in Seq(Action) /\ l2[i] \in Action
    <3>1. i - 1 \in 0 .. n2 /\ h[n1 + (i - 1)] = F1 \o g[i - 1]
      BY <1>8
    <3>2. g[i - 1] \in Seq(Action)
      BY <1>3, <3>1 DEF Firsts, n2
    <3>3. l2[i] \in Action
      BY DEF n2
    <3>4. QED
      BY <2>1, <3>1, <3>2, <3>3
  <2> HIDE DEF k
  <2>3. c[k] = l2[i]
    BY <1>1, <2>1
  <2>4. h[k] = IF l2[i].to = m THEN Append(h[k - 1], l2[i]) ELSE h[k - 1]
    BY <1>1, <1>4, <2>1, <2>3 DEF Firsts
  <2>5. g[i] = IF l2[i].to = m THEN Append(g[i - 1], l2[i]) ELSE g[i - 1]
    BY <1>3 DEF Firsts, n2
  <2>6. Append(F1 \o g[i - 1], l2[i]) = F1 \o Append(g[i - 1], l2[i])
    <3> DEFINE x == g[i - 1]
               e == l2[i]
    <3> HIDE DEF x, e
    <3>1. /\ Append(F1 \o x, e) = (F1 \o x) \o <<e>>
          /\ Append(x, e) = x \o <<e>>
      BY <1>5, <2>2, AppendIsConcat, ConcatProperties DEF x, e
    <3>2. <<e>> \in Seq(Action) /\ x \in Seq(Action)
      BY <2>2 DEF x, e
    <3>3. (F1 \o x) \o <<e>> = F1 \o (x \o <<e>>)
      <4> DEFINE o == <<e>>
      <4>1. o \in Seq(Action)
        BY <3>2
      <4> HIDE DEF o
      <4>2. Regrouped(F1, x, o)
        BY <1>5, <3>2, <4>1, Grouped
      <4>3. QED
        BY <4>2 DEF o, Regrouped
    <3>4. QED
      BY <3>1, <3>3 DEF x, e
  <2>7. h[k] = F1 \o g[i]
    BY <2>2, <2>4, <2>5, <2>6
  <2>8. QED
    BY <1>1, <2>7 DEF k
<1>9. \A i \in 0 .. n2 : i \in T
  <2> HIDE DEF T
  <2>1. QED
    BY <1>1, <1>7, <1>8, UpTo
<1>10. n2 \in T
  BY <1>1, <1>9
<1>11. QED
  BY <1>1, <1>3, <1>4, <1>10 DEF n1, n2, F1, c

\* What For makes of two lists one after the other, under a name.
Splits(l1, l2, m) == For(l1 \o l2, m) = For(l1, m) \o For(l2, m)

LEMMA ForSplits ==
  ASSUME NEW l1 \in Seq(Action), NEW l2 \in Seq(Action), NEW m
  PROVE  Splits(l1, l2, m)
BY ForConcat DEF Splits
-----------------------------------------------------------------------------
(* The action at k is taken out of a list: for other maps nothing changes, and *)
(* for its own, when it is the first one there, it was the head.               *)
LEMMA ForRemove ==
  ASSUME NEW list \in Seq(Action), NEW k \in 1 .. Len(list), NEW m
  PROVE  /\ list[k].to # m => For(RemoveAt(list, k), m) = For(list, m)
         /\ list[k].to = m /\ (\A i \in 1 .. k - 1 : list[i].to # m)
              => For(list, m) = <<list[k]>> \o For(RemoveAt(list, k), m)
<1> DEFINE l == Len(list)
           p == SubSeq(list, 1, k - 1)
           q == SubSeq(list, k, l)
           r == SubSeq(list, k + 1, l)
           a == list[k]
           o == <<a>>
<1>1. l \in Nat /\ k - 1 \in Nat /\ k - 1 <= l /\ a \in Action
  OBVIOUS
<1>2. /\ p \in Seq(Action) /\ Len(p) = k - 1
      /\ \A i \in 1 .. k - 1 : p[i] = list[i]
  BY <1>1, FirstOnes
<1>3. q \in Seq(Action) /\ r \in Seq(Action)
  <2>1. k \in Nat \ {0} /\ k + 1 \in Nat \ {0} /\ l <= Len(list)
    OBVIOUS
  <2>2. QED
    BY <1>1, <2>1, PartOf
<1>4. list = p \o q
  <2>1. /\ 1 \in 1 .. Len(list) + 1 /\ k - 1 \in 1 - 1 .. Len(list) /\ l \in k - 1 .. Len(list)
        /\ (k - 1) + 1 = k
    OBVIOUS
  <2>2. SubSeq(list, 1, k - 1) \o SubSeq(list, (k - 1) + 1, l) = SubSeq(list, 1, l)
    BY <2>1, ConcatAdjacentSubSeq
  <2>3. SubSeq(list, 1, l) = list
    BY SubSeqFull
  <2>4. QED
    BY <2>1, <2>2, <2>3
<1>5. q = o \o r
  <2>1. l \in k .. Len(list)
    OBVIOUS
  <2>2. QED
    BY <2>1, SubSeqRecursiveFirst
<1>6. RemoveAt(list, k) = p \o r
  BY DEF RemoveAt
<1>7. o \in Seq(Action) /\ For(o, m) = IF a.to = m THEN o ELSE <<>>
  BY <1>1, ForOne
<1> HIDE DEF p, q, r, a, o, l
<1> DEFINE fp == For(p, m)
           fr == For(r, m)
<1>8. /\ For(list, m) = fp \o For(q, m)
      /\ For(q, m) = For(o, m) \o fr
      /\ For(RemoveAt(list, k), m) = fp \o fr
  <2>1. Splits(p, q, m) /\ Splits(p, r, m) /\ Splits(o, r, m)
    BY <1>2, <1>3, <1>7, ForSplits
  <2>2. QED
    BY <1>4, <1>5, <1>6, <2>1 DEF fp, fr, Splits
<1>9. fp \in Seq(Action) /\ fr \in Seq(Action)
  BY <1>2, <1>3, ForType
<1> HIDE DEF fp, fr
<1>10. ASSUME a.to # m PROVE For(RemoveAt(list, k), m) = For(list, m)
  <2>1. For(q, m) = fr
    BY <1>7, <1>8, <1>9, <1>10, ConcatEmptySeq
  <2>2. QED
    BY <1>8, <2>1
<1>11. ASSUME a.to = m, \A i \in 1 .. k - 1 : list[i].to # m
       PROVE  For(list, m) = o \o For(RemoveAt(list, k), m)
  <2>1. fp = <<>>
    <3>1. \A i \in 1 .. Len(p) : p[i].to # m
      BY <1>2, <1>11
    <3>2. QED
      BY <1>2, <3>1, ForNone DEF fp
  <2>2. o \o fr \in Seq(Action)
    BY <1>7, <1>9, ConcatProperties
  <2>3. For(list, m) = o \o fr /\ For(RemoveAt(list, k), m) = fr
    BY <1>7, <1>8, <1>9, <1>11, <2>1, <2>2, ConcatEmptySeq
  <2>4. QED
    BY <2>3
<1>12. QED
  BY <1>10, <1>11 DEF a, o

\* The action at k is the first one for the map m.
FirstFor(list, k, m) == list[k].to = m /\ \A i \in 1 .. k - 1 : list[i].to # m

Moved(x, list, k, m) ==
  Append(x, list[k]) \o For(RemoveAt(list, k), m) = x \o For(list, m)

(* Nothing on the way to the map m changes when the first action for it goes  *)
(* from a list to the end of the next one.                                    *)
LEMMA MovesDown ==
  ASSUME NEW x \in Seq(Action), NEW list \in Seq(Action), NEW k \in 1 .. Len(list), NEW m,
         FirstFor(list, k, m)
  PROVE  Moved(x, list, k, m)
<1> DEFINE a == list[k]
           o == <<a>>
           f == For(RemoveAt(list, k), m)
<1>1. a \in Action /\ o \in Seq(Action)
  OBVIOUS
<1>2. f \in Seq(Action)
  BY RemoveAtPositions, ForType
<1>3. For(list, m) = o \o f
  BY ForRemove DEF FirstFor
<1>4. Append(x, a) = x \o o
  BY <1>1, AppendIsConcat
<1> HIDE DEF a, o, f
<1>5. (x \o o) \o f = x \o (o \o f)
  <2>1. x \in Seq(Action) /\ o \in Seq(Action) /\ f \in Seq(Action)
    BY <1>1, <1>2
  <2>2. QED
    BY <2>1, Regroup
<1>6. QED
  BY <1>3, <1>4, <1>5 DEF a, f, Moved

\* An action at the end of a list comes last of those for its map.
LEMMA ForAppend ==
  ASSUME NEW list \in Seq(Action), NEW a \in Action, NEW m
  PROVE  For(Append(list, a), m) = IF a.to = m THEN Append(For(list, m), a) ELSE For(list, m)
<1> DEFINE o == <<a>>
           f == For(list, m)
<1>1. o \in Seq(Action) /\ For(o, m) = IF a.to = m THEN o ELSE <<>>
  BY ForOne
<1>2. f \in Seq(Action)
  BY ForType
<1>3. Append(list, a) = list \o o /\ Append(f, a) = f \o o
  BY <1>2, AppendIsConcat
<1> HIDE DEF o
<1>4. For(list \o o, m) = f \o For(o, m)
  BY <1>1, ForConcat
<1> HIDE DEF f
<1>5. f \o <<>> = f
  BY <1>2, ConcatEmptySeq
<1>6. QED
  BY <1>1, <1>3, <1>4, <1>5 DEF f
-----------------------------------------------------------------------------
(* What a delegation loop has passed over keeps being for a scope that is not   *)
(* active.                                                                      *)
LEMMA DelegateEnvPassed ==
  ASSUME IInv, PassedInv, DelegateEnv PROVE PassedInv'
<1>1. Types /\ Control
  BY Parts DEF TreeInv
<1>2. /\ pc = "env"
      /\ Delegate(envAction, globalActive, IF globalActive THEN "global" ELSE "host")
      /\ UNCHANGED <<globalActive, current>>
  BY DEF DelegateEnv, flags
<1>3. CASE pos <= Len(envAction)
  <2>1. pc' = "env" /\ (globalActive => pos' = 1)
    BY <1>2, <1>3 DEF Delegate, PassedInv
  <2>2. QED
    BY <1>2, <2>1 DEF PassedInv
<1>4. CASE ~ (pos <= Len(envAction))
  <2>1. pc' \in {"global", "host"} /\ pos' = 1
    BY <1>2, <1>4 DEF Delegate
  <2>2. ASSUME pc' = "global", NEW i \in DOMAIN globalAction', i < pos' PROVE FALSE
    <3>1. globalAction' \in Seq(Action)
      <4>1. globalAction' = globalAction
        BY <1>4 DEF DelegateEnv, Joined
      <4>2. QED
        BY <1>1, <4>1 DEF Types
    <3>2. QED
      BY <2>1, <2>2, <3>1
  <2>3. QED
    BY <2>1, <2>2 DEF PassedInv
<1>5. QED
  BY <1>3, <1>4

\* The same in the loop of the global scope...
LEMMA DelegateGlobalPassed ==
  ASSUME IInv, PassedInv, DelegateGlobal PROVE PassedInv'
<1> DEFINE h == globalAction[pos].to[1]
<1>1. Types /\ Control /\ Scopes
  BY Parts DEF TreeInv
<1>2. /\ pc = "global"
      /\ Delegate(globalAction, hubActive[h], "hubs")
      /\ globalAction' = Rest(globalAction, hubActive[h])
      /\ current' = current
  BY DEF DelegateGlobal
<1>3. \A i \in DOMAIN globalAction : i < pos => globalAction[i].to[1] # current[1]
  BY <1>2 DEF PassedInv
<1>4. globalAction \in Seq(Action) /\ pos \in Nat \ {0}
  BY <1>1 DEF Types, Control
<1>5. CASE pos <= Len(globalAction)
  <2>1. pos \in 1 .. Len(globalAction) /\ globalAction[pos] \in Action /\ h \in Hub
    <3>1. pos \in 1 .. Len(globalAction) /\ globalAction[pos] \in Action
      BY <1>4, <1>5
    <3>2. QED
      BY <3>1, Ids DEF Action
  <2>2. hubActive[h] <=> h = current[1]
    BY <1>1, <2>1 DEF Scopes
  <2>3. pc' = "global"
    BY <1>2, <1>5 DEF Delegate
  <2>4. CASE hubActive[h]
    <3>1. pos' = pos /\ globalAction' = RemoveAt(globalAction, pos)
      BY <1>2, <1>5, <2>4 DEF Delegate, Rest
    <3> DEFINE r == RemoveAt(globalAction, pos)
    <3>2. /\ r \in Seq(Action) /\ Len(r) = Len(globalAction) - 1
          /\ \A i \in 1 .. Len(globalAction) - 1 :
               r[i] = IF i < pos THEN globalAction[i] ELSE globalAction[i + 1]
      BY <1>4, <2>1, RemoveAtPositions
    <3> HIDE DEF r
    <3>3. ASSUME NEW i \in DOMAIN r, i < pos PROVE r[i].to[1] # current[1]
      <4>1. i \in 1 .. Len(globalAction) - 1 /\ i \in DOMAIN globalAction
        BY <1>4, <3>2
      <4>2. r[i] = globalAction[i]
        BY <3>2, <3>3, <4>1
      <4>3. QED
        BY <1>3, <3>3, <4>1, <4>2
    <3>4. QED
      BY <1>2, <2>3, <3>1, <3>3 DEF PassedInv, r
  <2>5. CASE ~ hubActive[h]
    <3>1. pos' = pos + 1 /\ globalAction' = globalAction
      BY <1>2, <1>5, <2>5 DEF Delegate, Rest
    <3>2. globalAction[pos].to[1] # current[1]
      BY <2>2, <2>5
    <3>3. ASSUME NEW i \in DOMAIN globalAction, i < pos + 1
          PROVE  globalAction[i].to[1] # current[1]
      <4>1. i < pos \/ i = pos
        BY <1>4, <3>3
      <4> HIDE DEF h
      <4>2. QED
        BY <1>3, <3>2, <4>1
    <3>4. QED
      BY <1>2, <2>3, <3>1, <3>3 DEF PassedInv
  <2>6. QED
    BY <2>4, <2>5
<1>6. CASE ~ (pos <= Len(globalAction))
  <2>1. pc' = "hubs" /\ pos' = 1
    BY <1>2, <1>6 DEF Delegate
  <2>2. QED
    BY <2>1 DEF PassedInv
<1>7. QED
  BY <1>5, <1>6

\* ... and in the loop of a hub.
LEMMA DelegateHubPassed ==
  ASSUME IInv, PassedInv, DelegateHub PROVE PassedInv'
<1> DEFINE h == at[1]
           list == hubAction[h]
           m == list[pos].to
<1>1. Types /\ Control /\ Scopes /\ TicInv
  BY Parts DEF TreeInv
<1>2. /\ pc = "hub"
      /\ Delegate(list, mapActive[m], "maps")
      /\ hubAction' = [hubAction EXCEPT ![h] = Rest(list, mapActive[m])]
      /\ current' = current
  BY DEF DelegateHub
<1>3. h = current[1] /\ current \in MapId /\ h \in Hub
  BY <1>1, <1>2, Ids DEF TicInv, Types
<1>4. \A i \in DOMAIN list : i < pos => list[i].to # current
  BY <1>2, <1>3 DEF PassedInv
<1>5. list \in Seq(Action) /\ pos \in Nat \ {0}
  BY <1>1, <1>3 DEF Types, Control
<1>6. hubAction'[current'[1]] = Rest(list, mapActive[m])
  BY <1>1, <1>2, <1>3 DEF Types
<1> HIDE DEF h
<1>7. CASE pos <= Len(list)
  <2>1. pos \in 1 .. Len(list) /\ list[pos] \in Action /\ m \in MapId
    <3>1. pos \in 1 .. Len(list) /\ list[pos] \in Action
      BY <1>5, <1>7
    <3>2. QED
      BY <3>1 DEF Action
  <2>2. mapActive[m] <=> m = current
    BY <1>1, <2>1 DEF Scopes
  <2>3. pc' = "hub"
    BY <1>2, <1>7 DEF Delegate
  <2>4. CASE mapActive[m]
    <3> DEFINE r == RemoveAt(list, pos)
    <3>1. pos' = pos /\ hubAction'[current'[1]] = r
      BY <1>2, <1>6, <1>7, <2>4 DEF Delegate, Rest
    <3>2. /\ r \in Seq(Action) /\ Len(r) = Len(list) - 1
          /\ \A i \in 1 .. Len(list) - 1 : r[i] = IF i < pos THEN list[i] ELSE list[i + 1]
      BY <1>5, <2>1, RemoveAtPositions
    <3> HIDE DEF r, list
    <3>3. ASSUME NEW i \in DOMAIN r, i < pos PROVE r[i].to # current
      <4>1. i \in 1 .. Len(list) - 1 /\ i \in DOMAIN list
        BY <1>5, <3>2
      <4>2. r[i] = list[i]
        BY <3>2, <3>3, <4>1
      <4>3. QED
        BY <1>4, <3>3, <4>1, <4>2
    <3>4. QED
      BY <1>2, <2>3, <3>1, <3>3 DEF PassedInv
  <2>5. CASE ~ mapActive[m]
    <3>1. pos' = pos + 1 /\ hubAction'[current'[1]] = list
      BY <1>2, <1>6, <1>7, <2>5 DEF Delegate, Rest
    <3>2. list[pos].to # current
      BY <2>2, <2>5
    <3> HIDE DEF list
    <3>3. ASSUME NEW i \in DOMAIN list, i < pos + 1 PROVE list[i].to # current
      <4>1. i < pos \/ i = pos
        BY <1>5, <3>3
      <4>2. QED
        BY <1>4, <3>2, <4>1
    <3>4. QED
      BY <1>2, <2>3, <3>1, <3>3 DEF PassedInv
  <2>6. QED
    BY <2>4, <2>5
<1>8. CASE ~ (pos <= Len(list))
  <2>1. pc' = "maps" /\ pos' = 1
    BY <1>2, <1>8 DEF Delegate
  <2>2. QED
    BY <2>1 DEF PassedInv
<1>9. QED
  BY <1>7, <1>8

\* Every other step ends or begins a loop, or leaves lists and scopes alone.
LEMMA PassedNext == IInv /\ PassedInv /\ [Next]_vars => PassedInv'
<1> SUFFICES ASSUME IInv, PassedInv, [Next]_vars PROVE PassedInv'
  OBVIOUS
<1>1. Types
  BY Parts DEF TreeInv
<1>2. CASE \/ \E m \in MapId : LoadHubMap(m)
           \/ HostDefers \/ SaveState \/ LoadState \/ Scripts
  <2>1. pc \in {"host", "scripts"} /\ UNCHANGED <<pc, pos>>
    BY <1>2 DEF LoadHubMap, HostDefers, SaveState, LoadState, Scripts, ScriptDefers,
                ScriptAssigns, control
  <2>2. QED
    BY <2>1 DEF PassedInv
<1>3. CASE \/ BeginTic \/ EndTic \/ BeginMap \/ ApplyAction \/ BeginScripts
           \/ EndMap \/ EndHub \/ Underflow \/ Restart
  <2>1. pos' = 1 /\ pc' \notin {"global", "hub"}
    BY <1>3 DEF BeginTic, EndTic, BeginMap, ApplyAction, BeginScripts, EndMap, EndHub,
                Underflow, Restart, PassedInv, control
  <2>2. QED
    BY <2>1 DEF PassedInv
<1>4. CASE BeginHub
  <2>1. pos' = 1 /\ pc' = "hub" /\ UNCHANGED <<hubAction, current>>
    BY <1>4 DEF BeginHub, PassedInv, lists
  <2>2. hubAction[current[1]] \in Seq(Action)
    <3>1. current \in MapId
      BY <1>1, <1>4, Parts, Ids DEF BeginHub, TreeInv, TicInv, Scopes, Control, Types
    <3>2. QED
      BY <1>1, <3>1, Ids DEF Types
  <2>3. ~ \E i \in DOMAIN hubAction[current[1]] : i < 1
    BY <2>2
  <2>4. QED
    BY <2>1, <2>3 DEF PassedInv
<1>5. CASE DelegateEnv \/ DelegateGlobal \/ DelegateHub
  BY <1>5, DelegateEnvPassed, DelegateGlobalPassed, DelegateHubPassed
<1>6. CASE UNCHANGED vars
  BY <1>6 DEF vars, lists, flags, control, PassedInv
<1>7. QED
  BY <1>2, <1>3, <1>4, <1>5, <1>6 DEF Next, HostCall, Exec
-----------------------------------------------------------------------------
(* The journey, on the variables of the tree. *)

Waiting(m) == mapAction[m] \o For(hubAction[m[1]], m) \o For(globalAction, m) \o For(envAction, m)
HubVar == IF current = NoId THEN 0 ELSE hubReg[current[1]]
MapVar == [m \in {n \in MapId : hasModules[n]} |-> mapReg[m]]
Boxes  == [m \in MapId |-> Waiting(m)]
Now == [where |-> current, globalVar |-> globalReg, hubVar |-> HubVar,
        mapVar |-> MapVar, box |-> Boxes]
Kept == IF saved = NoSave THEN {} ELSE {Journey(saved)}

\* The state that the refinement shows, by its parts.
LEMMA NowIsJourney == Journey(tree) = Now
BY DEF Journey, tree, Mailbox, Waiting, HubVar, MapVar, Boxes, Now

\* The same of the next state.
LEMMA NowIsJourneyNext == Journey(tree)' = Now'
BY DEF Journey, tree, Mailbox, Waiting, HubVar, MapVar, Boxes, Now

\* What waits for a map is a list of actions, and so are its four parts.
LEMMA WaitingType ==
  ASSUME Types, NEW m \in MapId
  PROVE  /\ mapAction[m] \in Seq(Action)
         /\ hubAction[m[1]] \in Seq(Action) /\ For(hubAction[m[1]], m) \in Seq(Action)
         /\ globalAction \in Seq(Action) /\ For(globalAction, m) \in Seq(Action)
         /\ envAction \in Seq(Action) /\ For(envAction, m) \in Seq(Action)
         /\ mapAction[m] \o For(hubAction[m[1]], m) \in Seq(Action)
         /\ mapAction[m] \o For(hubAction[m[1]], m) \o For(globalAction, m) \in Seq(Action)
         /\ Waiting(m) \in Seq(Action)
<1>1. m[1] \in Hub
  BY Ids
<1>2. /\ mapAction[m] \in Seq(Action) /\ hubAction[m[1]] \in Seq(Action)
      /\ globalAction \in Seq(Action) /\ envAction \in Seq(Action)
  BY <1>1 DEF Types
<1> DEFINE a == mapAction[m]
           b == For(hubAction[m[1]], m)
           c == For(globalAction, m)
           d == For(envAction, m)
<1>3. b \in Seq(Action) /\ c \in Seq(Action) /\ d \in Seq(Action)
  BY <1>2, ForType
<1>4. Waiting(m) = a \o b \o c \o d
  BY DEF Waiting
<1>5. a \in Seq(Action)
  BY <1>2
<1> HIDE DEF a, b, c, d
<1>6. a \o b \in Seq(Action)
  BY <1>3, <1>5, ConcatProperties
<1>7. a \o b \o c \in Seq(Action)
  BY <1>3, <1>6, ConcatProperties
<1>8. a \o b \o c \o d \in Seq(Action)
  BY <1>3, <1>7, ConcatProperties
<1>9. QED
  BY <1>2, <1>3, <1>4, <1>6, <1>7, <1>8 DEF a, b, c, d

(* A step that moves actions down on the way to their maps does not show. *)
LEMMA Unseen ==
  ASSUME UNCHANGED <<current, regs, hasModules, saved>>,
         \A m \in MapId : Waiting(m)' = Waiting(m)
  PROVE  UNCHANGED <<Journey(tree), Kept>>
<1>1. UNCHANGED <<HubVar, MapVar>>
  BY DEF HubVar, MapVar, regs
<1>2. Boxes' = Boxes
  BY DEF Boxes
<1>3. Now' = Now
  BY <1>1, <1>2 DEF Now, regs
<1>4. Kept' = Kept
  BY DEF Kept, Journey, Mailbox
<1>5. QED
  BY <1>3, <1>4, NowIsJourney, NowIsJourneyNext

\* An action that goes is the first one for its map.
Foremost(from, goes) ==
  goes /\ pos <= Len(from) => \A i \in 1 .. pos - 1 : from[i].to # from[pos].to

(* The first action for the map m goes from one list to the next, or none.    *)
LEMMA HandedDown ==
  ASSUME NEW list \in Seq(Action), NEW from \in Seq(Action), NEW goes \in BOOLEAN, NEW m,
         pos \in Nat \ {0},
         Foremost(from, goes)
  PROVE  For(Joined(list, from, goes), m) \o For(Rest(from, goes), m)
           = For(list, m) \o For(from, m)
<1>1. CASE pos <= Len(from) /\ goes
  <2> DEFINE a == from[pos]
  <2>1. pos \in 1 .. Len(from) /\ a \in Action
    BY <1>1
  <2>2. Joined(list, from, goes) = Append(list, a) /\ Rest(from, goes) = RemoveAt(from, pos)
    BY <1>1 DEF Joined, Rest
  <2>3. For(list, m) \in Seq(Action)
    BY ForType
  <2>4. CASE a.to = m
    <3>1. \A i \in 1 .. pos - 1 : from[i].to # m
      BY <1>1, <2>4 DEF Foremost
    <3>2. Append(For(list, m), a) \o For(RemoveAt(from, pos), m) = For(list, m) \o For(from, m)
      <4> DEFINE x == For(list, m)
      <4>1. x \in Seq(Action) /\ from[pos].to = m
        BY <2>3, <2>4
      <4> HIDE DEF x
      <4>2. Append(x, from[pos]) \o For(RemoveAt(from, pos), m) = x \o For(from, m)
        <5>1. FirstFor(from, pos, m)
          BY <3>1, <4>1 DEF FirstFor
        <5>2. Moved(x, from, pos, m)
          BY <2>1, <4>1, <5>1, MovesDown
        <5>3. QED
          BY <5>2 DEF Moved
      <4>3. QED
        BY <4>2 DEF x
    <3>3. For(Append(list, a), m) = Append(For(list, m), a)
      BY <2>1, <2>4, ForAppend
    <3> HIDE DEF a
    <3>4. QED
      BY <2>2, <3>2, <3>3
  <2>5. CASE a.to # m
    <3>1. For(RemoveAt(from, pos), m) = For(from, m)
      BY <2>1, <2>5, ForRemove
    <3>2. For(Append(list, a), m) = For(list, m)
      BY <2>1, <2>5, ForAppend
    <3> HIDE DEF a
    <3>3. QED
      BY <2>2, <3>1, <3>2
  <2>6. QED
    BY <2>4, <2>5
<1>2. CASE ~ (pos <= Len(from) /\ goes)
  BY <1>2 DEF Joined, Rest
<1>3. QED
  BY <1>1, <1>2

(* An action for another map goes from the list, or none. *)
LEMMA OthersStay ==
  ASSUME NEW from \in Seq(Action), NEW goes \in BOOLEAN, NEW m, pos \in Nat \ {0},
         goes /\ pos <= Len(from) => from[pos].to # m
  PROVE  For(Rest(from, goes), m) = For(from, m)
<1>1. CASE pos <= Len(from) /\ goes
  <2>1. pos \in 1 .. Len(from)
    BY <1>1
  <2>2. For(RemoveAt(from, pos), m) = For(from, m)
    BY <1>1, <2>1, ForRemove
  <2>3. QED
    BY <1>1, <2>2 DEF Rest
<1>2. CASE ~ (pos <= Len(from) /\ goes)
  BY <1>2 DEF Rest
<1>3. QED
  BY <1>1, <1>2
-----------------------------------------------------------------------------
\* Handing an action down from the environment shows in no mailbox.
LEMMA DelegateEnvUnseen ==
  ASSUME IInv, PassedInv, DelegateEnv PROVE UNCHANGED <<Journey(tree), Kept>>
<1>1. Types /\ Control
  BY Parts DEF TreeInv
<1>2. /\ pc = "env"
      /\ envAction' = Rest(envAction, globalActive)
      /\ globalAction' = Joined(globalAction, envAction, globalActive)
      /\ UNCHANGED <<hubAction, mapAction, current, regs, hasModules, saved>>
  BY DEF DelegateEnv, flags
<1>3. ASSUME NEW m \in MapId PROVE Waiting(m)' = Waiting(m)
  <2> DEFINE ab == mapAction[m] \o For(hubAction[m[1]], m)
             c == For(globalAction, m)
             d == For(envAction, m)
             c2 == For(globalAction', m)
             d2 == For(envAction', m)
  <2>1. ab \in Seq(Action) /\ c \in Seq(Action) /\ d \in Seq(Action)
    BY <1>1, WaitingType
  <2>2. c2 \in Seq(Action) /\ d2 \in Seq(Action)
    <3>1. globalAction' \in Seq(Action) /\ envAction' \in Seq(Action)
      <4>1. TreeInv'
        BY Parts, DelegateEnvKeeps
      <4>2. QED
        BY <4>1 DEF TreeInv, Types
    <3>2. QED
      BY <3>1, ForType
  <2>3. c2 \o d2 = c \o d
    <3>1. /\ globalAction \in Seq(Action) /\ envAction \in Seq(Action)
          /\ globalActive \in BOOLEAN /\ pos \in Nat \ {0}
      BY <1>1 DEF Types, Control
    <3>2. Foremost(envAction, globalActive)
      BY <1>2 DEF PassedInv, Foremost
    <3>3. For(Joined(globalAction, envAction, globalActive), m)
            \o For(Rest(envAction, globalActive), m)
            = For(globalAction, m) \o For(envAction, m)
      BY <3>1, <3>2, HandedDown
    <3>4. QED
      BY <1>2, <3>3
  <2>4. Waiting(m) = (ab \o c) \o d
    BY DEF Waiting
  <2>5. Waiting(m)' = (ab \o c2) \o d2
    BY <1>2 DEF Waiting
  <2> HIDE DEF ab, c, d, c2, d2
  <2>6. (ab \o c) \o d = ab \o (c \o d)
    <3>1. Regrouped(ab, c, d)
      BY <2>1, Grouped
    <3>2. QED
      BY <3>1 DEF Regrouped
  <2>7. (ab \o c2) \o d2 = ab \o (c2 \o d2)
    <3>1. Regrouped(ab, c2, d2)
      BY <2>1, <2>2, Grouped
    <3>2. QED
      BY <3>1 DEF Regrouped
  <2>8. QED
    BY <2>3, <2>4, <2>5, <2>6, <2>7
<1>4. QED
  BY <1>2, <1>3, Unseen

\* Nor does handing it down from the global scope...
LEMMA DelegateGlobalUnseen ==
  ASSUME IInv, PassedInv, DelegateGlobal PROVE UNCHANGED <<Journey(tree), Kept>>
<1> DEFINE h == globalAction[pos].to[1]
           active == hubActive[h]
<1>1. Types /\ Control /\ Scopes
  BY Parts DEF TreeInv
<1>2. /\ pc = "global"
      /\ globalAction' = Rest(globalAction, active)
      /\ hubAction' = [k \in Hub |-> Joined(hubAction[k], globalAction, active /\ k = h)]
      /\ UNCHANGED <<envAction, mapAction, current, regs, hasModules, saved>>
  BY DEF DelegateGlobal, flags
<1>3. globalAction \in Seq(Action) /\ pos \in Nat \ {0}
  BY <1>1 DEF Types, Control
<1>4. CASE pos <= Len(globalAction)
  <2>1. pos \in 1 .. Len(globalAction) /\ globalAction[pos] \in Action /\ h \in Hub
    <3>1. pos \in 1 .. Len(globalAction) /\ globalAction[pos] \in Action
      BY <1>3, <1>4
    <3>2. QED
      BY <3>1, Ids DEF Action
  <2>2. active \in BOOLEAN /\ (active => h = current[1])
    BY <1>1, <2>1 DEF Types, Scopes
  <2>3. active => \A i \in 1 .. pos - 1 : globalAction[i].to # globalAction[pos].to
    <3>1. ASSUME active, NEW i \in 1 .. pos - 1
          PROVE  globalAction[i].to # globalAction[pos].to
      <4>1. i \in DOMAIN globalAction /\ i < pos
        BY <1>3, <1>4
      <4>2. globalAction[i].to[1] # current[1]
        BY <1>2, <4>1 DEF PassedInv
      <4>3. QED
        BY <2>2, <3>1, <4>2
    <3>2. QED
      BY <3>1
  <2> HIDE DEF active
  <2>4. ASSUME NEW m \in MapId PROVE Waiting(m)' = Waiting(m)
    <3> DEFINE a == mapAction[m]
               l == hubAction[m[1]]
               l2 == hubAction'[m[1]]
               b == For(l, m)
               c == For(globalAction, m)
               d == For(envAction, m)
               b2 == For(l2, m)
               c2 == For(globalAction', m)
    <3>1. /\ a \in Seq(Action) /\ b \in Seq(Action) /\ c \in Seq(Action)
          /\ d \in Seq(Action) /\ l \in Seq(Action)
      BY <1>1, WaitingType
    <3>2. b2 \in Seq(Action) /\ c2 \in Seq(Action)
      <4>1. globalAction' \in Seq(Action) /\ l2 \in Seq(Action)
        <5>1. TreeInv'
          BY Parts, DelegateGlobalKeeps
        <5>2. m[1] \in Hub
          BY Ids
        <5>3. QED
          BY <5>1, <5>2 DEF TreeInv, Types
      <4>2. QED
        BY <4>1, ForType
    <3>3. l2 = Joined(l, globalAction, active /\ m[1] = h)
      BY <1>2, Ids
    <3>4. b2 \o c2 = b \o c
      <4>1. CASE m[1] = h
        <5>1. For(Joined(l, globalAction, active), m) \o For(Rest(globalAction, active), m)
                = For(l, m) \o For(globalAction, m)
          <6>1. l \in Seq(Action) /\ active \in BOOLEAN
            BY <2>2, <3>1
          <6>2. Foremost(globalAction, active)
            BY <2>3 DEF Foremost
          <6> HIDE DEF l, h
          <6>3. QED
            BY <1>3, <6>1, <6>2, HandedDown
        <5>2. l2 = Joined(l, globalAction, active)
          BY <2>2, <3>3, <4>1
        <5>3. QED
          BY <1>2, <5>1, <5>2
      <4>2. CASE m[1] # h
        <5>1. l2 = l
          BY <3>3, <4>2 DEF Joined
        <5>2. globalAction[pos].to # m
          BY <4>2
        <5>3. For(Rest(globalAction, active), m) = For(globalAction, m)
          BY <1>3, <2>2, <5>2, OthersStay
        <5>4. QED
          BY <1>2, <5>1, <5>3
      <4>3. QED
        BY <4>1, <4>2
    <3>5. Waiting(m) = ((a \o b) \o c) \o d
      BY DEF Waiting
    <3>6. Waiting(m)' = ((a \o b2) \o c2) \o d
      BY <1>2 DEF Waiting
    <3> HIDE DEF a, b, c, d, b2, c2
    <3>7. (a \o b) \o c = a \o (b \o c)
      <4>1. Regrouped(a, b, c)
        BY <3>1, Grouped
      <4>2. QED
        BY <4>1 DEF Regrouped
    <3>8. (a \o b2) \o c2 = a \o (b2 \o c2)
      <4>1. Regrouped(a, b2, c2)
        BY <3>1, <3>2, Grouped
      <4>2. QED
        BY <4>1 DEF Regrouped
    <3>9. QED
      BY <3>4, <3>5, <3>6, <3>7, <3>8
  <2>5. QED
    BY <1>2, <2>4, Unseen
<1>5. CASE ~ (pos <= Len(globalAction))
  <2>1. globalAction' = globalAction /\ hubAction' = hubAction
    BY <1>1, <1>2, <1>5 DEF Rest, Joined, Types
  <2>2. \A m \in MapId : Waiting(m)' = Waiting(m)
    BY <1>2, <2>1 DEF Waiting
  <2>3. QED
    BY <1>2, <2>2, Unseen
<1>6. QED
  BY <1>4, <1>5

\* ... or from a hub to its map.
LEMMA DelegateHubUnseen ==
  ASSUME IInv, PassedInv, DelegateHub PROVE UNCHANGED <<Journey(tree), Kept>>
<1> DEFINE h == at[1]
           list == hubAction[h]
           m == list[pos].to
           active == mapActive[m]
<1>1. Types /\ Control /\ Scopes /\ Lists /\ TicInv
  BY Parts DEF TreeInv
<1>2. /\ pc = "hub"
      /\ hubAction' = [hubAction EXCEPT ![h] = Rest(list, active)]
      /\ mapAction' = [n \in MapId |-> Joined(mapAction[n], list, active /\ n = m)]
      /\ UNCHANGED <<envAction, globalAction, current, regs, hasModules, saved>>
  BY DEF DelegateHub, flags
<1>3. h = current[1] /\ current \in MapId /\ h \in Hub
  BY <1>1, <1>2, Ids DEF TicInv, Types
<1>4. list \in Seq(Action) /\ pos \in Nat \ {0} /\ \A a \in ToSet(list) : a.to[1] = h
  BY <1>1, <1>3 DEF Types, Control, Lists
<1>5. \A k \in Hub : hubAction'[k] = IF k = h THEN Rest(list, active) ELSE hubAction[k]
  BY <1>1, <1>2, <1>3 DEF Types
<1>6. CASE pos <= Len(list)
  <2>1. pos \in 1 .. Len(list) /\ list[pos] \in Action /\ m \in MapId /\ m[1] = h
    <3>1. pos \in 1 .. Len(list) /\ list[pos] \in Action /\ list[pos] \in ToSet(list)
      BY <1>4, <1>6 DEF ToSet
    <3>2. QED
      BY <1>4, <3>1 DEF Action
  <2>2. active \in BOOLEAN /\ (active => m = current)
    BY <1>1, <2>1 DEF Types, Scopes
  <2>3. active => \A i \in 1 .. pos - 1 : list[i].to # m
    <3>1. ASSUME active, NEW i \in 1 .. pos - 1 PROVE list[i].to # m
      <4>1. i \in DOMAIN list /\ i < pos
        BY <1>4, <1>6
      <4>2. list[i].to # current
        BY <1>2, <1>3, <4>1 DEF PassedInv
      <4>3. QED
        BY <2>2, <3>1, <4>2
    <3>2. QED
      BY <3>1
  <2> HIDE DEF active, h
  <2>4. ASSUME NEW n \in MapId PROVE Waiting(n)' = Waiting(n)
    <3> DEFINE a == mapAction[n]
               b == For(hubAction[n[1]], n)
               a2 == mapAction'[n]
               b2 == For(hubAction'[n[1]], n)
    <3>1. a \in Seq(Action) /\ n[1] \in Hub
      BY <1>1, WaitingType, Ids
    <3>2. /\ a2 = Joined(a, list, active /\ n = m)
          /\ hubAction'[n[1]] = IF n[1] = h THEN Rest(list, active) ELSE hubAction[n[1]]
      BY <1>2, <1>5, <3>1
    <3>3. a2 \o b2 = a \o b
      <4>1. CASE n = m /\ active
        <5>1. a2 = Append(a, list[pos]) /\ Rest(list, active) = RemoveAt(list, pos)
          BY <1>6, <3>2, <4>1 DEF Joined, Rest
        <5>2. FirstFor(list, pos, n)
          BY <2>3, <4>1 DEF FirstFor
        <5> HIDE DEF a, list
        <5>3. Append(a, list[pos]) \o For(RemoveAt(list, pos), n) = a \o For(list, n)
          <6>1. Moved(a, list, pos, n)
            BY <1>4, <2>1, <3>1, <5>2, MovesDown
          <6>2. QED
            BY <6>1 DEF Moved
        <5>4. n[1] = h
          BY <2>1, <4>1
        <5>5. QED
          BY <3>2, <5>1, <5>3, <5>4 DEF list
      <4>2. CASE ~ (n = m /\ active)
        <5>1. a2 = a
          BY <3>2, <4>2 DEF Joined
        <5>2. active => list[pos].to # n
          BY <4>2
        <5>3. For(Rest(list, active), n) = For(list, n)
          BY <1>4, <2>2, <5>2, OthersStay
        <5>4. QED
          BY <3>2, <5>1, <5>3
      <4>3. QED
        BY <4>1, <4>2
    <3>4. QED
      BY <1>2, <3>3 DEF Waiting
  <2>5. QED
    BY <1>2, <2>4, Unseen
<1>7. CASE ~ (pos <= Len(list))
  <2>1. hubAction' = hubAction /\ mapAction' = mapAction
    BY <1>1, <1>2, <1>7 DEF Rest, Joined, Types
  <2>2. \A n \in MapId : Waiting(n)' = Waiting(n)
    BY <1>2, <2>1 DEF Waiting
  <2>3. QED
    BY <1>2, <2>2, Unseen
<1>8. QED
  BY <1>6, <1>7
-----------------------------------------------------------------------------
(* A call for another map is a posting there. *)
LEMMA DefersIsPost ==
  ASSUME Types, NEW m \in MapId \ {current}, NEW n \in Name,
         envAction' = Append(envAction, [to |-> m, name |-> n]),
         UNCHANGED <<globalAction, hubAction, mapAction, flags, regs, current, saved>>
  PROVE  Game!Post(m, n)
<1> DEFINE e == [to |-> m, name |-> n]
<1>1. e \in Action /\ e.to = m /\ envAction \in Seq(Action)
  BY DEF Action, Types
<1> HIDE DEF e
<1>2. ASSUME NEW k \in MapId
      PROVE  Waiting(k)' = IF k = m THEN Append(Waiting(k), e) ELSE Waiting(k)
  <2> DEFINE x == mapAction[k] \o For(hubAction[k[1]], k) \o For(globalAction, k)
             d == For(envAction, k)
  <2>1. x \in Seq(Action) /\ d \in Seq(Action)
    BY WaitingType
  <2>2. Waiting(k) = x \o d /\ Waiting(k)' = x \o For(envAction', k)
    BY DEF Waiting
  <2>3. For(envAction', k) = IF k = m THEN Append(d, e) ELSE d
    BY <1>1, ForAppend DEF e
  <2> HIDE DEF x, d
  <2>4. x \o Append(d, e) = Append(x \o d, e)
    <3> DEFINE o == <<e>>
    <3>1. o \in Seq(Action) /\ x \o d \in Seq(Action)
      BY <1>1, <2>1, ConcatProperties
    <3>2. Append(d, e) = d \o o /\ Append(x \o d, e) = (x \o d) \o o
      BY <1>1, <2>1, <3>1, AppendIsConcat
    <3> HIDE DEF o
    <3>3. (x \o d) \o o = x \o (d \o o)
      BY <2>1, <3>1, Regroup
    <3>4. QED
      BY <3>2, <3>3
  <2>5. QED
    BY <2>2, <2>3, <2>4
<1>3. UNCHANGED <<HubVar, MapVar, current, globalReg>>
  BY DEF HubVar, MapVar, regs, flags
<1>4. Boxes' = [Boxes EXCEPT ![m] = Append(@, e)]
  BY <1>2 DEF Boxes
<1>5. Now' = [Now EXCEPT !.box[m] = Append(@, e)]
  <2> DEFINE B == [Boxes EXCEPT ![m] = Append(@, e)]
  <2>1. Now' = [Now EXCEPT !.box = B]
    <3> HIDE DEF B
    <3>1. Boxes' = B
      BY <1>4 DEF B
    <3>2. QED
      BY <1>3, <3>1 DEF Now
  <2>2. Now.box = Boxes
    BY DEF Now
  <2>3. QED
    BY <2>1, <2>2
<1>6. Kept' = Kept /\ m # Now.where
  BY DEF Kept, Journey, Mailbox, Now
<1>7. QED
  BY <1>5, <1>6, NowIsJourney, NowIsJourneyNext DEF Game!Post, Kept, e

\* What the host defers is posted at the end of the mailbox.
LEMMA HostDefersPosts ==
  ASSUME IInv, HostDefers PROVE \E m \in MapId, n \in Name : Game!Post(m, n)
<1>1. Types
  BY Parts DEF TreeInv
<1>2. PICK m \in MapId \ {current}, n \in Name : Defer([to |-> m, name |-> n])
  BY DEF HostDefers
<1>3. Game!Post(m, n)
  BY <1>1, <1>2, DefersIsPost DEF HostDefers, Defer
<1>4. QED
  BY <1>3

\* What a script defers is posted there too.
LEMMA ScriptDefersPosts ==
  ASSUME IInv, ScriptDefers PROVE \E m \in MapId, n \in Name : Game!Post(m, n)
<1>1. Types /\ TicInv
  BY Parts DEF TreeInv
<1>2. PICK m \in Map, n \in Name :
        <<current[1], m>> # at /\ Defer([to |-> <<current[1], m>>, name |-> n])
  BY DEF ScriptDefers
<1> DEFINE k == <<current[1], m>>
<1>3. k \in MapId \ {current}
  BY <1>1, <1>2, Ids DEF ScriptDefers, TicInv, Types
<1>4. Game!Post(k, n)
  BY <1>1, <1>2, <1>3, DefersIsPost DEF ScriptDefers, Defer
<1>5. QED
  BY <1>3, <1>4

\* The tail of a joined list is that of the first part, if there is one.
LEMMA TailConcat ==
  ASSUME NEW x \in Seq(Action), NEW y \in Seq(Action), x # <<>>
  PROVE  x \o y # <<>> /\ Tail(x \o y) = Tail(x) \o y
<1> DEFINE c == x \o y
           t == Tail(x)
           d == t \o y
<1>1. /\ c \in Seq(Action) /\ Len(c) = Len(x) + Len(y)
      /\ \A i \in 1 .. Len(x) + Len(y) : c[i] = IF i <= Len(x) THEN x[i] ELSE y[i - Len(x)]
  BY ConcatProperties
<1>2. /\ t \in Seq(Action) /\ Len(t) = Len(x) - 1
      /\ \A i \in 1 .. Len(t) : t[i] = x[i + 1]
  BY HeadTailProperties
<1> HIDE DEF c, t
<1>3. /\ d \in Seq(Action) /\ Len(d) = Len(t) + Len(y)
      /\ \A i \in 1 .. Len(t) + Len(y) : d[i] = IF i <= Len(t) THEN t[i] ELSE y[i - Len(t)]
  BY <1>2, ConcatProperties
<1>4. Len(x) \in Nat \ {0} /\ Len(y) \in Nat
  OBVIOUS
<1>5. c # <<>>
  BY <1>1, <1>4
<1> DEFINE u == Tail(c)
<1>6. /\ u \in Seq(Action) /\ Len(u) = Len(c) - 1
      /\ \A i \in 1 .. Len(u) : u[i] = c[i + 1]
  BY <1>1, <1>5, HeadTailProperties
<1> HIDE DEF d, u
<1>7. ASSUME NEW i \in 1 .. Len(u) PROVE u[i] = d[i]
  <2>1. /\ i + 1 \in 1 .. Len(x) + Len(y) /\ i \in 1 .. Len(t) + Len(y)
        /\ (i + 1) - Len(x) = i - Len(t) /\ (i + 1 <= Len(x) <=> i <= Len(t))
    BY <1>1, <1>2, <1>4, <1>6
  <2>2. u[i] = IF i <= Len(t) THEN x[i + 1] ELSE y[i - Len(t)]
    BY <1>1, <1>6, <2>1
  <2>3. i <= Len(t) => t[i] = x[i + 1]
    BY <1>2, <1>4
  <2>4. d[i] = IF i <= Len(t) THEN t[i] ELSE y[i - Len(t)]
    BY <1>3, <2>1
  <2>5. QED
    BY <2>2, <2>3, <2>4
<1>8. Len(u) = Len(d)
  BY <1>1, <1>2, <1>3, <1>4, <1>6
<1>9. u = d
  BY <1>3, <1>6, <1>7, <1>8, SeqEqual
<1>10. QED
  BY <1>5, <1>9 DEF c, d, t, u

\* A map applies the head of the mailbox of the current map.
LEMMA ApplyActionApplies ==
  ASSUME IInv, ApplyAction PROVE Game!Apply
<1>1. Types /\ TicInv
  BY Parts DEF TreeInv
<1>2. /\ pc = "actions" /\ mapAction[at] # <<>>
      /\ mapAction' = [mapAction EXCEPT ![at] = Tail(@)]
      /\ UNCHANGED <<envAction, globalAction, hubAction, flags, regs, current, saved>>
  BY DEF ApplyAction
<1>3. at = current /\ current \in MapId
  BY <1>1, <1>2 DEF TicInv, Types
<1>4. ASSUME NEW k \in MapId
      PROVE  /\ Waiting(k)' = IF k = current THEN Tail(Waiting(k)) ELSE Waiting(k)
             /\ k = current => Waiting(k) # <<>>
  <2> DEFINE a == mapAction[k]
             b == For(hubAction[k[1]], k)
             c == For(globalAction, k)
             d == For(envAction, k)
  <2>1. /\ a \in Seq(Action) /\ b \in Seq(Action) /\ c \in Seq(Action) /\ d \in Seq(Action)
        /\ a \o b \in Seq(Action) /\ a \o b \o c \in Seq(Action)
    BY <1>1, WaitingType
  <2>2. Waiting(k) = a \o b \o c \o d /\ Waiting(k)' = mapAction'[k] \o b \o c \o d
    BY <1>2 DEF Waiting
  <2>3. mapAction'[k] = IF k = current THEN Tail(a) ELSE a
    BY <1>1, <1>2, <1>3 DEF Types
  <2>4. k = current => a # <<>>
    BY <1>2, <1>3
  <2> HIDE DEF a, b, c, d
  <2>5. CASE k = current
    <3>1. a \o b # <<>> /\ Tail(a \o b) = Tail(a) \o b
      BY <2>1, <2>4, <2>5, TailConcat
    <3>2. (a \o b) \o c # <<>> /\ Tail((a \o b) \o c) = Tail(a \o b) \o c
      BY <2>1, <3>1, TailConcat
    <3>3. a \o b \o c \o d # <<>> /\ Tail(a \o b \o c \o d) = Tail(a \o b \o c) \o d
      BY <2>1, <3>2, TailConcat
    <3>4. QED
      BY <2>2, <2>3, <2>5, <3>1, <3>2, <3>3
  <2>6. CASE k # current
    BY <2>2, <2>3, <2>6
  <2>7. QED
    BY <2>5, <2>6
<1>5. UNCHANGED <<HubVar, MapVar, current, globalReg>>
  BY <1>2 DEF HubVar, MapVar, regs, flags
<1>6. Boxes' = [Boxes EXCEPT ![current] = Tail(@)] /\ Boxes[current] # <<>>
  BY <1>3, <1>4 DEF Boxes
<1>7. Now' = [Now EXCEPT !.box[current] = Tail(@)]
  <2> DEFINE B == [Boxes EXCEPT ![current] = Tail(@)]
  <2>1. Now' = [Now EXCEPT !.box = B]
    <3> HIDE DEF B
    <3>1. Boxes' = B
      BY <1>6 DEF B
    <3>2. QED
      BY <1>5, <3>1 DEF Now
  <2>2. Now.box = Boxes
    BY DEF Now
  <2>3. QED
    BY <2>1, <2>2
<1>8. Kept' = Kept /\ Now.where = current /\ Now.box = Boxes
  BY <1>2 DEF Kept, Journey, Mailbox, Now
<1>9. QED
  BY <1>3, <1>6, <1>7, <1>8, NowIsJourney, NowIsJourneyNext DEF Game!Apply, Kept, Game!MapId, MapId

\* An assignment changes the variable of the scope the game is in.
LEMMA ScriptAssignsAssigns ==
  ASSUME IInv, ScriptAssigns PROVE \E v \in Val : Game!Assign(v)
<1>1. Types /\ TicInv /\ Scopes
  BY Parts DEF TreeInv
<1>2. PICK v \in Val :
        \/ globalReg' = v /\ UNCHANGED <<hubReg, mapReg>>
        \/ hubReg' = [hubReg EXCEPT ![at[1]] = v] /\ UNCHANGED <<globalReg, mapReg>>
        \/ mapReg' = [mapReg EXCEPT ![at] = v] /\ UNCHANGED <<globalReg, hubReg>>
  BY DEF ScriptAssigns
<1>3. pc = "scripts" /\ UNCHANGED <<lists, flags, current, saved>>
  BY DEF ScriptAssigns
<1>4. at = current /\ current \in MapId /\ current # NoId /\ hasModules[current]
  BY <1>1, <1>3 DEF TicInv, Types, Scopes
<1>5. UNCHANGED <<Boxes, current, hasModules>>
  BY <1>3 DEF Boxes, Waiting, lists, flags
<1>6. current[1] \in Hub
  BY <1>4, Ids
<1>7. Kept' = Kept /\ Now.where = current
  BY <1>3 DEF Kept, Journey, Mailbox, Now
<1>8. \/ Now' = [Now EXCEPT !.globalVar = v]
      \/ Now' = [Now EXCEPT !.hubVar = v]
      \/ Now' = [Now EXCEPT !.mapVar[current] = v]
  <2>1. CASE globalReg' = v /\ UNCHANGED <<hubReg, mapReg>>
    <3>1. UNCHANGED <<HubVar, MapVar>>
      BY <1>5, <2>1 DEF HubVar, MapVar
    <3>2. QED
      BY <1>5, <2>1, <3>1 DEF Now
  <2>2. CASE hubReg' = [hubReg EXCEPT ![at[1]] = v] /\ UNCHANGED <<globalReg, mapReg>>
    <3>1. HubVar' = v
      BY <1>1, <1>4, <1>5, <1>6, <2>2 DEF HubVar, Types
    <3>2. MapVar' = MapVar
      BY <1>5, <2>2 DEF MapVar
    <3>3. QED
      BY <1>5, <2>2, <3>1, <3>2 DEF Now
  <2>3. CASE mapReg' = [mapReg EXCEPT ![at] = v] /\ UNCHANGED <<globalReg, hubReg>>
    <3>1. MapVar' = [MapVar EXCEPT ![current] = v]
      BY <1>1, <1>4, <1>5, <2>3 DEF MapVar, Types
    <3>2. HubVar' = HubVar
      BY <1>5, <2>3 DEF HubVar
    <3>3. QED
      BY <1>5, <2>3, <3>1, <3>2 DEF Now
  <2>4. QED
    BY <1>2, <2>1, <2>2, <2>3
<1>9. Game!Assign(v)
  BY <1>4, <1>7, <1>8, NowIsJourney, NowIsJourneyNext DEF Game!Assign, Kept, Game!MapId, MapId
<1>10. QED
  BY <1>9
-----------------------------------------------------------------------------
(* The last part of a concatenation. *)
LEMMA LastPart ==
  ASSUME NEW x \in Seq(Action), NEW y \in Seq(Action)
  PROVE  y = SubSeq(x \o y, Len(x) + 1, Len(x \o y)) /\ Len(x) \in 0 .. Len(x \o y)
<1> DEFINE c == x \o y
           a == Len(x)
           n == Len(y)
           p == SubSeq(c, a + 1, a + n)
<1>1. /\ c \in Seq(Action) /\ Len(c) = a + n /\ a \in Nat /\ n \in Nat
      /\ \A i \in 1 .. a + n : c[i] = IF i <= a THEN x[i] ELSE y[i - a]
  BY ConcatProperties
<1> HIDE DEF c, a
<1>2. p \in Seq(Action) /\ Len(p) = n /\ \A i \in 1 .. n : p[i] = c[a + i]
  <2> HIDE DEF n
  <2>1. a + n <= Len(c)
    BY <1>1
  <2>2. QED
    BY <1>1, <2>1, PartAt
<1> HIDE DEF p
<1>3. ASSUME NEW i \in 1 .. n PROVE p[i] = y[i]
  <2> DEFINE k == a + i
  <2> HIDE DEF n
  <2>1. k \in 1 .. a + n /\ ~ (k <= a) /\ k - a = i
    BY <1>1
  <2> HIDE DEF k
  <2>2. c[k] = y[i]
    BY <1>1, <2>1
  <2>3. QED
    BY <1>2, <2>2 DEF k
<1>4. p = y
  BY <1>2, <1>3, SeqEqual
<1>5. a \in 0 .. a + n
  BY <1>1
<1>6. QED
  BY <1>1, <1>4, <1>5 DEF p, c, a

(* LoadHubMap leads to a map of the same hub, or to another hub. *)
LEMMA LoadTravels ==
  ASSUME IInv, NEW m \in MapId, LoadHubMap(m), current # NoId, ~ Leaves(m[1])
  PROVE  Game!Travel(m)
<1>1. Types /\ Scopes
  BY Parts DEF TreeInv
<1>2. m[1] # LoneHub /\ current[1] = m[1]
  BY DEF Leaves
<1>3. \A h : ~ Resets(m, h)
  BY DEF Resets
<1>4. /\ current' = m
      /\ hubAction' = hubAction /\ hubReg' = hubReg /\ mapAction' = mapAction
      /\ hasModules' = [n \in MapId |-> n = m \/ hasModules[n]]
      /\ mapReg' = [n \in MapId |-> IF n = m /\ ~ hasModules[n] THEN 0 ELSE mapReg[n]]
      /\ UNCHANGED <<envAction, globalAction, globalReg, saved>>
  BY <1>1, <1>3 DEF LoadHubMap, AddsModules, Types
<1>5. Boxes' = Boxes
  BY <1>4 DEF Boxes, Waiting
<1>6. HubVar' = HubVar
  <2>1. m # NoId
    BY Ids
  <2>2. QED
    BY <1>2, <1>4, <2>1 DEF HubVar
<1>7. MapVar' = [n \in DOMAIN MapVar \cup {m} |-> IF n \in DOMAIN MapVar THEN MapVar[n] ELSE 0]
  <2>1. {n \in MapId : hasModules'[n]} = {n \in MapId : hasModules[n]} \cup {m}
    BY <1>4
  <2>2. \A n \in {k \in MapId : hasModules'[k]} :
          mapReg'[n] = IF hasModules[n] THEN mapReg[n] ELSE 0
    BY <1>4
  <2>3. QED
    BY <2>1, <2>2 DEF MapVar
<1>8. Now' = [Now EXCEPT !.where = m,
                !.mapVar = [n \in DOMAIN @ \cup {m} |-> IF n \in DOMAIN @ THEN @[n] ELSE 0]]
  <2> DEFINE V == [n \in DOMAIN MapVar \cup {m} |-> IF n \in DOMAIN MapVar THEN MapVar[n] ELSE 0]
  <2>1. Now' = [Now EXCEPT !.where = m, !.mapVar = V]
    <3> HIDE DEF V
    <3>1. MapVar' = V
      BY <1>7 DEF V
    <3>2. current' = m /\ globalReg' = globalReg /\ HubVar' = HubVar /\ Boxes' = Boxes
      BY <1>4, <1>5, <1>6
    <3>3. Now' = [where |-> m, globalVar |-> globalReg, hubVar |-> HubVar,
                  mapVar |-> V, box |-> Boxes]
      BY <3>1, <3>2 DEF Now
    <3>4. Now = [where |-> current, globalVar |-> globalReg, hubVar |-> HubVar,
                 mapVar |-> MapVar, box |-> Boxes]
      BY DEF Now
    <3>5. [Now EXCEPT !.where = m, !.mapVar = V]
            = [where |-> m, globalVar |-> globalReg, hubVar |-> HubVar,
               mapVar |-> V, box |-> Boxes]
      <4> DEFINE s == [Now EXCEPT !.where = m]
      <4>1. [Now EXCEPT !.where = m, !.mapVar = V] = [s EXCEPT !.mapVar = V]
        OBVIOUS
      <4>2. s = [where |-> m, globalVar |-> globalReg, hubVar |-> HubVar,
                 mapVar |-> MapVar, box |-> Boxes]
        BY <3>4
      <4> HIDE DEF s
      <4>3. [s EXCEPT !.mapVar = V]
              = [where |-> m, globalVar |-> globalReg, hubVar |-> HubVar,
                 mapVar |-> V, box |-> Boxes]
        BY <4>2
      <4>4. QED
        BY <4>1, <4>3
    <3>6. QED
      BY <3>3, <3>5
  <2>2. Now.mapVar = MapVar
    BY DEF Now
  <2>3. QED
    BY <2>1, <2>2
<1>9. Kept' = Kept /\ Now.where = current
  BY <1>4 DEF Kept, Journey, Mailbox, Now
<1>10. QED
  BY <1>2, <1>8, <1>9, NowIsJourney, NowIsJourneyNext DEF Game!Travel, Kept

\* LoadHubMap of a map in another hub, or in the lone one, is Enter.
LEMMA LoadEnters ==
  ASSUME IInv, NEW m \in MapId, LoadHubMap(m), current = NoId \/ Leaves(m[1])
  PROVE  Game!Enter(m)
<1>1. Types /\ Scopes /\ Quiet
  BY Parts DEF TreeInv
<1>2. /\ pc = "host" /\ current' = m
      /\ hubAction' = [h \in Hub |-> IF Resets(m, h) THEN <<>> ELSE hubAction[h]]
      /\ hubReg'    = [h \in Hub |-> IF Resets(m, h) THEN 0 ELSE hubReg[h]]
      /\ mapAction' = [n \in MapId |-> IF Resets(m, n[1]) THEN <<>> ELSE mapAction[n]]
      /\ hasModules' = [n \in MapId |-> n = m \/ (hasModules[n] /\ ~ Resets(m, n[1]))]
      /\ mapReg' = [n \in MapId |->
           IF Resets(m, n[1]) \/ (n = m /\ ~ hasModules[n]) THEN 0 ELSE mapReg[n]]
      /\ UNCHANGED <<envAction, globalAction, globalReg, saved>>
  BY DEF LoadHubMap, AddsModules
<1>3. \A h \in Hub : Resets(m, h) <=> h = current[1]
  BY Ids DEF Resets, Leaves
<1>4. current[1] # m[1] \/ m[1] = LoneHub
  BY Ids DEF Leaves
<1>5. m # NoId /\ m[1] \in Hub
  BY Ids
<1>6. HubVar' = 0
  BY <1>1, <1>2, <1>3, <1>5 DEF HubVar, Scopes
<1>7. MapVar' = [n \in {m} |-> 0]
  <2>1. \A n \in MapId : n[1] \in Hub /\ (hasModules[n] => Resets(m, n[1]))
    BY <1>1, <1>3, Ids DEF Scopes
  <2>2. {n \in MapId : hasModules'[n]} = {m}
    BY <1>2, <2>1
  <2>3. mapReg'[m] = 0
    BY <1>2, <2>1
  <2>4. QED
    BY <2>2, <2>3 DEF MapVar
<1>8. ASSUME NEW n \in MapId
      PROVE  IF n[1] = current[1] THEN Game!IsLeftOf(Waiting(n)', Waiting(n))
                                  ELSE Waiting(n)' = Waiting(n)
  <2> DEFINE b == For(hubAction[n[1]], n)
             c == For(globalAction, n)
             d == For(envAction, n)
  <2>1. b \in Seq(Action) /\ c \in Seq(Action) /\ d \in Seq(Action) /\ n[1] \in Hub
    BY <1>1, WaitingType, Ids
  <2>2. mapAction[n] = <<>> /\ mapAction'[n] = <<>>
    BY <1>1, <1>2 DEF Quiet
  <2>3. CASE n[1] = current[1]
    <3>1. hubAction'[n[1]] = <<>>
      BY <1>2, <1>3, <2>1, <2>3
    <3>2. Waiting(n)' = ((<<>> \o <<>>) \o c) \o d
      BY <1>2, <2>2, <3>1, ForEmpty DEF Waiting
    <3>3. Waiting(n) = ((<<>> \o b) \o c) \o d
      BY <2>2 DEF Waiting
    <3> HIDE DEF b, c, d
    <3> DEFINE e == c \o d
    <3>4. e \in Seq(Action) /\ Waiting(n)' = e /\ Waiting(n) = b \o e
      <4>1. e \in Seq(Action)
        BY <2>1, ConcatProperties
      <4>2. <<>> \o b = b /\ <<>> \o c = c /\ <<>> \o <<>> = <<>>
        BY <2>1, ConcatEmptySeq
      <4>3. (b \o c) \o d = b \o (c \o d)
        BY <2>1, Regroup
      <4>4. QED
        BY <3>2, <3>3, <4>1, <4>2, <4>3
    <3> HIDE DEF e
    <3>5. e = SubSeq(b \o e, Len(b) + 1, Len(b \o e)) /\ Len(b) \in 0 .. Len(b \o e)
      BY <2>1, <3>4, LastPart
    <3>6. QED
      BY <2>3, <3>4, <3>5 DEF Game!IsLeftOf
  <2>4. CASE n[1] # current[1]
    <3>1. hubAction'[n[1]] = hubAction[n[1]]
      BY <1>2, <1>3, <2>1, <2>4
    <3>2. QED
      BY <1>2, <2>2, <2>4, <3>1 DEF Waiting
  <2>5. QED
    BY <2>3, <2>4
<1>9. Now' = [Now EXCEPT !.where = m, !.hubVar = 0, !.mapVar = [n \in {m} |-> 0],
                !.box = [n \in MapId |-> Now'.box[n]]]
  <2>1. Now' = [Now EXCEPT !.where = m, !.hubVar = 0, !.mapVar = MapVar', !.box = Boxes']
    <3>1. current' = m /\ globalReg' = globalReg /\ HubVar' = 0
      BY <1>2, <1>6
    <3>2. Now' = [where |-> m, globalVar |-> globalReg, hubVar |-> 0,
                  mapVar |-> MapVar', box |-> Boxes']
      BY <3>1 DEF Now
    <3> DEFINE M == MapVar'
               B == Boxes'
    <3> HIDE DEF M, B
    <3>3. Now = [where |-> current, globalVar |-> globalReg, hubVar |-> HubVar,
                 mapVar |-> MapVar, box |-> Boxes]
      BY DEF Now
    <3>4. [Now EXCEPT !.where = m, !.hubVar = 0, !.mapVar = M, !.box = B]
            = [where |-> m, globalVar |-> globalReg, hubVar |-> 0, mapVar |-> M, box |-> B]
      <4> DEFINE s == [Now EXCEPT !.where = m]
                 t == [s EXCEPT !.hubVar = 0]
                 u == [t EXCEPT !.mapVar = M]
      <4>1. [Now EXCEPT !.where = m, !.hubVar = 0, !.mapVar = M, !.box = B]
              = [u EXCEPT !.box = B]
        OBVIOUS
      <4>2. s = [where |-> m, globalVar |-> globalReg, hubVar |-> HubVar,
                 mapVar |-> MapVar, box |-> Boxes]
        BY <3>3
      <4> HIDE DEF s
      <4>3. t = [where |-> m, globalVar |-> globalReg, hubVar |-> 0,
                 mapVar |-> MapVar, box |-> Boxes]
        BY <4>2
      <4> HIDE DEF t
      <4>4. u = [where |-> m, globalVar |-> globalReg, hubVar |-> 0,
                 mapVar |-> M, box |-> Boxes]
        BY <4>3
      <4> HIDE DEF u
      <4>5. [u EXCEPT !.box = B]
              = [where |-> m, globalVar |-> globalReg, hubVar |-> 0, mapVar |-> M, box |-> B]
        BY <4>4
      <4>6. QED
        BY <4>1, <4>5
    <3>5. QED
      BY <3>2, <3>4 DEF M, B
  <2>2. Boxes' = [n \in MapId |-> Now'.box[n]]
    BY DEF Now, Boxes
  <2>3. QED
    BY <1>7, <2>1, <2>2
<1>10. /\ Kept' = Kept /\ Now.where = current
       /\ \A n \in MapId : Now.box[n] = Waiting(n) /\ Now'.box[n] = Waiting(n)'
  BY <1>2 DEF Kept, Journey, Mailbox, Now, Boxes
<1>11. \A n \in MapId : IF n[1] = Now.where[1] THEN Game!IsLeftOf(Now'.box[n], Now.box[n])
                                               ELSE Now'.box[n] = Now.box[n]
  BY <1>8, <1>10
<1>12. QED
  BY <1>4, <1>9, <1>10, <1>11, NowIsJourney, NowIsJourneyNext
  DEF Game!Enter, Kept, Game!MapId, MapId
-----------------------------------------------------------------------------
\* A save is a copy of the game.
LEMMA SaveIsSave ==
  ASSUME IInv, SaveState PROVE Game!Save
<1>1. Types
  BY Parts DEF TreeInv
<1>2. tree \in Tree
  BY <1>1 DEF tree, Tree, Types
<1>3. saved' = tree /\ saved' # NoSave
  BY <1>2, NoSaveAssumption DEF SaveState
<1>4. UNCHANGED <<lists, flags, regs, current>>
  BY DEF SaveState
<1>5. Now' = Now
  BY <1>4 DEF Now, HubVar, MapVar, Boxes, Waiting, lists, flags, regs
<1>6. Kept' = {Journey(saved')}
  BY <1>3 DEF Kept, Journey, Mailbox
<1>7. Journey(saved') = Journey(tree)
  BY <1>3
<1>8. QED
  BY <1>5, <1>6, <1>7, NowIsJourney, NowIsJourneyNext DEF Game!Save, Kept

\* A load gives the game that was saved.
LEMMA LoadIsLoad ==
  ASSUME LoadState PROVE Game!Load
<1>1. saved # NoSave /\ Become(saved) /\ saved' = saved
  BY DEF LoadState
<1>2. Now' = Journey(saved)
  BY <1>1 DEF Become, Now, HubVar, MapVar, Boxes, Waiting, Journey, Mailbox
<1>3. Kept' = Kept /\ Kept = {Journey(saved)}
  BY <1>1 DEF Kept, Journey, Mailbox
<1>4. QED
  BY <1>2, <1>3, NowIsJourneyNext DEF Game!Load, Kept

(* A new Executor is a new game. *)
LEMMA NewIsNew ==
  ASSUME envAction = <<>>, globalAction = <<>>,
         hubAction = [h \in Hub |-> <<>>], mapAction = [m \in MapId |-> <<>>],
         hasModules = [m \in MapId |-> FALSE], globalReg = 0, current = NoId
  PROVE  Now = Game!NewGame
<1>1. ASSUME NEW m \in MapId PROVE Waiting(m) = <<>>
  <2>1. mapAction[m] = <<>> /\ hubAction[m[1]] = <<>>
    BY Ids
  <2>2. <<>> \o <<>> = <<>>
    OBVIOUS
  <2>3. QED
    BY <2>1, <2>2, ForEmpty DEF Waiting
<1>2. Boxes = [m \in MapId |-> <<>>]
  BY <1>1 DEF Boxes
<1>3. HubVar = 0
  BY DEF HubVar
<1>4. MapVar = [m \in {} |-> 0]
  <2>1. {n \in MapId : hasModules[n]} = {}
    OBVIOUS
  <2>2. QED
    BY <2>1 DEF MapVar
<1>5. QED
  BY <1>2, <1>3, <1>4 DEF Now, Game!NewGame, Game!MapId, MapId, NoId

NewNow == /\ envAction = <<>> /\ globalAction = <<>>
          /\ hubAction = [h \in Hub |-> <<>>] /\ mapAction = [m \in MapId |-> <<>>]
          /\ hasModules = [m \in MapId |-> FALSE] /\ globalReg = 0 /\ current = NoId
IsNew == Now = Game!NewGame

\* A new environment shows a new game.
LEMMA NewNext == NewNow' => IsNew'
<1>1. NewNow => IsNew
  BY NewIsNew DEF NewNow, IsNew
<1>2. QED
  BY <1>1, PTL

\* A restart shows a new game.
LEMMA RestartIsRestart ==
  ASSUME Restart PROVE Game!Restart
<1>1. NewNow'
  BY DEF Restart, Become, NewTree, NewNow
<1>2. Now' = Game!NewGame
  BY <1>1, NewNext DEF IsNew, Game!NewGame
<1>3. Kept' = Kept
  BY DEF Restart, Kept, Journey, Mailbox
<1>4. QED
  BY <1>2, <1>3, NowIsJourneyNext DEF Game!Restart, Kept

\* The first state shows a new game without a save.
LEMMA InitIsInit == Init => Game!Init
<1> SUFFICES ASSUME Init PROVE Game!Init
  OBVIOUS
<1>1. Now = Game!NewGame
  BY NewIsNew DEF Init
<1>2. QED
  BY <1>1, NowIsJourney DEF Init, Game!Init

(* The steps of a tic that only move control do not show. *)
LEMMA ControlUnseen ==
  ASSUME UNCHANGED <<lists, flags, regs, current, saved>>
  PROVE  UNCHANGED <<Journey(tree), Kept>>
<1>1. \A m \in MapId : Waiting(m)' = Waiting(m)
  BY DEF Waiting, lists
<1>2. QED
  BY <1>1, Unseen DEF flags

Shown == [Game!Next]_<<Journey(tree), Kept>>

\* Every step is a step of HubJourney or does not show.
LEMMA StepsShown == IInv /\ PassedInv /\ [Next]_vars => Shown
<1> SUFFICES ASSUME IInv, PassedInv, [Next]_vars PROVE Shown
  OBVIOUS
<1>1. ASSUME NEW m \in MapId, LoadHubMap(m) PROVE Game!Next
  <2>1. Game!Travel(m) \/ Game!Enter(m)
    BY <1>1, LoadTravels, LoadEnters
  <2>2. QED
    BY <2>1 DEF Game!Next, Game!MapId, MapId
<1>2. CASE HostDefers \/ ScriptDefers
  <2>1. PICK m \in MapId, n \in Name : Game!Post(m, n)
    BY <1>2, HostDefersPosts, ScriptDefersPosts
  <2>2. Game!Next
    BY <2>1 DEF Game!Next, Game!MapId, MapId
  <2>3. QED
    BY <2>2 DEF Shown
<1>3. CASE SaveState \/ LoadState \/ Restart
  <2>1. Game!Save \/ Game!Load \/ Game!Restart
    BY <1>3, SaveIsSave, LoadIsLoad, RestartIsRestart
  <2>2. Game!Next
    BY <2>1 DEF Game!Next
  <2>3. QED
    BY <2>2 DEF Shown
<1>4. CASE ApplyAction
  <2>1. Game!Next
    BY <1>4, ApplyActionApplies DEF Game!Next
  <2>2. QED
    BY <2>1 DEF Shown
<1>5. CASE ScriptAssigns
  <2>1. PICK v \in Val : Game!Assign(v)
    BY <1>5, ScriptAssignsAssigns
  <2>2. Game!Next
    BY <2>1 DEF Game!Next, Game!Val, Val
  <2>3. QED
    BY <2>2 DEF Shown
<1>6. CASE DelegateEnv \/ DelegateGlobal \/ DelegateHub
  <2>1. UNCHANGED <<Journey(tree), Kept>>
    BY <1>6, DelegateEnvUnseen, DelegateGlobalUnseen, DelegateHubUnseen
  <2>2. QED
    BY <2>1 DEF Shown
<1>7. CASE \/ BeginTic \/ BeginHub \/ BeginMap \/ BeginScripts \/ EndMap \/ EndHub
           \/ EndTic \/ Underflow \/ UNCHANGED vars
  <2>1. UNCHANGED <<lists, flags, regs, current, saved>>
    BY <1>7 DEF BeginTic, BeginHub, BeginMap, BeginScripts, EndMap, EndHub, EndTic,
                Underflow, vars
  <2>2. UNCHANGED <<Journey(tree), Kept>>
    BY <2>1, ControlUnseen
  <2>3. QED
    BY <2>2 DEF Shown
<1>8. QED
  BY <1>1, <1>2, <1>3, <1>4, <1>5, <1>6, <1>7
  DEF Next, HostCall, Exec, Scripts, Shown

(* The tree of scopes gives the game what HubJourney promises, for any hubs, *)
(* maps, actions and bounds: LoadHubMap, the deferred calls, the handing     *)
(* down of exec, the save and a restart each are a step of the journey, or   *)
(* cannot be seen there.                                                     *)
THEOREM TreeImplements == Spec => ImplementsJourney
<1>1. Init => PassedInv
  BY DEF Init, PassedInv
<1>2. QED
  BY <1>1, InitIsInit, HubInvariant, PassedNext, StepsShown, PTL
  DEF Spec, ImplementsJourney, Game!Spec, Shown, Kept
=============================================================================
