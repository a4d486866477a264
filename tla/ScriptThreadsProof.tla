------------------------- MODULE ScriptThreadsProof -------------------------
(***************************************************************************)
(* The invariant of ScriptThreads holds for any number of threads and      *)
(* scripts, any delay, and any number of deferred actions per tic.         *)
(***************************************************************************)
EXTENDS ScriptThreads, ListLinksProof

(* The executing thread is the last of the activations. *)
LEMMA TopOfStk ==
  ASSUME TypeOK, execStk # <<>>
  PROVE  /\ Len(execStk) \in 1 .. Len(execStk)
         /\ Top \in Thread
         /\ Top \in ToSet(execStk)
BY DEF TypeOK, Top, ToSet

(* A free thread is in no list but the free one, and in no activation. *)
LEMMA FreeThreadIsOut ==
  ASSUME IInv, NEW t \in Thread, IsFreeThread(t)
  PROVE  /\ t \notin ToSet(threadActive)
         /\ t \notin ToSet(execStk)
         /\ state[t] = "Inactive"
         /\ info[t] = NoInfo
         /\ \A s \in Script : scriptThread[s] # t
<1>1. t \notin ToSet(threadActive)
  <2>1. CASE threadFree # <<>>
    BY <2>1, TailLink DEF IInv, TypeOK, PoolInv, IsFreeThread
  <2>2. CASE threadFree = <<>>
    BY <2>2 DEF IsFreeThread
  <2>3. QED
    BY <2>1, <2>2
<1>2. QED
  BY <1>1, ConstantsAssumption DEF IInv, TypeOK, PoolInv, PoolClean

(* getFreeThread and start move a thread from the free to the active list. *)
LEMMA LaunchPool ==
  ASSUME IInv, NEW t \in Thread, NEW s \in Script, NEW i \in Activator \cup {NoInfo},
         IsFreeThread(t), Launch(t, s, i)
  PROVE  /\ threadActive' \in Seq(Thread)
         /\ ToSet(threadActive') = ToSet(threadActive) \cup {t}
         /\ IsInjective(threadActive')
         /\ threadFree' \in Seq(Thread)
         /\ IsInjective(threadFree')
         /\ ToSet(threadActive') \cap ToSet(threadFree') = {}
<1>1. /\ threadActive' \in Seq(Thread)
      /\ ToSet(threadActive') = ToSet(threadActive) \cup {t}
      /\ IsInjective(threadActive')
  BY FreeThreadIsOut, AppendLink DEF IInv, TypeOK, PoolInv, Launch
<1>2. CASE threadFree # <<>>
  <2>1. threadFree' = Tail(threadFree) /\ t = Head(threadFree)
    BY <1>2 DEF Launch, IsFreeThread
  <2>2. /\ threadFree' \in Seq(Thread) /\ IsInjective(threadFree')
        /\ ToSet(threadFree') = ToSet(threadFree) \ {t}
    BY <1>2, <2>1, TailLink DEF IInv, TypeOK, PoolInv
  <2>3. QED
    BY <1>1, <2>2 DEF IInv, PoolInv
<1>3. CASE threadFree = <<>>
  <2>1. threadFree' = threadFree
    BY <1>3 DEF Launch
  <2>2. ToSet(threadFree) = {}
    BY <1>3 DEF ToSet
  <2>3. QED
    BY <1>1, <2>1, <2>2 DEF IInv, TypeOK, PoolInv
<1>4. QED
  BY <1>2, <1>3

(* A launched thread leaves the other threads as they are. *)
LEMMA LaunchObject ==
  ASSUME IInv, NEW t \in Thread, NEW s \in Script, NEW i \in Activator \cup {NoInfo},
         Launch(t, s, i)
  PROVE  /\ script' \in [Thread -> Script \cup {NoScript}]
         /\ state' \in [Thread -> State]
         /\ data' \in [Thread -> Script \cup {NoScript}]
         /\ delay' \in [Thread -> Nat]
         /\ info' \in [Thread -> Activator \cup {NoInfo}]
         /\ script'[t] = s /\ state'[t] = "Running" /\ delay'[t] = 0
         /\ \A u \in Thread \ {t} : /\ script'[u] = script[u] /\ state'[u] = state[u]
                                    /\ delay'[u] = delay[u] /\ info'[u] = info[u]
BY DEF IInv, TypeOK, Launch, SetState, State

-----------------------------------------------------------------------------
(* Each step of the specification preserves the invariant. *)

LEMMA InitInv == Init => IInv
<1> SUFFICES ASSUME Init PROVE IInv
  OBVIOUS
<1>1. TypeOK
  BY ConstantsAssumption DEF Init, TypeOK, State, Place, Action
<1>2. PoolInv
  BY DEF Init, PoolInv, IsInjective, ToSet
<1>3. NoStaleRegistration /\ PoolClean /\ ActiveIsLive
  BY DEF Init, NoStaleRegistration, PoolClean, ActiveIsLive, Instance, ToSet
<1>4. NoDelayedRun /\ ControlInv
  BY DEF Init, NoDelayedRun, ControlInv, ToSet
<1>5. QED
  BY <1>1, <1>2, <1>3, <1>4 DEF IInv

(* What the instance of a script tells of the registry. *)
LEMMA InstanceState ==
  ASSUME NEW s \in Script, Instance(s) # "None"
  PROVE  scriptThread[s] # NoThread /\ Instance(s) = state[scriptThread[s]]
BY DEF Instance

(* A registered thread is registered for one script. *)
LEMMA RegisteredOnce ==
  ASSUME IInv, NEW s1 \in Script, NEW s2 \in Script,
         scriptThread[s1] # NoThread, scriptThread[s1] = scriptThread[s2]
  PROVE  s1 = s2
BY DEF IInv, PoolInv

(* The lists and the activations hold threads. *)
LEMMA ListsOfThreads ==
  ASSUME TypeOK
  PROVE  /\ ToSet(threadActive) \subseteq Thread
         /\ ToSet(execStk) \subseteq Thread
         /\ \A j \in DOMAIN execStk : execStk[j] \in ToSet(execStk)
         /\ DOMAIN execStk = 1 .. Len(execStk)
BY DEF TypeOK, ToSet

(* A thread is launched: registered or not, executed at once or not. *)
LEMMA LaunchInv ==
  ASSUME IInv, NEW s \in Script, NEW t \in Thread, NEW i \in Activator \cup {NoInfo},
         IsFreeThread(t), Launch(t, s, i),
         \/ scriptThread' = scriptThread
         \/ /\ scriptThread[s] = NoThread
            /\ scriptThread' = [scriptThread EXCEPT ![s] = t],
         scriptAction' \in Seq(Action),
         \/ UNCHANGED control /\ pc \in {"host", "run", "actions"}
         \/ /\ pc \in {"host", "run"} /\ pc' = "intr"
            /\ execStk' = Append(execStk, t)
            /\ UNCHANGED <<itr, served>>
  PROVE  IInv'
<1>1. TypeOK
  BY DEF IInv
<1>2. /\ t \notin ToSet(threadActive)
      /\ t \notin ToSet(execStk)
      /\ \A r \in Script : scriptThread[r] # t
  BY FreeThreadIsOut
<1>3. /\ threadActive' \in Seq(Thread)
      /\ ToSet(threadActive') = ToSet(threadActive) \cup {t}
      /\ IsInjective(threadActive')
      /\ threadFree' \in Seq(Thread)
      /\ IsInjective(threadFree')
      /\ ToSet(threadActive') \cap ToSet(threadFree') = {}
  BY LaunchPool
<1>4. /\ script' \in [Thread -> Script \cup {NoScript}]
      /\ state' \in [Thread -> State]
      /\ data' \in [Thread -> Script \cup {NoScript}]
      /\ delay' \in [Thread -> Nat]
      /\ info' \in [Thread -> Activator \cup {NoInfo}]
      /\ script'[t] = s /\ state'[t] = "Running" /\ delay'[t] = 0
      /\ \A u \in Thread \ {t} : /\ script'[u] = script[u] /\ state'[u] = state[u]
                                 /\ delay'[u] = delay[u] /\ info'[u] = info[u]
  BY LaunchObject
<1>5. /\ itr' = itr /\ served' = served
      /\ pc' \in {"host", "run", "actions", "intr"}
      /\ execStk' \in Seq(Thread)
      /\ IsInjective(execStk')
      /\ ToSet(execStk') \subseteq ToSet(execStk) \cup {t}
      /\ DOMAIN execStk' = 1 .. Len(execStk')
      /\ itr # NoThread /\ execStk' # <<>> => execStk'[1] = itr
      /\ pc' = "intr" => execStk' # <<>> /\ Top' = t
      /\ pc' # "intr" => pc' = pc /\ execStk' = execStk
      /\ \A j \in DOMAIN execStk' : j < Len(execStk') \/ pc' = "run" =>
           /\ j \in DOMAIN execStk
           /\ execStk'[j] = execStk[j]
           /\ j < Len(execStk) \/ pc = "run"
  <2>1. CASE UNCHANGED control /\ pc \in {"host", "run", "actions"}
    BY <1>1, <2>1 DEF control, IInv, PoolInv, TypeOK
  <2>2. CASE /\ pc \in {"host", "run"} /\ pc' = "intr"
             /\ execStk' = Append(execStk, t)
             /\ UNCHANGED <<itr, served>>
    <3>1. /\ execStk' \in Seq(Thread) /\ Len(execStk') = Len(execStk) + 1
          /\ \A j \in 1 .. Len(execStk) : execStk'[j] = execStk[j]
          /\ execStk'[Len(execStk) + 1] = t
          /\ Len(execStk) \in Nat
      BY <1>1, <2>2, AppendProperties DEF TypeOK
    <3>2. /\ IsInjective(execStk')
          /\ ToSet(execStk') = ToSet(execStk) \cup {t}
      BY <1>1, <1>2, <2>2, AppendLink DEF TypeOK, IInv, PoolInv
    <3>3. itr # NoThread => execStk'[1] = itr
      BY <2>2, <3>1 DEF IInv, PoolInv, ControlInv
    <3>4. execStk' # <<>> /\ Top' = t
      BY <3>1 DEF Top
    <3>5. \A j \in DOMAIN execStk' : j < Len(execStk') =>
            /\ j \in DOMAIN execStk
            /\ execStk'[j] = execStk[j]
            /\ pc = "run"
      BY <1>1, <2>2, <3>1 DEF IInv, ControlInv, TypeOK
    <3>6. QED
      BY <2>2, <3>1, <3>2, <3>3, <3>4, <3>5
  <2>3. QED
    BY <2>1, <2>2
<1>6. TypeOK'
  <2>1. scriptThread' \in [Script -> Thread \cup {NoThread}]
    BY <1>1 DEF TypeOK
  <2>2. itr' \in Thread \cup {NoThread} /\ pc' \in Place /\ served' \subseteq Thread
    BY <1>1, <1>5 DEF TypeOK, Place
  <2>3. QED
    BY <1>3, <1>4, <1>5, <2>1, <2>2 DEF TypeOK
<1>7. PoolInv'
  <2>1. ASSUME NEW r \in Script, scriptThread'[r] # NoThread
        PROVE  /\ scriptThread'[r] \in ToSet(threadActive')
               /\ script'[scriptThread'[r]] = r
    <3>1. CASE scriptThread'[r] = scriptThread[r]
      BY <1>1, <1>2, <1>3, <1>4, <2>1, <3>1 DEF IInv, PoolInv, TypeOK
    <3>2. CASE scriptThread'[r] # scriptThread[r]
      <4>1. r = s /\ scriptThread'[r] = t
        BY <1>1, <3>2 DEF TypeOK
      <4>2. QED
        BY <1>3, <1>4, <4>1
    <3>3. QED
      BY <3>1, <3>2
  <2>2. ToSet(execStk') \subseteq ToSet(threadActive')
    BY <1>3, <1>5 DEF IInv, PoolInv
  <2>3. itr' # NoThread => itr' \in ToSet(threadActive')
    BY <1>3, <1>5 DEF IInv, PoolInv
  <2>4. QED
    BY <1>3, <1>5, <2>1, <2>2, <2>3 DEF PoolInv
<1>8. NoStaleRegistration'
  <2> SUFFICES ASSUME NEW r \in Script
               PROVE  Instance(r)' \notin {"Stopped", "Inactive"}
    BY DEF NoStaleRegistration
  <2>1. CASE scriptThread'[r] = scriptThread[r]
    <3>1. Instance(r)' = Instance(r)
      BY <1>1, <1>2, <1>4, <2>1 DEF Instance, TypeOK
    <3>2. pc \notin {"intr", "ret"}
      OBVIOUS
    <3>3. QED
      BY <3>1, <3>2 DEF IInv, NoStaleRegistration
  <2>2. CASE scriptThread'[r] # scriptThread[r]
    <3>1. scriptThread'[r] = t
      BY <1>1, <2>2 DEF TypeOK
    <3>2. QED
      BY <1>4, <3>1 DEF Instance
  <2>3. QED
    BY <2>1, <2>2
<1>9. PoolClean'
  BY <1>3, <1>4 DEF IInv, PoolClean
<1>10. ActiveIsLive'
  <2> SUFFICES ASSUME NEW u \in ToSet(threadActive'), state'[u] = "Inactive"
               PROVE  FALSE
    BY DEF ActiveIsLive
  <2>1. u \in ToSet(threadActive) /\ u \in Thread \ {t}
    BY <1>1, <1>3, <1>4, ListsOfThreads
  <2>2. QED
    BY <1>4, <2>1 DEF IInv, ActiveIsLive
<1>11. NoDelayedRun'
  <2>1. ASSUME NEW u \in ToSet(threadActive'), state'[u] \in {"WaitScr", "WaitTag"}
        PROVE  delay'[u] = 0
    <3>1. u \in ToSet(threadActive) /\ u \in Thread \ {t}
      BY <1>1, <1>3, <1>4, <2>1, ListsOfThreads
    <3>2. QED
      BY <1>4, <2>1, <3>1 DEF IInv, NoDelayedRun
  <2>2. ASSUME NEW j \in DOMAIN execStk', j < Len(execStk') \/ pc' = "run"
        PROVE  /\ delay'[execStk'[j]] = 0
               /\ state'[execStk'[j]] \in {"Running", "Paused", "Stopped"}
    <3>1. /\ j \in DOMAIN execStk /\ execStk'[j] = execStk[j]
          /\ j < Len(execStk) \/ pc = "run"
      BY <1>5, <2>2
    <3>2. execStk[j] \in Thread \ {t}
      BY <1>1, <1>2, <3>1, ListsOfThreads
    <3>3. QED
      BY <1>4, <3>1, <3>2 DEF IInv, NoDelayedRun
  <2>3. QED
    BY <2>1, <2>2 DEF NoDelayedRun
<1>12. ControlInv'
  <2>1. pc' = "intr" => state'[Top'] # "Inactive"
    BY <1>4, <1>5
  <2>2. CASE pc' = "intr"
    BY <1>5, <2>1, <2>2 DEF ControlInv, IInv
  <2>3. CASE pc' # "intr"
    BY <1>5, <2>3 DEF ControlInv, IInv
  <2>4. QED
    BY <2>2, <2>3
<1>13. QED
  BY <1>6, <1>7, <1>8, <1>9, <1>10, <1>11, <1>12 DEF IInv

(* Another thread, or the host, changes the state of a registered thread. *)
LEMMA OtherStateInv ==
  ASSUME IInv, NEW s \in Script, NEW st \in {"Running", "Paused", "Stopped"},
         scriptThread[s] # NoThread,
         SetState(scriptThread[s], st, NoScript),
         \/ st # "Stopped" /\ scriptThread' = scriptThread
         \/ scriptThread' = [scriptThread EXCEPT ![s] = NoThread],
         pc \in {"host", "run", "actions"},
         scriptAction' \in Seq(Action),
         UNCHANGED <<pool, script, delay, info, control>>
  PROVE  IInv'
<1> DEFINE u == scriptThread[s]
<1>1. TypeOK /\ u \in Thread /\ u \in ToSet(threadActive)
  BY DEF IInv, TypeOK, PoolInv
<1>2. /\ threadActive' = threadActive /\ threadFree' = threadFree
      /\ script' = script /\ delay' = delay /\ info' = info
      /\ execStk' = execStk /\ itr' = itr /\ pc' = pc /\ served' = served
      /\ Top' = Top
  BY DEF pool, control, Top
<1> HIDE DEF u
<1>3. /\ state' \in [Thread -> State]
      /\ data' \in [Thread -> Script \cup {NoScript}]
      /\ state'[u] = st
      /\ \A v \in Thread \ {u} : state'[v] = state[v]
  BY <1>1 DEF SetState, TypeOK, State, u
<1>4. /\ scriptThread' \in [Script -> Thread \cup {NoThread}]
      /\ \A r \in Script : scriptThread'[r] \in {scriptThread[r], NoThread}
      /\ \A r \in Script : scriptThread'[r] = u => st # "Stopped"
  <2>1. CASE st # "Stopped" /\ scriptThread' = scriptThread
    BY <1>1, <2>1 DEF TypeOK
  <2>2. CASE scriptThread' = [scriptThread EXCEPT ![s] = NoThread]
    <3>1. \A r \in Script : scriptThread[r] = u => r = s
      BY RegisteredOnce DEF u
    <3>2. u # NoThread
      BY DEF u
    <3>3. QED
      BY <1>1, <2>2, <3>1, <3>2 DEF TypeOK
  <2>3. QED
    BY <2>1, <2>2
<1>5. TypeOK'
  BY <1>1, <1>2, <1>3, <1>4 DEF TypeOK
<1>6. PoolInv'
  BY <1>2, <1>4 DEF IInv, PoolInv
<1>7. NoStaleRegistration'
  <2> SUFFICES ASSUME NEW r \in Script
               PROVE  Instance(r)' \notin {"Stopped", "Inactive"}
    BY DEF NoStaleRegistration
  <2>1. CASE scriptThread'[r] = NoThread
    BY <2>1 DEF Instance
  <2>2. CASE scriptThread'[r] # NoThread /\ scriptThread'[r] = u
    BY <1>3, <1>4, <2>2 DEF Instance
  <2>3. CASE scriptThread'[r] # NoThread /\ scriptThread'[r] # u
    <3>1. scriptThread'[r] = scriptThread[r] /\ scriptThread[r] \in Thread \ {u}
      BY <1>1, <1>4, <2>3 DEF TypeOK
    <3>2. Instance(r)' = Instance(r)
      BY <1>3, <2>3, <3>1 DEF Instance
    <3>3. QED
      BY <3>2 DEF IInv, NoStaleRegistration
  <2>4. QED
    BY <2>1, <2>2, <2>3
<1>8. PoolClean'
  BY <1>1, <1>2, <1>3 DEF IInv, PoolClean
<1>9. ActiveIsLive'
  BY <1>1, <1>2, <1>3, ListsOfThreads DEF IInv, ActiveIsLive
<1>10. NoDelayedRun'
  BY <1>1, <1>2, <1>3, ListsOfThreads DEF IInv, NoDelayedRun
<1>11. ControlInv'
  BY <1>2 DEF IInv, ControlInv
<1>12. QED
  BY <1>5, <1>6, <1>7, <1>8, <1>9, <1>10, <1>11 DEF IInv

(* The executing thread changes its own state. *)
LEMMA OwnStateInv ==
  ASSUME IInv, NEW st \in State, NEW d \in Script \cup {NoScript},
         SetState(Top, st, d),
         pc \in {"intr", "run"},
         \/ pc' = "intr" /\ st # "Inactive"
         \/ pc' = "run" /\ st = "Running" /\ delay[Top] = 0
         \/ pc' = "ret" /\ st = "Inactive",
         st \in {"WaitScr", "WaitTag"} => delay[Top] = 0,
         IF st = "Inactive" THEN info' = [info EXCEPT ![Top] = NoInfo]
                            ELSE info' = info,
         UNCHANGED <<pool, scriptThread, scriptAction, script, delay, execStk, itr, served>>
  PROVE  IInv'
<1>1. TypeOK /\ execStk # <<>> /\ Top \in Thread /\ Top \in ToSet(execStk)
      /\ Top \in ToSet(threadActive)
  BY TopOfStk DEF IInv, ControlInv, PoolInv
<1>2. /\ threadActive' = threadActive /\ threadFree' = threadFree
      /\ scriptThread' = scriptThread /\ script' = script /\ delay' = delay
      /\ execStk' = execStk /\ itr' = itr /\ served' = served
      /\ scriptAction' = scriptAction
      /\ Top' = Top
  BY DEF pool, Top
<1>3. /\ state' \in [Thread -> State]
      /\ data' \in [Thread -> Script \cup {NoScript}]
      /\ state'[Top] = st
      /\ \A v \in Thread \ {Top} : state'[v] = state[v]
  BY <1>1 DEF SetState, TypeOK
<1>4. /\ info' \in [Thread -> Activator \cup {NoInfo}]
      /\ \A v \in Thread \ {Top} : info'[v] = info[v]
      /\ st = "Inactive" => info'[Top] = NoInfo
  BY <1>1 DEF TypeOK
<1>5. TypeOK'
  BY <1>1, <1>2, <1>3, <1>4 DEF TypeOK, Place
<1>6. PoolInv'
  BY <1>2 DEF IInv, PoolInv
<1>7. NoStaleRegistration'
  <2> SUFFICES ASSUME NEW r \in Script, Instance(r)' \in {"Stopped", "Inactive"}
               PROVE  /\ scriptThread'[r] = Top'
                      /\ Instance(r)' = "Stopped" => pc' = "intr"
                      /\ Instance(r)' = "Inactive" => pc' = "ret"
    BY DEF NoStaleRegistration
  <2>1. scriptThread[r] \in Thread
    BY <1>1, <1>2 DEF Instance, TypeOK
  <2>2. CASE scriptThread[r] = Top
    BY <1>1, <1>2, <1>3, <2>1, <2>2 DEF Instance
  <2>3. CASE scriptThread[r] # Top
    <3>1. Instance(r)' = Instance(r)
      BY <1>2, <1>3, <2>1, <2>3 DEF Instance
    <3>2. QED
      BY <2>3, <3>1 DEF IInv, NoStaleRegistration
  <2>4. QED
    BY <2>2, <2>3
<1>8. PoolClean'
  BY <1>1, <1>2, <1>3, <1>4 DEF IInv, PoolClean
<1>9. ActiveIsLive'
  BY <1>1, <1>2, <1>3, ListsOfThreads DEF IInv, ActiveIsLive
<1>10. NoDelayedRun'
  <2>1. ASSUME NEW v \in ToSet(threadActive), state'[v] \in {"WaitScr", "WaitTag"}
        PROVE  delay[v] = 0
    BY <1>1, <1>3, <2>1, ListsOfThreads DEF IInv, NoDelayedRun
  <2>2. ASSUME NEW j \in DOMAIN execStk, j < Len(execStk) \/ pc' = "run"
        PROVE  /\ delay[execStk[j]] = 0
               /\ state'[execStk[j]] \in {"Running", "Paused", "Stopped"}
    <3>1. j \in 1 .. Len(execStk) /\ Len(execStk) \in Nat /\ Len(execStk) \in DOMAIN execStk
      BY <1>1, ListsOfThreads, TopOfStk DEF TypeOK
    <3>2. CASE j = Len(execStk)
      BY <1>1, <1>3, <2>2, <3>1, <3>2 DEF Top
    <3>3. CASE j # Len(execStk)
      <4>1. execStk[j] \in Thread \ {Top}
        BY <1>1, <3>1, <3>3, ListsOfThreads DEF IInv, PoolInv, IsInjective, Top
      <4>2. QED
        BY <1>3, <3>1, <3>3, <4>1 DEF IInv, NoDelayedRun
    <3>4. QED
      BY <3>2, <3>3
  <2>3. QED
    BY <1>2, <2>1, <2>2 DEF NoDelayedRun
<1>11. ControlInv'
  BY <1>1, <1>2, <1>3 DEF IInv, ControlInv
<1>12. QED
  BY <1>5, <1>6, <1>7, <1>8, <1>9, <1>10, <1>11 DEF IInv

(* An activation returns to the thread loop, the host or the caller. *)
LEMMA ReleaseInv ==
  ASSUME IInv, pc = "ret", Release(Top), execStk' = Front(execStk),
         \/ /\ pc' = "loop" /\ Len(execStk) = 1
            /\ itr' \in (ToSet(threadActive) \ {Top}) \cup {NoThread}
         \/ /\ pc' = IF Len(execStk) = 1 THEN "host" ELSE "run"
            /\ execStk # <<itr>> /\ itr' = itr,
         served' \subseteq Thread,
         UNCHANGED <<scriptAction, object>>
  PROVE  IInv'
<1>1. /\ TypeOK /\ execStk # <<>> /\ Top \in Thread /\ Top \in ToSet(execStk)
      /\ Top \in ToSet(threadActive)
  BY TopOfStk DEF IInv, ControlInv, PoolInv
<1>2. /\ script' = script /\ state' = state /\ data' = data /\ delay' = delay
      /\ info' = info /\ scriptAction' = scriptAction
  BY DEF object
<1>3. /\ execStk' \in Seq(Thread) /\ Len(execStk') = Len(execStk) - 1
      /\ DOMAIN execStk' = 1 .. Len(execStk) - 1
      /\ \A j \in 1 .. Len(execStk) - 1 : execStk'[j] = execStk[j]
      /\ IsInjective(execStk')
      /\ ToSet(execStk') \subseteq ToSet(execStk) \ {Top}
      /\ Len(execStk) \in Nat \ {0}
  <2>1. /\ execStk \in Seq(Thread) /\ execStk # <<>> /\ IsInjective(execStk)
        /\ execStk' = Front(execStk)
    BY <1>1 DEF IInv, PoolInv, TypeOK
  <2>2. Len(execStk) \in Nat \ {0}
    BY <2>1
  <2>3. QED
    BY <2>1, <2>2, FrontLink DEF Top
<1>4. /\ itr' \in (ToSet(threadActive) \ {Top}) \cup {NoThread}
      /\ itr' # NoThread /\ execStk' # <<>> => execStk'[1] = itr'
      /\ pc' \in {"loop", "host", "run"}
      /\ pc' = "run" <=> execStk' # <<>>
      /\ pc' = "host" => itr' = NoThread
  <2>1. CASE /\ pc' = "loop" /\ Len(execStk) = 1
             /\ itr' \in (ToSet(threadActive) \ {Top}) \cup {NoThread}
    BY <1>3, <2>1
  <2>2. CASE /\ pc' = IF Len(execStk) = 1 THEN "host" ELSE "run"
             /\ execStk # <<itr>> /\ itr' = itr
    <3>1. CASE Len(execStk) = 1
      <4>1. execStk = <<execStk[1]>>
        BY <1>1, <3>1 DEF TypeOK
      <4>2. itr = NoThread
        BY <1>1, <2>2, <4>1 DEF IInv, PoolInv
      <4>3. QED
        BY <1>3, <2>2, <3>1, <4>2
    <3>2. CASE Len(execStk) # 1
      <4>1. 1 \in 1 .. Len(execStk) - 1 /\ execStk' # <<>>
        BY <1>3, <3>2
      <4>2. execStk'[1] = execStk[1] /\ execStk[1] # Top
        <5>1. /\ 1 \in DOMAIN execStk /\ Len(execStk) \in DOMAIN execStk
              /\ 1 # Len(execStk) /\ execStk'[1] = execStk[1]
          BY <1>1, <1>3, <3>2, <4>1, ListsOfThreads
        <5>2. IsInjective(execStk)
          BY DEF IInv, PoolInv
        <5>3. QED
          BY <5>1, <5>2 DEF IsInjective, Top
      <4>3. QED
        BY <1>1, <2>2, <3>2, <4>1, <4>2 DEF IInv, PoolInv
    <3>3. QED
      BY <3>1, <3>2
  <2>3. QED
    BY <2>1, <2>2
<1>5. /\ threadActive' \in Seq(Thread) /\ IsInjective(threadActive')
      /\ threadFree' \in Seq(Thread) /\ IsInjective(threadFree')
      /\ ToSet(threadActive') \cap ToSet(threadFree') = {}
      /\ ToSet(threadActive') = IF state[Top] = "Inactive"
                                THEN ToSet(threadActive) \ {Top} ELSE ToSet(threadActive)
      /\ scriptThread' \in [Script -> Thread \cup {NoThread}]
      /\ \A r \in Script : scriptThread'[r] \in {scriptThread[r], NoThread}
      /\ state[Top] = "Inactive" => \A r \in Script : scriptThread'[r] # Top
  <2>1. CASE state[Top] = "Inactive"
    <3>1. /\ threadActive' = Unlink(threadActive, Top)
          /\ threadFree' = Append(threadFree, Top)
          /\ scriptThread' = [s \in Script |->
                IF s = script[Top] /\ scriptThread[s] = Top THEN NoThread
                                                            ELSE scriptThread[s]]
      BY <2>1 DEF Release, FreeThread
    <3>2. /\ threadActive' \in Seq(Thread) /\ IsInjective(threadActive')
          /\ ToSet(threadActive') = ToSet(threadActive) \ {Top}
      BY <1>1, <3>1, UnlinkLink DEF IInv, PoolInv, TypeOK
    <3>3. Top \notin ToSet(threadFree)
      BY <1>1 DEF IInv, PoolInv
    <3>4. /\ threadFree' \in Seq(Thread) /\ IsInjective(threadFree')
          /\ ToSet(threadFree') = ToSet(threadFree) \cup {Top}
      BY <1>1, <3>1, <3>3, AppendLink DEF IInv, PoolInv, TypeOK
    <3>5. ToSet(threadActive') \cap ToSet(threadFree') = {}
      BY <3>2, <3>4 DEF IInv, PoolInv
    <3>6. /\ scriptThread' \in [Script -> Thread \cup {NoThread}]
          /\ \A r \in Script : scriptThread'[r] \in {scriptThread[r], NoThread}
          /\ \A r \in Script : scriptThread'[r] # Top
      BY <1>1, <3>1, ConstantsAssumption DEF IInv, PoolInv, TypeOK
    <3>7. QED
      BY <2>1, <3>2, <3>4, <3>5, <3>6
  <2>2. CASE state[Top] # "Inactive"
    BY <1>1, <2>2 DEF Release, pool, IInv, PoolInv, TypeOK
  <2>3. QED
    BY <2>1, <2>2
<1>6. TypeOK'
  BY <1>1, <1>2, <1>3, <1>4, <1>5, ListsOfThreads DEF TypeOK, Place
<1>7. PoolInv'
  <2>1. ASSUME NEW r \in Script, scriptThread'[r] # NoThread
        PROVE  /\ scriptThread'[r] \in ToSet(threadActive')
               /\ script'[scriptThread'[r]] = r
    BY <1>2, <1>5, <2>1 DEF IInv, PoolInv
  <2>2. ToSet(execStk') \subseteq ToSet(threadActive')
    BY <1>3, <1>5 DEF IInv, PoolInv
  <2>3. itr' # NoThread => itr' \in ToSet(threadActive')
    BY <1>4, <1>5
  <2>4. QED
    BY <1>3, <1>4, <1>5, <2>1, <2>2, <2>3 DEF PoolInv
<1>8. NoStaleRegistration'
  <2> SUFFICES ASSUME NEW r \in Script, Instance(r)' \in {"Stopped", "Inactive"}
               PROVE  FALSE
    BY DEF NoStaleRegistration
  <2>1. scriptThread'[r] = scriptThread[r] /\ Instance(r) = Instance(r)'
    BY <1>2, <1>5 DEF Instance
  <2>2. Instance(r) = "Inactive" /\ scriptThread[r] = Top /\ state[Top] = "Inactive"
    BY <2>1 DEF IInv, NoStaleRegistration, Instance
  <2>3. QED
    BY <1>5, <2>1, <2>2
<1>9. PoolClean'
  BY <1>1, <1>2, <1>5 DEF IInv, PoolClean
<1>10. ActiveIsLive'
  <2> SUFFICES ASSUME NEW u \in ToSet(threadActive'), state'[u] = "Inactive"
               PROVE  FALSE
    BY DEF ActiveIsLive
  <2>1. QED
    BY <1>2, <1>5 DEF IInv, ActiveIsLive
<1>11. NoDelayedRun'
  <2>1. ASSUME NEW u \in ToSet(threadActive'), state'[u] \in {"WaitScr", "WaitTag"}
        PROVE  delay'[u] = 0
    BY <1>2, <1>5, <2>1 DEF IInv, NoDelayedRun
  <2>2. ASSUME NEW j \in DOMAIN execStk'
        PROVE  /\ delay'[execStk'[j]] = 0
               /\ state'[execStk'[j]] \in {"Running", "Paused", "Stopped"}
    <3>1. j \in DOMAIN execStk /\ j < Len(execStk) /\ execStk'[j] = execStk[j]
      BY <1>1, <1>3, ListsOfThreads
    <3>2. QED
      BY <1>2, <3>1 DEF IInv, NoDelayedRun
  <2>3. QED
    BY <2>1, <2>2 DEF NoDelayedRun
<1>12. ControlInv'
  BY <1>4 DEF ControlInv
<1>13. QED
  BY <1>6, <1>7, <1>8, <1>9, <1>10, <1>11, <1>12 DEF IInv

(* A step that touches neither the pool, the registry, the thread objects  *)
(* nor the activations: control moves between the phases of a tic.         *)
LEMMA PhaseInv ==
  ASSUME IInv, execStk = <<>>,
         pc' \in {"host", "actions", "loop"},
         itr' \in ToSet(threadActive) \cup {NoThread},
         pc' # "loop" => itr' = NoThread,
         pc \in {"host", "actions", "loop"},
         served' \subseteq Thread,
         scriptAction' \in Seq(Action),
         UNCHANGED <<pool, scriptThread, object, execStk>>
  PROVE  IInv'
<1>1. /\ threadActive' = threadActive /\ threadFree' = threadFree
      /\ script' = script /\ state' = state /\ data' = data /\ delay' = delay
      /\ info' = info /\ scriptThread' = scriptThread /\ execStk' = execStk
  BY DEF object, pool
<1>2. TypeOK'
  BY <1>1, ListsOfThreads DEF IInv, TypeOK, Place
<1>3. PoolInv'
  BY <1>1 DEF IInv, PoolInv
<1>4. NoStaleRegistration'
  <2>1. ASSUME NEW r \in Script PROVE Instance(r)' = Instance(r)
    BY <1>1 DEF Instance
  <2>2. QED
    BY <2>1 DEF IInv, NoStaleRegistration
<1>5. PoolClean' /\ ActiveIsLive'
  BY <1>1 DEF IInv, PoolClean, ActiveIsLive
<1>6. NoDelayedRun' /\ ControlInv'
  BY <1>1 DEF IInv, NoDelayedRun, ControlInv
<1>7. QED
  BY <1>2, <1>3, <1>4, <1>5, <1>6 DEF IInv

(* Every thread of the map is stopped and goes back to the pool. *)
LEMMA ResetMapInv == IInv /\ ResetMap => IInv'
<1> SUFFICES ASSUME IInv, ResetMap PROVE IInv'
  OBVIOUS
<1>1. execStk = <<>> /\ itr = NoThread
  BY DEF ResetMap, IInv, ControlInv
<1>2. /\ threadFree' \in Seq(Thread) /\ IsInjective(threadFree')
  BY ConcatLinks DEF ResetMap, IInv, PoolInv, TypeOK
<1>3. ToSet(threadActive') = {}
  BY DEF ResetMap, ToSet
<1>4. /\ execStk' = execStk /\ itr' = itr /\ pc' = pc /\ served' = served
      /\ script' = script /\ delay' = delay
  BY DEF ResetMap, control
<1>5. TypeOK'
  BY <1>2, <1>4, ConstantsAssumption DEF ResetMap, IInv, TypeOK, State
<1>6. PoolInv'
  <2>1. IsInjective(threadActive')
    BY DEF ResetMap, IsInjective
  <2>2. \A s \in Script : scriptThread'[s] = NoThread
    BY DEF ResetMap
  <2>3. ToSet(execStk') \subseteq ToSet(threadActive')
    BY <1>1, <1>4 DEF ToSet
  <2>4. IsInjective(execStk')
    BY <1>4 DEF IInv, PoolInv
  <2>5. QED
    BY <1>1, <1>2, <1>3, <1>4, <2>1, <2>2, <2>3, <2>4 DEF PoolInv
<1>7. NoStaleRegistration'
  BY DEF ResetMap, NoStaleRegistration, Instance
<1>8. PoolClean' /\ ActiveIsLive'
  BY <1>3 DEF ResetMap, PoolClean, ActiveIsLive
<1>9. NoDelayedRun' /\ ControlInv'
  BY <1>1, <1>3, <1>4 DEF ResetMap, IInv, NoDelayedRun, ControlInv
<1>10. QED
  BY <1>5, <1>6, <1>7, <1>8, <1>9 DEF IInv

(* A thread is entered by the thread loop, or asks for a delay. *)
LEMMA DelayInv ==
  ASSUME IInv, NEW t \in Thread, NEW n \in Nat,
         delay' = [delay EXCEPT ![t] = n],
         \/ /\ pc = "loop" /\ t = itr /\ itr # NoThread
            /\ execStk' = <<itr>> /\ served' = served \cup {itr}
            /\ pc' \in {"intr", "ret"}
            /\ delay[t] = 0 => n = 0
         \/ /\ pc = "run" /\ t = Top /\ pc' = "intr"
            /\ UNCHANGED <<execStk, served>>,
         UNCHANGED <<pool, scriptThread, scriptAction, script, state, data, info, itr>>
  PROVE  IInv'
<1>1. /\ TypeOK /\ threadActive' = threadActive /\ threadFree' = threadFree
  BY DEF IInv, pool
<1>2. /\ execStk' \in Seq(Thread) /\ IsInjective(execStk') /\ execStk' # <<>>
      /\ ToSet(execStk') \subseteq ToSet(threadActive)
      /\ itr # NoThread => execStk'[1] = itr
      /\ Top' = t /\ t \in ToSet(threadActive)
      /\ state[t] # "Inactive" /\ pc \in {"loop", "run"}
      /\ served' \subseteq Thread /\ pc' \in {"intr", "ret"}
      /\ state[t] \in {"WaitScr", "WaitTag"} => n = 0
      /\ \A j \in DOMAIN execStk' : j < Len(execStk') =>
           j \in DOMAIN execStk /\ execStk'[j] = execStk[j] /\ execStk[j] # t
  <2>1. CASE /\ pc = "loop" /\ t = itr /\ itr # NoThread
             /\ execStk' = <<itr>> /\ served' = served \cup {itr}
             /\ pc' \in {"intr", "ret"}
             /\ delay[t] = 0 => n = 0
    <3>1. t \in ToSet(threadActive)
      BY <2>1 DEF IInv, PoolInv
    <3>2. state[t] # "Inactive"
      BY <2>1, <3>1 DEF IInv, ActiveIsLive
    <3>3. state[t] \in {"WaitScr", "WaitTag"} => n = 0
      BY <2>1, <3>1 DEF IInv, NoDelayedRun
    <3>4. /\ execStk' \in Seq(Thread) /\ Len(execStk') = 1 /\ execStk'[1] = t
          /\ DOMAIN execStk' = {1} /\ execStk' # <<>>
      BY <2>1
    <3>5. IsInjective(execStk') /\ ToSet(execStk') = {t} /\ Top' = t
      BY <3>4 DEF IsInjective, ToSet, Top
    <3>6. served' \subseteq Thread
      BY <1>1, <2>1 DEF TypeOK
    <3>7. QED
      BY <2>1, <3>1, <3>2, <3>3, <3>4, <3>5, <3>6
  <2>2. CASE /\ pc = "run" /\ t = Top /\ pc' = "intr"
             /\ UNCHANGED <<execStk, served>>
    <3>1. /\ execStk # <<>> /\ t \in ToSet(threadActive)
          /\ DOMAIN execStk = 1 .. Len(execStk) /\ Len(execStk) \in DOMAIN execStk
          /\ Len(execStk) \in Nat
      <4>1. execStk # <<>> /\ t \in ToSet(threadActive)
        BY <1>1, <2>2, TopOfStk DEF IInv, ControlInv, PoolInv
      <4>2. Len(execStk) \in DOMAIN execStk /\ DOMAIN execStk = 1 .. Len(execStk)
        BY <1>1, <4>1, TopOfStk, ListsOfThreads
      <4>3. QED
        BY <1>1, <4>1, <4>2 DEF TypeOK
    <3>2. state[t] \in {"Running", "Paused", "Stopped"}
      BY <2>2, <3>1 DEF IInv, NoDelayedRun, Top
    <3>3. \A j \in DOMAIN execStk : j < Len(execStk) => execStk[j] # t
      BY <2>2, <3>1 DEF IInv, PoolInv, IsInjective, Top
    <3>4. Top' = t
      BY <2>2 DEF Top
    <3>5. QED
      BY <1>1, <2>2, <3>1, <3>2, <3>3, <3>4 DEF IInv, PoolInv, TypeOK
  <2>3. QED
    BY <2>1, <2>2
<1>3. /\ delay' \in [Thread -> Nat] /\ delay'[t] = n
      /\ \A u \in Thread \ {t} : delay'[u] = delay[u]
  BY <1>1 DEF TypeOK
<1>4. TypeOK'
  BY <1>1, <1>2, <1>3 DEF TypeOK, Place
<1>5. PoolInv'
  BY <1>1, <1>2 DEF IInv, PoolInv
<1>6. NoStaleRegistration'
  <2>1. ASSUME NEW r \in Script
        PROVE  Instance(r)' = Instance(r) /\ Instance(r) \notin {"Stopped", "Inactive"}
    BY <1>2 DEF Instance, IInv, NoStaleRegistration
  <2>2. QED
    BY <2>1 DEF NoStaleRegistration
<1>7. PoolClean'
  BY <1>1 DEF IInv, PoolClean
<1>8. ActiveIsLive'
  BY <1>1, <1>2 DEF IInv, ActiveIsLive
<1>9. NoDelayedRun'
  <2>1. ASSUME NEW u \in ToSet(threadActive), state[u] \in {"WaitScr", "WaitTag"}
        PROVE  delay'[u] = 0
    BY <1>1, <1>2, <1>3, <2>1, ListsOfThreads DEF IInv, NoDelayedRun
  <2>2. ASSUME NEW j \in DOMAIN execStk', j < Len(execStk')
        PROVE  /\ delay'[execStk'[j]] = 0
               /\ state[execStk'[j]] \in {"Running", "Paused", "Stopped"}
    <3>1. /\ j \in DOMAIN execStk /\ execStk'[j] = execStk[j]
          /\ execStk[j] \in Thread \ {t} /\ execStk # <<>>
      BY <1>1, <1>2, <2>2, ListsOfThreads DEF ToSet
    <3>2. pc = "run"
      BY <1>2, <3>1 DEF IInv, ControlInv
    <3>3. QED
      BY <1>3, <3>1, <3>2 DEF IInv, NoDelayedRun
  <2>3. QED
    BY <1>1, <1>2, <2>1, <2>2 DEF NoDelayedRun
<1>10. ControlInv'
  BY <1>2 DEF ControlInv, IInv
<1>11. QED
  BY <1>4, <1>5, <1>6, <1>7, <1>8, <1>9, <1>10 DEF IInv

(* The info a call passes on is the info of a thread or the host's. *)
LEMMA CallerInfoType ==
  ASSUME IInv, Calling
  PROVE  CallerInfo \subseteq Activator \cup {NoInfo}
<1>1. CASE pc = "run"
  <2>1. Top \in Thread
    BY <1>1, TopOfStk DEF IInv, ControlInv
  <2>2. QED
    BY <1>1, <2>1 DEF CallerInfo, IInv, TypeOK
<1>2. CASE pc # "run"
  BY <1>2 DEF CallerInfo
<1>3. QED
  BY <1>1, <1>2

(* The calls of the host and of the instructions. *)
LEMMA CallsInv == IInv /\ Calls => IInv'
<1> SUFFICES ASSUME IInv, Calls PROVE IInv'
  OBVIOUS
<1> USE DEF Calling
<1>1. CASE CallStart
  <2>1. PICK s \in Script, t \in Thread, i \in CallerInfo : Start(s, t, i)
    BY <1>1 DEF CallStart
  <2>2. i \in Activator \cup {NoInfo}
    BY <1>1, CallerInfoType DEF CallStart
  <2>3. scriptThread[s] = NoThread
    BY <2>1, ConstantsAssumption DEF Start, Instance, IInv, TypeOK, State
  <2>4. scriptAction' \in Seq(Action)
    BY <1>1 DEF CallStart, IInv, TypeOK
  <2>5. QED
    BY <1>1, <2>1, <2>2, <2>3, <2>4, LaunchInv DEF CallStart, Start
<1>2. CASE CallResume
  <2>1. PICK s \in Script : Resume(s)
    BY <1>2 DEF CallResume
  <2>2. scriptThread[s] # NoThread
    BY <2>1, InstanceState DEF Resume
  <2>3. scriptAction' \in Seq(Action)
    BY <1>2 DEF CallResume, IInv, TypeOK
  <2>4. QED
    BY <1>2, <2>1, <2>2, <2>3, OtherStateInv DEF CallResume, Resume
<1>3. CASE CallStartForced
  <2>1. PICK s \in Script, t \in Thread, i \in CallerInfo : StartForced(s, t, i)
    BY <1>3 DEF CallStartForced
  <2>2. i \in Activator \cup {NoInfo}
    BY <1>3, CallerInfoType DEF CallStartForced
  <2>3. scriptAction' \in Seq(Action)
    BY <1>3 DEF CallStartForced, IInv, TypeOK
  <2>4. QED
    BY <1>3, <2>1, <2>2, <2>3, LaunchInv DEF CallStartForced, StartForced
<1>4. CASE CallStop
  <2>1. PICK s \in Script : StopScript(s)
    BY <1>4 DEF CallStop
  <2>2. scriptThread[s] # NoThread
    BY <2>1, InstanceState DEF StopScript
  <2>3. scriptAction' \in Seq(Action)
    BY <1>4 DEF CallStop, IInv, TypeOK
  <2>4. QED
    BY <1>4, <2>1, <2>2, <2>3, OtherStateInv DEF CallStop, StopScript
<1>5. CASE CallPause
  <2>1. PICK s \in Script : PauseScript(s)
    BY <1>5 DEF CallPause
  <2>2. scriptThread[s] # NoThread
    BY <2>1, InstanceState DEF PauseScript
  <2>3. scriptAction' \in Seq(Action)
    BY <1>5 DEF CallPause, IInv, TypeOK
  <2>4. QED
    BY <1>5, <2>1, <2>2, <2>3, OtherStateInv DEF CallPause, PauseScript
<1>6. CASE CallStartResult
  <2>1. PICK s \in Script, t \in Thread, i \in CallerInfo :
          StartForced(s, t, i) /\ execStk' = Append(execStk, t)
    BY <1>6 DEF CallStartResult
  <2>2. i \in Activator \cup {NoInfo}
    BY <1>6, CallerInfoType DEF CallStartResult
  <2>3. scriptAction' \in Seq(Action)
    BY <1>6 DEF CallStartResult, IInv, TypeOK
  <2>4. QED
    BY <1>6, <2>1, <2>2, <2>3, LaunchInv DEF CallStartResult, StartForced
<1>7. QED
  BY <1>1, <1>2, <1>3, <1>4, <1>5, <1>6 DEF Calls

(* The action at the head of the list is applied, or has no effect. *)
LEMMA RunActionInv == IInv /\ RunAction => IInv'
<1> SUFFICES ASSUME IInv, RunAction PROVE IInv'
  OBVIOUS
<1>1. /\ pc = "actions" /\ scriptAction' \in Seq(Action) /\ UNCHANGED control
      /\ execStk = <<>> /\ itr = NoThread
  BY DEF RunAction, TakeAction, IInv, TypeOK, ControlInv
<1>2. ASSUME NEW t \in Thread PROVE info[t] \in Activator \cup {NoInfo}
  BY DEF IInv, TypeOK
<1>3. ASSUME NEW s \in Script, NEW t \in Thread, Start(s, t, info[t]) PROVE IInv'
  <2>1. scriptThread[s] = NoThread
    BY <1>3, ConstantsAssumption DEF Start, Instance, IInv, TypeOK, State
  <2>2. QED
    BY <1>1, <1>2, <1>3, <2>1, LaunchInv DEF Start
<1>4. ASSUME NEW s \in Script, Resume(s) PROVE IInv'
  <2>1. scriptThread[s] # NoThread
    BY <1>4, InstanceState DEF Resume
  <2>2. QED
    BY <1>1, <1>4, <2>1, OtherStateInv DEF Resume
<1>5. ASSUME NEW s \in Script, NEW t \in Thread, StartForced(s, t, info[t]) PROVE IInv'
  BY <1>1, <1>2, <1>5, LaunchInv DEF StartForced
<1>6. ASSUME NEW s \in Script, StopScript(s) PROVE IInv'
  <2>1. scriptThread[s] # NoThread
    BY <1>6, InstanceState DEF StopScript
  <2>2. QED
    BY <1>1, <1>6, <2>1, OtherStateInv DEF StopScript
<1>7. ASSUME NEW s \in Script, PauseScript(s) PROVE IInv'
  <2>1. scriptThread[s] # NoThread
    BY <1>7, InstanceState DEF PauseScript
  <2>2. QED
    BY <1>1, <1>7, <2>1, OtherStateInv DEF PauseScript
<1>8. ASSUME UNCHANGED <<pool, scriptThread, object>> PROVE IInv'
  <2>1. /\ pc' = "actions" /\ itr' = NoThread /\ served' \subseteq Thread
        /\ execStk' = execStk
    BY <1>1 DEF control, IInv, TypeOK
  <2>2. QED
    BY <1>1, <1>8, <2>1, PhaseInv
<1>9. QED
  BY <1>3, <1>4, <1>5, <1>6, <1>7, <1>8 DEF RunAction

(* The other steps of MapScope::exec, and the unwinding of a tic. *)
LEMMA MapExecInv == IInv /\ (BeginTic \/ MapExec \/ Underflow) => IInv'
<1> SUFFICES ASSUME IInv, BeginTic \/ MapExec \/ Underflow PROVE IInv'
  OBVIOUS
<1>1. CASE BeginTic
  <2>1. PICK n \in 0 .. MaxDeferred :
          \E batch \in [1 .. n -> Action] : scriptAction' = scriptAction \o batch
    BY <1>1 DEF BeginTic
  <2>2. PICK batch \in [1 .. n -> Action] : scriptAction' = scriptAction \o batch
    BY <2>1
  <2>6. batch \in Seq(Action) /\ scriptAction \in Seq(Action)
    BY <2>1, <2>2, ConstantsAssumption DEF IInv, TypeOK
  <2>3. scriptAction' \in Seq(Action)
    BY <2>2, <2>6, ConcatLinks
  <2>4. execStk = <<>> /\ itr = NoThread /\ served \subseteq Thread /\ pc = "host"
    BY <1>1 DEF BeginTic, IInv, ControlInv, TypeOK
  <2>5. QED
    BY <1>1, <2>3, <2>4, PhaseInv DEF BeginTic
<1>2. CASE BeginThreads
  <2>1. execStk = <<>> /\ served \subseteq Thread /\ scriptAction \in Seq(Action)
    BY <1>2 DEF BeginThreads, IInv, ControlInv, TypeOK
  <2>2. FirstOf(threadActive, NoThread) \in ToSet(threadActive) \cup {NoThread}
    BY TailLink DEF FirstOf, IInv, TypeOK
  <2>3. QED
    BY <1>2, <2>1, <2>2, PhaseInv DEF BeginThreads
<1>3. CASE RunAction
  BY <1>3, RunActionInv
<1>4. CASE ExecThread
  <2>1. itr \in Thread /\ delay[itr] \in Nat
    BY <1>4 DEF ExecThread, IInv, TypeOK
  <2> DEFINE n == IF delay[itr] = 0 THEN 0 ELSE delay[itr] - 1
  <2>2. n \in Nat
    BY <2>1
  <2>3. delay' = [delay EXCEPT ![itr] = n] /\ pc' \in {"intr", "ret"}
    BY <1>4 DEF ExecThread
  <2>4. delay[itr] = 0 => n = 0
    OBVIOUS
  <2> HIDE DEF n
  <2>5. QED
    BY <1>4, <2>1, <2>2, <2>3, <2>4, DelayInv DEF ExecThread
<1>5. CASE ReturnToLoop
  <2>1. /\ itr \in Thread /\ Top = itr /\ Len(execStk) = 1
        /\ itr \in ToSet(threadActive)
    <3>1. Len(execStk) = 1 /\ Top = itr
      BY <1>5 DEF ReturnToLoop, Top
    <3>2. itr \in Thread /\ itr \in ToSet(threadActive)
      BY <1>5, <3>1, TopOfStk DEF ReturnToLoop, IInv, PoolInv
    <3>3. QED
      BY <3>1, <3>2
  <2>2. Front(execStk) = <<>>
    <3>1. execStk \in Seq(Thread) /\ execStk # <<>>
      BY <1>5, <2>1 DEF ReturnToLoop, IInv, TypeOK
    <3>2. Front(execStk) \in Seq(Thread) /\ Len(Front(execStk)) = Len(execStk) - 1
      BY <3>1, FrontLink
    <3>3. QED
      BY <2>1, <3>2
  <2>3. itr' \in (ToSet(threadActive) \ {Top}) \cup {NoThread}
    BY <1>5, <2>1, NextOfLink DEF ReturnToLoop, IInv, PoolInv, TypeOK
  <2>4. served' \subseteq Thread
    BY <1>5 DEF ReturnToLoop, IInv, TypeOK
  <2>5. QED
    BY <1>5, <2>1, <2>2, <2>3, <2>4, ReleaseInv DEF ReturnToLoop
<1>6. CASE EndTic
  <2>1. execStk = <<>> /\ scriptAction \in Seq(Action)
    BY <1>6 DEF EndTic, IInv, ControlInv, TypeOK
  <2>2. QED
    BY <1>6, <2>1, PhaseInv DEF EndTic
<1>7. CASE Underflow
  <2>1. /\ threadActive' = threadActive /\ threadFree' = threadFree
        /\ scriptThread' = scriptThread /\ script' = script /\ state' = state
        /\ data' = data /\ delay' = delay /\ info' = info
        /\ scriptAction' = scriptAction /\ execStk' = <<>> /\ itr' = NoThread
        /\ pc' = "host" /\ served' = {} /\ pc = "run"
    BY <1>7 DEF Underflow, pool, object
  <2>2. TypeOK'
    BY <2>1 DEF IInv, TypeOK, Place
  <2>3. PoolInv'
    <3>1. IsInjective(execStk') /\ ToSet(execStk') = {}
      BY <2>1 DEF IsInjective, ToSet
    <3>2. QED
      BY <2>1, <3>1 DEF IInv, PoolInv
  <2>4. NoStaleRegistration'
    <3>1. ASSUME NEW r \in Script PROVE Instance(r)' = Instance(r)
      BY <2>1 DEF Instance
    <3>2. QED
      BY <2>1, <3>1 DEF IInv, NoStaleRegistration
  <2>5. PoolClean' /\ ActiveIsLive'
    BY <2>1 DEF IInv, PoolClean, ActiveIsLive
  <2>6. NoDelayedRun'
    BY <2>1 DEF IInv, NoDelayedRun
  <2>7. ControlInv'
    BY <2>1 DEF ControlInv
  <2>8. QED
    BY <2>2, <2>3, <2>4, <2>5, <2>6, <2>7 DEF IInv
<1>8. QED
  BY <1>1, <1>2, <1>3, <1>4, <1>5, <1>6, <1>7 DEF MapExec

(* exec_intr, and the instructions after which Thread::exec may return. *)
LEMMA InterruptInv == IInv /\ (Interrupt \/ Yield) => IInv'
<1> SUFFICES ASSUME IInv, Interrupt \/ Yield PROVE IInv'
  OBVIOUS
<1>1. /\ execStk # <<>> /\ Top \in Thread /\ Len(execStk) \in DOMAIN execStk
      /\ Len(execStk) \in Nat /\ Top \in ToSet(threadActive)
  BY TopOfStk, ListsOfThreads
     DEF IInv, ControlInv, PoolInv, TypeOK, Interrupt, Yield, IntrStop, IntrReturn,
         IntrRun, ScrDelay, ScrHalt, ScrWait, TagWait, Kill, Terminate
<1>2. pc = "run" => delay[Top] = 0
  BY <1>1 DEF IInv, NoDelayedRun, Top
<1>3. NoScript \in Script \cup {NoScript}
  OBVIOUS
<1>4. CASE IntrStop
  BY <1>1, <1>3, <1>4, OwnStateInv DEF IntrStop, Stop, State
<1>5. CASE IntrReturn
  <2>1. /\ threadActive' = threadActive /\ threadFree' = threadFree
        /\ scriptThread' = scriptThread /\ script' = script /\ state' = state
        /\ data' = data /\ delay' = delay /\ info' = info
        /\ scriptAction' = scriptAction /\ execStk' = execStk /\ itr' = itr
        /\ pc = "intr" /\ pc' = "ret" /\ served' = served /\ Top' = Top
        /\ state[Top] \notin {"Stopped", "Inactive"}
    BY <1>5 DEF IntrReturn, pool, object, Top
  <2>2. TypeOK' /\ PoolInv' /\ PoolClean'
    BY <2>1 DEF IInv, TypeOK, PoolInv, PoolClean, Place
  <2>3. NoStaleRegistration'
    <3>1. ASSUME NEW r \in Script
          PROVE  Instance(r)' = Instance(r) /\ Instance(r) \notin {"Stopped", "Inactive"}
      BY <2>1 DEF Instance, IInv, NoStaleRegistration
    <3>2. QED
      BY <3>1 DEF NoStaleRegistration
  <2>4. ActiveIsLive'
    BY <2>1 DEF IInv, ActiveIsLive
  <2>5. NoDelayedRun' /\ ControlInv'
    BY <2>1 DEF IInv, NoDelayedRun, ControlInv
  <2>6. QED
    BY <2>2, <2>3, <2>4, <2>5 DEF IInv
<1>6. CASE IntrRun
  <2>1. delay[Top] = 0
    BY <1>1, <1>6 DEF IntrRun, IInv, NoDelayedRun
  <2>2. QED
    BY <1>3, <1>6, <2>1, OwnStateInv DEF IntrRun, State
<1>7. CASE ScrDelay
  <2>1. PICK n \in 0 .. MaxDelay : delay' = [delay EXCEPT ![Top] = n]
    BY <1>7 DEF ScrDelay
  <2>2. n \in Nat
    BY ConstantsAssumption
  <2>3. QED
    BY <1>1, <1>7, <2>1, <2>2, DelayInv DEF ScrDelay
<1>8. CASE ScrHalt
  BY <1>3, <1>8, OwnStateInv DEF ScrHalt, State
<1>9. CASE ScrWait
  <2>1. PICK s \in Script \cup {NoScript} : SetState(Top, "WaitScr", s)
    BY <1>9 DEF ScrWait
  <2>2. QED
    BY <1>2, <1>9, <2>1, OwnStateInv DEF ScrWait, State
<1>10. CASE TagWait
  BY <1>2, <1>3, <1>10, OwnStateInv DEF TagWait, State
<1>11. CASE Kill
  BY <1>3, <1>11, OwnStateInv DEF Kill, State
<1>12. CASE Terminate
  BY <1>3, <1>12, OwnStateInv DEF Terminate, Stop, State
<1>13. QED
  BY <1>4, <1>5, <1>6, <1>7, <1>8, <1>9, <1>10, <1>11, <1>12 DEF Interrupt, Yield

(* scriptStartResult goes on. *)
LEMMA ReturnToCallerInv == IInv /\ ReturnToCaller => IInv'
<1> SUFFICES ASSUME IInv, ReturnToCaller PROVE IInv'
  OBVIOUS
<1>1. served' \subseteq Thread
  BY DEF ReturnToCaller, IInv, TypeOK
<1>2. QED
  BY <1>1, ReleaseInv DEF ReturnToCaller

LEMMA StutterInv == IInv /\ UNCHANGED vars => IInv'
<1> SUFFICES ASSUME IInv, UNCHANGED vars PROVE IInv'
  OBVIOUS
<1>1. /\ threadActive' = threadActive /\ threadFree' = threadFree
      /\ scriptThread' = scriptThread /\ script' = script /\ state' = state
      /\ data' = data /\ delay' = delay /\ info' = info
      /\ scriptAction' = scriptAction /\ execStk' = execStk /\ itr' = itr
      /\ pc' = pc /\ served' = served
  BY DEF vars, pool, object, control
<1>2. TypeOK' /\ PoolInv' /\ PoolClean'
  BY <1>1 DEF IInv, TypeOK, PoolInv, PoolClean
<1>3. NoStaleRegistration' /\ ActiveIsLive' /\ NoDelayedRun' /\ ControlInv'
  BY <1>1 DEF IInv, NoStaleRegistration, ActiveIsLive, NoDelayedRun, ControlInv,
              Instance, Top
<1>4. QED
  BY <1>2, <1>3 DEF IInv

(* Every step preserves the invariant. *)
LEMMA NextInv == IInv /\ [Next]_vars => IInv'
BY CallsInv, ResetMapInv, MapExecInv, InterruptInv, ReturnToCallerInv, StutterInv
   DEF Next

-----------------------------------------------------------------------------
(* The inductive invariant holds of the specification. *)
THEOREM SpecInv == Spec => []IInv
BY InitInv, NextInv, PTL DEF Spec

(* Type correctness: every variable keeps its type, whatever host and scripts do. *)
THEOREM TypesCorrect == Spec => []TypeOK
<1>1. IInv => TypeOK
  BY DEF IInv
<1>2. QED
  BY <1>1, SpecInv, PTL

(* The thread pool is consistent: no thread object is in two places of the *)
(* lists of MapScope and Environment, is recycled while Thread::exec runs  *)
(* on it, or is entered again by a script it executes.                     *)
THEOREM PoolCorrect == Spec => []PoolInv
<1>1. IInv => PoolInv
  BY DEF IInv
<1>2. QED
  BY <1>1, SpecInv, PTL

(* The registry of MapScope never answers for a thread that is gone. *)
THEOREM RegistryCorrect == Spec => []NoStaleRegistration
<1>1. IInv => NoStaleRegistration
  BY DEF IInv
<1>2. QED
  BY <1>1, SpecInv, PTL

(* A thread that the scheduler gives back to the pool is inactive and holds *)
(* no activator, so that the next script that gets it has none of the last. *)
THEOREM PoolIsClean == Spec => []PoolClean
<1>1. IInv => PoolClean
  BY DEF IInv
<1>2. QED
  BY <1>1, SpecInv, PTL

(* A thread that has ended leaves the active list with the step that ends it, *)
(* also when an underflow has cut the loop over the threads short.            *)
THEOREM ActiveAreLive == Spec => []ActiveIsLive
<1>1. IInv => ActiveIsLive
  BY DEF IInv
<1>2. QED
  BY <1>1, SpecInv, PTL

(* No instruction executes while its thread is in a delay. *)
THEOREM DelaysAreKept == Spec => []NoDelayedRun
<1>1. IInv => NoDelayedRun
  BY DEF IInv
<1>2. QED
  BY <1>1, SpecInv, PTL

-----------------------------------------------------------------------------
(* What a step may do to the state of a stopped thread and to a registration. *)
LEMMA StopStep ==
  ASSUME IInv, Next, NEW t \in Thread, state[t] = "Stopped", t \notin ToSet(execStk)
  PROVE  state'[t] \in {"Stopped", "Inactive"}
<1>1. TypeOK
  BY DEF IInv
<1>2. ASSUME NEW u \in Thread, NEW s \in Script, NEW i, IsFreeThread(u), Launch(u, s, i)
      PROVE  state'[t] = state[t]
  <2>1. u # t
    BY <1>2, FreeThreadIsOut
  <2>2. QED
    BY <1>1, <1>2, <2>1 DEF Launch, SetState, TypeOK
<1>3. ASSUME NEW s \in Script, Resume(s) \/ StopScript(s) \/ PauseScript(s)
      PROVE  state'[t] = state[t]
  <2>1. scriptThread[s] # t
    BY <1>3 DEF Resume, StopScript, PauseScript, Instance
  <2>2. QED
    BY <1>1, <1>3, <2>1 DEF Resume, StopScript, PauseScript, SetState, TypeOK
<1>4. CASE Calls
  BY <1>2, <1>3, <1>4
     DEF Calls, CallStart, CallResume, CallStartForced, CallStop, CallPause,
         CallStartResult, Start, StartForced
<1>5. CASE RunAction
  BY <1>2, <1>3, <1>5 DEF RunAction, Start, StartForced, object
<1>6. CASE Interrupt \/ Yield
  <2>1. Top # t
    BY <1>1, <1>6, TopOfStk
       DEF IInv, ControlInv, Interrupt, Yield, IntrStop, IntrReturn, IntrRun,
           ScrDelay, ScrHalt, ScrWait, TagWait, Kill, Terminate
  <2>2. QED
    BY <1>1, <1>6, <2>1
       DEF Interrupt, Yield, IntrStop, IntrReturn, IntrRun, ScrDelay, ScrHalt, ScrWait,
           TagWait, Kill, Terminate, Stop, SetState, object, TypeOK
<1>7. CASE ResetMap
  BY <1>7 DEF ResetMap
<1>8. CASE BeginTic \/ BeginThreads \/ ExecThread \/ ReturnToLoop \/ EndTic \/ Underflow
           \/ ReturnToCaller
  BY <1>8 DEF BeginTic, BeginThreads, ExecThread, ReturnToLoop, EndTic, Underflow,
              ReturnToCaller, object
<1>9. QED
  BY <1>4, <1>5, <1>6, <1>7, <1>8 DEF Next, MapExec

LEMMA RegistrationStep ==
  ASSUME IInv, Next, NEW s \in Script, scriptThread[s] # NoThread
  PROVE  scriptThread'[s] \in {scriptThread[s], NoThread}
<1>1. TypeOK
  BY DEF IInv
<1>2. ASSUME NEW r \in Script, NEW t, NEW i, Start(r, t, i)
      PROVE  scriptThread'[s] = scriptThread[s]
  <2>1. scriptThread[r] = NoThread
    BY <1>1, <1>2, ConstantsAssumption DEF Start, Instance, TypeOK, State
  <2>2. QED
    BY <1>1, <1>2, <2>1 DEF Start, TypeOK
<1>3. ASSUME NEW r \in Script, Resume(r) \/ StopScript(r) \/ PauseScript(r)
      PROVE  scriptThread'[s] \in {scriptThread[s], NoThread}
  BY <1>1, <1>3 DEF Resume, StopScript, PauseScript, TypeOK
<1>4. ASSUME NEW r, NEW t, NEW i, StartForced(r, t, i)
      PROVE  scriptThread'[s] = scriptThread[s]
  BY <1>4 DEF StartForced
<1>5. CASE Calls
  BY <1>2, <1>3, <1>4, <1>5
     DEF Calls, CallStart, CallResume, CallStartForced, CallStop, CallPause,
         CallStartResult
<1>6. CASE RunAction
  BY <1>2, <1>3, <1>4, <1>6 DEF RunAction
<1>7. CASE ReturnToLoop \/ ReturnToCaller
  BY <1>1, <1>7 DEF ReturnToLoop, ReturnToCaller, Release, FreeThread, TypeOK
<1>8. CASE ResetMap
  BY <1>8 DEF ResetMap
<1>9. CASE BeginTic \/ BeginThreads \/ ExecThread \/ EndTic \/ Underflow
           \/ Interrupt \/ Yield
  BY <1>9 DEF BeginTic, BeginThreads, ExecThread, EndTic, Underflow, Interrupt, Yield,
              IntrStop, IntrReturn, IntrRun, ScrDelay, ScrHalt, ScrWait, TagWait, Kill,
              Terminate
<1>10. QED
  BY <1>5, <1>6, <1>7, <1>8, <1>9 DEF Next, MapExec

(* A stop of a thread that is not executing cannot be undone. *)
THEOREM StopsAreFinal == Spec => StopIsFinal
<1>1. IInv /\ [Next]_vars
        => [\A t \in Thread : state[t] = "Stopped" /\ t \notin ToSet(execStk)
              => state'[t] \in {"Stopped", "Inactive"}]_vars
  BY StopStep
<1>2. QED
  BY <1>1, SpecInv, PTL DEF Spec, StopIsFinal

(* A script has one registered instance at a time, with a gap between two. *)
THEOREM RegistrationsEndFirst == Spec => RegistrationEndsFirst
<1>1. IInv /\ [Next]_vars
        => [\A s \in Script : scriptThread[s] # NoThread
              => scriptThread'[s] \in {scriptThread[s], NoThread}]_vars
  BY RegistrationStep
<1>2. QED
  BY <1>1, SpecInv, PTL DEF Spec, RegistrationEndsFirst
-----------------------------------------------------------------------------
LEMMA LoopInit == Init => LoopInv
BY DEF Init, LoopInv, ToSet

(* Nothing changes of what the loop has to know. *)
LEMMA LoopSame ==
  ASSUME LoopInv, UNCHANGED <<threadActive, itr, served>>,
         pc' = "loop" <=> pc = "loop",
         \A i \in 2 .. Len(execStk') : i \in 2 .. Len(execStk) /\ execStk'[i] = execStk[i]
  PROVE  LoopInv'
BY DEF LoopInv

(* A thread is appended, and may be executed at once. *)
LEMMA LoopLaunch ==
  ASSUME IInv, LoopInv, NEW t \in Thread, IsFreeThread(t),
         threadActive' = Append(threadActive, t),
         execStk' \in {execStk, Append(execStk, t)},
         UNCHANGED <<itr, served>>, pc # "loop", pc' # "loop"
  PROVE  LoopInv'
<1>1. /\ threadActive \in Seq(Thread) /\ execStk \in Seq(Thread)
      /\ IsInjective(threadActive) /\ t \notin ToSet(threadActive)
      /\ threadActive' \in Seq(Thread) /\ IsInjective(threadActive')
      /\ Len(threadActive') = Len(threadActive) + 1
      /\ \A i \in 1 .. Len(threadActive) : threadActive'[i] = threadActive[i]
  <2>1. t \notin ToSet(threadActive)
    BY FreeThreadIsOut
  <2>2. QED
    BY <2>1, AppendLink, AppendProperties DEF IInv, TypeOK, PoolInv
<1>2. CASE itr = NoThread
  BY <1>1, <1>2 DEF LoopInv
<1>3. CASE itr # NoThread
  <2> DEFINE here == Index(threadActive, itr)
  <2>1. here \in 1 .. Len(threadActive) /\ threadActive[here] = itr
    BY <1>1, <1>3, IndexOfLink DEF IInv, PoolInv
  <2>2. Index(threadActive', itr) = here
    <3>1. here \in 1 .. Len(threadActive') /\ threadActive'[here] = itr
      BY <1>1, <2>1
    <3>2. QED
      BY <1>1, <3>1, IndexIsPosition
  <2>3. served = {threadActive[i] : i \in 1 .. here}
    BY <1>3 DEF LoopInv
  <2> HIDE DEF here
  <2>4. served = {threadActive'[i] : i \in 1 .. here}
    BY <1>1, <2>1, <2>3
  <2>5. t \notin served
    BY <1>1, <2>1, <2>3 DEF ToSet
  <2>6. \A i \in 2 .. Len(execStk') : execStk'[i] \notin served
    BY <1>1, <2>5 DEF LoopInv
  <2>7. QED
    BY <1>3, <2>2, <2>4, <2>6 DEF LoopInv, here
<1>4. QED
  BY <1>2, <1>3

LEMMA LoopNext == IInv /\ LoopInv /\ [Next]_vars => LoopInv'
<1> SUFFICES ASSUME IInv, LoopInv, [Next]_vars PROVE LoopInv'
  OBVIOUS
<1>1. /\ threadActive \in Seq(Thread) /\ execStk \in Seq(Thread)
      /\ IsInjective(threadActive) /\ NoThread \notin Thread
      /\ ToSet(threadActive) \subseteq Thread
      /\ itr # NoThread => itr \in ToSet(threadActive)
      /\ pc \in {"host", "actions"} => itr = NoThread /\ execStk = <<>>
      /\ pc = "loop" => execStk = <<>>
  BY ConstantsAssumption, ListsOfThreads DEF IInv, TypeOK, PoolInv, ControlInv
<1>2. CASE Calls
  <2>1. CASE CallResume \/ CallStop \/ CallPause
    BY <2>1, LoopSame DEF CallResume, CallStop, CallPause, Resume, StopScript, PauseScript,
                          control, pool
  <2>2. CASE CallStart \/ CallStartForced \/ CallStartResult
    <3>1. PICK t \in Thread :
            /\ IsFreeThread(t) /\ threadActive' = Append(threadActive, t)
            /\ execStk' \in {execStk, Append(execStk, t)}
            /\ UNCHANGED <<itr, served>>
      BY <2>2 DEF CallStart, CallStartForced, CallStartResult, Start, StartForced, Launch, control
    <3>2. pc # "loop" /\ pc' # "loop"
      BY <2>2 DEF CallStart, CallStartForced, CallStartResult, Calling, control
    <3>3. QED
      BY <3>1, <3>2, LoopLaunch
  <2>3. QED
    BY <1>2, <2>1, <2>2 DEF Calls
<1>3. CASE ResetMap
  BY <1>1, <1>3 DEF ResetMap, LoopInv, control
<1>4. CASE BeginTic \/ RunAction
  BY <1>1, <1>4 DEF BeginTic, RunAction, LoopInv, control, pool
<1>5. CASE BeginThreads
  <2>1. served' = {} /\ pc' = "loop" /\ threadActive' = threadActive /\ execStk' = <<>>
    BY <1>1, <1>5 DEF BeginThreads, LoopInv, pool
  <2>2. CASE threadActive = <<>>
    BY <1>5, <2>1, <2>2 DEF BeginThreads, FirstOf, LoopInv, ToSet
  <2>3. CASE threadActive # <<>>
    <3>1. itr' = threadActive[1] /\ 1 \in 1 .. Len(threadActive)
      BY <1>1, <1>5, <2>3, HeadTailProperties DEF BeginThreads, FirstOf
    <3>2. Index(threadActive, itr') = 1 /\ itr' # NoThread
      BY <1>1, <3>1, IndexIsPosition
    <3>3. QED
      BY <2>1, <3>2 DEF LoopInv
  <2>4. QED
    BY <2>2, <2>3
<1>6. CASE ExecThread
  <2> DEFINE here == Index(threadActive, itr)
  <2>1. here \in 1 .. Len(threadActive) /\ threadActive[here] = itr
    BY <1>1, <1>6, IndexOfLink DEF ExecThread
  <2>2. served = {threadActive[i] : i \in 1 .. here - 1}
    BY <1>6 DEF ExecThread, LoopInv
  <2>3. /\ served' = served \cup {itr} /\ execStk' = <<itr>> /\ itr # NoThread
        /\ pc' # "loop" /\ UNCHANGED <<threadActive, itr>>
    BY <1>6 DEF ExecThread, pool
  <2> HIDE DEF here
  <2>4. served' = {threadActive[i] : i \in 1 .. here}
    BY <2>1, <2>2, <2>3
  <2>5. QED
    BY <2>3, <2>4 DEF LoopInv, here
<1>7. CASE ReturnToLoop
  <2> DEFINE here == Index(threadActive, itr)
             last == Len(threadActive)
  <2>1. itr \in ToSet(threadActive) /\ itr # NoThread
    <3>1. execStk # <<>> /\ itr \in ToSet(execStk)
      BY <1>7 DEF ReturnToLoop, ToSet
    <3>2. QED
      BY <1>1, <3>1 DEF IInv, PoolInv
  <2>2. here \in 1 .. last /\ threadActive[here] = itr /\ last \in Nat
    BY <1>1, <2>1, IndexOfLink
  <2>3. served = {threadActive[i] : i \in 1 .. here}
    BY <1>7, <2>1 DEF ReturnToLoop, LoopInv
  <2>4. /\ pc' = "loop" /\ execStk' = <<>>
        /\ itr' = IF here = last THEN NoThread ELSE threadActive[here + 1]
        /\ here # last => itr' # NoThread
    <3>1. here # last => threadActive[here + 1] \in ToSet(threadActive)
      BY <1>1, <2>2 DEF ToSet
    <3>2. QED
      BY <1>1, <1>7, <3>1 DEF ReturnToLoop, NextOf
  <2> HIDE DEF here, last
  <2>5. CASE state[itr] = "Inactive"
    <3>1. threadActive' = Unlink(threadActive, itr) /\ served' = served \ {itr}
      BY <1>7, <2>5 DEF ReturnToLoop, Release, FreeThread
    <3>2. /\ threadActive' \in Seq(Thread) /\ IsInjective(threadActive')
          /\ Len(threadActive') = last - 1
          /\ \A i \in 1 .. here - 1 : threadActive'[i] = threadActive[i]
          /\ \A i \in here .. last - 1 : threadActive'[i] = threadActive[i + 1]
      BY <1>1, <2>1, <2>2, <3>1, UnlinkLink, UnlinkBehind DEF here, last
    <3>3. served' = {threadActive[i] : i \in 1 .. here - 1}
      BY <1>1, <2>2, <2>3, <3>1 DEF IsInjective, last
    <3>4. served' = {threadActive'[i] : i \in 1 .. here - 1}
      BY <2>2, <3>2, <3>3
    <3>5. CASE here = last
      BY <2>2, <2>4, <3>2, <3>4, <3>5 DEF LoopInv, ToSet
    <3>6. CASE here # last
      <4>1. here \in 1 .. Len(threadActive') /\ threadActive'[here] = itr'
        BY <2>2, <2>4, <3>2, <3>6
      <4>2. Index(threadActive', itr') = here
        BY <3>2, <4>1, IndexIsPosition
      <4>3. QED
        BY <2>4, <3>4, <3>6, <4>2 DEF LoopInv
    <3>7. QED
      BY <3>5, <3>6
  <2>6. CASE state[itr] # "Inactive"
    <3>1. threadActive' = threadActive /\ served' = served
      BY <1>7, <2>6 DEF ReturnToLoop, Release, pool
    <3>2. CASE here = last
      BY <1>1, <2>2, <2>3, <2>4, <3>1, <3>2 DEF LoopInv, ToSet, last
    <3>3. CASE here # last
      <4>1. here + 1 \in 1 .. Len(threadActive)
        BY <2>2, <3>3 DEF last
      <4>2. Index(threadActive, itr') = here + 1
        BY <1>1, <2>4, <3>3, <4>1, IndexIsPosition
      <4>3. (here + 1) - 1 = here
        BY <2>2
      <4>4. QED
        BY <2>3, <2>4, <3>1, <3>3, <4>2, <4>3 DEF LoopInv
    <3>4. QED
      BY <3>2, <3>3
  <2>7. QED
    BY <2>5, <2>6
<1>8. CASE EndTic \/ Underflow
  BY <1>1, <1>8 DEF EndTic, Underflow, LoopInv
<1>9. CASE Interrupt \/ Yield \/ UNCHANGED vars
  BY <1>9, LoopSame
     DEF Interrupt, Yield, IntrStop, IntrReturn, IntrRun, ScrDelay, ScrHalt, ScrWait, TagWait,
         Kill, Terminate, pool, control, vars
<1>10. CASE ReturnToCaller
  <2>1. /\ execStk # <<>> /\ Top \in ToSet(execStk) /\ Top \in ToSet(threadActive)
        /\ Len(execStk) \in Nat \ {0}
    BY <1>1, <1>10, TopOfStk DEF ReturnToCaller, IInv, ControlInv, PoolInv
  <2>2. /\ Len(execStk') = Len(execStk) - 1
        /\ \A i \in 1 .. Len(execStk) - 1 : execStk'[i] = execStk[i]
        /\ UNCHANGED <<itr, served>> /\ pc = "ret" /\ pc' # "loop"
    BY <1>1, <1>10, <2>1, FrontLink DEF ReturnToCaller
  <2>3. \A i \in 2 .. Len(execStk') : i \in 2 .. Len(execStk) /\ execStk'[i] = execStk[i]
    BY <2>1, <2>2
  <2>4. CASE threadActive' = threadActive
    BY <2>2, <2>3, <2>4, LoopSame
  <2>5. CASE itr = NoThread
    BY <2>2, <2>3, <2>5 DEF LoopInv
  <2>6. CASE itr # NoThread /\ threadActive' = Unlink(threadActive, Top)
    <3> DEFINE here == Index(threadActive, itr)
    <3>1. here \in 1 .. Len(threadActive) /\ threadActive[here] = itr
      BY <1>1, <2>6, IndexOfLink
    <3>2. served = {threadActive[i] : i \in 1 .. here}
      BY <2>2, <2>6 DEF LoopInv
    <3>3. Top \notin served
      <4>1. Len(execStk) # 1
        <5>1. Len(execStk) = 1 => execStk = <<execStk[1]>>
          BY <1>1
        <5>2. QED
          BY <1>10, <2>1, <2>6, <5>1 DEF ReturnToCaller, IInv, PoolInv
      <4>2. Len(execStk) \in 2 .. Len(execStk)
        <5>1. Len(execStk) \in Nat \ {0, 1}
          BY <2>1, <4>1
        <5> DEFINE n == Len(execStk)
        <5>2. n \in 2 .. n
          <6>1. n \in Nat \ {0, 1}
            BY <5>1
          <6> HIDE DEF n
          <6>2. QED
            BY <6>1
        <5>3. QED
          BY <5>2
      <4>3. QED
        BY <4>2 DEF LoopInv, Top
    <3>4. /\ Index(threadActive, Top) \in 1 .. Len(threadActive)
          /\ threadActive[Index(threadActive, Top)] = Top
      BY <1>1, <2>1, IndexOfLink
    <3> HIDE DEF here
    <3>5. here + 1 \in 1 .. Len(threadActive) /\ here + 1 <= Index(threadActive, Top)
      BY <3>1, <3>2, <3>3, <3>4
    <3>6. /\ threadActive' \in Seq(Thread) /\ IsInjective(threadActive')
          /\ Len(threadActive') = Len(threadActive) - 1
          /\ \A i \in 1 .. (here + 1) - 1 : threadActive'[i] = threadActive[i]
      BY <1>1, <2>1, <2>6, <3>5, UnlinkLink, UnlinkBehind
    <3>7. here \in 1 .. Len(threadActive') /\ threadActive'[here] = itr
      BY <3>1, <3>5, <3>6
    <3>8. Index(threadActive', itr) = here
      BY <3>6, <3>7, IndexIsPosition
    <3>9. served = {threadActive'[i] : i \in 1 .. here}
      BY <3>1, <3>2, <3>6
    <3>10. QED
      BY <2>2, <2>3, <2>6, <3>8, <3>9 DEF LoopInv
  <2>7. QED
    BY <1>10, <2>4, <2>5, <2>6 DEF ReturnToCaller, Release, FreeThread, pool
<1>11. QED
  BY <1>2, <1>3, <1>4, <1>5, <1>6, <1>7, <1>8, <1>9, <1>10 DEF Next, MapExec

(* The loop over the threads executes each of them once in a tic, and     *)
(* none that an earlier one of the same tic has freed.                    *)
THEOREM EachServedOnce == Spec => []ServedOnce
<1>1. Init => LoopInv
  BY LoopInit
<1>2. IInv /\ LoopInv /\ [Next]_vars => LoopInv'
  BY LoopNext
<1>3. IInv /\ LoopInv => ServedOnce
  <2> SUFFICES ASSUME IInv, LoopInv, pc = "loop"
               PROVE  served = {threadActive[i] : i \in
                        {j \in DOMAIN threadActive :
                           itr = NoThread \/ j < Index(threadActive, itr)}}
    BY DEF ServedOnce
  <2>1. CASE itr = NoThread
    BY <2>1 DEF LoopInv, ToSet
  <2>2. CASE itr # NoThread
    <3>1. Index(threadActive, itr) \in 1 .. Len(threadActive) /\ DOMAIN threadActive = 1 .. Len(threadActive)
      BY <2>2, IndexOfLink DEF IInv, PoolInv, TypeOK
    <3>2. served = {threadActive[i] : i \in 1 .. Index(threadActive, itr) - 1}
      BY <2>2 DEF LoopInv
    <3>3. QED
      BY <2>2, <3>1, <3>2
  <2>3. QED
    BY <2>1, <2>2
<1>4. QED
  BY <1>1, <1>2, <1>3, SpecInv, PTL DEF Spec
-----------------------------------------------------------------------------
(* What ScriptInstances sees of a thread of the active list. *)
ModeOf(st) ==
  CASE st \in {"Stopped", "Inactive"} -> "stopped"
    [] st = "Paused" -> "paused"
    [] OTHER -> "ready"

LEMMA InstModes ==
  ASSUME TypeOK
  PROVE  /\ instMode = [t \in Thread |-> IF t \in ToSet(threadActive) THEN ModeOf(state[t]) ELSE "free"]
         /\ \A st : ModeOf(st) \in {"ready", "paused", "stopped"}
BY DEF instMode, ModeOf, TypeOK, State

(* What executes: all activations but the last, and the last in the instructions. *)
ExecutingIn(stk, p) ==
  {stk[i] : i \in {j \in DOMAIN stk : j < Len(stk) \/ p = "run"}}

LEMMA ExecutingOf ==
  ASSUME NEW stk \in Seq(Thread), IsInjective(stk), NEW p
  PROVE  /\ stk = <<>> => ExecutingIn(stk, p) = {}
         /\ p = "run" => ExecutingIn(stk, p) = ToSet(stk)
         /\ stk # <<>> /\ p # "run" => ExecutingIn(stk, p) = ToSet(stk) \ {stk[Len(stk)]}
         /\ stk # <<>> => stk[Len(stk)] \in ToSet(stk)
<1> DEFINE n == Len(stk)
           E == {stk[i] : i \in {j \in DOMAIN stk : j < n \/ p = "run"}}
<1>1. DOMAIN stk = 1 .. n /\ n \in Nat /\ (stk # <<>> => n \in 1 .. n) /\ (stk = <<>> => n = 0)
  OBVIOUS
<1>2. \A i, j \in 1 .. n : stk[i] = stk[j] => i = j
  BY <1>1 DEF IsInjective
<1> HIDE DEF n
<1>3. stk = <<>> => E = {}
  BY <1>1
<1>4. p = "run" => E = ToSet(stk)
  BY <1>1 DEF ToSet
<1>5. stk # <<>> /\ p # "run" => E = ToSet(stk) \ {stk[n]}
  <2> SUFFICES ASSUME stk # <<>>, p # "run" PROVE E = ToSet(stk) \ {stk[n]}
    OBVIOUS
  <2>1. ASSUME NEW x \in E PROVE x \in ToSet(stk) \ {stk[n]}
    <3>1. PICK i \in 1 .. n : x = stk[i] /\ i < n
      BY <1>1
    <3>2. QED
      BY <1>1, <1>2, <3>1 DEF ToSet
  <2>2. ASSUME NEW x \in ToSet(stk) \ {stk[n]} PROVE x \in E
    <3>1. PICK i \in 1 .. n : x = stk[i]
      BY <1>1 DEF ToSet
    <3>2. i # n
      BY <3>1
    <3>3. QED
      BY <1>1, <3>1, <3>2
  <2>3. QED
    BY <2>1, <2>2
<1>6. stk # <<>> => stk[n] \in ToSet(stk)
  BY <1>1 DEF ToSet
<1>7. QED
  BY <1>3, <1>4, <1>5, <1>6 DEF n, ExecutingIn

LEMMA ExecutingNow ==
  /\ instExecuting = ExecutingIn(execStk, pc)
  /\ instExecuting' = ExecutingIn(execStk', pc')
BY DEF instExecuting, ExecutingIn

(* A thread is launched: an instance is made. *)
LEMMA MakeStep ==
  ASSUME IInv, NEW s \in Script, NEW t \in Thread, NEW i \in Activator \cup {NoInfo},
         IsFreeThread(t), Launch(t, s, i), instExecuting' = instExecuting
  PROVE  Instances!Make(s, t)
<1>1. t \notin ToSet(threadActive) /\ ToSet(threadActive') = ToSet(threadActive) \cup {t}
  BY FreeThreadIsOut, LaunchPool
<1>2. /\ script'[t] = s /\ state'[t] = "Running"
      /\ \A u \in Thread \ {t} : script'[u] = script[u] /\ state'[u] = state[u]
  BY LaunchObject
<1>3. instMode[t] = "free"
  BY <1>1 DEF instMode
<1>4. instMode' = [instMode EXCEPT ![t] = "ready"]
  BY <1>1, <1>2 DEF instMode
<1>5. instRuns' = [instRuns EXCEPT ![t] = s]
  BY <1>1, <1>2 DEF instRuns
<1>6. QED
  BY <1>3, <1>4, <1>5 DEF Instances!Make


(* The state of one thread of the active list changes, and nothing else that *)
(* ScriptInstances sees of the threads.                                      *)
LEMMA ModeStep ==
  ASSUME TypeOK, NEW t \in ToSet(threadActive), NEW st, NEW d, SetState(t, st, d),
         UNCHANGED <<threadActive, script>>
  PROVE  /\ instMode' = [instMode EXCEPT ![t] = ModeOf(st)]
         /\ instRuns' = instRuns
<1>1. threadActive' = threadActive /\ script' = script /\ t \in Thread
  BY ListsOfThreads
<1>2. state \in [Thread -> State] /\ state' = [state EXCEPT ![t] = st]
  BY DEF SetState, TypeOK
<1>3. instRuns' = instRuns
  BY <1>1 DEF instRuns
<1>4. ASSUME NEW u \in Thread
      PROVE  instMode'[u] = IF u = t THEN ModeOf(st) ELSE instMode[u]
  BY <1>1, <1>2 DEF instMode, ModeOf
<1>5. QED
  BY <1>1, <1>3, <1>4 DEF instMode

(* The operations on a registered thread. *)
LEMMA RegistryStep ==
  ASSUME IInv, NEW s \in Script, Resume(s) \/ StopScript(s) \/ PauseScript(s),
         instExecuting' = instExecuting
  PROVE  Instances!Resume(s) \/ Instances!Stop(s) \/ Instances!Pause(s)
<1> DEFINE t == scriptThread[s]
<1>1. t # NoThread /\ Instance(s) = state[t] /\ t \in ToSet(threadActive) /\ t \in Thread
  BY InstanceState, ListsOfThreads DEF Resume, StopScript, PauseScript, IInv, PoolInv
<1>2. TypeOK /\ state[t] \in State
  BY <1>1 DEF IInv, TypeOK
<1>3. instMode[t] = ModeOf(state[t])
  BY <1>1, <1>2, InstModes
<1>4. CASE Resume(s)
  <2>1. instMode' = [instMode EXCEPT ![t] = "ready"] /\ instRuns' = instRuns
    BY <1>1, <1>2, <1>4, ModeStep DEF Resume, pool, ModeOf
  <2>2. instMode[t] = "paused" /\ scriptThread' = scriptThread
    BY <1>1, <1>3, <1>4 DEF Resume, ModeOf
  <2>3. QED
    BY <1>1, <2>1, <2>2 DEF Instances!Resume
<1>5. CASE StopScript(s)
  <2>1. instMode' = [instMode EXCEPT ![t] = "stopped"] /\ instRuns' = instRuns
    BY <1>1, <1>2, <1>5, ModeStep DEF StopScript, pool, ModeOf
  <2>2. /\ instMode[t] \in {"ready", "paused"}
        /\ scriptThread' = [scriptThread EXCEPT ![s] = NoThread]
    BY <1>1, <1>3, <1>5 DEF StopScript, ModeOf
  <2>3. QED
    BY <1>1, <2>1, <2>2 DEF Instances!Stop
<1>6. CASE PauseScript(s)
  <2>1. instMode' = [instMode EXCEPT ![t] = "paused"] /\ instRuns' = instRuns
    BY <1>1, <1>2, <1>6, ModeStep DEF PauseScript, pool, ModeOf
  <2>2. instMode[t] = "ready" /\ scriptThread' = scriptThread
    BY <1>1, <1>3, <1>6 DEF PauseScript, ModeOf
  <2>3. QED
    BY <1>1, <2>1, <2>2 DEF Instances!Pause
<1>7. QED
  BY <1>4, <1>5, <1>6

(* Starts are starts of the instance that the thread becomes. *)
LEMMA StartStep ==
  ASSUME IInv, NEW s \in Script, NEW t \in Thread, NEW i \in Activator \cup {NoInfo},
         Start(s, t, i) \/ StartForced(s, t, i), instExecuting' = instExecuting
  PROVE  Instances!Start(s, t) \/ Instances!StartForced(s, t)
<1>1. Instances!Make(s, t)
  BY MakeStep DEF Start, StartForced
<1>2. CASE Start(s, t, i)
  <2>1. scriptThread[s] = NoThread
    BY <1>2, ConstantsAssumption DEF Start, Instance, IInv, TypeOK, State
  <2>2. QED
    BY <1>1, <1>2, <2>1 DEF Start, Instances!Start
<1>3. CASE StartForced(s, t, i)
  BY <1>1, <1>3 DEF StartForced, Instances!StartForced
<1>4. QED
  BY <1>2, <1>3

(* A thread that has ended leaves the active list, or it stays. *)
LEMMA ReleaseStep ==
  ASSUME IInv, pc = "ret", Release(Top), execStk' = Front(execStk),
         execStk' # <<>> => pc' = "run",
         UNCHANGED object
  PROVE  Instances!End(Top) \/ UNCHANGED Instances!avars
<1>1. /\ TypeOK /\ execStk # <<>> /\ Top \in Thread /\ Top \in ToSet(threadActive)
      /\ execStk \in Seq(Thread) /\ IsInjective(execStk)
      /\ threadActive \in Seq(Thread) /\ IsInjective(threadActive)
  BY TopOfStk DEF IInv, ControlInv, PoolInv, TypeOK
<1>2. instExecuting = ToSet(execStk) \ {Top}
  BY <1>1, ExecutingOf, ExecutingNow DEF Top
<1>3. /\ execStk' \in Seq(Thread) /\ IsInjective(execStk')
      /\ ToSet(execStk') = ToSet(execStk) \ {Top}
  <2>1. /\ execStk' \in Seq(Thread) /\ IsInjective(execStk')
        /\ ToSet(execStk') \subseteq ToSet(execStk) /\ Top \notin ToSet(execStk')
        /\ Len(execStk') = Len(execStk) - 1
        /\ \A j \in 1 .. Len(execStk) - 1 : execStk'[j] = execStk[j]
    BY <1>1, FrontLink DEF Top
  <2>2. ASSUME NEW x \in ToSet(execStk) \ {Top} PROVE x \in ToSet(execStk')
    <3>1. PICK j \in 1 .. Len(execStk) : x = execStk[j]
      BY <1>1 DEF ToSet
    <3>2. j # Len(execStk)
      BY <3>1 DEF Top
    <3>3. j \in 1 .. Len(execStk) - 1
      BY <1>1, <3>1, <3>2
    <3>4. QED
      BY <2>1, <3>1, <3>3 DEF ToSet
  <2>3. QED
    BY <2>1, <2>2
<1>4. instExecuting' = instExecuting
  <2>1. instExecuting' = ExecutingIn(execStk', pc')
    BY ExecutingNow
  <2>2. execStk' = <<>> => instExecuting' = {} /\ ToSet(execStk') = {}
    BY <2>1 DEF ToSet, ExecutingIn
  <2>3. execStk' # <<>> => instExecuting' = ToSet(execStk')
    BY <1>3, <2>1, ExecutingOf
  <2>4. QED
    BY <1>2, <1>3, <2>2, <2>3
<1>5. script' = script /\ state' = state
  BY DEF object
<1>6. CASE state[Top] = "Inactive"
  <2>1. ToSet(threadActive') = ToSet(threadActive) \ {Top}
    BY <1>1, <1>6, UnlinkLink DEF Release, FreeThread
  <2>2. instMode[Top] = "stopped"
    BY <1>1, <1>6 DEF instMode
  <2>3. /\ instMode' = [instMode EXCEPT ![Top] = "free"]
        /\ instRuns' = [instRuns EXCEPT ![Top] = NoScript]
    BY <1>1, <1>5, <2>1 DEF instMode, instRuns
  <2>4. scriptThread' = [s \in Script |-> IF scriptThread[s] = Top THEN NoThread ELSE scriptThread[s]]
    BY <1>1, <1>6, ConstantsAssumption DEF Release, FreeThread, IInv, PoolInv
  <2>5. QED
    BY <1>2, <1>4, <2>2, <2>3, <2>4 DEF Instances!End
<1>7. CASE state[Top] # "Inactive"
  <2>1. threadActive' = threadActive /\ scriptThread' = scriptThread
    BY <1>7 DEF Release, pool
  <2>2. QED
    BY <1>4, <1>5, <2>1 DEF instMode, instRuns, Instances!avars
<1>8. QED
  BY <1>6, <1>7

(* An instance that executes has decided how it goes on. *)
LEMMA LeaveStep ==
  ASSUME IInv, pc = "run", pc' # "run", UNCHANGED <<threadActive, script, scriptThread, execStk>>,
         \/ state' = state
         \/ \E st, d : SetState(Top, st, d)
  PROVE  Instances!Leave(Top)
<1>1. /\ TypeOK /\ execStk # <<>> /\ Top \in Thread /\ Top \in ToSet(threadActive)
      /\ execStk \in Seq(Thread) /\ IsInjective(execStk)
  BY TopOfStk DEF IInv, ControlInv, PoolInv, TypeOK
<1>2. /\ instExecuting = ToSet(execStk) /\ Top \in ToSet(execStk)
      /\ instExecuting' = ToSet(execStk) \ {Top}
  BY <1>1, ExecutingOf, ExecutingNow DEF Top
<1>3. \E m \in {"ready", "paused", "stopped"} :
        instMode' = [instMode EXCEPT ![Top] = m] /\ instRuns' = instRuns
  <2>1. CASE state' = state
    <3>1. instMode' = instMode /\ instRuns' = instRuns
      BY <2>1 DEF instMode, instRuns
    <3>2. instMode[Top] \in {"ready", "paused", "stopped"}
      BY <1>1 DEF instMode
    <3>3. instMode = [instMode EXCEPT ![Top] = instMode[Top]]
      BY <1>1 DEF instMode
    <3>4. QED
      BY <3>1, <3>2, <3>3
  <2>2. ASSUME NEW st, NEW d, SetState(Top, st, d)
        PROVE  instMode' = [instMode EXCEPT ![Top] = ModeOf(st)] /\ instRuns' = instRuns
    BY <1>1, <2>2, ModeStep
  <2>3. \A st : ModeOf(st) \in {"ready", "paused", "stopped"}
    BY DEF ModeOf
  <2>4. QED
    BY <2>1, <2>2, <2>3
<1>4. QED
  BY <1>2, <1>3 DEF Instances!Leave

(* Every step of the scheduler is a step of ScriptInstances, or none. *)
LEMMA InstancesStep ==
  IInv /\ [Next]_vars => [Instances!Next]_(Instances!avars)
<1> SUFFICES ASSUME IInv, [Next]_vars
             PROVE  Instances!Next \/ UNCHANGED Instances!avars
  OBVIOUS
<1>1. /\ TypeOK /\ execStk \in Seq(Thread) /\ IsInjective(execStk)
      /\ pc \in {"host", "actions", "loop"} => execStk = <<>> /\ instExecuting = {}
  <2>1. TypeOK /\ execStk \in Seq(Thread) /\ IsInjective(execStk)
    BY DEF IInv, TypeOK, PoolInv
  <2>2. pc \in {"host", "actions", "loop"} => execStk = <<>>
    BY DEF IInv, ControlInv
  <2>3. QED
    BY <2>1, <2>2, ExecutingOf, ExecutingNow
<1>2. ASSUME UNCHANGED <<execStk, pc>> PROVE instExecuting' = instExecuting
  BY <1>2 DEF instExecuting
<1>3. ASSUME NEW s \in Script, Resume(s) \/ StopScript(s) \/ PauseScript(s), UNCHANGED control
      PROVE  Instances!Next
  BY <1>2, <1>3, RegistryStep DEF control, Instances!Next
<1>4. ASSUME NEW s \in Script, NEW t \in Thread, NEW i \in Activator \cup {NoInfo},
             Start(s, t, i) \/ StartForced(s, t, i), instExecuting' = instExecuting
      PROVE  Instances!Next
  BY <1>4, StartStep DEF Instances!Next
<1>5. ASSUME UNCHANGED <<threadActive, scriptThread, script, state>>, instExecuting' = instExecuting
      PROVE  UNCHANGED Instances!avars
  BY <1>5 DEF instMode, instRuns, Instances!avars
<1>6. CASE CallStart \/ CallStartForced
  <2>1. PICK s \in Script, t \in Thread, i \in CallerInfo : Start(s, t, i) \/ StartForced(s, t, i)
    BY <1>6 DEF CallStart, CallStartForced
  <2>2. i \in Activator \cup {NoInfo} /\ instExecuting' = instExecuting
    BY <1>2, <1>6, CallerInfoType DEF CallStart, CallStartForced, control
  <2>3. QED
    BY <1>4, <2>1, <2>2
<1>7. CASE CallResume \/ CallStop \/ CallPause
  BY <1>3, <1>7 DEF CallResume, CallStop, CallPause
<1>8. CASE CallStartResult
  <2>1. PICK s \in Script, t \in Thread, i \in CallerInfo :
          StartForced(s, t, i) /\ execStk' = Append(execStk, t)
    BY <1>8 DEF CallStartResult
  <2>2. /\ i \in Activator \cup {NoInfo} /\ pc \in {"host", "run"} /\ pc' = "intr"
        /\ t \notin ToSet(execStk)
    BY <1>8, <2>1, CallerInfoType, FreeThreadIsOut DEF CallStartResult, Calling, StartForced
  <2>3. /\ execStk' \in Seq(Thread) /\ IsInjective(execStk') /\ execStk' # <<>>
        /\ ToSet(execStk') = ToSet(execStk) \cup {t} /\ execStk'[Len(execStk')] = t
    BY <1>1, <2>1, <2>2, AppendLink, AppendProperties
  <2>4. instExecuting' = ToSet(execStk)
    <3>1. instExecuting' = ExecutingIn(execStk', pc') /\ pc' # "run"
      BY <2>2, ExecutingNow
    <3>2. instExecuting' = ToSet(execStk') \ {t}
      BY <2>3, <3>1, ExecutingOf
    <3>3. QED
      BY <2>2, <2>3, <3>2
  <2>5. instExecuting = ToSet(execStk)
    <3>1. CASE pc = "run"
      BY <1>1, <3>1, ExecutingOf, ExecutingNow
    <3>2. CASE pc = "host"
      BY <1>1, <3>2 DEF ToSet
    <3>3. QED
      BY <2>2, <3>1, <3>2
  <2>6. QED
    BY <1>4, <2>1, <2>2, <2>4, <2>5
<1>9. CASE ResetMap
  <2>1. /\ ToSet(threadActive') = {} /\ instExecuting = {} /\ instExecuting' = {}
        /\ scriptThread' = [s \in Script |-> NoThread]
    BY <1>1, <1>2, <1>9 DEF ResetMap, ToSet, control
  <2>2. instMode' = [t \in Thread |-> "free"] /\ instRuns' = [t \in Thread |-> NoScript]
    BY <2>1 DEF instMode, instRuns
  <2>3. QED
    BY <2>1, <2>2 DEF Instances!Reset, Instances!Next
<1>10. CASE RunAction
  <2>1. UNCHANGED control /\ instExecuting' = instExecuting
    BY <1>2, <1>10 DEF RunAction, control
  <2>2. ASSUME NEW t \in Thread PROVE info[t] \in Activator \cup {NoInfo}
    BY <1>1 DEF TypeOK
  <2>3. CASE UNCHANGED <<pool, scriptThread, object>>
    BY <1>5, <2>1, <2>3 DEF pool, object
  <2>4. QED
    BY <1>3, <1>4, <1>10, <2>1, <2>2, <2>3 DEF RunAction
<1>11. CASE BeginTic \/ BeginThreads \/ EndTic
  <2>1. execStk = <<>> /\ execStk' = <<>>
    BY <1>1, <1>11 DEF BeginTic, BeginThreads, EndTic
  <2>2. instExecuting' = instExecuting
    BY <2>1 DEF instExecuting
  <2>3. QED
    BY <1>5, <1>11, <2>2 DEF BeginTic, BeginThreads, EndTic, pool, object
<1>12. CASE ExecThread
  <2>1. instExecuting = {} /\ execStk' = <<itr>> /\ pc' # "run"
    BY <1>1, <1>12 DEF ExecThread
  <2>2. instExecuting' = {}
    BY <2>1 DEF instExecuting
  <2>3. QED
    BY <1>5, <1>12, <2>1, <2>2 DEF ExecThread, pool
<1>13. CASE ReturnToLoop
  <2>1. Top = itr /\ execStk' = <<>> /\ execStk' = Front(execStk)
    <3>1. Len(execStk) = 1 /\ execStk # <<>> /\ Top = itr /\ execStk' = <<>>
      BY <1>13 DEF ReturnToLoop, Top
    <3>2. Front(execStk) \in Seq(Thread) /\ Len(Front(execStk)) = Len(execStk) - 1
      BY <1>1, <3>1, FrontLink
    <3>3. QED
      BY <3>1, <3>2
  <2>2. Instances!End(Top) \/ UNCHANGED Instances!avars
    BY <1>13, <2>1, ReleaseStep DEF ReturnToLoop
  <2>3. Top \in Thread
    BY <1>1, <1>13, TopOfStk DEF ReturnToLoop
  <2>4. QED
    BY <2>2, <2>3 DEF Instances!Next
<1>14. CASE ReturnToCaller
  <2>1. execStk # <<>> /\ Top \in Thread
    BY <1>1, <1>14, TopOfStk DEF ReturnToCaller, IInv, ControlInv
  <2>2. execStk' # <<>> => pc' = "run"
    <3>1. /\ Len(execStk') = Len(execStk) - 1 /\ Len(execStk) \in Nat
          /\ execStk' # <<>> => Len(execStk') # 0
      BY <1>1, <1>14, <2>1, FrontLink DEF ReturnToCaller
    <3>2. pc' = IF Len(execStk) = 1 THEN "host" ELSE "run"
      BY <1>14 DEF ReturnToCaller
    <3>3. QED
      BY <3>1, <3>2
  <2>3. Instances!End(Top) \/ UNCHANGED Instances!avars
    BY <1>14, <2>2, ReleaseStep DEF ReturnToCaller
  <2>4. QED
    BY <2>1, <2>3 DEF Instances!Next
<1>15. CASE IntrStop
  <2>1. /\ execStk # <<>> /\ Top \in Thread /\ Top \in ToSet(threadActive)
        /\ instExecuting' = instExecuting /\ state[Top] = "Stopped"
    BY <1>1, <1>15, TopOfStk DEF IntrStop, IInv, ControlInv, PoolInv, instExecuting
  <2>2. instMode' = [instMode EXCEPT ![Top] = "stopped"] /\ instRuns' = instRuns
    BY <1>1, <1>15, <2>1, ModeStep DEF IntrStop, Stop, pool, ModeOf
  <2>3. instMode' = instMode /\ scriptThread' = scriptThread
    BY <1>15, <2>1, <2>2 DEF IntrStop, instMode
  <2>4. QED
    BY <2>1, <2>2, <2>3 DEF Instances!avars
<1>16. CASE IntrReturn
  <2>1. instExecuting' = instExecuting
    BY <1>16 DEF IntrReturn, instExecuting
  <2>2. QED
    BY <1>5, <1>16, <2>1 DEF IntrReturn, pool, object
<1>17. CASE IntrRun
  <2>1. /\ execStk # <<>> /\ Top \in Thread /\ Top \in ToSet(threadActive)
        /\ Top \in ToSet(execStk) /\ state[Top] \in {"Running", "WaitScr", "WaitTag"}
    BY <1>1, <1>17, TopOfStk DEF IntrRun, IInv, ControlInv, PoolInv
  <2>2. instExecuting = ToSet(execStk) \ {Top} /\ instExecuting' = ToSet(execStk)
    <3>1. pc = "intr" /\ pc' = "run" /\ execStk' = execStk
      BY <1>17 DEF IntrRun
    <3>2. instExecuting = ToSet(execStk) \ {Top}
      BY <1>1, <2>1, <3>1, ExecutingOf, ExecutingNow DEF Top
    <3>3. instExecuting' = ToSet(execStk)
      BY <1>1, <3>1, ExecutingOf, ExecutingNow
    <3>4. QED
      BY <3>2, <3>3
  <2>3. /\ instMode[Top] = "ready" /\ instRuns' = instRuns
        /\ instMode' = [instMode EXCEPT ![Top] = "ready"]
    BY <1>1, <1>17, <2>1, ModeStep DEF IntrRun, pool, ModeOf, instMode
  <2>4. instMode' = instMode /\ scriptThread' = scriptThread
    BY <1>17, <2>1, <2>3 DEF IntrRun, instMode
  <2>5. Instances!Enter(Top)
    BY <2>1, <2>2, <2>3, <2>4 DEF Instances!Enter
  <2>6. QED
    BY <2>1, <2>5 DEF Instances!Next
<1>18. CASE Yield
  <2>1. execStk # <<>> /\ Top \in Thread
    BY <1>1, <1>18, TopOfStk
       DEF IInv, ControlInv, Yield, ScrDelay, ScrHalt, ScrWait, TagWait, Kill, Terminate
  <2>2. Instances!Leave(Top)
    BY <1>18, LeaveStep
       DEF Yield, ScrDelay, ScrHalt, ScrWait, TagWait, Kill, Terminate, Stop, pool
  <2>3. QED
    BY <2>1, <2>2 DEF Instances!Next
<1>19. CASE Underflow
  <2>1. /\ instExecuting' = {} /\ scriptThread' = scriptThread
        /\ instMode' = instMode /\ instRuns' = instRuns
    BY <1>19 DEF Underflow, pool, object, instExecuting, instMode, instRuns
  <2>2. QED
    BY <2>1 DEF Instances!Fail, Instances!Next
<1>20. CASE UNCHANGED vars
  <2>1. UNCHANGED <<threadActive, scriptThread, script, state>> /\ instExecuting' = instExecuting
    BY <1>2, <1>20 DEF vars, pool, object, control
  <2>2. QED
    BY <1>5, <2>1
<1>21. QED
  BY <1>6, <1>7, <1>8, <1>9, <1>10, <1>11, <1>12, <1>13, <1>14, <1>15, <1>16, <1>17, <1>18,
     <1>19, <1>20 DEF Next, Calls, MapExec, Interrupt

(* The scheduler keeps what ScriptInstances promises of the scripts of a map. *)
THEOREM SchedulerImplements == Spec => ImplementsInstances
<1>1. Init => Instances!Init
  BY DEF Init, Instances!Init, instMode, instRuns, instExecuting, ToSet
<1>2. QED
  BY <1>1, InstancesStep, SpecInv, PTL DEF Spec, ImplementsInstances, Instances!Spec
=============================================================================
