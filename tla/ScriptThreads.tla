--------------------------- MODULE ScriptThreads ---------------------------
(***************************************************************************)
(* One map scope of the ACS virtual machine and the threads it schedules:  *)
(* MapScope (Scope.cpp), Thread (Thread.cpp, ThreadExec.cpp), the thread   *)
(* pool of Environment, and the IndexThreadInfo that HelionACS adds to     *)
(* every thread.                                                           *)
(*                                                                         *)
(* The machine has one C++ thread.  What interleaves is: calls of the host *)
(* between two tics, the instructions of the scripts, which call the same  *)
(* operations, and scripts executed inside an instruction of another       *)
(* (scriptStartResult).  The bytecode of a script is arbitrary: at each    *)
(* instruction the executing thread may do any of the operations below.    *)
(***************************************************************************)
EXTENDS Naturals, SequencesExt, ListLinks

CONSTANTS
  Thread,       \* thread objects the pool may hold (bound)
  Script,       \* scripts of the modules of the map
  Activator,    \* values of IndexThreadInfo other than the all -1 one
  NoThread,     \* null Thread pointer
  NoScript,     \* name that no script of the map has
  NoInfo,       \* IndexThreadInfo with every member -1
  MaxDelay,     \* longest delay a script asks for (bound)
  MaxDeferred,  \* most actions delivered to the map in one tic (bound)
  Underflowing  \* scripts whose bytecode may drop from an empty data stack

ASSUME ConstantsAssumption ==
  /\ NoThread \notin Thread
  /\ NoScript \notin Script
  /\ NoInfo \notin Activator
  /\ MaxDelay \in Nat
  /\ MaxDeferred \in Nat
  /\ Underflowing \subseteq Script

VARIABLES
  threadActive,  \* MapScope::threadActive, in list order
  threadFree,    \* Environment::threadFree, in list order
  scriptThread,  \* MapScope::PrivData::scriptThread
  scriptAction,  \* MapScope::scriptAction
  script,        \* Thread::script
  state,         \* Thread::state.state
  data,          \* Thread::state.data of a thread waiting for a script
  delay,         \* Thread::delay
  info,          \* ThreadImpl::info
  execStk,       \* activations of Thread::exec on the C++ stack, top last
  itr,           \* iterator of the thread loop of MapScope::exec
  pc,            \* where control is
  served         \* history: threads this tic's loop has executed

pool    == <<threadActive, threadFree>>
object  == <<script, state, data, delay, info>>
control == <<execStk, itr, pc, served>>
vars    == <<pool, scriptThread, scriptAction, object, control>>

State == {"Inactive", "Running", "Stopped", "Paused", "WaitScr", "WaitTag"}

Action == [action : {"Start", "StartForced", "Stop", "Pause"},
           script : Script \cup {NoScript}]

(***************************************************************************)
(* Where control is: with the host, in the action loop or at the head of   *)
(* the thread loop of MapScope::exec, or in Thread::exec of the top of     *)
(* execStk, at label exec_intr, in the instructions, or at a return.       *)
(***************************************************************************)
Place == {"host", "actions", "loop", "intr", "run", "ret"}

Init ==
  /\ threadActive = <<>>
  /\ threadFree   = <<>>
  /\ scriptThread = [s \in Script |-> NoThread]
  /\ scriptAction = <<>>
  /\ script  = [t \in Thread |-> NoScript]
  /\ state   = [t \in Thread |-> "Inactive"]
  /\ data    = [t \in Thread |-> NoScript]
  /\ delay   = [t \in Thread |-> 0]
  /\ info    = [t \in Thread |-> NoInfo]
  /\ execStk = <<>>
  /\ itr     = NoThread
  /\ pc      = "host"
  /\ served  = {}
-----------------------------------------------------------------------------
Top == execStk[Len(execStk)]
-----------------------------------------------------------------------------
(* The thread pool and the operations on one thread. *)

\* getFreeThread: the head of the free list, or a new object if it is empty.
IsFreeThread(t) ==
  IF threadFree # <<>>
  THEN t = Head(threadFree)
  ELSE t \in Thread \ ToSet(threadActive)

\* Assigning a ThreadState also resets the data it carries.
SetState(t, st, d) ==
  /\ state' = [state EXCEPT ![t] = st]
  /\ data'  = [data  EXCEPT ![t] = d]

\* Mutant: the thread is linked in at the other end of the active list.
LaunchAtHead(t, s, i) ==
  /\ threadFree'   = IF threadFree # <<>> THEN Tail(threadFree) ELSE <<>>
  /\ threadActive' = <<t>> \o threadActive
  /\ script' = [script EXCEPT ![t] = s]
  /\ SetState(t, "Running", NoScript)
  /\ delay'  = [delay EXCEPT ![t] = 0]
  /\ info'   = [info EXCEPT ![t] = i]

\* getFreeThread, then Thread::start.  With i = info[t] the info argument is
\* null: the thread keeps the info it has.
Launch(t, s, i) ==
  /\ threadFree'   = IF threadFree # <<>> THEN Tail(threadFree) ELSE <<>>
  /\ threadActive' = Append(threadActive, t)
  /\ script' = [script EXCEPT ![t] = s]
  /\ SetState(t, "Running", NoScript)
  /\ delay'  = [delay EXCEPT ![t] = 0]
  /\ info'   = [info EXCEPT ![t] = i]

\* Mutant: ThreadImpl::stop does not reset info.
StopKeepsInfo(t) == SetState(t, "Inactive", NoScript) /\ UNCHANGED info

\* Thread::stop of ThreadImpl.  Delay and script stay as they are.
Stop(t) ==
  /\ SetState(t, "Inactive", NoScript)
  /\ info' = [info EXCEPT ![t] = NoInfo]

\* Mutant: the thread is freed without looking for its script.
FreeThreadOnly(t) ==
  /\ threadActive' = Unlink(threadActive, t)
  /\ threadFree'   = Append(threadFree, t)
  /\ UNCHANGED scriptThread

\* Mutant: the script is forgotten whichever thread it is registered to.
FreeThreadAnyScript(t) ==
  /\ threadActive' = Unlink(threadActive, t)
  /\ threadFree'   = Append(threadFree, t)
  /\ scriptThread' = [s \in Script |->
       IF s = script[t] THEN NoThread ELSE scriptThread[s]]

\* MapScope::freeThread: forget the thread if its script is registered to it.
FreeThread(t) ==
  /\ threadActive' = Unlink(threadActive, t)
  /\ threadFree'   = Append(threadFree, t)
  /\ scriptThread' = [s \in Script |->
       IF s = script[t] /\ scriptThread[s] = t THEN NoThread
                                               ELSE scriptThread[s]]

\* What itr->exec() or scriptStartResult does when Thread::exec has returned.
Release(t) ==
  IF state[t] = "Inactive" THEN FreeThread(t)
                           ELSE UNCHANGED <<pool, scriptThread>>

\* State of the instance of s in the registry, "None" if there is none.
Instance(s) ==
  IF s \notin Script THEN "None"
  ELSE IF scriptThread[s] = NoThread THEN "None"
  ELSE state[scriptThread[s]]

isScriptActive(s) == Instance(s) \notin {"None", "Inactive"}
-----------------------------------------------------------------------------
(* The script operations of MapScope.  A call that returns false changes   *)
(* nothing and is a stuttering step.                                       *)

Start(s, t, i) ==
  /\ Instance(s) = "None"
  /\ IsFreeThread(t)
  /\ Launch(t, s, i)
  /\ scriptThread' = [scriptThread EXCEPT ![s] = t]

Resume(s) ==
  /\ Instance(s) = "Paused"
  /\ SetState(scriptThread[s], "Running", NoScript)
  /\ UNCHANGED <<pool, scriptThread, script, delay, info>>

\* Mutant: a forced start registers its thread.
StartForcedRegisters(s, t, i) ==
  /\ IsFreeThread(t)
  /\ Launch(t, s, i)
  /\ scriptThread' = [scriptThread EXCEPT ![s] = t]

StartForced(s, t, i) ==
  /\ IsFreeThread(t)
  /\ Launch(t, s, i)
  /\ UNCHANGED scriptThread

\* Mutant: the stopped thread stays registered.
StopScriptKeeps(s) ==
  /\ Instance(s) \notin {"None", "Inactive", "Stopped"}
  /\ SetState(scriptThread[s], "Stopped", NoScript)
  /\ UNCHANGED <<pool, scriptThread, script, delay, info>>

\* Mutant: the thread goes back to the pool at once.
StopScriptFrees(s) ==
  /\ Instance(s) \notin {"None", "Inactive", "Stopped"}
  /\ SetState(scriptThread[s], "Stopped", NoScript)
  /\ FreeThread(scriptThread[s])
  /\ UNCHANGED <<script, delay, info>>

StopScript(s) ==
  /\ Instance(s) \notin {"None", "Inactive", "Stopped"}
  /\ SetState(scriptThread[s], "Stopped", NoScript)
  /\ scriptThread' = [scriptThread EXCEPT ![s] = NoThread]
  /\ UNCHANGED <<pool, script, delay, info>>

PauseScript(s) ==
  /\ Instance(s) \notin {"None", "Inactive", "Paused", "Stopped"}
  /\ SetState(scriptThread[s], "Paused", NoScript)
  /\ UNCHANGED <<pool, scriptThread, script, delay, info>>
-----------------------------------------------------------------------------
(* Calls of the host between tics and of the executing thread. *)

Calling == pc \in {"host", "run"}

\* The host passes a CSThreadInfo, an instruction the info of its thread.
CallerInfo == IF pc = "run" THEN {info[Top]} ELSE Activator \cup {NoInfo}

CallStart ==
  /\ Calling
  /\ \E s \in Script, t \in Thread : \E i \in CallerInfo : Start(s, t, i)
  /\ UNCHANGED <<scriptAction, control>>

CallResume ==
  /\ Calling
  /\ \E s \in Script : Resume(s)
  /\ UNCHANGED <<scriptAction, control>>

CallStartForced ==
  /\ Calling
  /\ \E s \in Script, t \in Thread : \E i \in CallerInfo : StartForced(s, t, i)
  /\ UNCHANGED <<scriptAction, control>>

CallStop ==
  /\ Calling
  /\ \E s \in Script : StopScript(s)
  /\ UNCHANGED <<scriptAction, control>>

CallPause ==
  /\ Calling
  /\ \E s \in Script : PauseScript(s)
  /\ UNCHANGED <<scriptAction, control>>

\* scriptStartResult: the new thread executes inside the call, its delay is 0.
CallStartResult ==
  /\ Calling
  /\ \E s \in Script, t \in Thread : \E i \in CallerInfo :
       /\ StartForced(s, t, i)
       /\ execStk' = Append(execStk, t)
  /\ pc' = "intr"
  /\ UNCHANGED <<scriptAction, itr, served>>

\* MapScope::reset: every thread is stopped and goes back to the pool, the
\* actions and the tables are freed; LoadHubMap then adds the modules again.
ResetMap ==
  /\ pc = "host"
  /\ threadFree'   = threadFree \o threadActive
  /\ threadActive' = <<>>
  /\ scriptThread' = [s \in Script |-> NoThread]
  /\ scriptAction' = <<>>
  /\ state' = [t \in Thread |-> "Inactive"]
  /\ data'  = [t \in Thread |-> NoScript]
  /\ info'  = [t \in Thread |-> NoInfo]
  /\ UNCHANGED <<script, delay, control>>
-----------------------------------------------------------------------------
(* MapScope::exec. *)

\* The scopes above have handed their deferred actions down.
BeginTic ==
  /\ pc = "host"
  /\ \E n \in 0 .. MaxDeferred : \E batch \in [1 .. n -> Action] :
       /\ n + Len(threadActive) <= Cardinality(Thread)
       /\ scriptAction' = scriptAction \o batch
  /\ pc' = "actions"
  /\ UNCHANGED <<pool, scriptThread, object, execStk, itr, served>>

\* Mutant: the action stays in the list.
TakeActionKeeps == scriptAction # <<>> /\ UNCHANGED scriptAction

TakeAction == scriptAction # <<>> /\ scriptAction' = Tail(scriptAction)

\* The action at the head of the list is a for a script of the map.
Pending(a, s) == s \in Script /\ Head(scriptAction) = [action |-> a, script |-> s]

\* No such script, or the operation returns false.
Dropped(a) ==
  \/ a.script = NoScript
  \/ /\ a.action = "Start"
     /\ Instance(a.script) \notin {"None", "Paused"}
  \/ /\ a.action = "Stop"
     /\ Instance(a.script) \in {"None", "Inactive", "Stopped"}
  \/ /\ a.action = "Pause"
     /\ Instance(a.script) \in {"None", "Inactive", "Paused", "Stopped"}

\* Deferred starts carry no info.
RunAction ==
  /\ pc = "actions"
  /\ TakeAction
  /\ \/ \E s \in Script, t \in Thread : Pending("Start", s) /\ Start(s, t, info[t])
     \/ \E s \in Script : Pending("Start", s) /\ Resume(s)
     \/ \E s \in Script, t \in Thread :
          Pending("StartForced", s) /\ StartForced(s, t, info[t])
     \/ \E s \in Script : Pending("Stop", s) /\ StopScript(s)
     \/ \E s \in Script : Pending("Pause", s) /\ PauseScript(s)
     \/ Dropped(Head(scriptAction)) /\ UNCHANGED <<pool, scriptThread, object>>
  /\ UNCHANGED control

BeginThreads ==
  /\ pc = "actions"
  /\ scriptAction = <<>>
  /\ itr' = FirstOf(threadActive, NoThread)
  /\ pc' = "loop"
  /\ UNCHANGED <<pool, scriptThread, scriptAction, object, execStk, served>>

\* Mutant: the delay is decremented without the test for 0.
ExecThreadWraps ==
  /\ pc = "loop"
  /\ itr # NoThread
  /\ execStk' = <<itr>>
  /\ served' = served \cup {itr}
  /\ delay' = [delay EXCEPT ![itr] = @ - 1]
  /\ pc' = IF delay[itr] > 1 THEN "ret" ELSE "intr"
  /\ UNCHANGED <<pool, scriptThread, scriptAction, script, state, data, info, itr>>

\* Mutant: the delay of a paused thread stands still.
ExecThreadPausedDelay ==
  /\ pc = "loop"
  /\ itr # NoThread
  /\ execStk' = <<itr>>
  /\ served' = served \cup {itr}
  /\ delay' = [delay EXCEPT ![itr] =
                 IF @ = 0 \/ state[itr] = "Paused" THEN @ ELSE @ - 1]
  /\ pc' = IF delay[itr] > 1 THEN "ret" ELSE "intr"
  /\ UNCHANGED <<pool, scriptThread, scriptAction, script, state, data, info, itr>>

\* itr->exec(), up to the delay check that opens Thread::exec.
ExecThread ==
  /\ pc = "loop"
  /\ itr # NoThread
  /\ execStk' = <<itr>>
  /\ served' = served \cup {itr}
  /\ delay' = [delay EXCEPT ![itr] = IF @ = 0 THEN 0 ELSE @ - 1]
  /\ pc' = IF delay[itr] > 1 THEN "ret" ELSE "intr"
  /\ UNCHANGED <<pool, scriptThread, scriptAction, script, state, data, info, itr>>

ReturnToLoop ==
  /\ pc = "ret"
  /\ execStk = <<itr>>
  /\ execStk' = <<>>
  /\ itr' = NextOf(threadActive, itr, NoThread)
  /\ served' = IF state[itr] = "Inactive" THEN served \ {itr} ELSE served
  /\ pc' = "loop"
  /\ Release(itr)
  /\ UNCHANGED <<scriptAction, object>>

EndTic ==
  /\ pc = "loop"
  /\ itr = NoThread
  /\ pc' = "host"
  /\ served' = {}
  /\ UNCHANGED <<pool, scriptThread, scriptAction, object, execStk, itr>>
-----------------------------------------------------------------------------
(* Thread::exec of the top of execStk. *)

IntrStop ==
  /\ pc = "intr"
  /\ state[Top] = "Stopped"
  /\ Stop(Top)
  /\ pc' = "ret"
  /\ UNCHANGED <<pool, scriptThread, scriptAction, script, delay, execStk, itr, served>>

\* Mutant: a thread that waits for a script does not look whether it ended.
IntrReturnWaits ==
  /\ pc = "intr"
  /\ \/ state[Top] = "Paused"
     \/ state[Top] = "Running" /\ delay[Top] > 0
     \/ state[Top] \in {"WaitScr", "WaitTag"}
  /\ pc' = "ret"
  /\ UNCHANGED <<pool, scriptThread, scriptAction, object, execStk, itr, served>>

\* checkTag is the host's: a tag wait may go on or end at any check.
IntrReturn ==
  /\ pc = "intr"
  /\ \/ state[Top] = "Paused"
     \/ state[Top] = "Running" /\ delay[Top] > 0
     \/ state[Top] = "WaitScr" /\ isScriptActive(data[Top])
     \/ state[Top] = "WaitTag"
  /\ pc' = "ret"
  /\ UNCHANGED <<pool, scriptThread, scriptAction, object, execStk, itr, served>>

\* Mutant: a running thread goes on without the delay check.
IntrRunDelayed ==
  /\ pc = "intr"
  /\ \/ state[Top] = "Running"
     \/ state[Top] = "WaitScr" /\ ~ isScriptActive(data[Top])
     \/ state[Top] = "WaitTag"
  /\ SetState(Top, "Running", NoScript)
  /\ pc' = "run"
  /\ UNCHANGED <<pool, scriptThread, scriptAction, script, delay, info, execStk, itr, served>>

\* The wait cases go on without the delay check of the Running case.
IntrRun ==
  /\ pc = "intr"
  /\ \/ state[Top] = "Running" /\ delay[Top] = 0
     \/ state[Top] = "WaitScr" /\ ~ isScriptActive(data[Top])
     \/ state[Top] = "WaitTag"
  /\ SetState(Top, "Running", NoScript)
  /\ pc' = "run"
  /\ UNCHANGED <<pool, scriptThread, scriptAction, script, delay, info, execStk, itr, served>>

\* A delay of 0 is also what a CallFunc does that only asks for a recheck.
ScrDelay ==
  /\ pc = "run"
  /\ \E n \in 0 .. MaxDelay : delay' = [delay EXCEPT ![Top] = n]
  /\ pc' = "intr"
  /\ UNCHANGED <<pool, scriptThread, scriptAction, script, state, data, info,
                 execStk, itr, served>>

ScrHalt ==
  /\ pc = "run"
  /\ SetState(Top, "Paused", NoScript)
  /\ pc' = "intr"
  /\ UNCHANGED <<pool, scriptThread, scriptAction, script, delay, info, execStk, itr, served>>

ScrWait ==
  /\ pc = "run"
  /\ \E s \in Script \cup {NoScript} : SetState(Top, "WaitScr", s)
  /\ pc' = "intr"
  /\ UNCHANGED <<pool, scriptThread, scriptAction, script, delay, info, execStk, itr, served>>

\* A CallFunc of the host that calls MakeThreadTagWait and asks for a recheck.
TagWait ==
  /\ pc = "run"
  /\ SetState(Top, "WaitTag", NoScript)
  /\ pc' = "intr"
  /\ UNCHANGED <<pool, scriptThread, scriptAction, script, delay, info, execStk, itr, served>>

\* CallFunc_Func_Kill.
Kill ==
  /\ pc = "run"
  /\ SetState(Top, "Stopped", NoScript)
  /\ pc' = "intr"
  /\ UNCHANGED <<pool, scriptThread, scriptAction, script, delay, info, execStk, itr, served>>

\* ScrTerm, Retn with no call frame, Code::Kill, the branch limit.
Terminate ==
  /\ pc = "run"
  /\ Stop(Top)
  /\ pc' = "ret"
  /\ UNCHANGED <<pool, scriptThread, scriptAction, script, delay, execStk, itr, served>>

\* Stack::drop throws: every activation is unwound and the rest of the tic is
\* skipped.  Executor::Exec catches it; a call between tics (itr null) has no
\* handler, and there is no step after it.
Underflow ==
  /\ pc = "run"
  /\ itr # NoThread
  /\ script[Top] \in Underflowing
  /\ execStk' = <<>>
  /\ itr' = NoThread
  /\ served' = {}
  /\ pc' = "host"
  /\ UNCHANGED <<pool, scriptThread, scriptAction, object>>

\* Mutant: the thread is not freed when it has ended inside the call.
ReturnToCallerNoFree ==
  /\ pc = "ret"
  /\ execStk # <<itr>>
  /\ execStk' = Front(execStk)
  /\ pc' = IF Len(execStk) = 1 THEN "host" ELSE "run"
  /\ UNCHANGED <<pool, scriptThread, scriptAction, object, itr, served>>

\* scriptStartResult goes on when Thread::exec of the new thread has returned.
ReturnToCaller ==
  /\ pc = "ret"
  /\ execStk # <<itr>>
  /\ execStk' = Front(execStk)
  /\ pc' = IF Len(execStk) = 1 THEN "host" ELSE "run"
  /\ Release(Top)
  /\ UNCHANGED <<scriptAction, object, itr, served>>
-----------------------------------------------------------------------------
Calls == \/ CallStart \/ CallResume \/ CallStartForced
         \/ CallStop \/ CallPause \/ CallStartResult

MapExec == BeginThreads \/ RunAction \/ ExecThread \/ ReturnToLoop \/ EndTic

Interrupt == IntrStop \/ IntrReturn \/ IntrRun

\* Instructions after which Thread::exec may return.
Yield == ScrDelay \/ ScrHalt \/ ScrWait \/ TagWait \/ Kill \/ Terminate

Next == \/ Calls \/ ResetMap \/ BeginTic \/ MapExec
        \/ Interrupt \/ Yield \/ Underflow \/ ReturnToCaller

Spec == Init /\ [][Next]_vars
-----------------------------------------------------------------------------
\* Type invariant.
TypeOK ==
  /\ threadActive \in Seq(Thread)
  /\ threadFree \in Seq(Thread)
  /\ scriptThread \in [Script -> Thread \cup {NoThread}]
  /\ scriptAction \in Seq(Action)
  /\ script \in [Thread -> Script \cup {NoScript}]
  /\ state \in [Thread -> State]
  /\ data \in [Thread -> Script \cup {NoScript}]
  /\ delay \in [Thread -> Nat]
  /\ info \in [Thread -> Activator \cup {NoInfo}]
  /\ execStk \in Seq(Thread)
  /\ itr \in Thread \cup {NoThread}
  /\ pc \in Place
  /\ served \subseteq Thread

(***************************************************************************)
(* The pool: the active and the free list are duplicate free and share no  *)
(* thread (a ListLink is in one list only), a registered thread is active  *)
(* and runs the script it is registered for, and the C++ activations and   *)
(* the iterator of MapScope::exec only refer to active threads, each       *)
(* activation to a thread of its own: no thread is recycled under an       *)
(* activation, and none is entered again while it executes.                *)
(***************************************************************************)
PoolInv ==
  /\ IsInjective(threadActive)
  /\ IsInjective(threadFree)
  /\ ToSet(threadActive) \cap ToSet(threadFree) = {}
  /\ \A s \in Script : scriptThread[s] # NoThread =>
       /\ scriptThread[s] \in ToSet(threadActive)
       /\ script[scriptThread[s]] = s
  /\ IsInjective(execStk)
  /\ ToSet(execStk) \subseteq ToSet(threadActive)
  /\ itr # NoThread => itr \in ToSet(threadActive)
  /\ itr # NoThread /\ execStk # <<>> => execStk[1] = itr

(***************************************************************************)
(* A registration is never stale: the registered thread is neither         *)
(* inactive nor stopped, but for the executing thread, between the Kill    *)
(* that stops it and exec_intr, and between its stop() and its release.    *)
(* Otherwise isScriptActive, scriptStart and scriptStop would answer for a *)
(* thread that is gone, and the script could never be started again.       *)
(***************************************************************************)
NoStaleRegistration ==
  \A s \in Script :
    /\ Instance(s) = "Stopped"  => pc = "intr" /\ scriptThread[s] = Top
    /\ Instance(s) = "Inactive" => pc = "ret"  /\ scriptThread[s] = Top

(***************************************************************************)
(* A thread outside the active list is inactive, and an inactive thread    *)
(* holds no activator of its last run: start() relies on stop() for it, it *)
(* does not clear what it is not given.                                    *)
(***************************************************************************)
PoolClean ==
  \A t \in Thread :
    /\ t \notin ToSet(threadActive) => state[t] = "Inactive"
    /\ state[t] = "Inactive" => info[t] = NoInfo

(***************************************************************************)
(* An active thread is inactive only between its stop() and its release by *)
(* the caller of Thread::exec.  So between tics every thread of the list   *)
(* has work left, and countActiveThread (the length of the list) counts    *)
(* what hasActiveThread looks for, also after a stack underflow.           *)
(***************************************************************************)
ActiveIsLive ==
  \A t \in ToSet(threadActive) :
    state[t] = "Inactive" => pc = "ret" /\ t = Top

(***************************************************************************)
(* Instructions execute only with no delay left, in every activation, and  *)
(* a waiting thread has none: the wait cases of Thread::exec, which do not *)
(* look at the delay, never cut one short.                                 *)
(***************************************************************************)
NoDelayedRun ==
  /\ \A t \in ToSet(threadActive) : state[t] \in {"WaitScr", "WaitTag"} => delay[t] = 0
  /\ \A i \in DOMAIN execStk :
       i < Len(execStk) \/ pc = "run" =>
         /\ delay[execStk[i]] = 0
         /\ state[execStk[i]] \in {"Running", "Paused", "Stopped"}

(***************************************************************************)
(* The thread loop serves every thread once: at its head, the threads      *)
(* before the iterator are those it has executed in this tic and kept, the *)
(* threads from the iterator on it has not; threads are freed under it,    *)
(* appended behind it, and recycled within the same tic.                   *)
(***************************************************************************)
ServedOnce ==
  pc = "loop" =>
    served = {threadActive[i] : i \in
                {j \in DOMAIN threadActive :
                   itr = NoThread \/ j < Index(threadActive, itr)}}

\* What ServedOnce needs: while a thread of the loop executes, it is served, too,
\* and what executes inside of it was appended behind it in this tic.
LoopInv ==
  /\ itr = NoThread => served = IF pc = "loop" THEN ToSet(threadActive) ELSE {}
  /\ itr # NoThread =>
       LET here == Index(threadActive, itr)
       IN served = {threadActive[i] : i \in 1 .. IF pc = "loop" THEN here - 1 ELSE here}
  /\ \A i \in 2 .. Len(execStk) : execStk[i] \notin served

(***************************************************************************)
(* What the rest of the invariant needs to be inductive: where control is  *)
(* goes with the activations and the iterator.                             *)
(***************************************************************************)
ControlInv ==
  /\ pc \in {"intr", "run", "ret"} <=> execStk # <<>>
  /\ pc \in {"host", "actions"} => itr = NoThread
  /\ pc = "intr" => state[Top] # "Inactive"

IInv == /\ TypeOK /\ PoolInv /\ NoStaleRegistration /\ PoolClean
        /\ ActiveIsLive /\ NoDelayedRun /\ ControlInv

(***************************************************************************)
(* A stop is final for a thread that is not executing: it is out of the    *)
(* registry, so no start, pause or later stop of its script reaches it,    *)
(* and all it can still do is end.                                         *)
(***************************************************************************)
StopIsFinal ==
  [][\A t \in Thread : state[t] = "Stopped" /\ t \notin ToSet(execStk)
       => state'[t] \in {"Stopped", "Inactive"}]_vars

(***************************************************************************)
(* Two instances of a script are never both registered, one after the      *)
(* other without a gap: a registration ends before the next one begins.    *)
(***************************************************************************)
RegistrationEndsFirst ==
  [][\A s \in Script : scriptThread[s] # NoThread
       => scriptThread'[s] \in {scriptThread[s], NoThread}]_vars
-----------------------------------------------------------------------------
(* Refinement of ScriptInstances: an instance is a thread of the active    *)
(* list.  It executes while it is in the instructions, or below another    *)
(* activation; waiting and delayed threads are ready.                      *)

instMode ==
  [t \in Thread |->
    IF t \notin ToSet(threadActive) THEN "free"
    ELSE IF state[t] \in {"Stopped", "Inactive"} THEN "stopped"
    ELSE IF state[t] = "Paused" THEN "paused"
    ELSE "ready"]

instRuns ==
  [t \in Thread |-> IF t \in ToSet(threadActive) THEN script[t] ELSE NoScript]

instExecuting ==
  {execStk[i] : i \in {j \in DOMAIN execStk : j < Len(execStk) \/ pc = "run"}}

Instances == INSTANCE ScriptInstances WITH
  Id <- Thread, NoId <- NoThread,
  mode <- instMode, runs <- instRuns,
  current <- scriptThread, executing <- instExecuting

(***************************************************************************)
(* The scheduler, with its lists, iterator, nested activations, deferred   *)
(* actions and unwinding, implements the promise of ScriptInstances.       *)
(***************************************************************************)
ImplementsInstances == Instances!Spec
-----------------------------------------------------------------------------
(* Thread.hpp says of ThreadState::Stopped "Will go inactive on next exec".*)

(***************************************************************************)
(* A stopped thread only goes inactive.  The code breaks it: a script that *)
(* stops itself goes on to its next instruction, and halt or a wait then   *)
(* overwrites the state.  The thread is out of the registry by then, so it *)
(* stays in the active list, paused, and nothing can resume or stop it.    *)
(***************************************************************************)
StoppedGoesInactive ==
  [][\A t \in Thread : state[t] = "Stopped"
       => state'[t] \in {"Stopped", "Inactive"}]_vars
=============================================================================
