------------------------- MODULE ScriptThreadsLive -------------------------
(***************************************************************************)
(* Progress of the threads of a map, under what the code needs from its    *)
(* environment: the host keeps calling Exec, no data stack underflows      *)
(* (Underflowing is empty in the runs), a script does not execute forever  *)
(* without leaving Thread::exec, and the calls and scripts start a bounded *)
(* number of threads per tic.  Nothing in the code enforces the last; the  *)
(* branch limit that could enforce the one before is off in HelionACS.     *)
(***************************************************************************)
EXTENDS ScriptThreads

CONSTANT MaxStarts  \* threads started from the end of a tic to the next (bound)

ASSUME MaxStartsAssumption == MaxStarts \in Nat

VARIABLE starts     \* threads started since the last tic ended

lvars == <<vars, starts>>

CountStarts ==
  /\ starts' = IF pc = "loop" /\ pc' = "host" THEN 0
               ELSE IF Len(threadActive') > Len(threadActive) THEN starts + 1
               ELSE starts
  /\ starts' + Len(scriptAction') <= MaxStarts

\* The step takes the executing thread out of Thread::exec.
Leave ==
  /\ Yield
  /\ pc' = "ret" \/ state'[Top] \in {"Paused", "Stopped"} \/ delay'[Top] > 0

LiveInit == Init /\ starts = 0
LiveNext == Next /\ CountStarts

\* The machine itself always takes its next step.
Machine == MapExec \/ Interrupt \/ ReturnToCaller

Fairness ==
  /\ WF_lvars(BeginTic /\ CountStarts)
  /\ WF_lvars(Machine /\ CountStarts)
  /\ SF_lvars(Leave /\ CountStarts)

LiveSpec == LiveInit /\ [][LiveNext]_lvars /\ Fairness
-----------------------------------------------------------------------------
(***************************************************************************)
(* Every active thread is executed by a coming tic, unless it goes before: *)
(* no start, stop or release of another thread makes the loop miss it.     *)
(***************************************************************************)
NobodyStarves ==
  \A t \in Thread : t \in ToSet(threadActive) ~> t \in served \/ t \notin ToSet(threadActive)

\* A tic ends, with all the deferred actions it was given applied.
TicEnds == pc = "actions" ~> pc = "host" /\ scriptAction = <<>>

\* A delay runs out, also while the thread is paused, stopped or resumed.
DelayEnds ==
  \A t \in Thread : t \in ToSet(threadActive) /\ delay[t] > 0
                      ~> delay[t] = 0 \/ t \notin ToSet(threadActive)

(***************************************************************************)
(* A thread does not wait forever for a script that is not active any      *)
(* more: stopped, ended, or never known to the map.                        *)
(***************************************************************************)
WaitEnds ==
  \A t \in Thread : []<> ~ (state[t] = "WaitScr" /\ ~ isScriptActive(data[t]))
=============================================================================
