-------------------------- MODULE ScriptInstances --------------------------
(***************************************************************************)
(* What a map promises about its scripts, whatever the scheduling.  Every  *)
(* start makes an instance, which runs one script until it has ended.  A   *)
(* script has at most one current instance: start, pause and stop act on   *)
(* it and on nothing else, so an instance that is not current (started     *)
(* forced or for a result, or stopped) is out of everybody's reach.  A     *)
(* paused or stopped instance executes nothing, unless it is in the middle *)
(* of an execution: then its own next instructions decide.                 *)
(***************************************************************************)
CONSTANTS Id, Script, NoId, NoScript

VARIABLES
  mode,      \* free, ready (to execute), paused or stopped
  runs,      \* the script of an instance, NoScript if it is free
  current,   \* the current instance of a script, or NoId
  executing  \* instances in the middle of an execution

avars == <<mode, runs, current, executing>>

Init ==
  /\ mode = [i \in Id |-> "free"]
  /\ runs = [i \in Id |-> NoScript]
  /\ current = [s \in Script |-> NoId]
  /\ executing = {}

Make(s, i) ==
  /\ mode[i] = "free"
  /\ mode' = [mode EXCEPT ![i] = "ready"]
  /\ runs' = [runs EXCEPT ![i] = s]
  /\ UNCHANGED executing

\* A start of a script that has no current instance.
Start(s, i) ==
  /\ current[s] = NoId
  /\ Make(s, i)
  /\ current' = [current EXCEPT ![s] = i]

\* A forced start, or a start for a result.
StartForced(s, i) == Make(s, i) /\ UNCHANGED current

\* A start of a script whose current instance is paused.
Resume(s) ==
  /\ current[s] # NoId
  /\ mode[current[s]] = "paused"
  /\ mode' = [mode EXCEPT ![current[s]] = "ready"]
  /\ UNCHANGED <<runs, current, executing>>

Pause(s) ==
  /\ current[s] # NoId
  /\ mode[current[s]] = "ready"
  /\ mode' = [mode EXCEPT ![current[s]] = "paused"]
  /\ UNCHANGED <<runs, current, executing>>

Stop(s) ==
  /\ current[s] # NoId
  /\ mode[current[s]] \in {"ready", "paused"}
  /\ mode' = [mode EXCEPT ![current[s]] = "stopped"]
  /\ current' = [current EXCEPT ![s] = NoId]
  /\ UNCHANGED <<runs, executing>>

\* The instance begins to execute.
Enter(i) ==
  /\ mode[i] = "ready"
  /\ executing' = executing \cup {i}
  /\ UNCHANGED <<mode, runs, current>>

\* The instance no longer executes, and has decided how it goes on.
Leave(i) ==
  /\ i \in executing
  /\ executing' = executing \ {i}
  /\ \E m \in {"ready", "paused", "stopped"} : mode' = [mode EXCEPT ![i] = m]
  /\ UNCHANGED <<runs, current>>

\* A failure cuts every execution short; the instances stay as they are.
Fail ==
  /\ executing' = {}
  /\ UNCHANGED <<mode, runs, current>>

\* The end of a stopped instance, which is current no longer.
End(i) ==
  /\ mode[i] = "stopped"
  /\ i \notin executing
  /\ mode' = [mode EXCEPT ![i] = "free"]
  /\ runs' = [runs EXCEPT ![i] = NoScript]
  /\ current' = [s \in Script |-> IF current[s] = i THEN NoId ELSE current[s]]
  /\ UNCHANGED executing

\* Every instance is gone.
Reset ==
  /\ executing = {}
  /\ mode' = [i \in Id |-> "free"]
  /\ runs' = [i \in Id |-> NoScript]
  /\ current' = [s \in Script |-> NoId]
  /\ UNCHANGED executing

Next ==
  \/ \E s \in Script, i \in Id : Start(s, i) \/ StartForced(s, i)
  \/ \E s \in Script : Resume(s) \/ Pause(s) \/ Stop(s)
  \/ \E i \in Id : Enter(i) \/ Leave(i) \/ End(i)
  \/ Fail
  \/ Reset

Spec == Init /\ [][Next]_avars
=============================================================================
