----------------------------- MODULE HubJourney -----------------------------
(***************************************************************************)
(* What the scopes promise to a game.  The game is in one map.  There is   *)
(* one set of global variables for the whole game, one of hub variables    *)
(* for the hub it is in, and one of map variables for each map it has      *)
(* visited in that hub: they are found again as they were left, until the  *)
(* hub is left.  A map that is not the current one has a mailbox: what is  *)
(* posted there is applied in order, each action once, and only while the  *)
(* game is in that map.  A save restores all of it, also after a restart.  *)
(***************************************************************************)
EXTENDS Naturals, Sequences

CONSTANTS Hub, Map, LoneHub, NoHub, NoMap, Name, MaxVal

VARIABLES
  game,   \* where it is, its variables and the mailboxes of all maps
  saved   \* the last save: copies of game, at most one

MapId == Hub \X Map
Val   == 0 .. MaxVal

NewGame == [where |-> <<NoHub, NoMap>>, globalVar |-> 0, hubVar |-> 0,
            mapVar |-> [m \in {} |-> 0], box |-> [m \in MapId |-> <<>>]]

Init == game = NewGame /\ saved = {}

\* A suffix of a mailbox.  The actions before it had reached the hub.
IsLeftOf(rest, list) ==
  \E k \in 0 .. Len(list) : rest = SubSeq(list, k + 1, Len(list))

\* To another map of the same hub, which is new or as it was left.
Travel(m) ==
  /\ game.where[1] = m[1]
  /\ m[1] # LoneHub
  /\ game' = [game EXCEPT !.where = m,
                !.mapVar = [n \in DOMAIN @ \cup {m} |->
                              IF n \in DOMAIN @ THEN @[n] ELSE 0]]
  /\ UNCHANGED saved

\* To another hub, or to a map of the lone hub: everything there is new.
Enter(m) ==
  /\ game.where[1] # m[1] \/ m[1] = LoneHub
  /\ game' = [game EXCEPT !.where = m, !.hubVar = 0, !.mapVar = [n \in {m} |-> 0],
                !.box = [n \in MapId |-> game'.box[n]]]
  /\ \A n \in MapId :
       IF n[1] = game.where[1] THEN IsLeftOf(game'.box[n], game.box[n])
                               ELSE game'.box[n] = game.box[n]
  /\ UNCHANGED saved

Post(m, n) ==
  /\ m # game.where
  /\ game' = [game EXCEPT !.box[m] = Append(@, [to |-> m, name |-> n])]
  /\ UNCHANGED saved

Apply ==
  /\ game.where \in MapId
  /\ game.box[game.where] # <<>>
  /\ game' = [game EXCEPT !.box[game.where] = Tail(@)]
  /\ UNCHANGED saved

\* A script of the current map assigns a variable.
Assign(v) ==
  /\ game.where \in MapId
  /\ \/ game' = [game EXCEPT !.globalVar = v]
     \/ game' = [game EXCEPT !.hubVar = v]
     \/ game' = [game EXCEPT !.mapVar[game.where] = v]
  /\ UNCHANGED saved

Restart == game' = NewGame /\ UNCHANGED saved

Save == saved' = {game} /\ UNCHANGED game

Load == game' \in saved /\ UNCHANGED saved

Next ==
  \/ \E m \in MapId : Travel(m) \/ Enter(m)
  \/ \E m \in MapId, n \in Name : Post(m, n)
  \/ Apply
  \/ \E v \in Val : Assign(v)
  \/ Restart
  \/ Save
  \/ Load

Spec == Init /\ [][Next]_<<game, saved>>
=============================================================================
