---------------------------- MODULE PlayerStates ----------------------------
(***************************************************************************)
(* The states of a player (internal/core/player_state.go) and the          *)
(* transition relation every announced change of state has to respect      *)
(* (isValidTransition in internal/core/player.go).                         *)
(***************************************************************************)

PlayerState ==
    {"Idle", "Starting", "Playing", "Paused", "Stopped", "Closing", "Closed", "Error"}

\* The switch of isValidTransition as a relation.
ValidTransitions ==
    ({"Idle"}    \X {"Starting", "Closing"}) \cup
    ({"Starting"} \X {"Playing", "Error"}) \cup
    ({"Playing"} \X {"Paused", "Stopped", "Closing", "Error"}) \cup
    ({"Paused"}  \X {"Playing", "Stopped", "Closing", "Error"}) \cup
    ({"Stopped"} \X {"Starting", "Closing"}) \cup
    ({"Closing"} \X {"Closed"}) \cup
    ({"Error"}   \X {"Closing"})

isValidTransition(current, next) == <<current, next>> \in ValidTransitions

=============================================================================
