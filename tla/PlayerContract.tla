--------------------------- MODULE PlayerContract ---------------------------
(***************************************************************************)
(* What a player promises to the owner of its OnStateChange callback,      *)
(* whatever threads call it and whatever fails underneath: the state moves *)
(* only along isValidTransition, and the callback is told of every move    *)
(* once, one at a time and in order.  Nothing of the threads, locks and    *)
(* native objects of the implementation shows here.                        *)
(***************************************************************************)
EXTENDS PlayerStates, Sequences

VARIABLES
    state,      \* what State() returns
    pending,    \* moves made and not yet told to the callback
    seen        \* the last state the callback was told

vars == <<state, pending, seen>>

Init ==
    /\ state = "Idle"
    /\ pending = <<>>
    /\ seen = "Idle"

Move ==
    \E next \in PlayerState :
        /\ isValidTransition(state, next)
        /\ state' = next
        /\ pending' = Append(pending, next)
        /\ UNCHANGED seen

Tell ==
    /\ pending # <<>>
    /\ seen' = Head(pending)
    /\ pending' = Tail(pending)
    /\ UNCHANGED state

Next == Move \/ Tell

Spec == Init /\ [][Next]_vars

=============================================================================
