------------------------------ MODULE MCPlayer ------------------------------
(***************************************************************************)
(* Small instances of Player for TLC.                                      *)
(***************************************************************************)
EXTENDS Player

CONSTANTS c1, c2, d1, d2, l1, l2

\* Two applications race on every method; the callbacks are passive.
LifecycleCalls == [t \in Threads |-> IF t \in Clients THEN Methods ELSE {}]
LifecycleBudget == [t \in Threads |-> IF t = c1 THEN 3 ELSE IF t = c2 THEN 2 ELSE 0]

\* One application starts the player, another controls or closes it, and the
\* callbacks call back into it.
ReentrantCalls ==
    [t \in Threads |->
        CASE t = c1 -> {"Start"}
          [] t = c2 -> {"Close", "Control"}
          [] t \in Dispatchers -> {"Close"}
          [] t \in Loops -> {"Control", "Stop"}]
ReentrantBudget == [t \in Threads |-> 1]
=============================================================================
