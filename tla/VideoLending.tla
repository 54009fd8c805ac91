---------------------------- MODULE VideoLending ----------------------------
(***************************************************************************)
(* What a video source promises about the memory of its buffers: what was  *)
(* lent is lent once, and stays mapped until the borrower himself gives it *)
(* back, whatever PipeWire, another source or Destroy does meanwhile.      *)
(* Slots, native buffers and formats do not show here.                     *)
(***************************************************************************)
CONSTANT Maps      \* pieces of memory the system can map

VARIABLES
    mapped,     \* the memory in place
    borrowed    \* the memory that applications draw into

vars == <<mapped, borrowed>>

Init == mapped = {} /\ borrowed = {}

Map(m) == m \notin mapped /\ mapped' = mapped \cup {m} /\ UNCHANGED borrowed

Lend(m) == m \in mapped \ borrowed /\ borrowed' = borrowed \cup {m} /\ UNCHANGED mapped

\* Memory of a buffer that is gone goes with its return.
GiveBack(m) ==
    /\ m \in borrowed
    /\ borrowed' = borrowed \ {m}
    /\ mapped' \in {mapped, mapped \ {m}}

\* Buffers go, the borrowed ones excepted.
Unmap(gone) == gone \subseteq mapped \ borrowed /\ mapped' = mapped \ gone /\ UNCHANGED borrowed

Next ==
    \/ \E m \in Maps : Map(m) \/ Lend(m) \/ GiveBack(m)
    \/ \E gone \in SUBSET Maps : Unmap(gone)

Spec == Init /\ [][Next]_vars

=============================================================================
