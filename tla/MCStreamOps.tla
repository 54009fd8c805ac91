---------------------------- MODULE MCStreamOps ----------------------------
(***************************************************************************)
(* Small instances of StreamOps for TLC.                                   *)
(***************************************************************************)
EXTENDS StreamOps, TLC

CONSTANTS o1, o2, c1, a1, a2, l1, l2

\* Owners and addresses are interchangeable.
Symmetry == Permutations(Owners) \cup Permutations(Streams) \cup Permutations(Loops)

=============================================================================
