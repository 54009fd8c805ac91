--------------------------- MODULE MCVideoSource ---------------------------
(***************************************************************************)
(* A small instance of VideoSource for TLC.                                 *)
(***************************************************************************)
EXTENDS VideoSource, TLC

CONSTANTS s1, s2, p1, p2, p3, m1, m2

\* Sources, PipeWire's buffers and the system's mappings are interchangeable.
Symmetry == Permutations(Sources) \cup Permutations(Buffers) \cup Permutations(Maps)

=============================================================================
