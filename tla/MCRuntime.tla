----------------------------- MODULE MCRuntime -----------------------------
(***************************************************************************)
(* A small instance of Runtime for TLC.                                    *)
(***************************************************************************)
EXTENDS Runtime, TLC

CONSTANTS t1, t2, r1, r2, r3, p1, other, h1, h2, h3, a1, a2, a3

\* Two Runtimes of the public package and one with another CAPI.
SmallApiOf == (r1 :> default) @@ (r2 :> default) @@ (r3 :> other)

Symmetry == Permutations(Threads) \cup Permutations({r1, r2}) \cup Permutations(Handles)
            \cup Permutations(Addrs)

=============================================================================
