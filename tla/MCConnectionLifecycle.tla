------------------------- MODULE MCConnectionLifecycle -------------------------
(* Two handlers complete one challenge and a third one another, each of     *)
(* whatever connection type the user chose.                                 *)
EXTENDS ConnectionLifecycle, TLC

CONSTANTS a, b, d, h1, h2, u1, u2

Shared == [c \in {a, b} |-> h1]
SharedAndOwn == [c \in {a, b, d} |-> IF c = d THEN h2 ELSE h1]
Symmetric == Permutations({a, b}) \cup Permutations({u1, u2})
=============================================================================
