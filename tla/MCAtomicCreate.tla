---------------------------- MODULE MCAtomicCreate ----------------------------
(* Constants of AtomicCreate for TLC.                                      *)
EXTENDS AtomicCreate, TLC

CONSTANTS p1, p2, p3, w1, w2, w3

TwoProcs   == [w \in Writers |-> IF w = w2 THEN p2 ELSE p1]

\* Writers of the same process are interchangeable.
Interchangeable == Permutations({w1, w3})

ThreeProcs == [w \in Writers |-> CASE w = w1 -> p1 [] w = w2 -> p2 [] OTHER -> p3]
=============================================================================
