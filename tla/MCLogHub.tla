------------------------------ MODULE MCLogHub ------------------------------
(***************************************************************************)
(* Instances of LogHub: two writers for commits out of order, two browsers *)
(* that join and leave in the middle of a page.                            *)
(***************************************************************************)
EXTENDS LogHub, TLC

CONSTANTS w1, w2, c1, c2

TwoWriters == {w1, w2}
OneWriter == {w1}
TwoClients == {c1, c2}
OneClient == {c1}

Symmetry == Permutations(TwoWriters) \cup Permutations(TwoClients)

=============================================================================
