---------------------------- MODULE MCRunMonitor ----------------------------
(***************************************************************************)
(* Instances of RunMonitor: two machines and two requests, enough for a    *)
(* dead run behind a live one and for two finalizers at one row.           *)
(***************************************************************************)
EXTENDS RunMonitor, TLC

CONSTANTS w1, w2, h1, h2

TwoWorkers == {w1, w2}
TwoHandlers == {h1, h2}
OneWorker == {w1}
OneHandler == {h1}

Symmetry == Permutations(TwoWorkers) \cup Permutations(TwoHandlers)

=============================================================================
