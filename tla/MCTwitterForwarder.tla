------------------------ MODULE MCTwitterForwarder ------------------------
(* Small instances of TwitterForwarder for TLC.                            *)
EXTENDS TwitterForwarder, TLC

CONSTANTS h1, h2, r1, r2, worker

Symmetry == Permutations(Restarter)
=============================================================================
