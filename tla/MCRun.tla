------------------------------- MODULE MCRun -------------------------------
(* Instances of RunLifecycle for TLC. Entries, sweepers and requests are    *)
(* only compared for equality, so each set is symmetric in the runs that    *)
(* check no liveness.                                                       *)
EXTENDS RunLifecycle, TLC

Symmetry == Permutations(Entries) \union Permutations(Sweepers) \union Permutations(Requests)
=============================================================================
