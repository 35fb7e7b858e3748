--------------------------- MODULE MCNodeLifecycle ---------------------------
(* Instances of NodeLifecycle for the model checker.                        *)
EXTENDS NodeLifecycle, TLC

(* The code treats all processes alike.                                     *)
Symmetry == Permutations(Procs)
=============================================================================
