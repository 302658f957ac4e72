------------------------- MODULE MCAttemptLifecycle -------------------------
(* Instances of AttemptLifecycle for TLC.                                  *)
EXTENDS AttemptLifecycle, TLC

\* Attempts and deployments are interchangeable: no property names one.
Symmetry == Permutations(Att) \cup Permutations(Dep)
=============================================================================
