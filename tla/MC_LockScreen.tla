-------------------------- MODULE MC_LockScreen --------------------------
(* Bounded instances of LockScreen. *)
EXTENDS LockScreen, TLC

\* Outputs are interchangeable in the runs without fairness.
Symmetry == Permutations(Outputs)

=============================================================================
