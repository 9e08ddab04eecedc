------------------------- MODULE MCRecoveryExecution -------------------------
(***************************************************************************)
(* Finite instances of RecoveryExecution: one proposal, and executors that *)
(* are alike unless they run drills.                                       *)
(***************************************************************************)
EXTENDS RecoveryExecution, TLC

Symmetry ==
    Permutations(Events) \cup Permutations(Executors \ Drills) \cup Permutations(Drills)
=============================================================================
