----------------------------- MODULE MCInitApp -----------------------------
(* Three calls of init_app on one application, each with any configuration. *)
(* They are interchangeable.                                                *)
EXTENDS InitApp, TLC

Symmetry == Permutations(Inits)

=============================================================================
