---------------------------- MODULE MCProtocol ----------------------------
(* A request to an application while callbacks are registered and seeded.  *)
EXTENDS Protocol, TLC

CONSTANT h

MCNames   == {h}
MCBatches == {{h}, {"kill"}}

Symmetry == Permutations(Calls)

=============================================================================
