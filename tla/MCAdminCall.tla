---------------------------- MODULE MCAdminCall ----------------------------
(* Up to three addresses, batches of up to three items with a maximum  *)
(* of two, and a configured retry count above the cap.                     *)
EXTENDS AdminCall

MCBatches == UNION {[1..n -> Items] : n \in 0..3}

=============================================================================
