------------------------------ MODULE AdminRpc ------------------------------
(***************************************************************************)
(* What one call of an Admin API promises to its caller, who sees neither  *)
(* addresses nor attempts: it returns, a success tells the truth, and a    *)
(* failure tells nothing about the effect.  These are the Outcomes that    *)
(* module Registry gives to an Admin call.                                 *)
(***************************************************************************)

VARIABLES
  answer,   \* "none" until the call returns, then "ok" or "fail"
  effect    \* the Admin has performed the request

vars == <<answer, effect>>

Init == answer = "none" /\ effect = FALSE

\* A request takes effect, whatever is known of it here.
Perform == /\ answer = "none"
           /\ effect' = TRUE /\ UNCHANGED answer

Return == /\ answer = "none"
          /\ answer' \in {"ok", "fail"}
          /\ effect' \in {effect, TRUE}
          /\ answer' = "ok" => effect'

Next == Perform \/ Return

\* The safety part and the promise to return.
Safety == Init /\ [][Next]_vars
Spec   == Safety /\ <>(answer # "none")

=============================================================================
