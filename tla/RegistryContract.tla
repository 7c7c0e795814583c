-------------------------- MODULE RegistryContract --------------------------
(***************************************************************************)
(* What the registry lifecycle promises to those outside of it: to the     *)
(* Admin server, which sees calls, and to the application, which starts    *)
(* and stops lifecycles.  Threads, critical sections, windows and pending  *)
(* removals are not seen here.                                             *)
(*                                                                         *)
(* Each lifecycle goes through "starting", in which it may have to wait    *)
(* for an older cleanup, to "renewing".  A cleanup is made for the newest  *)
(* lifecycle, once it is over, by one Admin call; its success may be put   *)
(* on record, and while it is there no other cleanup is made for that      *)
(* lifecycle.  Calls that the application makes itself come at any time.   *)
(***************************************************************************)
EXTENDS Integers

VARIABLES
  generation,   \* the lifecycles started so far
  phase,        \* the newest one is "starting", "renewing" or "off"
  cleanup,      \* the lifecycle that is being cleaned up, and the answer
  removed,      \* the lifecycle whose cleanup is on record, or -1
  call,         \* the Admin call that is under way, or "none"
  listed,       \* the Admin server lists this executor
  closed        \* the log handlers were closed

vars == <<generation, phase, cleanup, removed, call, listed, closed>>

NoCleanup == [gen |-> -1, answer |-> "none"]

Init ==
  /\ generation = 0 /\ phase = "off"
  /\ cleanup = NoCleanup /\ removed = -1
  /\ call = "none" /\ listed = FALSE /\ closed = FALSE

-----------------------------------------------------------------------------
(* Lifecycles.                                                             *)

Start ==
  /\ phase = "off"
  /\ generation' = generation + 1 /\ phase' = "starting"
  /\ UNCHANGED <<cleanup, removed, call, listed, closed>>

\* The first renewal comes after the cleanup of every older lifecycle.
Open ==
  /\ phase = "starting" /\ cleanup = NoCleanup
  /\ phase' = "renewing"
  /\ UNCHANGED <<generation, cleanup, removed, call, listed, closed>>

Stop ==
  /\ phase # "off" /\ phase' = "off"
  /\ UNCHANGED <<generation, cleanup, removed, call, listed, closed>>

-----------------------------------------------------------------------------
(* Admin calls.                                                            *)

MayBegin(kind) ==
  \/ kind \in {"register", "remove"}
  \/ kind = "renewal" /\ phase = "renewing"
  \/ kind = "cleanup" /\ cleanup # NoCleanup /\ cleanup.answer = "none"

Begin(kind) ==
  /\ call = "none" /\ MayBegin(kind)
  /\ call' = kind
  /\ UNCHANGED <<generation, phase, cleanup, removed, listed, closed>>

\* A success tells the truth, a failure tells nothing about the effect.
End(ok, effect) ==
  /\ call # "none" /\ (ok => effect)
  /\ call' = "none"
  /\ listed' = IF effect THEN call \in {"register", "renewal"} ELSE listed
  /\ cleanup' = IF call = "cleanup"
                THEN [cleanup EXCEPT !.answer = IF ok THEN "ok" ELSE "fail"]
                ELSE cleanup
  /\ UNCHANGED <<generation, phase, removed, closed>>

-----------------------------------------------------------------------------
(* Cleanups.                                                               *)

Claim ==
  /\ phase = "off" /\ cleanup = NoCleanup /\ removed # generation
  /\ cleanup' = [gen |-> generation, answer |-> "none"]
  /\ UNCHANGED <<generation, phase, removed, call, listed, closed>>

\* A success is put on record unless another lifecycle was started, or
\* something newer has made it worthless.
Complete ==
  /\ cleanup.answer # "none"
  /\ cleanup' = NoCleanup
  /\ \/ removed' = removed
     \/ /\ cleanup.answer = "ok" /\ phase = "off" /\ cleanup.gen = generation
        /\ removed' = generation
  /\ UNCHANGED <<generation, phase, call, listed, closed>>

\* The executor was registered again.
Forget ==
  /\ removed' = -1
  /\ UNCHANGED <<generation, phase, cleanup, call, listed, closed>>

\* Nothing that the registry does by itself comes after its last log line.
CloseLogs ==
  /\ phase = "off" /\ cleanup = NoCleanup /\ call \notin {"renewal", "cleanup"}
  /\ closed' = TRUE
  /\ UNCHANGED <<generation, phase, cleanup, removed, call, listed>>

-----------------------------------------------------------------------------
Next ==
  \/ Start \/ Open \/ Stop
  \/ \E kind \in {"register", "remove", "renewal", "cleanup"} : Begin(kind)
  \/ \E ok, effect \in BOOLEAN : End(ok, effect)
  \/ Claim \/ Complete \/ Forget \/ CloseLogs

Spec == Init /\ [][Next]_vars

-----------------------------------------------------------------------------
(* What follows from it.                                                   *)

\* A cleanup is over before the next lifecycle renews, and a cleanup that is
\* on record stands for no lifecycle that lives.
CleanupsInOrder ==
  /\ phase = "renewing" => cleanup = NoCleanup
  /\ phase # "off" => cleanup.gen < generation /\ removed # generation

\* While a lifecycle renews, the executor is taken from the Admin server's
\* list only by a removal that the application has called for itself.
WithdrawnOnRequest ==
  [][phase = "renewing" /\ listed /\ ~listed' => call = "remove"]_vars

=============================================================================
