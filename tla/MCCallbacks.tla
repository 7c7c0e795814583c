---------------------------- MODULE MCCallbacks ----------------------------
(* One name; batches that are the same or do not meet, one of them over    *)
(* the named and the unnamed callbacks.                                    *)
EXTENDS Callbacks, TLC

CONSTANTS h, third

MCNames   == {h}
MCBatches == {{h, "kill"}, {"log"}}

\* The third call comes last, after two calls that name no application, and with
\* it no initialization begins: then two calls can overlap after one that ran alone.
LastCall(c) ==
  c = third => /\ \A a \in Apps : pc[a] = "idle"
               /\ \A d \in Calls \ {c} : pc[d] # "idle" /\ req[d].app = Nothing

MCNext ==
  \/ \E c \in Calls : \/ LastCall(c) /\ Invoke(c)
                      \/ Target(c) \/ Resolve(c)
                      \/ Read(c) \/ Validate(c) \/ Commit(c)
  \/ \E a \in Apps : \/ pc[third] = "idle" /\ BeginInit(a)
                     \/ SeedFrom(a) \/ Publish(a) \/ Track(a)
                     \/ Rollback(a) \/ Discard(a)
  \/ Ended

MCSpec == Init /\ [][MCNext]_vars

Symmetry == Permutations(Calls \ {third}) \cup Permutations(Apps)

=============================================================================
