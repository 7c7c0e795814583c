----------------------------- MODULE AdminCall -----------------------------
(***************************************************************************)
(* One call of the Admin HTTP clients: AdminClient.registry and            *)
(* registry_remove, CallbackClient.callback and callback_many, and the     *)
(* loop of post_to_admins (flask_xxljob/client) with its bounded           *)
(* synchronous retry on one address and its failover to the next.          *)
(*                                                                         *)
(* The Admin servers are the environment: a request gets any answer, and a *)
(* request whose answer is not a clear one may or may not have taken       *)
(* effect.  A request that takes effect only after the client has given    *)
(* its answer up is not modelled.                                          *)
(***************************************************************************)
EXTENDS Integers, Sequences

CONSTANTS
  MaxAdmins,      \* bound: the length of admin_addresses
  RetryCounts,    \* the configured values of XXL_JOB_ADMIN_RETRY_COUNT
  RetryCountCap,  \* RETRY_COUNT_CAP, 10 in the code
  MaxBatch,       \* XXL_JOB_CALLBACK_BATCH_MAX_SIZE
  Batches         \* the callback batches, sequences of Items

ASSUME AdminsAssumption == MaxAdmins \in Nat
ASSUME RetryAssumption  == RetryCounts \subseteq Nat /\ RetryCountCap \in Nat
ASSUME BatchAssumption  == MaxBatch \in Nat \ {0}

Items == {"valid", "invalid"}

VARIABLES
  call,       \* the call: kind, enabled, admins, batch and configuration
  policy,     \* the AdminCallPolicy made from the configuration
  pc,
  pos,        \* the current address
  attempt,    \* the retries made at the current address
  attempts,   \* the requests made, as CallResult.attempt_count reports them
  result,     \* the error_type of last_result, "ok" for a success
  asked,      \* history: the requests each address received
  performed   \* history: the requests that took effect

vars == <<call, policy, pc, pos, attempt, attempts, result, asked, performed>>

-----------------------------------------------------------------------------
(* The answers.                                                            *)

Transient == {"network", "timeout", "http"}
Malformed == {"invalid_json", "invalid_response"}
Answers   == Transient \cup Malformed \cup {"business", "ok"}

\* A success was performed, a business error was refused; nothing is known of
\* a request that got another answer.
MayPerform(a) == CASE a = "ok"       -> {TRUE}
                   [] a = "business" -> {FALSE}
                   [] OTHER          -> {TRUE, FALSE}

-----------------------------------------------------------------------------
(* The policy.                                                             *)

Policies == [retry : RetryCounts, http : BOOLEAN, json : BOOLEAN,
             business : BOOLEAN]

Clamp(n) == IF n > RetryCountCap THEN RetryCountCap ELSE n

\* Mutation: the configured retry count is taken as it is.
FromConfigUnclamped(c) == c

FromConfig(c) == [c EXCEPT !.retry = Clamp(@)]

\* Mutation: a timeout ends the call.
ShouldFailoverNotTimeout(e) ==
  \/ e = "network"
  \/ e = "http" /\ policy.http
  \/ e \in Malformed /\ policy.json
  \/ e = "business" /\ policy.business

\* Does the error e of an address lead on to the next address?
ShouldFailover(e) ==
  \/ e \in {"network", "timeout"}
  \/ e = "http" /\ policy.http
  \/ e \in Malformed /\ policy.json
  \/ e = "business" /\ policy.business

-----------------------------------------------------------------------------
Calls == [kind : {"registry", "callback"}, enabled : BOOLEAN,
          admins : 0..MaxAdmins, config : Policies, batch : Batches]

Init ==
  /\ call \in Calls
  /\ policy = FromConfig(call.config)
  /\ pc = "begin"
  /\ pos = 1 /\ attempt = 0 /\ attempts = 0
  /\ result = "config"
  /\ asked = [i \in 1..call.admins |-> 0]
  /\ performed = 0

\* Mutation: only the first item is validated.
ValidHead(b) == b # <<>> /\ Len(b) <= MaxBatch /\ b[1] = "valid"

\* callback_many accepts the batch as a whole or rejects it as a whole.
Valid(b) == /\ b # <<>> /\ Len(b) <= MaxBatch
            /\ \A i \in 1..Len(b) : b[i] = "valid"

\* Disabled: the local result.  An invalid batch: an exception.  No address:
\* the configuration error that last_result starts with.
Begin ==
  /\ pc = "begin"
  /\ pc' = IF ~call.enabled THEN "done"
           ELSE IF call.kind = "callback" /\ ~Valid(call.batch) THEN "raised"
           ELSE IF call.admins = 0 THEN "done"
           ELSE "post"
  /\ UNCHANGED <<call, policy, pos, attempt, attempts, result, asked, performed>>

Post ==
  /\ pc = "post"
  /\ \E a \in Answers : \E p \in MayPerform(a) :
       /\ result' = a
       /\ performed' = IF p THEN performed + 1 ELSE performed
       /\ pc' = IF a = "ok" THEN "done" ELSE "failed"
  /\ attempts' = attempts + 1
  /\ asked' = [asked EXCEPT ![pos] = @ + 1]
  /\ UNCHANGED <<call, policy, pos, attempt>>

\* Mutation: every error is worth another attempt.
MayRetryAnything(e) == attempt < policy.retry

\* The error e is worth another attempt at the same address.
MayRetry(e) == e \in Transient /\ attempt < policy.retry

Retry ==
  /\ pc = "failed" /\ MayRetry(result)
  /\ attempt' = attempt + 1
  /\ pc' = "post"
  /\ UNCHANGED <<call, policy, pos, attempts, result, asked, performed>>

\* Mutation: the retries of the address before count for the next one.
FailoverKeepsAttempt ==
  /\ pc = "failed" /\ ~MayRetry(result)
  /\ ShouldFailover(result) /\ pos < call.admins
  /\ pos' = pos + 1 /\ pc' = "post"
  /\ UNCHANGED <<call, policy, attempt, attempts, result, asked, performed>>

Failover ==
  /\ pc = "failed" /\ ~MayRetry(result)
  /\ ShouldFailover(result) /\ pos < call.admins
  /\ pos' = pos + 1 /\ attempt' = 0
  /\ pc' = "post"
  /\ UNCHANGED <<call, policy, attempts, result, asked, performed>>

\* Mutation: a request that was performed counts as a success.
GiveUpHopefully ==
  /\ pc = "failed" /\ ~MayRetry(result)
  /\ ~ShouldFailover(result) \/ pos = call.admins
  /\ result' = IF result \in Malformed THEN "ok" ELSE result
  /\ pc' = "done"
  /\ UNCHANGED <<call, policy, pos, attempt, attempts, asked, performed>>

\* The last result stands.
GiveUp ==
  /\ pc = "failed" /\ ~MayRetry(result)
  /\ ~ShouldFailover(result) \/ pos = call.admins
  /\ pc' = "done"
  /\ UNCHANGED <<call, policy, pos, attempt, attempts, result, asked, performed>>

Returned == pc \in {"done", "raised"} /\ UNCHANGED vars

Next == Begin \/ Post \/ Retry \/ Failover \/ GiveUp \/ Returned

\* The loop runs in the caller's thread and each request is bounded by the
\* connect and read timeouts, so every step that is due is taken.
Spec == Init /\ [][Next]_vars /\ WF_vars(Begin \/ Post \/ Retry \/ Failover
                                         \/ GiveUp)

-----------------------------------------------------------------------------
(* Properties.                                                             *)

Steps == {"begin", "post", "failed", "done", "raised"}

\* Every variable has its type; the current address is in the list.
TypeOK ==
  /\ call \in Calls
  /\ policy \in [retry : Nat, http : BOOLEAN, json : BOOLEAN,
                 business : BOOLEAN]
  /\ pc \in Steps
  /\ pos \in Nat /\ (pc \in {"post", "failed"} => pos \in 1..call.admins)
  /\ attempt \in 0..policy.retry /\ attempts \in Nat
  /\ result \in Answers \cup {"config"}
  /\ asked \in [1..call.admins -> Nat]
  /\ performed \in 0..attempts

\* The hard cap holds at every address, whatever is configured: no call blocks
\* its thread for longer than cap + 1 attempts per address.
RequestsBounded == \A i \in 1..call.admins : asked[i] <= RetryCountCap + 1

\* Retries stay within the address that failed: an address that was left is
\* never asked again, no address is skipped, and each one that was left for a
\* transient error got the whole number of attempts.
InOrder ==
  /\ \A i \in 1..call.admins : /\ asked[i] > 0 => i <= pos
                               /\ i < pos => asked[i] > 0
  /\ pc \in {"failed", "done"} /\ attempts > 0 => asked[pos] = attempt + 1
  /\ pc = "done" /\ result \in Transient => asked[pos] = policy.retry + 1

\* A call fails because an Admin is unreachable only when it has tried them
\* all.
UnreachableMeansAll ==
  pc = "done" /\ result \in {"network", "timeout"}
    => \A i \in 1..call.admins : asked[i] > 0

\* An answer that the policy takes as final ends the call: no request follows
\* a refusal unless business failover is configured, none a malformed answer
\* unless that one is, and the same address never gets a second request after
\* either of them.
FinalAnswersStand ==
  [][attempts' # attempts =>
       /\ result # "ok"
       /\ result = "business" => call.config.business /\ asked[pos] = 0
       /\ result \in Malformed => call.config.json /\ asked[pos] = 0]_vars

\* A rejected batch or a disabled client reaches no Admin at all.
NothingSentUnlessAccepted ==
  attempts > 0 => /\ call.enabled
                  /\ call.kind = "callback" =>
                       /\ Len(call.batch) \in 1..MaxBatch
                       /\ \A i \in 1..Len(call.batch) :
                            call.batch[i] = "valid"

\* What is sent is bounded: no invalid batch, no address beyond its cap.
WithinBounds == RequestsBounded /\ NothingSentUnlessAccepted

\* The failover covers the list as the policy says, from the first address on
\* and up to the last one before the Admin counts as unreachable.
TriedInOrder == InOrder /\ UnreachableMeansAll

\* With the abstract view of the callers: the call returns, and a success was
\* performed by an Admin.
Answer == IF pc = "done" /\ result = "ok" THEN "ok"
          ELSE IF pc \in {"done", "raised"} THEN "fail" ELSE "none"

Rpc == INSTANCE AdminRpc WITH answer <- Answer, effect <- performed > 0

ImplementsRpc == Rpc!Spec

=============================================================================
