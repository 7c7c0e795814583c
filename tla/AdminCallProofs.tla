-------------------------- MODULE AdminCallProofs --------------------------
(***************************************************************************)
(* The properties of module AdminCall, for every number of addresses,      *)
(* every configured retry count and cap, and every batch.                  *)
(*                                                                         *)
(* None of them is inductive alone.  LoopInv relates the program counter   *)
(* to what the addresses have been asked so far: those before the current  *)
(* one at least once, those after it not at all, the current one once more *)
(* than it was retried.                                                    *)
(***************************************************************************)
EXTENDS AdminCall, TLAPS

\* What each address has been asked.
AskedInv ==
  \A i \in 1..call.admins : /\ i < pos => asked[i] > 0
                            /\ i > pos => asked[i] = 0
                            /\ asked[i] <= policy.retry + 1

\* The state at each program counter.
StepInv ==
  /\ pc = "begin"  => attempts = 0 /\ pos = 1 /\ attempt = 0
                        /\ result = "config"
                        /\ \A i \in 1..call.admins : asked[i] = 0
  /\ pc = "post"   => asked[pos] = attempt
  /\ pc = "failed" => asked[pos] = attempt + 1 /\ attempts > 0
                        /\ result \in Answers \ {"ok"}
  /\ pc = "done" /\ attempts = 0 => result = "config"
  /\ pc = "done" /\ attempts > 0 =>
       /\ pos \in 1..call.admins /\ asked[pos] = attempt + 1
       /\ result \in Answers
       /\ result \in Transient => attempt = policy.retry
       /\ result \in {"network", "timeout"} => pos = call.admins
       /\ result = "ok" => performed > 0
  /\ pc = "raised" => attempts = 0

\* What the last answer allows: an attempt more at the address, or a first
\* one at the next.
NextInv ==
  pc = "post" =>
    \/ attempts = 0 /\ result = "config" /\ asked[pos] = 0
    \/ result \in Transient
    \/ asked[pos] = 0 /\ result = "business" /\ policy.business
    \/ asked[pos] = 0 /\ result \in Malformed /\ policy.json

\* What was accepted before the first request.
AcceptInv ==
  pc \in {"post", "failed"} \/ attempts > 0 =>
    call.enabled /\ (call.kind = "callback" => Valid(call.batch))

LoopInv == /\ TypeOK /\ policy = FromConfig(call.config)
           /\ AskedInv /\ StepInv /\ NextInv /\ AcceptInv

USE RetryAssumption, AdminsAssumption, BatchAssumption
USE DEF Steps, Answers, Transient, Malformed

-----------------------------------------------------------------------------
(* The configuration.                                                      *)

LEMMA ConfigType ==
  ASSUME NEW c \in Calls
  PROVE  /\ FromConfig(c.config) \in [retry : Nat, http : BOOLEAN,
                                      json : BOOLEAN, business : BOOLEAN]
         /\ FromConfig(c.config).retry <= RetryCountCap
         /\ FromConfig(c.config).json = c.config.json
         /\ FromConfig(c.config).business = c.config.business
         /\ c.admins \in Nat
<1>1. c.config \in Policies
  BY DEF Calls
<1>2. c.config.retry \in Nat
  BY <1>1 DEF Policies
<1> QED
  BY <1>1, <1>2 DEF Calls, Policies, FromConfig, Clamp

-----------------------------------------------------------------------------
(* LoopInv is an invariant.                                                *)

LEMMA LoopInvInit == Init => LoopInv
<1> SUFFICES ASSUME Init PROVE LoopInv
  OBVIOUS
<1> USE DEF Init
<1>1. /\ policy \in [retry : Nat, http : BOOLEAN, json : BOOLEAN,
                     business : BOOLEAN]
      /\ call.admins \in Nat
  BY ConfigType
<1>2. TypeOK
  BY <1>1 DEF TypeOK
<1>3. AskedInv /\ StepInv /\ NextInv /\ AcceptInv
  BY <1>1 DEF AskedInv, StepInv, NextInv, AcceptInv
<1> QED
  BY <1>2, <1>3 DEF LoopInv

LEMMA BeginStep == LoopInv /\ Begin => LoopInv'
<1> SUFFICES ASSUME LoopInv, Begin PROVE LoopInv'
  OBVIOUS
<1> USE DEF LoopInv, Begin
<1>1. call \in Calls /\ call.admins \in Nat
  BY ConfigType DEF TypeOK
<1>2. pos = 1 /\ attempt = 0 /\ attempts = 0 /\ result = "config"
      /\ \A i \in 1..call.admins : asked[i] = 0
  BY DEF StepInv
<1>3. pc' = "post" => pos \in 1..call.admins
  BY <1>1, <1>2
<1>4. TypeOK'
  BY <1>1, <1>3 DEF TypeOK
<1>5. AskedInv' /\ NextInv' /\ AcceptInv'
  BY <1>1, <1>2, <1>3 DEF AskedInv, NextInv, AcceptInv
<1>6. StepInv'
  BY <1>1, <1>2, <1>3 DEF StepInv
<1> QED
  BY <1>4, <1>5, <1>6

LEMMA PostStep == LoopInv /\ Post => LoopInv'
<1> SUFFICES ASSUME LoopInv, Post PROVE LoopInv'
  OBVIOUS
<1> USE DEF LoopInv
<1>1. PICK a \in Answers, p \in BOOLEAN :
        /\ p \in MayPerform(a)
        /\ result' = a
        /\ performed' = IF p THEN performed + 1 ELSE performed
        /\ pc' = IF a = "ok" THEN "done" ELSE "failed"
  BY DEF Post, MayPerform
<1>2. /\ attempts' = attempts + 1
      /\ asked' = [asked EXCEPT ![pos] = @ + 1]
      /\ UNCHANGED <<call, policy, pos, attempt>>
      /\ pc = "post" /\ asked[pos] = attempt
  BY DEF Post, StepInv
<1>3. /\ pos \in 1..call.admins /\ asked \in [1..call.admins -> Nat]
      /\ attempt \in 0..policy.retry /\ policy.retry \in Nat
      /\ call.admins \in Nat /\ attempts \in Nat /\ performed \in 0..attempts
  BY <1>2, ConfigType DEF TypeOK
<1>4. a = "ok" => p
  BY <1>1 DEF MayPerform
<1>5. TypeOK'
  BY <1>1, <1>2, <1>3 DEF TypeOK
<1>6. /\ asked'[pos] = attempt + 1
      /\ \A i \in 1..call.admins : i # pos => asked'[i] = asked[i]
  BY <1>2, <1>3
<1>7. AskedInv'
  BY <1>2, <1>3, <1>6 DEF AskedInv
<1>8. StepInv'
  BY <1>1, <1>2, <1>3, <1>4, <1>6 DEF StepInv
<1>9. NextInv' /\ AcceptInv'
  BY <1>1, <1>2 DEF NextInv, AcceptInv
<1> QED
  BY <1>2, <1>5, <1>7, <1>8, <1>9

LEMMA RetryStep == LoopInv /\ Retry => LoopInv'
<1> SUFFICES ASSUME LoopInv, Retry PROVE LoopInv'
  OBVIOUS
<1> USE DEF LoopInv, Retry, MayRetry
<1>1. TypeOK'
  BY DEF TypeOK
<1>2. AskedInv' /\ StepInv' /\ NextInv' /\ AcceptInv'
  BY DEF AskedInv, StepInv, NextInv, AcceptInv, TypeOK
<1> QED
  BY <1>1, <1>2

LEMMA FailoverStep == LoopInv /\ Failover => LoopInv'
<1> SUFFICES ASSUME LoopInv, Failover PROVE LoopInv'
  OBVIOUS
<1> USE DEF LoopInv, Failover
<1>1. /\ pos \in 1..call.admins /\ call.admins \in Nat /\ policy.retry \in Nat
      /\ asked \in [1..call.admins -> Nat] /\ attempt \in 0..policy.retry
  BY ConfigType DEF TypeOK
<1>2. asked[pos] > 0 /\ asked[pos + 1] = 0 /\ pos + 1 \in 1..call.admins
  BY <1>1 DEF StepInv, AskedInv
<1>3. TypeOK'
  BY <1>1, <1>2 DEF TypeOK
<1>4. AskedInv' /\ StepInv' /\ AcceptInv'
  BY <1>1, <1>2 DEF AskedInv, StepInv, AcceptInv
<1>5. NextInv'
  BY <1>2 DEF NextInv, ShouldFailover
<1> QED
  BY <1>3, <1>4, <1>5

LEMMA GiveUpStep == LoopInv /\ GiveUp => LoopInv'
<1> SUFFICES ASSUME LoopInv, GiveUp PROVE LoopInv'
  OBVIOUS
<1> USE DEF LoopInv, GiveUp
<1>1. TypeOK'
  BY DEF TypeOK
<1>2. result \in Transient => attempt = policy.retry
  BY DEF MayRetry, TypeOK
<1>3. result \in {"network", "timeout"} => pos = call.admins
  BY DEF ShouldFailover
<1>4. StepInv'
  BY <1>2, <1>3 DEF StepInv, TypeOK
<1>5. AskedInv' /\ NextInv' /\ AcceptInv'
  BY DEF AskedInv, NextInv, AcceptInv
<1> QED
  BY <1>1, <1>4, <1>5

LEMMA LoopInvNext == LoopInv /\ [Next]_vars => LoopInv'
<1> SUFFICES ASSUME LoopInv, [Next]_vars PROVE LoopInv'
  OBVIOUS
<1>1. CASE UNCHANGED vars
  BY <1>1 DEF LoopInv, TypeOK, AskedInv, StepInv, NextInv, AcceptInv, vars
<1>2. CASE Next
  BY <1>1, <1>2, BeginStep, PostStep, RetryStep, FailoverStep, GiveUpStep
     DEF Next, Returned
<1> QED
  BY <1>1, <1>2

LEMMA LoopInvariant == Spec => []LoopInv
  BY LoopInvInit, LoopInvNext, PTL DEF Spec

-----------------------------------------------------------------------------
(* The properties of the runs.                                             *)

\* Every variable keeps its type; in particular the loop never leaves the
\* list of addresses and never retries more often than its policy says.
THEOREM TypeCorrect == Spec => []TypeOK
<1>1. LoopInv => TypeOK
  BY DEF LoopInv
<1> QED
  BY <1>1, LoopInvariant, PTL

\* Whatever is configured, no address gets more than RetryCountCap + 1
\* requests in one call.
THEOREM Bounded == Spec => []RequestsBounded
<1>1. LoopInv => RequestsBounded
  <2> SUFFICES ASSUME LoopInv, NEW i \in 1..call.admins
               PROVE  asked[i] <= RetryCountCap + 1
    BY DEF RequestsBounded
  <2>1. policy.retry \in Nat /\ policy.retry <= RetryCountCap
    BY ConfigType DEF LoopInv, TypeOK
  <2>2. asked[i] \in Nat /\ asked[i] <= policy.retry + 1
    BY DEF LoopInv, TypeOK, AskedInv
  <2> QED
    BY <2>1, <2>2
<1> QED
  BY <1>1, LoopInvariant, PTL

\* The addresses are tried one after the other, none is skipped, none is
\* asked again after it was left, and transient errors get all their attempts.
THEOREM Ordered == Spec => []InOrder
<1>1. LoopInv => InOrder
  BY ConfigType DEF LoopInv, TypeOK, InOrder, AskedInv, StepInv
<1> QED
  BY <1>1, LoopInvariant, PTL

\* A call is reported as unreachable or timed out only after every address
\* was tried.
THEOREM TriesAll == Spec => []UnreachableMeansAll
<1>1. LoopInv => UnreachableMeansAll
  BY ConfigType DEF LoopInv, TypeOK, UnreachableMeansAll, AskedInv, StepInv
<1> QED
  BY <1>1, LoopInvariant, PTL

\* After an answer that the policy takes as final there is no request more.
THEOREM FinalStands == Spec => FinalAnswersStand
<1> DEFINE Stands == attempts' # attempts =>
       /\ result # "ok"
       /\ result = "business" => call.config.business /\ asked[pos] = 0
       /\ result \in Malformed => call.config.json /\ asked[pos] = 0
<1>1. LoopInv /\ [Next]_vars => [Stands]_vars
  <2> SUFFICES ASSUME LoopInv, Next, attempts' # attempts PROVE Stands
    BY DEF vars
  <2>1. Post
    BY DEF Next, Begin, Retry, Failover, GiveUp, Returned, vars
  <2>2. NextInv /\ pc = "post"
    BY <2>1 DEF Post, LoopInv
  <2>3. policy.json = call.config.json /\ policy.business = call.config.business
    BY ConfigType DEF LoopInv, TypeOK
  <2> QED
    BY <2>2, <2>3 DEF NextInv
<1> QED
  BY <1>1, LoopInvariant, PTL DEF Spec, FinalAnswersStand

\* Nothing is sent for a disabled client or for a batch with an invalid item.
THEOREM SentIsAccepted == Spec => []NothingSentUnlessAccepted
<1>1. LoopInv => NothingSentUnlessAccepted
  BY DEF LoopInv, AcceptInv, NothingSentUnlessAccepted, Valid
<1> QED
  BY <1>1, LoopInvariant, PTL

\* Nothing that is sent exceeds the cap or belongs to a batch that is refused.
THEOREM StaysWithinBounds == Spec => []WithinBounds
BY Bounded, SentIsAccepted, PTL DEF WithinBounds

\* The list is tried in order, and as a whole before it counts as unreachable.
THEOREM TriesInOrder == Spec => []TriedInOrder
BY Ordered, TriesAll, PTL DEF TriedInOrder

\* The safety part of the refinement: every step of the loop is a step of the
\* abstract call or leaves it unchanged, so an answer "ok" was performed.
THEOREM Refinement == Spec => Rpc!Safety
<1>1. Init => Rpc!Init
  BY DEF Init, Rpc!Init, Answer
<1>2. LoopInv /\ [Next]_vars => [Rpc!Next]_(Rpc!vars)
  <2> SUFFICES ASSUME LoopInv, [Next]_vars PROVE [Rpc!Next]_(Rpc!vars)
    OBVIOUS
  <2> USE DEF Answer, Rpc!Next, Rpc!Return, Rpc!Perform, Rpc!vars
  <2>1. performed \in Nat /\ (pc = "failed" => result # "ok")
    BY DEF LoopInv, TypeOK, StepInv
  <2>2. CASE Begin
    <3>1. result = "config" /\ pc = "begin" /\ UNCHANGED <<result, performed>>
      BY <2>2 DEF Begin, LoopInv, StepInv
    <3> QED
      BY <2>2, <3>1 DEF Begin
  <2>3. CASE Post
    <3>1. PICK a \in Answers, p \in BOOLEAN :
            /\ p \in MayPerform(a)
            /\ result' = a
            /\ performed' = IF p THEN performed + 1 ELSE performed
            /\ pc' = IF a = "ok" THEN "done" ELSE "failed"
      BY <2>3 DEF Post, MayPerform
    <3>2. pc = "post" /\ (a = "ok" => p)
      BY <2>3, <3>1 DEF Post, MayPerform
    <3>3. (performed > 0 => performed' > 0) /\ (a = "ok" => performed' > 0)
      BY <2>1, <3>1, <3>2
    <3>4. CASE a = "ok"
      <4>1. Answer = "none" /\ Answer' = "ok" /\ performed' > 0
        BY <3>1, <3>2, <3>3, <3>4
      <4>2. (performed > 0)' = TRUE
        BY <4>1
      <4> QED
        BY <4>1, <4>2, Zenon
    <3>5. CASE a # "ok" /\ performed' > 0
      <4>1. Answer = "none" /\ Answer' = "none"
        BY <3>1, <3>2, <3>5
      <4>2. (performed > 0)' = TRUE
        BY <3>5
      <4> QED
        BY <4>1, <4>2, Zenon
    <3>6. CASE a # "ok" /\ ~(performed' > 0)
      <4>1. Answer = "none" /\ Answer' = "none"
        BY <3>1, <3>2, <3>6
      <4>2. (performed > 0)' = (performed > 0)
        BY <3>3, <3>6
      <4> QED
        BY <4>1, <4>2
    <3> QED
      BY <3>4, <3>5, <3>6
  <2>4. CASE Retry \/ Failover
    BY <2>4 DEF Retry, Failover
  <2>5. CASE GiveUp
    BY <2>1, <2>5 DEF GiveUp
  <2>6. CASE UNCHANGED vars \/ Returned
    BY <2>6 DEF Returned, vars
  <2> QED
    BY <2>2, <2>3, <2>4, <2>5, <2>6 DEF Next
<1> QED
  BY <1>1, <1>2, LoopInvariant, PTL DEF Spec, Rpc!Safety

=============================================================================
