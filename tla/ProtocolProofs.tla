--------------------------- MODULE ProtocolProofs ---------------------------
(***************************************************************************)
(* What holds of the executor endpoints for every number of requests,      *)
(* applications, registrations and every size limit: the token comes       *)
(* first, the body is bounded and whole, and the callback that runs is     *)
(* registered for this request.                                            *)
(*                                                                         *)
(* The first two are about one request alone (RequestOK).  The last needs  *)
(* to know where each callback in a registry comes from (SeenInv), and     *)
(* that neither the batch nor the registry of a call that is seen changes; *)
(* CallbacksProofs has that only such calls are seen.  At the end, what it *)
(* says of registrations that overlapped no other is carried to the        *)
(* requests: what was registered is reached, what was replaced is not.     *)
(***************************************************************************)
EXTENDS Protocol, CallbacksProofs

\* A callback is in a slot of its batch, in its own registry or in one that
\* was seeded from it; the same for the copies.
From(c, s, r) == s \in req[c].batch /\ home[c] \in {r, Deferred}

SeenInv ==
  \A c \in Calls : \A s \in Slots :
    /\ \A r \in Registries : regs[r][s] = c => From(c, s, r)
    /\ \A d \in Calls : copy[d][s] = c => From(c, s, home[d])

DoneInv == \A a \in Apps : pc[a] \in {"track", "done"} => a \in runtime

\* One request by itself.
TokenOK(r) ==
  /\ r.at \in {"none", "token"} =>
       r.callback = Nothing /\ r.taken = 0 /\ ~r.ran /\ r.answer = "none"
  /\ ~r.token =>
       /\ r.at \in {"none", "token", "answered"}
       /\ r.callback = Nothing /\ r.taken = 0 /\ ~r.ran
       /\ r.answer \in {"none", "token", "http"}

BodyOK(r) ==
  /\ r.at \in {"lookup", "body"} => r.taken = 0
  /\ r.at = "read" =>
       r.taken + r.remaining = MaxRequestSize + 1 /\ r.taken <= r.size
  /\ r.at \in {"hasRun", "getRun", "dispatch", "running"} =>
       r.taken = r.size /\ r.taken \in 1 .. MaxRequestSize

CallbackOK(r) ==
  /\ r.at = "lookup" => r.endpoint \in Singles
  /\ r.at \in {"body", "read"} => r.endpoint # "beat"
  /\ r.at \in {"hasRun", "getRun"} => r.endpoint = "run"
  /\ r.at \in {"body", "read"} /\ r.endpoint = "run" => r.callback = Nothing
  /\ r.at \in {"hasRun", "getRun"} => r.callback = Nothing
  /\ r.at \in {"body", "read"} /\ r.endpoint # "run" => r.callback # Nothing
  /\ r.at \in {"dispatch", "running"} \/ r.ran => r.callback # Nothing

RequestOK(r) == TokenOK(r) /\ BodyOK(r) /\ CallbackOK(r)

\* A request among the registries.
SlotOf(r) == IF r.endpoint = "run" THEN r.handler ELSE r.endpoint

Anchored(r) ==
  /\ r.at # "none" => r.app \in Apps /\ pc[r.app] = "done"
  /\ r.callback # Nothing =>
       /\ pc[r.callback] \in {"commit", "accepted"}
       /\ SlotOf(r) \in req[r.callback].batch
       /\ home[r.callback] \in {r.app, Deferred}

RequestsTyped ==
  /\ rq \in [HttpRequests -> RequestRecord]
  /\ since \in [HttpRequests -> SUBSET Calls]
  /\ seen \in [HttpRequests -> [Slots -> Calls \cup {Nothing}]]

RequestsInv == \A q \in HttpRequests : RequestOK(rq[q]) /\ Anchored(rq[q])

ProtocolInv ==
  RegistryInv /\ SeenInv /\ DoneInv /\ RequestsTyped /\ RequestsInv

-----------------------------------------------------------------------------
(* Registrations and initializations: what is seen stays what it is.       *)

USE Places, EmptyType, StepNames, FieldCount

\* The part of a step of Callbacks that SeenInv, DoneInv and the requests see.
LEMMA InvokeSeen ==
  ASSUME RegistryInv, SeenInv, NEW c \in Calls, Invoke(c)
  PROVE  SeenInv'
<1> USE DEF RegistryInv
<1>1. /\ pc[c] = "idle" /\ UNCHANGED <<regs, copy, home>>
      /\ \A d \in Calls : d # c => req'[d] = req[d]
  BY Types DEF Invoke
<1>2. Absent(c)
  BY <1>1 DEF OnlyValidSeen
<1> QED BY <1>1, <1>2 DEF SeenInv, From, Absent

LEMMA TargetSeen ==
  ASSUME RegistryInv, SeenInv, NEW c \in Calls, Target(c) \/ Resolve(c)
  PROVE  SeenInv'
<1> USE DEF RegistryInv
<1>1. /\ pc[c] \in {"target", "resolve"} /\ copy[c] = Empty
      /\ UNCHANGED <<regs, copy, req>>
  BY DEF Target, Resolve, HomeInv
<1>2. \A d \in Calls : d # c => home'[d] = home[d]
  BY Types DEF Target, Resolve, Typed
<1>3. Absent(c)
  BY <1>1 DEF OnlyValidSeen
<1> QED BY <1>1, <1>2, <1>3 DEF SeenInv, From, Absent

LEMMA ReadSeen ==
  ASSUME RegistryInv, SeenInv, NEW c \in Calls, Read(c)
  PROVE  SeenInv'
<1> USE DEF RegistryInv
<1>1. /\ home[c] \in Registries /\ UNCHANGED <<regs, req, home>>
  BY Types DEF Read, Typed, LocalsTyped
<1>2. /\ \A d \in Calls : d # c => copy'[d] = copy[d]
      /\ \A s \in Slots : copy'[c][s] \in {copy[c][s], regs[home[c]][s]}
  BY Types DEF Read, Typed
<1> QED BY <1>1, <1>2 DEF SeenInv, From

LEMMA ValidateSeen ==
  ASSUME RegistryInv, SeenInv, NEW c \in Calls, Validate(c)
  PROVE  SeenInv'
<1> USE DEF RegistryInv
<1>1. /\ copy' = copy \/ copy' = [copy EXCEPT ![c] = Empty]
      /\ UNCHANGED <<regs, req, home>>
  BY Types, ValidateStep DEF Typed
<1>2. \A d \in Calls : \A s \in Slots : copy'[d][s] \in {copy[d][s], Nothing}
  BY <1>1, Types DEF Typed
<1> QED BY <1>1, <1>2 DEF SeenInv, From

LEMMA CommitSeen ==
  ASSUME RegistryInv, SeenInv, NEW c \in Calls, Commit(c)
  PROVE  SeenInv'
<1> USE DEF RegistryInv
<1>1. home[c] \in Registries /\ UNCHANGED <<req, home>>
  BY Types DEF Commit, Typed, LocalsTyped
<1>2. \A d \in Calls : \A s \in Slots : copy'[d][s] \in {copy[d][s], Nothing}
  BY Types DEF Commit, Typed
<1>3. /\ \A r \in Registries : r # home[c] => regs'[r] = regs[r]
      /\ \A s \in Slots :
           \/ regs'[home[c]][s] \in {regs[home[c]][s], copy[c][s]}
           \/ regs'[home[c]][s] = c /\ s \in req[c].batch
  BY <1>1, Types DEF Commit, Merge, Typed
<1> QED BY <1>1, <1>2, <1>3 DEF SeenInv, From

LEMMA AppSeen ==
  ASSUME RegistryInv, SeenInv, NEW a \in Apps,
         BeginInit(a) \/ SeedFrom(a) \/ Publish(a) \/ Track(a) \/ Rollback(a)
           \/ Discard(a)
  PROVE  SeenInv'
<1>1. /\ UNCHANGED <<req, home, copy>>
      /\ \A r \in Registries : \A s \in Slots :
           regs'[r][s] = regs[r][s] \/ regs'[r][s] = regs[Deferred][s]
  BY AppStep DEF RegistryInv
<1> QED BY <1>1 DEF SeenInv, From

LEMMA SeenNext ==
  ASSUME RegistryInv, SeenInv, Next
  PROVE  SeenInv'
<1>1. CASE Ended
  BY <1>1 DEF Ended, vars, SeenInv, From
<1>2. CASE ~Ended
  BY <1>2, InvokeSeen, TargetSeen, ReadSeen, ValidateSeen, CommitSeen, AppSeen DEF Next
<1> QED BY <1>1, <1>2

\* An initialization that is done stays so, and its Runtime stays.
LEMMA DoneNext ==
  ASSUME RegistryInv, DoneInv, Next
  PROVE  /\ DoneInv'
         /\ \A a \in Apps : pc[a] = "done" => pc'[a] = "done"
<1> USE DEF RegistryInv
<1>1. ASSUME NEW c \in Calls,
             Invoke(c) \/ Target(c) \/ Resolve(c) \/ Read(c) \/ Validate(c)
               \/ Commit(c)
      PROVE  runtime' = runtime /\ \A a \in Apps : pc'[a] = pc[a]
  <2>1. runtime' = runtime
    BY <1>1 DEF Invoke, Target, Resolve, Read, Validate, Commit
  <2>2. CASE Read(c) \/ Commit(c)
    BY <2>1, <2>2, FieldStep DEF Read, Commit
  <2>3. CASE Validate(c)
    <3>1. Goto(c, "commit") \/ Goto(c, "raised")
      BY <2>3, ValidateStep, Types DEF Typed
    <3> QED BY <2>1, <3>1, GotoStep
  <2>4. CASE Invoke(c) \/ Target(c) \/ Resolve(c)
    BY <2>1, <2>4, GotoStep DEF Invoke, Target, Resolve
  <2> QED BY <1>1, <2>2, <2>3, <2>4
<1>2. ASSUME NEW a \in Apps,
             BeginInit(a) \/ SeedFrom(a) \/ Publish(a) \/ Track(a)
               \/ Rollback(a) \/ Discard(a)
      PROVE  /\ \A b \in Apps : b # a => pc'[b] = pc[b] /\ (b \in runtime => b \in runtime')
             /\ pc[a] # "done"
             /\ pc'[a] \in {"track", "done"} => a \in runtime'
  <2>1. CASE SeedFrom(a)
    BY <2>1, FieldStep DEF SeedFrom
  <2>2. CASE BeginInit(a) \/ Publish(a) \/ Track(a) \/ Rollback(a) \/ Discard(a)
    BY <2>2, GotoStep, Types DEF BeginInit, Publish, Track, Rollback, Discard, HistoryTyped, DoneInv
  <2> QED BY <1>2, <2>1, <2>2
<1>3. CASE Ended
  BY <1>3 DEF Ended, vars, DoneInv
<1> QED BY <1>1, <1>2, <1>3 DEF Next, DoneInv

\* A call that is seen has passed its validation, and keeps its batch and its
\* registry.
LEMMA SeenStays ==
  ASSUME RegistryInv, Next, NEW c \in Calls, pc[c] \in {"commit", "accepted"}
  PROVE  /\ pc'[c] \in {"commit", "accepted"}
         /\ req'[c] = req[c] /\ home'[c] = home[c]
<1> USE DEF RegistryInv
<1>1. ASSUME NEW d \in Calls,
             Invoke(d) \/ Target(d) \/ Resolve(d) \/ Read(d) \/ Validate(d)
               \/ Commit(d)
      PROVE  /\ pc'[c] \in {"commit", "accepted"}
             /\ req'[c] = req[c] /\ home'[c] = home[c]
  <2>1. CASE Invoke(d)
    BY <2>1, GotoStep, Types DEF Invoke
  <2>2. CASE Target(d) \/ Resolve(d)
    BY <2>2, GotoStep, Types DEF Target, Resolve, Typed
  <2>3. CASE Read(d) \/ Commit(d)
    BY <2>3, FieldStep DEF Read, Commit
  <2>4. CASE Validate(d)
    <3>1. /\ Goto(d, "commit") \/ Goto(d, "raised")
          /\ pc[d] = "validate" /\ UNCHANGED <<req, home>>
      BY <2>4, ValidateStep, Types DEF Typed
    <3> QED BY <3>1, GotoStep
  <2> QED BY <1>1, <2>1, <2>2, <2>3, <2>4
<1>2. ASSUME NEW a \in Apps,
             BeginInit(a) \/ SeedFrom(a) \/ Publish(a) \/ Track(a)
               \/ Rollback(a) \/ Discard(a)
      PROVE  UNCHANGED <<req, home>> /\ pc'[c] = pc[c]
  BY <1>2, AppStep
<1>3. CASE Ended
  BY <1>3 DEF Ended, vars
<1> QED BY <1>1, <1>2, <1>3 DEF Next

LEMMA RegistrationStep ==
  ASSUME ProtocolInv, Next, UNCHANGED request
  PROVE  ProtocolInv'
<1>1. RegistryInv'
  BY NextInv DEF ProtocolInv
<1>2. SeenInv' /\ DoneInv'
  BY SeenNext, DoneNext DEF ProtocolInv
<1>3. UNCHANGED <<rq, since, seen>>
  BY DEF request
<1>4. ASSUME NEW q \in HttpRequests PROVE Anchored(rq[q])'
  <2>1. rq[q].app \in Apps \cup {Nothing} /\ rq[q].callback \in Calls \cup {Nothing}
    BY DEF ProtocolInv, RequestsTyped, RequestRecord
  <2>2. Anchored(rq[q])
    BY DEF ProtocolInv, RequestsInv
  <2> QED BY <1>3, <2>1, <2>2, SeenStays, DoneNext DEF Anchored, SlotOf, ProtocolInv
<1>5. RequestsTyped' /\ RequestsInv'
  BY <1>3, <1>4 DEF ProtocolInv, RequestsTyped, RequestsInv, RequestOK, TokenOK, BodyOK, CallbackOK
<1> QED BY <1>1, <1>2, <1>5 DEF ProtocolInv

-----------------------------------------------------------------------------
(* A step of one request.                                                  *)

LEMMA FieldTypes ==
  ASSUME ProtocolInv, NEW q \in HttpRequests
  PROVE  /\ rq[q] \in RequestRecord /\ RequestOK(rq[q]) /\ Anchored(rq[q])
         /\ rq \in [HttpRequests -> RequestRecord]
BY DEF ProtocolInv, RequestsTyped, RequestsInv

\* It is enough to look at the record of that request.
LEMMA OneRequest ==
  ASSUME ProtocolInv, NEW q \in HttpRequests, NEW r \in RequestRecord,
         rq' = [rq EXCEPT ![q] = r], RequestOK(r), Anchored(r),
         UNCHANGED vars, since' \in [HttpRequests -> SUBSET Calls],
         seen' \in [HttpRequests -> [Slots -> Calls \cup {Nothing}]]
  PROVE  ProtocolInv'
<1>1. RegistryInv'
  BY NextInv DEF ProtocolInv
<1>2. SeenInv' /\ DoneInv'
  BY DEF ProtocolInv, SeenInv, DoneInv, From, vars
<1>3. RequestsTyped'
  BY DEF ProtocolInv, RequestsTyped
<1>4. ASSUME NEW p \in HttpRequests
      PROVE  RequestOK(rq'[p]) /\ Anchored(rq[p])'
  <2>1. rq'[p] = (IF p = q THEN r ELSE rq[p])
    BY FieldTypes
  <2>2. RequestOK(rq'[p])
    BY <2>1, FieldTypes
  <2>3. UNCHANGED <<pc, req, home>>
    BY DEF vars
  <2>4. CASE p = q
    BY <2>1, <2>3, <2>4 DEF Anchored, SlotOf
  <2>5. CASE p # q
    BY <2>1, <2>3, <2>5, FieldTypes DEF Anchored, SlotOf
  <2> QED BY <2>2, <2>4, <2>5
<1>5. RequestsInv'
  BY <1>4 DEF RequestsInv, RequestOK, TokenOK, BodyOK, CallbackOK
<1> QED BY <1>1, <1>2, <1>3, <1>5 DEF ProtocolInv

\* One field at a time.
LEMMA FieldUpdates ==
  ASSUME NEW r \in RequestRecord
  PROVE  /\ \A a \in {"answered", "body", "read", "hasRun", "dispatch", "running"} :
              [r EXCEPT !.at = a] \in RequestRecord
         /\ \A a \in Answers : [r EXCEPT !.answer = a] \in RequestRecord
         /\ \A c \in Calls : [r EXCEPT !.callback = c] \in RequestRecord
         /\ \A h \in Names \cup {Nothing} : [r EXCEPT !.handler = h] \in RequestRecord
         /\ \A n \in 0 .. (MaxRequestSize + MaxExcess) : [r EXCEPT !.size = n] \in RequestRecord
         /\ \A n \in 0 .. (MaxRequestSize + 1) :
              /\ [r EXCEPT !.taken = n] \in RequestRecord
              /\ [r EXCEPT !.remaining = n] \in RequestRecord
         /\ [r EXCEPT !.ran = TRUE] \in RequestRecord
<1>1. \A a \in {"answered", "body", "read", "hasRun", "dispatch", "running"} :
        [r EXCEPT !.at = a] \in RequestRecord
  BY DEF RequestRecord
<1>2. \A a \in Answers : [r EXCEPT !.answer = a] \in RequestRecord
  BY DEF RequestRecord
<1>3. \A c \in Calls : [r EXCEPT !.callback = c] \in RequestRecord
  BY DEF RequestRecord
<1>4. \A h \in Names \cup {Nothing} : [r EXCEPT !.handler = h] \in RequestRecord
  BY DEF RequestRecord
<1>5. \A n \in 0 .. (MaxRequestSize + MaxExcess) : [r EXCEPT !.size = n] \in RequestRecord
  BY DEF RequestRecord
<1>6. \A n \in 0 .. (MaxRequestSize + 1) : [r EXCEPT !.taken = n] \in RequestRecord
  BY DEF RequestRecord
<1>7. \A n \in 0 .. (MaxRequestSize + 1) : [r EXCEPT !.remaining = n] \in RequestRecord
  BY DEF RequestRecord
<1>8. [r EXCEPT !.ran = TRUE] \in RequestRecord
  BY DEF RequestRecord
<1> QED BY <1>1, <1>2, <1>3, <1>4, <1>5, <1>6, <1>7, <1>8

\* The updates of the actions.
LEMMA Updates ==
  ASSUME NEW r \in RequestRecord
  PROVE  /\ \A a \in Answers : [r EXCEPT !.at = "answered", !.answer = a] \in RequestRecord
         /\ \A c \in Calls : /\ [r EXCEPT !.at = "body", !.callback = c] \in RequestRecord
                             /\ [r EXCEPT !.at = "dispatch", !.callback = c] \in RequestRecord
         /\ \A h \in Names \cup {Nothing} : \A a \in {"hasRun", "dispatch"} :
              [r EXCEPT !.at = a, !.handler = h] \in RequestRecord
         /\ \A n \in 0 .. (MaxRequestSize + MaxExcess) : \A m \in 0 .. (MaxRequestSize + 1) :
              [r EXCEPT !.at = "read", !.size = n, !.remaining = m] \in RequestRecord
         /\ \A n \in 0 .. (MaxRequestSize + 1) : \A m \in 0 .. (MaxRequestSize + 1) :
              [r EXCEPT !.taken = n, !.remaining = m] \in RequestRecord
         /\ [r EXCEPT !.at = "running", !.ran = TRUE] \in RequestRecord
BY FieldUpdates, Zenon

LEMMA AnswerOK ==
  ASSUME ProtocolInv, NEW q \in HttpRequests, NEW a \in Answers \ {"none"},
         Answer(q, a), UNCHANGED <<vars, since, seen>>, rq[q].at # "none",
         rq[q].token \/ (a \in {"token", "http"} /\ rq[q].at = "token")
  PROVE  ProtocolInv'
<1> DEFINE r == [rq[q] EXCEPT !.at = "answered", !.answer = a]
<1>0. rq' = [rq EXCEPT ![q] = r]
  BY DEF Answer
<1>1. r \in RequestRecord
  BY FieldTypes, Updates
<1>2. RequestOK(r)
  BY FieldTypes DEF RequestOK, TokenOK, BodyOK, CallbackOK, RequestRecord
<1>3. Anchored(r)
  BY FieldTypes DEF Anchored, SlotOf, RequestRecord
<1> HIDE DEF r
<1> QED BY <1>0, <1>1, <1>2, <1>3, OneRequest DEF ProtocolInv, RequestsTyped

LEMMA GoOK ==
  ASSUME ProtocolInv, NEW q \in HttpRequests, Go(q, "body") \/ Go(q, "lookup")
           \/ Go(q, "getRun"),
         UNCHANGED <<vars, since, seen>>, rq[q].at # "none",
         RequestOK([rq[q] EXCEPT !.at = rq'[q].at])
  PROVE  ProtocolInv'
<1>1. PICK p \in {"body", "lookup", "getRun"} : Go(q, p)
  OBVIOUS
<1> DEFINE r == [rq[q] EXCEPT !.at = p]
<1>2. r \in RequestRecord /\ rq' = [rq EXCEPT ![q] = r] /\ rq'[q].at = p
  BY <1>1, FieldTypes DEF RequestRecord, Go
<1>3. RequestOK(r) /\ Anchored(r)
  BY <1>2, FieldTypes DEF Anchored, SlotOf, RequestRecord
<1> QED BY <1>2, <1>3, OneRequest DEF ProtocolInv, RequestsTyped

\* A request arrives with nothing done yet.
LEMMA ArriveOK ==
  ASSUME ProtocolInv, NEW q \in HttpRequests, Arrive(q), UNCHANGED vars
  PROVE  ProtocolInv'
<1>1. PICK a \in Apps, e \in Endpoints, token \in BOOLEAN :
        /\ pc[a] = "done"
        /\ rq' = [rq EXCEPT ![q] = [Fresh EXCEPT
                    !.at = "token", !.app = a, !.endpoint = e, !.token = token]]
        /\ seen' = [seen EXCEPT ![q] = regs[a]]
  BY DEF Arrive
<1> DEFINE r == [Fresh EXCEPT !.at = "token", !.app = a, !.endpoint = e, !.token = token]
<1>2. r \in RequestRecord
  <2>1. 0 \in 0 .. (MaxRequestSize + MaxExcess) /\ 0 \in 0 .. (MaxRequestSize + 1)
    BY SizeAssumption
  <2> QED BY <2>1 DEF RequestRecord, Fresh, Answers
<1>3. RequestOK(r) /\ Anchored(r)
  BY <1>1 DEF RequestOK, TokenOK, BodyOK, CallbackOK, Anchored, Fresh, Endpoints
<1>4. regs[a] \in [Slots -> Calls \cup {Nothing}]
  BY Types DEF ProtocolInv, RegistryInv, Typed
<1>5. /\ since' \in [HttpRequests -> SUBSET Calls]
      /\ seen' \in [HttpRequests -> [Slots -> Calls \cup {Nothing}]]
  BY <1>1, <1>4 DEF Arrive, ProtocolInv, RequestsTyped
<1>6. rq' = [rq EXCEPT ![q] = r]
  BY <1>1
<1> HIDE DEF r
<1> QED BY <1>2, <1>3, <1>5, <1>6, OneRequest

LEMMA TokenStep ==
  ASSUME ProtocolInv, NEW q \in HttpRequests, UNCHANGED vars,
         RoutingError(q) \/ Token(q)
  PROVE  ProtocolInv'
<1>1. rq[q].at = "token" /\ UNCHANGED <<vars, since, seen>>
  BY DEF RoutingError, Token, At
<1>2. CASE RoutingError(q) \/ (~rq[q].token /\ Answer(q, "token"))
            \/ (rq[q].token /\ Answer(q, "success"))
  BY <1>1, <1>2, AnswerOK DEF RoutingError, Answers
<1>3. CASE /\ rq[q].token
           /\ \/ rq[q].endpoint = "run" /\ Go(q, "body")
              \/ rq[q].endpoint \in Singles /\ Go(q, "lookup")
  <2>1. PICK p \in {"body", "lookup"} :
          Go(q, p) /\ rq'[q].at = p
            /\ (p = "body" => rq[q].endpoint = "run")
            /\ (p = "lookup" => rq[q].endpoint \in Singles)
    BY <1>3, FieldTypes DEF Go, RequestRecord
  <2>2. RequestOK([rq[q] EXCEPT !.at = rq'[q].at])
    BY <1>1, <1>3, <2>1, FieldTypes DEF RequestOK, TokenOK, BodyOK, CallbackOK, RequestRecord
  <2> QED BY <1>1, <2>1, <2>2, GoOK
<1> QED BY <1>2, <1>3 DEF Token

\* What a request finds in the registry of its application is registered for it.
LEMMA FoundIsAnchored ==
  ASSUME ProtocolInv, NEW q \in HttpRequests, rq[q].at # "none", NEW s \in Slots,
         regs[rq[q].app][s] # Nothing
  PROVE  LET c == regs[rq[q].app][s]
         IN  /\ c \in Calls /\ pc[c] \in {"commit", "accepted"}
             /\ s \in req[c].batch /\ home[c] \in {rq[q].app, Deferred}
<1> DEFINE c == regs[rq[q].app][s]
<1>1. rq[q].app \in Registries
  BY FieldTypes DEF Anchored
<1>2. c \in Calls
  BY <1>1, Types DEF ProtocolInv, RegistryInv, Typed
<1>3. pc[c] \in {"commit", "accepted"}
  BY <1>1, <1>2 DEF ProtocolInv, RegistryInv, OnlyValidSeen, Absent
<1>4. s \in req[c].batch /\ home[c] \in {rq[q].app, Deferred}
  BY <1>1, <1>2 DEF ProtocolInv, SeenInv, From
<1> QED BY <1>2, <1>3, <1>4

LEMMA LookupStep ==
  ASSUME ProtocolInv, NEW q \in HttpRequests, UNCHANGED vars, Lookup(q)
  PROVE  ProtocolInv'
<1> DEFINE c == regs[rq[q].app][Slot(q)]
           r == [rq[q] EXCEPT !.at = "body", !.callback = c]
<1>1. /\ rq[q].at = "lookup" /\ rq[q].endpoint \in Singles /\ Slot(q) = rq[q].endpoint
      /\ rq[q].token /\ UNCHANGED <<vars, since, seen>>
  BY FieldTypes DEF Lookup, At, Slot, RequestOK, CallbackOK, TokenOK, Singles
<1>2. CASE c = Nothing /\ Answer(q, "notConfigured")
  BY <1>1, <1>2, AnswerOK DEF Answers
<1>3. CASE c # Nothing /\ rq' = [rq EXCEPT ![q] = r]
  <2>1. /\ c \in Calls /\ pc[c] \in {"commit", "accepted"}
        /\ Slot(q) \in req[c].batch /\ home[c] \in {rq[q].app, Deferred}
    BY <1>1, <1>3, FoundIsAnchored DEF Slots
  <2>2. r \in RequestRecord
    BY <2>1, FieldTypes, Updates
  <2>3. RequestOK(r)
    BY <1>1, <1>3, FieldTypes DEF RequestOK, TokenOK, BodyOK, CallbackOK, RequestRecord, Singles
  <2>4. Anchored(r)
    BY <1>1, <2>1, FieldTypes, ZenonT(60) DEF Anchored, SlotOf, RequestRecord, Singles
  <2> HIDE DEF r
  <2> QED BY <1>1, <1>3, <2>2, <2>3, <2>4, OneRequest DEF ProtocolInv, RequestsTyped
<1> QED BY <1>2, <1>3 DEF Lookup

LEMMA BodyStep ==
  ASSUME ProtocolInv, NEW q \in HttpRequests, UNCHANGED vars, BeginBody(q)
  PROVE  ProtocolInv'
<1>1. /\ rq[q].at = "body" /\ rq[q].token /\ rq[q].taken = 0
      /\ UNCHANGED <<vars, since, seen>>
  BY FieldTypes DEF BeginBody, At, RequestOK, BodyOK, TokenOK
<1>2. PICK size \in 0 .. (MaxRequestSize + MaxExcess) :
        \/ Answer(q, "parse")
        \/ rq' = [rq EXCEPT ![q] =
                    [@ EXCEPT !.at = "read", !.size = size, !.remaining = Room]]
  BY DEF BeginBody
<1>3. CASE Answer(q, "parse")
  BY <1>1, <1>3, AnswerOK DEF Answers
<1> DEFINE r == [rq[q] EXCEPT !.at = "read", !.size = size, !.remaining = Room]
<1>4. CASE rq' = [rq EXCEPT ![q] = r]
  <2>1. Room \in 0 .. (MaxRequestSize + 1) /\ Room = MaxRequestSize + 1
    BY SizeAssumption DEF Room
  <2>2. r \in RequestRecord
    BY <2>1, FieldTypes, Updates
  <2>3. RequestOK(r)
    <3>1. TokenOK(r) /\ CallbackOK(r)
      BY <1>1, FieldTypes DEF RequestOK, TokenOK, CallbackOK, RequestRecord
    <3>2. r.at = "read" /\ r.taken = 0 /\ r.size = size /\ r.remaining = Room
      BY <1>1, FieldTypes DEF RequestRecord
    <3>3. BodyOK(r)
      BY <2>1, <3>2, SizeAssumption DEF BodyOK
    <3> QED BY <3>1, <3>3 DEF RequestOK
  <2>4. Anchored(r)
    BY <1>1, FieldTypes DEF Anchored, SlotOf, RequestRecord
  <2> HIDE DEF r
  <2> QED BY <1>1, <1>4, <2>2, <2>3, <2>4, OneRequest DEF ProtocolInv, RequestsTyped
<1> QED BY <1>2, <1>3, <1>4

LEMMA ReadStep ==
  ASSUME ProtocolInv, NEW q \in HttpRequests, UNCHANGED vars, ReadChunk(q)
  PROVE  ProtocolInv'
<1>1. /\ rq[q].at = "read" /\ rq[q].token /\ rq[q].taken <= rq[q].size
      /\ rq[q].taken + rq[q].remaining = MaxRequestSize + 1
      /\ UNCHANGED <<vars, since, seen>>
  BY FieldTypes DEF ReadChunk, At, RequestOK, BodyOK, TokenOK
<1>2. PICK n \in 1 .. rq[q].remaining :
        /\ n <= rq[q].size - rq[q].taken
        /\ rq' = [rq EXCEPT ![q] = [rq[q] EXCEPT
                    !.taken = rq[q].taken + n, !.remaining = rq[q].remaining - n]]
  BY DEF ReadChunk
<1> DEFINE r == [rq[q] EXCEPT !.taken = rq[q].taken + n, !.remaining = rq[q].remaining - n]
<1>3. /\ rq[q].taken \in Nat /\ rq[q].remaining \in Nat /\ rq[q].size \in Nat
      /\ n \in Nat /\ MaxRequestSize \in Nat
  BY FieldTypes, SizeAssumption DEF RequestRecord
<1>4. /\ rq[q].taken + n \in 0 .. (MaxRequestSize + 1)
      /\ rq[q].remaining - n \in 0 .. (MaxRequestSize + 1)
      /\ (rq[q].taken + n) + (rq[q].remaining - n) = MaxRequestSize + 1
      /\ rq[q].taken + n <= rq[q].size
  BY <1>1, <1>2, <1>3
<1>5. r \in RequestRecord
  BY <1>4, FieldTypes, Updates
<1>6. RequestOK(r)
  <2>1. TokenOK(r) /\ CallbackOK(r)
    BY <1>1, FieldTypes DEF RequestOK, TokenOK, CallbackOK, RequestRecord
  <2>2. /\ r.at = "read" /\ r.taken = rq[q].taken + n
        /\ r.remaining = rq[q].remaining - n /\ r.size = rq[q].size
    BY <1>1, FieldTypes DEF RequestRecord
  <2>3. BodyOK(r)
    BY <1>4, <2>2 DEF BodyOK
  <2> QED BY <2>1, <2>3 DEF RequestOK
<1>7. Anchored(r)
  BY <1>1, FieldTypes DEF Anchored, SlotOf, RequestRecord
<1>8. rq' = [rq EXCEPT ![q] = r]
  BY <1>2, Zenon
<1> HIDE DEF r
<1> QED BY <1>1, <1>5, <1>6, <1>7, <1>8, OneRequest DEF ProtocolInv, RequestsTyped

\* What is parsed is whole: the loop ended with room left or with one byte more
\* than the limit, which is refused.
LEMMA ParseStep ==
  ASSUME ProtocolInv, NEW q \in HttpRequests, UNCHANGED vars, Parse(q)
  PROVE  ProtocolInv'
<1>1. /\ rq[q].at = "read" /\ rq[q].token /\ rq[q].taken <= rq[q].size
      /\ rq[q].taken + rq[q].remaining = MaxRequestSize + 1
      /\ rq[q].remaining = 0 \/ rq[q].taken = rq[q].size
      /\ UNCHANGED <<vars, since, seen>>
  BY FieldTypes DEF Parse, At, RequestOK, BodyOK, TokenOK
<1>2. CASE Answer(q, "parse") \/ Answer(q, "field")
  BY <1>1, <1>2, AnswerOK DEF Answers
<1>3. ASSUME NEW handler \in Names \cup {Nothing}, NEW p \in {"hasRun", "dispatch"},
             rq' = [rq EXCEPT ![q] = [@ EXCEPT !.at = p, !.handler = handler]],
             p = (IF rq[q].endpoint = "run" THEN "hasRun" ELSE "dispatch"),
             ~TooLarge(rq[q].taken), rq[q].taken # 0
      PROVE  ProtocolInv'
  <2> DEFINE r == [rq[q] EXCEPT !.at = p, !.handler = handler]
  <2>1. rq[q].taken = rq[q].size /\ rq[q].taken \in 1 .. MaxRequestSize
    <3>1. /\ rq[q].taken \in Nat /\ rq[q].remaining \in Nat /\ rq[q].size \in Nat
          /\ MaxRequestSize \in Nat
      BY FieldTypes, SizeAssumption DEF RequestRecord
    <3> QED BY <1>1, <1>3, <3>1 DEF TooLarge
  <2>2. r \in RequestRecord
    BY FieldTypes, Updates
  <2>3. /\ r.at = p /\ r.handler = handler /\ r.endpoint = rq[q].endpoint
        /\ r.callback = rq[q].callback /\ r.taken = rq[q].taken /\ r.app = rq[q].app
        /\ r.size = rq[q].size /\ r.token = rq[q].token /\ r.ran = rq[q].ran
    BY FieldTypes DEF RequestRecord
  <2>4. RequestOK(r)
    BY <1>1, <1>3, <2>1, <2>3, FieldTypes DEF RequestOK, TokenOK, BodyOK, CallbackOK
  <2>5. Anchored(r)
    BY <1>1, <2>3, FieldTypes DEF Anchored, SlotOf, RequestOK, CallbackOK
  <2>6. rq' = [rq EXCEPT ![q] = r]
    BY <1>3, Zenon
  <2> HIDE DEF r
  <2> QED BY <1>1, <2>2, <2>4, <2>5, <2>6, OneRequest DEF ProtocolInv, RequestsTyped
<1>4. CASE ~(Answer(q, "parse") \/ Answer(q, "field"))
  <2>1. PICK handler \in Names \cup {Nothing} :
          /\ ~TooLarge(rq[q].taken) /\ rq[q].taken # 0
          /\ rq' = [rq EXCEPT ![q] = [@ EXCEPT
               !.at = IF rq[q].endpoint = "run" THEN "hasRun" ELSE "dispatch",
               !.handler = handler]]
    BY <1>4, Zenon DEF Parse
  <2>2. CASE rq[q].endpoint = "run"
    BY <1>3, <2>1, <2>2
  <2>3. CASE rq[q].endpoint # "run"
    BY <1>3, <2>1, <2>3
  <2> QED BY <2>2, <2>3
<1> QED BY <1>2, <1>4

LEMMA HasRunStep ==
  ASSUME ProtocolInv, NEW q \in HttpRequests, UNCHANGED vars, HasRun(q)
  PROVE  ProtocolInv'
<1>1. rq[q].at = "hasRun" /\ rq[q].token /\ UNCHANGED <<vars, since, seen>>
  BY FieldTypes DEF HasRun, At, RequestOK, TokenOK
<1>2. CASE Answer(q, "notConfigured")
  BY <1>1, <1>2, AnswerOK DEF Answers
<1>3. CASE Go(q, "getRun")
  <2>1. rq'[q].at = "getRun"
    BY <1>3, FieldTypes DEF Go, RequestRecord
  <2>2. RequestOK([rq[q] EXCEPT !.at = rq'[q].at])
    BY <1>1, <2>1, FieldTypes DEF RequestOK, TokenOK, BodyOK, CallbackOK, RequestRecord
  <2> QED BY <1>1, <1>3, <2>2, GoOK
<1> QED BY <1>2, <1>3 DEF HasRun

LEMMA GetRunStep ==
  ASSUME ProtocolInv, NEW q \in HttpRequests, UNCHANGED vars, GetRun(q)
  PROVE  ProtocolInv'
<1> DEFINE c == IF rq[q].handler \in Names THEN regs[rq[q].app][rq[q].handler]
                                           ELSE Nothing
           r == [rq[q] EXCEPT !.at = "dispatch", !.callback = c]
<1>1. /\ rq[q].at = "getRun" /\ rq[q].token /\ rq[q].endpoint = "run"
      /\ UNCHANGED <<vars, since, seen>>
  BY FieldTypes DEF GetRun, At, RequestOK, TokenOK, CallbackOK
<1>2. CASE c = Nothing
  BY <1>1, <1>2, AnswerOK DEF GetRun, Found, Answers
<1>3. CASE c # Nothing
  <2>1. /\ rq[q].handler \in Slots /\ c = regs[rq[q].app][rq[q].handler]
    BY <1>3 DEF Slots
  <2>2. /\ c \in Calls /\ pc[c] \in {"commit", "accepted"}
        /\ rq[q].handler \in req[c].batch /\ home[c] \in {rq[q].app, Deferred}
    BY <1>1, <1>3, <2>1, FoundIsAnchored
  <2> HIDE DEF c
  <2>3. r \in RequestRecord
    BY <2>2, FieldTypes, Updates
  <2>4. /\ r.at = "dispatch" /\ r.handler = rq[q].handler /\ r.endpoint = "run"
        /\ r.callback = c /\ r.taken = rq[q].taken /\ r.app = rq[q].app
        /\ r.size = rq[q].size /\ r.token = rq[q].token /\ r.ran = rq[q].ran
    <3>1. rq[q] \in RequestRecord
      BY FieldTypes
    <3>2. r = [rq[q] EXCEPT !.at = "dispatch", !.callback = c]
      OBVIOUS
    <3> HIDE DEF r
    <3>3. c \in Calls /\ rq[q].endpoint = "run"
      BY <1>1, <2>2
    <3>4. /\ r.at = "dispatch" /\ r.handler = rq[q].handler
          /\ r.endpoint = rq[q].endpoint /\ r.callback = c
      BY <3>1, <3>2 DEF RequestRecord
    <3>5. /\ r.taken = rq[q].taken /\ r.app = rq[q].app
          /\ r.size = rq[q].size /\ r.token = rq[q].token /\ r.ran = rq[q].ran
      BY <3>1, <3>2 DEF RequestRecord
    <3> QED BY <3>3, <3>4, <3>5
  <2>5. RequestOK(r)
    BY <1>1, <1>3, <2>4, FieldTypes DEF RequestOK, TokenOK, BodyOK, CallbackOK
  <2>6. Anchored(r)
    BY <1>1, <2>2, <2>4, FieldTypes DEF Anchored, SlotOf
  <2>7. rq' = [rq EXCEPT ![q] = r]
    BY <1>3, Zenon DEF GetRun, Found, c
  <2> HIDE DEF r
  <2> QED BY <1>1, <2>3, <2>5, <2>6, <2>7, OneRequest DEF ProtocolInv, RequestsTyped
<1> QED BY <1>2, <1>3

LEMMA DispatchStep ==
  ASSUME ProtocolInv, NEW q \in HttpRequests, UNCHANGED vars, Dispatch(q)
  PROVE  ProtocolInv'
<1> DEFINE r == [rq[q] EXCEPT !.at = "running", !.ran = TRUE]
<1>1. /\ rq[q].at = "dispatch" /\ rq[q].token /\ UNCHANGED <<vars, since, seen>>
  BY FieldTypes DEF Dispatch, At, RequestOK, TokenOK
<1>2. r \in RequestRecord
  BY FieldTypes, Updates
<1>3. RequestOK(r)
  BY <1>1, FieldTypes DEF RequestOK, TokenOK, BodyOK, CallbackOK, RequestRecord
<1>4. Anchored(r)
  BY <1>1, FieldTypes DEF Anchored, SlotOf, RequestRecord
<1>5. rq' = [rq EXCEPT ![q] = r]
  BY Zenon DEF Dispatch
<1> HIDE DEF r
<1> QED BY <1>1, <1>2, <1>3, <1>4, <1>5, OneRequest DEF ProtocolInv, RequestsTyped

LEMMA EndStep ==
  ASSUME ProtocolInv, NEW q \in HttpRequests, UNCHANGED vars, ReadFails(q) \/ Return(q)
  PROVE  ProtocolInv'
<1>1. /\ rq[q].at \in {"read", "running"} /\ rq[q].token /\ UNCHANGED <<vars, since, seen>>
  BY FieldTypes DEF ReadFails, Return, At, RequestOK, TokenOK
<1>2. PICK a \in {"http", "returned", "raised", "type", "internal"} : Answer(q, a)
  BY DEF ReadFails, Return
<1> QED BY <1>1, <1>2, AnswerOK DEF Answers

-----------------------------------------------------------------------------
(* The theorems.                                                           *)

LEMMA ProtocolInitInv == ProtocolInit => ProtocolInv
<1> SUFFICES ASSUME ProtocolInit PROVE ProtocolInv
  OBVIOUS
<1>1. RegistryInv
  BY InitInv DEF ProtocolInit
<1>2. SeenInv /\ DoneInv
  BY DEF ProtocolInit, Init, SeenInv, DoneInv, From
<1>3. Fresh \in RequestRecord
  <2>1. 0 \in 0 .. (MaxRequestSize + MaxExcess) /\ 0 \in 0 .. (MaxRequestSize + 1)
    BY SizeAssumption
  <2> QED BY <2>1 DEF RequestRecord, Fresh, Answers, Endpoints
<1>4. RequestOK(Fresh) /\ Anchored(Fresh)
  BY DEF RequestOK, TokenOK, BodyOK, CallbackOK, Anchored, Fresh
<1>5. RequestsTyped /\ RequestsInv
  BY <1>3, <1>4 DEF ProtocolInit, RequestsTyped, RequestsInv
<1> QED BY <1>1, <1>2, <1>5 DEF ProtocolInv

LEMMA ProtocolNextInv == ProtocolInv /\ [ProtocolNext]_protocol => ProtocolInv'
<1> SUFFICES ASSUME ProtocolInv, [ProtocolNext]_protocol PROVE ProtocolInv'
  OBVIOUS
<1>1. CASE Next /\ UNCHANGED request
  BY <1>1, RegistrationStep
<1>2. ASSUME NEW q \in HttpRequests, Arrive(q) \/ Serve(q), UNCHANGED vars
      PROVE  ProtocolInv'
  BY <1>2, ArriveOK, TokenStep, LookupStep, BodyStep, ReadStep, ParseStep, HasRunStep,
     GetRunStep, DispatchStep, EndStep DEF Serve
<1>3. CASE UNCHANGED protocol
  <2>1. UNCHANGED <<vars, rq, since, seen>>
    BY <1>3 DEF protocol, request
  <2>2. RegistryInv'
    BY <2>1, NextInv DEF ProtocolInv
  <2> QED BY <2>1, <2>2 DEF ProtocolInv, SeenInv, DoneInv, From, RequestsTyped, RequestsInv,
             RequestOK, TokenOK, BodyOK, CallbackOK, Anchored, SlotOf, vars
<1> QED BY <1>1, <1>2, <1>3 DEF ProtocolNext

LEMMA ProtocolInductive == ProtocolSpec => []ProtocolInv
<1> QED BY ProtocolInitInv, ProtocolNextInv, PTL DEF ProtocolSpec

\* Every variable of the requests has its type, a request that has arrived has
\* an application with a Runtime, and _dispatch always has a callback to call.
THEOREM RequestsTypeCorrect == ProtocolSpec => []ProtocolTypeOK
<1>1. ProtocolInv => ProtocolTypeOK
  BY DEF ProtocolInv, ProtocolTypeOK, RequestsTyped, RequestsInv, RequestOK, CallbackOK,
         Anchored, DoneInv, At
<1> QED BY <1>1, ProtocolInductive, PTL

\* For every limit and every way in which a body is cut into chunks, no more
\* than one byte over the limit is read, and nothing is parsed that is not the
\* whole body (_read_limited_body).
THEOREM BodyBounded == ProtocolSpec => []BodyIsWholeAndBounded
<1>1. ProtocolInv => BodyIsWholeAndBounded
  <2> SUFFICES ASSUME ProtocolInv, NEW q \in HttpRequests
               PROVE  /\ rq[q].taken <= MaxRequestSize + 1
                      /\ rq[q].at \in {"hasRun", "getRun", "dispatch", "running"}
                           => rq[q].taken = rq[q].size /\ rq[q].taken \in 1..MaxRequestSize
    BY DEF BodyIsWholeAndBounded
  <2>1. rq[q].taken \in 0 .. (MaxRequestSize + 1)
    BY FieldTypes DEF RequestRecord
  <2> QED BY <2>1, FieldTypes, SizeAssumption DEF RequestOK, BodyOK
<1> QED BY <1>1, ProtocolInductive, PTL

\* Without the right token no endpoint looks up a callback, reads a body or
\* runs user code (check_access_token comes first).
THEOREM TokenFirst == ProtocolSpec => []TokenComesFirst
<1>1. ProtocolInv => TokenComesFirst
  BY DEF ProtocolInv, RequestsInv, RequestOK, TokenOK, TokenComesFirst
<1> QED BY <1>1, ProtocolInductive, PTL

\* However registrations, seeding and requests interleave, the callback that
\* runs was accepted, for the slot of the request and for its application or
\* for all of them.
THEOREM CallbackMatches == ProtocolSpec => []CallbackIsForThisRequest
<1>1. ProtocolInv => CallbackIsForThisRequest
  BY DEF ProtocolInv, RequestsInv, RequestOK, CallbackOK, Anchored, SlotOf, Slot,
         CallbackIsForThisRequest
<1> QED BY <1>1, ProtocolInductive, PTL

-----------------------------------------------------------------------------
(* What was registered before a request arrived.                           *)
(*                                                                         *)
(* A request that has arrived goes to an application that is done, so      *)
(* CallbacksProofs tells what its registry holds whenever it is read.      *)

Wants(r) == IF r.endpoint = "run" /\ r.answer = "notConfigured"
            THEN Names ELSE {SlotOf(r)}

\* What is replaced when the request q arrives stays so.
GoneOK(q, r) ==
  \A s \in Slots : \A c \in since[q] \ overlapped :
    seen[q][s] \notin {c} \cup overlapped => GoneFrom(c, s, r.app)

ReachedOK(q, r) ==
  r.answer \in {"notConfigured", "unsupported"} =>
    \A c \in since[q] \ overlapped :
      home[c] = r.app \/ (home[c] = Deferred /\ c \in early[r.app])
        => req[c].batch \cap Wants(r) = {}

KeptOK(q, r) ==
  r.callback \in since[q] \ overlapped =>
    \A s \in Slots \cap {SlotOf(r)} : seen[q][s] \in {r.callback} \cup overlapped

ArrivedOK(q, r) ==
  /\ r.at # "answered" => r.answer = "none"
  /\ r.at # "none" =>
       /\ \A c \in since[q] : pc[c] = "accepted"
       /\ GoneOK(q, r) /\ ReachedOK(q, r) /\ KeptOK(q, r)

ReachInv ==
  /\ ProtocolInv /\ ServedIndInv /\ HeldIsCurrent
  /\ \A q \in HttpRequests : ArrivedOK(q, rq[q])

\* An application that is done serves what was registered for it.
LEMMA RegisteredIsThere ==
  ASSUME ServedIndInv, NEW a \in Apps, pc[a] = "done",
         NEW c \in Calls, c \notin overlapped, pc[c] = "accepted",
         home[c] = a \/ (home[c] = Deferred /\ c \in early[a]),
         NEW s \in req[c].batch
  PROVE  s \in Slots /\ regs[a][s] # Nothing
<1> USE DEF ServedIndInv, RegistryInv, AloneInv
<1>1. s \in Slots
  BY Types, RequestType, BatchesAssumption DEF LocalsTyped
<1>2. CASE home[c] = a
  <2>1. Keeps(req, c, s, regs[a][s])
    BY <1>1, <1>2 DEF ServedInv, KeptInRegistry, Written
  <2> QED BY <1>1, <2>1 DEF Keeps
<1>3. CASE home[c] = Deferred /\ c \in early[a]
  BY <1>1, <1>3 DEF SeedInv, Seeded
<1> QED BY <1>1, <1>2, <1>3

\* What is accepted stays so, and what an initialization began with is known.
LEMMA AcceptedStays ==
  ASSUME ServedIndInv, Next
  PROVE  /\ \A c \in Calls : pc[c] = "accepted" => pc'[c] = "accepted"
         /\ \A a \in Apps : pc[a] = "done" => early'[a] = early[a]
<1> USE DEF ServedIndInv, RegistryInv
<1>1. ASSUME NEW d \in Calls,
             Invoke(d) \/ Target(d) \/ Resolve(d) \/ Read(d) \/ Validate(d)
               \/ Commit(d)
      PROVE  /\ UNCHANGED early /\ pc[d] # "accepted"
             /\ \A x \in Calls : x # d => pc'[x] = pc[x]
  <2>1. UNCHANGED early /\ pc[d] # "accepted"
    BY <1>1 DEF Invoke, Target, Resolve, Read, Validate, Commit
  <2>2. CASE Invoke(d) \/ Target(d) \/ Resolve(d)
    BY <2>1, <2>2, GotoStep DEF Invoke, Target, Resolve
  <2>3. CASE Read(d) \/ Commit(d)
    BY <2>1, <2>3, FieldStep DEF Read, Commit
  <2>4. CASE Validate(d)
    <3>1. Goto(d, "commit") \/ Goto(d, "raised")
      BY <2>4, ValidateStep, Types DEF Typed
    <3> QED BY <2>1, <3>1, GotoStep
  <2> QED BY <1>1, <2>2, <2>3, <2>4
<1>2. ASSUME NEW a \in Apps,
             BeginInit(a) \/ SeedFrom(a) \/ Publish(a) \/ Track(a)
               \/ Rollback(a) \/ Discard(a)
      PROVE  /\ \A c \in Calls : pc'[c] = pc[c]
             /\ \A b \in Apps : pc[b] = "done" => early'[b] = early[b]
  BY <1>2, AppStep, Types
     DEF BeginInit, SeedFrom, Publish, Track, Rollback, Discard, HistoryTyped
<1>3. CASE Ended
  BY <1>3 DEF Ended, vars
<1> QED BY <1>1, <1>2, <1>3 DEF Next

LEMMA RegistrationReach ==
  ASSUME ReachInv, Next, UNCHANGED request
  PROVE  ReachInv'
<1> USE DEF ReachInv
<1>1. ProtocolInv'
  BY RegistrationStep
<1>2. ServedIndInv' /\ HeldIsCurrent'
  BY NextServed, HeldNext
<1>3. ASSUME NEW q \in HttpRequests PROVE ArrivedOK(q, rq[q])'
  <2> DEFINE r == rq[q]
  <2>1. /\ rq' = rq /\ since' = since /\ seen' = seen
        /\ r \in RequestRecord /\ Anchored(r) /\ ArrivedOK(q, r)
        /\ since[q] \subseteq Calls
        /\ overlapped \subseteq overlapped'
    BY FieldTypes, Moves DEF request, ProtocolInv, RequestsTyped
  <2>2. CASE r.at = "none"
    BY <2>1, <2>2 DEF ArrivedOK
  <2>3. CASE r.at # "none"
    <3>1. r.app \in Apps /\ pc[r.app] = "done"
      BY <2>1, <2>3 DEF Anchored
    <3>2. /\ \A c \in since[q] : pc[c] = "accepted" /\ pc'[c] = "accepted"
          /\ early'[r.app] = early[r.app]
      BY <2>1, <2>3, <3>1, AcceptedStays DEF ArrivedOK
    <3>3. \A c \in since[q] : req'[c] = req[c] /\ home'[c] = home[c]
      BY <2>1, <3>2, SeenStays DEF ProtocolInv
    <3>4. ASSUME NEW s \in Slots, NEW c \in since[q], c \notin overlapped',
                 seen[q][s] \notin {c} \cup overlapped'
          PROVE  GoneFrom(c, s, r.app)'
      <4>1. GoneFrom(c, s, r.app)
        BY <2>1, <2>3, <3>4 DEF ArrivedOK, GoneOK
      <4>2. c \in Calls /\ pc[c] = "accepted"
        BY <2>1, <3>2
      <4>3. PICK a \in Apps : a = r.app
        BY <3>1
      <4>4. GoneFrom(c, s, a)'
        BY <3>1, <4>1, <4>2, <4>3, GoneStays
      <4> QED BY <2>1, <4>3, <4>4 DEF GoneFrom
    <3>5. GoneOK(q, rq[q])'
      BY <2>1, <3>4 DEF GoneOK, GoneFrom
    <3>6. ReachedOK(q, rq[q])'
      BY <2>1, <2>3, <3>2, <3>3 DEF ArrivedOK, ReachedOK, Wants, SlotOf
    <3>7. KeptOK(q, rq[q])'
      BY <2>1, <2>3 DEF ArrivedOK, KeptOK, SlotOf
    <3> QED BY <2>1, <3>2, <3>5, <3>6, <3>7 DEF ArrivedOK
  <2> QED BY <2>2, <2>3
<1> QED BY <1>1, <1>2, <1>3

\* A step of one request leaves the others and the registries alone.
LEMMA OneReach ==
  ASSUME ReachInv, UNCHANGED vars, ProtocolInv', NEW q \in HttpRequests,
         \A p \in HttpRequests : p # q =>
           rq'[p] = rq[p] /\ since'[p] = since[p] /\ seen'[p] = seen[p],
         ArrivedOK(q, rq[q])'
  PROVE  ReachInv'
<1> USE DEF ReachInv
<1>1. ServedIndInv'
  BY NextServed
<1>2. UNCHANGED <<regs, req, pc, pos, home, copy, early, overlapped>>
  BY DEF vars
<1>3. \A d \in Calls : Held(d)' = Held(d)
  BY <1>2, HeldFrame
<1>4. HeldIsCurrent'
  BY <1>2, <1>3 DEF HeldIsCurrent
<1>5. ASSUME NEW p \in HttpRequests, p # q PROVE ArrivedOK(p, rq[p])'
  <2>1. rq'[p] = rq[p] /\ since'[p] = since[p] /\ seen'[p] = seen[p]
    BY <1>5
  <2>2. GoneOK(p, rq[p]) => GoneOK(p, rq[p])'
    BY <1>2, <1>3, <2>1 DEF GoneOK, GoneFrom
  <2>3. ReachedOK(p, rq[p]) => ReachedOK(p, rq[p])'
    BY <1>2, <2>1 DEF ReachedOK, Wants, SlotOf
  <2>4. KeptOK(p, rq[p]) => KeptOK(p, rq[p])'
    BY <1>2, <2>1 DEF KeptOK, SlotOf
  <2>5. ArrivedOK(p, rq[p])
    OBVIOUS
  <2> QED BY <1>2, <2>1, <2>2, <2>3, <2>4, <2>5 DEF ArrivedOK
<1> QED BY <1>1, <1>4, <1>5

\* At the arrival a copy of an accepted callback that is not in its slot could
\* only have been made while another call was in progress.
LEMMA ArriveReach ==
  ASSUME ReachInv, UNCHANGED vars, NEW q \in HttpRequests, Arrive(q)
  PROVE  ReachInv'
<1> USE DEF ReachInv
<1>1. ProtocolInv'
  BY ArriveOK
<1>2. PICK a \in Apps, e \in Endpoints, token \in BOOLEAN :
        /\ pc[a] = "done"
        /\ rq' = [rq EXCEPT ![q] = [Fresh EXCEPT
                    !.at = "token", !.app = a, !.endpoint = e, !.token = token]]
        /\ seen' = [seen EXCEPT ![q] = regs[a]]
  BY DEF Arrive
<1>3. /\ rq \in [HttpRequests -> RequestRecord]
      /\ since \in [HttpRequests -> SUBSET Calls]
      /\ seen \in [HttpRequests -> [Slots -> Calls \cup {Nothing}]]
  BY DEF ProtocolInv, RequestsTyped
<1>4. /\ rq'[q].at = "token" /\ rq'[q].app = a
      /\ rq'[q].callback = Nothing /\ rq'[q].answer = "none"
  BY <1>2, <1>3 DEF Fresh
<1>5. /\ since'[q] = {c \in Calls : pc[c] = "accepted"} /\ seen'[q] = regs[a]
      /\ \A p \in HttpRequests : p # q =>
           rq'[p] = rq[p] /\ since'[p] = since[p] /\ seen'[p] = seen[p]
  BY <1>2, <1>3 DEF Arrive
<1>6. UNCHANGED <<regs, req, pc, pos, home, copy, early, overlapped>>
  BY DEF vars
<1>7. \A d \in Calls : Held(d)' = Held(d)
  BY <1>6, HeldFrame
<1>8. ASSUME NEW s \in Slots, NEW c \in Calls, c \notin overlapped,
             regs[a][s] \notin {c} \cup overlapped
      PROVE  GoneFrom(c, s, a)
  BY <1>8 DEF HeldIsCurrent, GoneFrom
<1>9. GoneOK(q, rq[q])'
  BY <1>4, <1>5, <1>6, <1>7, <1>8 DEF GoneOK, GoneFrom
<1>10. ReachedOK(q, rq[q])' /\ KeptOK(q, rq[q])'
  BY <1>4, <1>5 DEF ReachedOK, KeptOK
<1>11. ArrivedOK(q, rq[q])'
  BY <1>4, <1>5, <1>6, <1>9, <1>10 DEF ArrivedOK
<1> QED BY <1>1, <1>5, <1>11, OneReach

\* The steps of serving a request leave what it arrived with.
LEMMA ServeReach ==
  ASSUME ReachInv, UNCHANGED <<vars, since, seen>>, ProtocolInv',
         NEW q \in HttpRequests, NEW r, rq' = [rq EXCEPT ![q] = r],
         rq[q].at # "none", r.app = rq[q].app,
         r.at # "answered" => r.answer = "none",
         ReachedOK(q, r), KeptOK(q, r)
  PROVE  ReachInv'
<1> USE DEF ReachInv
<1>1. rq'[q] = r /\ \A p \in HttpRequests : p # q => rq'[p] = rq[p]
  BY DEF ProtocolInv, RequestsTyped
<1>2. UNCHANGED <<regs, req, pc, pos, home, copy, early, overlapped>>
  BY DEF vars
<1>3. \A d \in Calls : Held(d)' = Held(d)
  BY <1>2, HeldFrame
<1>4. ArrivedOK(q, rq[q])
  OBVIOUS
<1>5. GoneOK(q, rq[q])'
  BY <1>1, <1>2, <1>3, <1>4 DEF ArrivedOK, GoneOK, GoneFrom
<1>6. ReachedOK(q, rq[q])'
  BY <1>1, <1>2 DEF ReachedOK, Wants, SlotOf
<1>7. KeptOK(q, rq[q])'
  BY <1>1, <1>2 DEF KeptOK, SlotOf
<1>8. ArrivedOK(q, rq[q])'
  BY <1>1, <1>2, <1>4, <1>5, <1>6, <1>7 DEF ArrivedOK
<1> QED BY <1>1, <1>8, OneReach

\* An answer that says nothing about a callback, and a step that finds none.
LEMMA AnswerReach ==
  ASSUME ReachInv, UNCHANGED <<vars, since, seen>>, ProtocolInv',
         NEW q \in HttpRequests, NEW a \in Answers, Answer(q, a), rq[q].at # "none",
         a \in {"notConfigured", "unsupported"} =>
           ReachedOK(q, [rq[q] EXCEPT !.at = "answered", !.answer = a])
  PROVE  ReachInv'
<1> DEFINE r == [rq[q] EXCEPT !.at = "answered", !.answer = a]
<1>1. rq' = [rq EXCEPT ![q] = r]
  BY DEF Answer
<1>2. rq[q] \in RequestRecord /\ ArrivedOK(q, rq[q])
  BY FieldTypes DEF ReachInv
<1>3. /\ r.app = rq[q].app /\ r.at = "answered" /\ r.answer = a
      /\ r.callback = rq[q].callback /\ SlotOf(r) = SlotOf(rq[q])
  BY <1>2 DEF RequestRecord, SlotOf
<1> HIDE DEF r
<1>4. KeptOK(q, r)
  BY <1>2, <1>3 DEF ArrivedOK, KeptOK
<1>5. ReachedOK(q, r)
  <2>1. CASE a \in {"notConfigured", "unsupported"}
    BY <2>1 DEF r
  <2>2. CASE a \notin {"notConfigured", "unsupported"}
    BY <1>3, <2>2 DEF ReachedOK
  <2> QED BY <2>1, <2>2
<1> QED BY <1>1, <1>3, <1>4, <1>5, ServeReach

\* A step that looks at the request alone.
LEMMA QuietReach ==
  ASSUME ReachInv, UNCHANGED <<vars, since, seen>>, ProtocolInv',
         NEW q \in HttpRequests, NEW r, rq' = [rq EXCEPT ![q] = r],
         rq[q].at \notin {"none", "answered"}, r.app = rq[q].app,
         r.answer = rq[q].answer, r.callback = rq[q].callback,
         SlotOf(r) = SlotOf(rq[q]) \/ r.callback = Nothing
  PROVE  ReachInv'
<1>1. ArrivedOK(q, rq[q]) /\ r.answer = "none"
  BY DEF ReachInv, ArrivedOK
<1>2. ReachedOK(q, r)
  BY <1>1 DEF ReachedOK
<1>3. since[q] \subseteq Calls
  BY DEF ReachInv, ProtocolInv, RequestsTyped
<1>4. KeptOK(q, r)
  BY <1>1, <1>3 DEF ArrivedOK, KeptOK
<1> QED BY <1>1, <1>2, <1>4, ServeReach

LEMMA GoReach ==
  ASSUME ReachInv, UNCHANGED <<vars, since, seen>>, ProtocolInv',
         NEW q \in HttpRequests, NEW p, Go(q, p),
         rq[q].at \notin {"none", "answered"}
  PROVE  ReachInv'
<1> DEFINE r == [rq[q] EXCEPT !.at = p]
<1>1. rq' = [rq EXCEPT ![q] = r]
  BY DEF Go
<1>2. rq[q] \in RequestRecord
  BY FieldTypes DEF ReachInv
<1>3. /\ r.app = rq[q].app /\ r.answer = rq[q].answer
      /\ r.callback = rq[q].callback /\ SlotOf(r) = SlotOf(rq[q])
  BY <1>2 DEF RequestRecord, SlotOf
<1> HIDE DEF r
<1> QED BY <1>1, <1>3, QuietReach

\* A registry that has no callback in the slots that are asked for is of an
\* application for which none was registered.
LEMMA NothingThere ==
  ASSUME ReachInv, NEW q \in HttpRequests, NEW r, r.app = rq[q].app,
         rq[q].at # "none",
         \A s \in Wants(r) \cap Slots : regs[rq[q].app][s] = Nothing
  PROVE  ReachedOK(q, r)
<1>1. /\ rq[q].app \in Apps /\ pc[rq[q].app] = "done"
      /\ ServedIndInv /\ since[q] \subseteq Calls
      /\ \A c \in since[q] : pc[c] = "accepted"
  BY FieldTypes DEF ReachInv, Anchored, ArrivedOK, ProtocolInv, RequestsTyped
<1>2. ASSUME NEW c \in since[q], c \notin overlapped,
             home[c] = r.app \/ (home[c] = Deferred /\ c \in early[r.app])
      PROVE  req[c].batch \cap Wants(r) = {}
  BY <1>1, <1>2, RegisteredIsThere
<1> QED BY <1>2 DEF ReachedOK

\* What is found was there at the arrival, or came after it.
LEMMA FoundIsKept ==
  ASSUME ReachInv, NEW q \in HttpRequests, NEW r, rq[q].at # "none",
         SlotOf(r) \in Slots => r.callback = regs[rq[q].app][SlotOf(r)]
  PROVE  KeptOK(q, r)
<1>1. GoneOK(q, rq[q])
  BY DEF ReachInv, ArrivedOK
<1> QED BY <1>1 DEF KeptOK, GoneOK, GoneFrom

LEMMA LookupReach ==
  ASSUME ReachInv, UNCHANGED vars, NEW q \in HttpRequests, Lookup(q)
  PROVE  ReachInv'
<1> DEFINE c == regs[rq[q].app][Slot(q)]
           r == [rq[q] EXCEPT !.at = "body", !.callback = c]
           n == [rq[q] EXCEPT !.at = "answered", !.answer = "notConfigured"]
<1>1. /\ ProtocolInv' /\ UNCHANGED <<vars, since, seen>>
      /\ rq[q].at = "lookup" /\ rq[q] \in RequestRecord /\ rq[q].answer = "none"
      /\ rq[q].endpoint \in Singles /\ rq[q].endpoint # "run"
      /\ Slot(q) = SlotOf(rq[q])
  BY LookupStep, FieldTypes
     DEF ReachInv, ArrivedOK, Lookup, At, RequestOK, CallbackOK, Slot, SlotOf, Singles
<1>2. CASE c = Nothing /\ Answer(q, "notConfigured")
  <2>1. n.app = rq[q].app /\ Wants(n) = {Slot(q)}
    BY <1>1 DEF RequestRecord, Wants, SlotOf
  <2> HIDE DEF n
  <2>2. ReachedOK(q, n)
    BY <1>1, <1>2, <2>1, NothingThere
  <2> QED BY <1>1, <1>2, <2>2, AnswerReach DEF Answers, n
<1>3. CASE c # Nothing /\ rq' = [rq EXCEPT ![q] = r]
  <2>1. /\ r.app = rq[q].app /\ r.answer = "none" /\ SlotOf(r) = Slot(q)
        /\ r.callback = c /\ r.at = "body"
    BY <1>1 DEF RequestRecord, SlotOf
  <2> HIDE DEF r
  <2>2. KeptOK(q, r)
    BY <1>1, <2>1, FoundIsKept
  <2>3. ReachedOK(q, r)
    BY <2>1 DEF ReachedOK
  <2> QED BY <1>1, <1>3, <2>1, <2>2, <2>3, ServeReach
<1> QED BY <1>2, <1>3 DEF Lookup

\* The name that no handler has is no slot.
LEMMA GetRunReach ==
  ASSUME ReachInv, UNCHANGED vars, NEW q \in HttpRequests, GetRun(q)
  PROVE  ReachInv'
<1> DEFINE c == IF rq[q].handler \in Names THEN regs[rq[q].app][rq[q].handler]
                                           ELSE Nothing
           r == [rq[q] EXCEPT !.at = "dispatch", !.callback = c]
           n == [rq[q] EXCEPT !.at = "answered", !.answer = "unsupported"]
<1>1. /\ ProtocolInv' /\ UNCHANGED <<vars, since, seen>>
      /\ rq[q].at = "getRun" /\ rq[q] \in RequestRecord /\ rq[q].answer = "none"
      /\ rq[q].endpoint = "run" /\ SlotOf(rq[q]) = rq[q].handler
  BY GetRunStep, FieldTypes
     DEF ReachInv, ArrivedOK, GetRun, At, RequestOK, CallbackOK, SlotOf
<1>2. rq[q].handler \in Slots => rq[q].handler \in Names
  BY <1>1, NamesAssumption DEF RequestRecord
<1>3. CASE c = Nothing
  <2>1. n.app = rq[q].app /\ Wants(n) = {rq[q].handler}
    BY <1>1 DEF RequestRecord, Wants, SlotOf
  <2>2. Answer(q, "unsupported")
    BY <1>3 DEF GetRun, Found
  <2> HIDE DEF n
  <2>3. ReachedOK(q, n)
    BY <1>1, <1>2, <1>3, <2>1, NothingThere
  <2> QED BY <1>1, <2>2, <2>3, AnswerReach DEF Answers, n
<1>4. CASE c # Nothing
  <2>1. /\ r.app = rq[q].app /\ r.answer = "none" /\ SlotOf(r) = rq[q].handler
        /\ r.callback = c /\ r.at = "dispatch"
    BY <1>1 DEF RequestRecord, SlotOf
  <2>2. rq' = [rq EXCEPT ![q] = r]
    BY <1>4, Zenon DEF GetRun, Found
  <2> HIDE DEF r
  <2>3. KeptOK(q, r)
    BY <1>1, <1>2, <2>1, FoundIsKept
  <2>4. ReachedOK(q, r)
    BY <2>1 DEF ReachedOK
  <2> QED BY <1>1, <2>1, <2>2, <2>3, <2>4, ServeReach
<1> QED BY <1>3, <1>4

LEMMA HasRunReach ==
  ASSUME ReachInv, UNCHANGED vars, NEW q \in HttpRequests, HasRun(q)
  PROVE  ReachInv'
<1> DEFINE n == [rq[q] EXCEPT !.at = "answered", !.answer = "notConfigured"]
<1>1. /\ ProtocolInv' /\ UNCHANGED <<vars, since, seen>>
      /\ rq[q].at = "hasRun" /\ rq[q] \in RequestRecord /\ rq[q].endpoint = "run"
  BY HasRunStep, FieldTypes DEF ReachInv, HasRun, At, RequestOK, CallbackOK
<1>2. CASE Go(q, "getRun")
  BY <1>1, <1>2, GoReach
<1>3. CASE /\ \A h \in Names : regs[rq[q].app][h] = Nothing
           /\ Answer(q, "notConfigured")
  <2>1. n.app = rq[q].app /\ Wants(n) = Names
    BY <1>1 DEF RequestRecord, Wants
  <2> HIDE DEF n
  <2>2. ReachedOK(q, n)
    BY <1>1, <1>3, <2>1, NothingThere
  <2> QED BY <1>1, <1>3, <2>2, AnswerReach DEF Answers, n
<1> QED BY <1>2, <1>3 DEF HasRun

LEMMA ParseReach ==
  ASSUME ReachInv, UNCHANGED vars, NEW q \in HttpRequests, Parse(q)
  PROVE  ReachInv'
<1>1. /\ ProtocolInv' /\ UNCHANGED <<vars, since, seen>>
      /\ rq[q].at = "read" /\ rq[q] \in RequestRecord
      /\ rq[q].endpoint = "run" => rq[q].callback = Nothing
  BY ParseStep, FieldTypes DEF ReachInv, Parse, At, RequestOK, CallbackOK
<1>2. CASE Answer(q, "parse") \/ Answer(q, "field")
  BY <1>1, <1>2, AnswerReach DEF Answers
<1>3. CASE ~(Answer(q, "parse") \/ Answer(q, "field"))
  <2>1. PICK handler \in Names \cup {Nothing}, p \in {"hasRun", "dispatch"} :
          rq' = [rq EXCEPT ![q] = [@ EXCEPT !.at = p, !.handler = handler]]
    BY <1>3, Zenon DEF Parse
  <2> DEFINE r == [rq[q] EXCEPT !.at = p, !.handler = handler]
  <2>2. rq' = [rq EXCEPT ![q] = r]
    BY <2>1, Zenon
  <2>3. /\ r.app = rq[q].app /\ r.answer = rq[q].answer
        /\ r.callback = rq[q].callback
        /\ SlotOf(r) = SlotOf(rq[q]) \/ r.callback = Nothing
    BY <1>1 DEF RequestRecord, SlotOf
  <2> HIDE DEF r
  <2> QED BY <1>1, <2>2, <2>3, QuietReach
<1> QED BY <1>2, <1>3

\* The other steps read neither a registry nor a handler.
LEMMA OtherReach ==
  ASSUME ReachInv, UNCHANGED vars, NEW q \in HttpRequests,
         \/ RoutingError(q) \/ Token(q) \/ BeginBody(q) \/ ReadChunk(q)
         \/ ReadFails(q) \/ Dispatch(q) \/ Return(q)
  PROVE  ReachInv'
<1>1. /\ ProtocolInv' /\ UNCHANGED <<vars, since, seen>>
      /\ rq[q].at \notin {"none", "answered"} /\ rq[q] \in RequestRecord
  BY TokenStep, BodyStep, ReadStep, DispatchStep, EndStep, FieldTypes
     DEF ReachInv, RoutingError, Token, BeginBody, ReadChunk, ReadFails, Dispatch,
         Return, At
<1>2. CASE RoutingError(q) \/ Token(q) \/ ReadFails(q) \/ Return(q)
  <2>1. \/ \E a \in Answers \ {"notConfigured", "unsupported"} : Answer(q, a)
        \/ Go(q, "body") \/ Go(q, "lookup")
    BY <1>2 DEF RoutingError, Token, ReadFails, Return, Answers
  <2> QED BY <1>1, <2>1, AnswerReach, GoReach
<1>3. CASE BeginBody(q)
  <2>1. PICK size \in 0..(MaxRequestSize + MaxExcess) :
          \/ Answer(q, "parse")
          \/ rq' = [rq EXCEPT ![q] =
                      [@ EXCEPT !.at = "read", !.size = size, !.remaining = Room]]
    BY <1>3 DEF BeginBody
  <2> DEFINE r == [rq[q] EXCEPT !.at = "read", !.size = size, !.remaining = Room]
  <2>2. CASE Answer(q, "parse")
    BY <1>1, <2>2, AnswerReach DEF Answers
  <2>3. CASE rq' = [rq EXCEPT ![q] = r]
    <3>1. /\ r.app = rq[q].app /\ r.answer = rq[q].answer
          /\ r.callback = rq[q].callback /\ SlotOf(r) = SlotOf(rq[q])
      BY <1>1 DEF RequestRecord, SlotOf
    <3> HIDE DEF r
    <3> QED BY <1>1, <2>3, <3>1, QuietReach
  <2> QED BY <2>1, <2>2, <2>3
<1>4. CASE ReadChunk(q)
  <2>1. PICK n \in 1..rq[q].remaining :
          rq' = [rq EXCEPT ![q] = [rq[q] EXCEPT
                   !.taken = rq[q].taken + n, !.remaining = rq[q].remaining - n]]
    BY <1>4 DEF ReadChunk
  <2> DEFINE r == [rq[q] EXCEPT !.taken = rq[q].taken + n,
                                !.remaining = rq[q].remaining - n]
  <2>2. rq' = [rq EXCEPT ![q] = r]
    BY <2>1, Zenon
  <2>3. /\ r.app = rq[q].app /\ r.answer = rq[q].answer
        /\ r.callback = rq[q].callback /\ SlotOf(r) = SlotOf(rq[q])
    BY <1>1 DEF RequestRecord, SlotOf
  <2> HIDE DEF r
  <2> QED BY <1>1, <2>2, <2>3, QuietReach
<1>5. CASE Dispatch(q)
  <2> DEFINE r == [rq[q] EXCEPT !.at = "running", !.ran = TRUE]
  <2>1. rq' = [rq EXCEPT ![q] = r]
    BY <1>5, Zenon DEF Dispatch
  <2>2. /\ r.app = rq[q].app /\ r.answer = rq[q].answer
        /\ r.callback = rq[q].callback /\ SlotOf(r) = SlotOf(rq[q])
    BY <1>1 DEF RequestRecord, SlotOf
  <2> HIDE DEF r
  <2> QED BY <1>1, <2>1, <2>2, QuietReach
<1> QED BY <1>2, <1>3, <1>4, <1>5

LEMMA ReachInductive == ProtocolSpec => []ReachInv
<1>1. ProtocolInit => ReachInv
  <2> SUFFICES ASSUME ProtocolInit PROVE ReachInv
    OBVIOUS
  <2>1. ProtocolInv /\ ServedIndInv
    BY ProtocolInitInv, InitInv, InitServed DEF ProtocolInit, ServedIndInv
  <2>2. HeldIsCurrent
    BY DEF ProtocolInit, Init, HeldIsCurrent, Held
  <2>3. \A q \in HttpRequests : ArrivedOK(q, rq[q])
    BY DEF ProtocolInit, Fresh, ArrivedOK
  <2> QED BY <2>1, <2>2, <2>3 DEF ReachInv
<1>2. ReachInv /\ [ProtocolNext]_protocol => ReachInv'
  <2> SUFFICES ASSUME ReachInv, [ProtocolNext]_protocol PROVE ReachInv'
    OBVIOUS
  <2>1. CASE Next /\ UNCHANGED request
    BY <2>1, RegistrationReach
  <2>2. ASSUME NEW q \in HttpRequests, Arrive(q) \/ Serve(q), UNCHANGED vars
        PROVE  ReachInv'
    BY <2>2, ArriveReach, LookupReach, ParseReach, HasRunReach, GetRunReach,
       OtherReach DEF Serve
  <2>3. CASE UNCHANGED protocol
    <3>1. UNCHANGED <<vars, rq, since, seen>>
      BY <2>3 DEF protocol, request
    <3>2. UNCHANGED <<regs, req, pc, pos, home, copy, early, overlapped>>
      BY <3>1 DEF vars
    <3>3. \A d \in Calls : Held(d)' = Held(d)
      BY <3>2, HeldFrame
    <3>4. ProtocolInv' /\ ServedIndInv'
      BY <2>3, <3>1, ProtocolNextInv, NextServed DEF ReachInv
    <3>5. HeldIsCurrent'
      BY <3>2, <3>3 DEF ReachInv, HeldIsCurrent
    <3>6. ASSUME NEW q \in HttpRequests PROVE ArrivedOK(q, rq[q])'
      <4>1. GoneOK(q, rq[q]) => GoneOK(q, rq[q])'
        BY <3>1, <3>2, <3>3 DEF GoneOK, GoneFrom
      <4>2. ReachedOK(q, rq[q]) => ReachedOK(q, rq[q])'
        BY <3>1, <3>2 DEF ReachedOK, Wants, SlotOf
      <4>3. KeptOK(q, rq[q]) => KeptOK(q, rq[q])'
        BY <3>1, <3>2 DEF KeptOK, SlotOf
      <4> QED BY <3>1, <3>2, <4>1, <4>2, <4>3 DEF ReachInv, ArrivedOK
    <3> QED BY <3>4, <3>5, <3>6 DEF ReachInv
  <2> QED BY <2>1, <2>2, <2>3 DEF ProtocolNext
<1> QED BY <1>1, <1>2, PTL DEF ProtocolSpec

\* A request is told that a callback is not configured or not supported only if
\* none was registered before it arrived, by a call that overlapped no other:
\* what is registered while it is served never leaves a slot empty that was not
\* (has_run_callbacks, get_run and the lookups of the unnamed callbacks).
THEOREM RegisteredReached == ProtocolSpec => []RegisteredIsReached
<1>1. ReachInv => RegisteredIsReached
  <2> SUFFICES ASSUME ReachInv, NEW q \in HttpRequests,
                      rq[q].answer \in {"notConfigured", "unsupported"},
                      NEW c \in Calls, Registered(c, q)
               PROVE  req[c].batch \cap Wanted(q) = {}
    BY DEF RegisteredIsReached
  <2>1. rq[q].at # "none"
    BY DEF ReachInv, ArrivedOK
  <2>2. ReachedOK(q, rq[q]) /\ Wanted(q) = Wants(rq[q])
    BY <2>1 DEF ReachInv, ArrivedOK, Wanted, Wants, Slot, SlotOf
  <2> QED BY <2>2 DEF ReachedOK, Registered
<1> QED BY <1>1, ReachInductive, PTL

\* A callback that was replaced before the request arrived is not called, as
\* long as neither it nor the one in its place overlapped another registration,
\* although the copies of register_callbacks can bring old callbacks back.
THEOREM ReplacedIsGone == ProtocolSpec => []NoReplacedCallback
<1>1. ReachInv => NoReplacedCallback
  <2> SUFFICES ASSUME ReachInv, NEW q \in HttpRequests,
                      rq[q].callback \in since[q] \ overlapped,
                      NEW s \in Slots \cap {Slot(q)}
               PROVE  seen[q][s] \in {rq[q].callback} \cup overlapped
    BY DEF NoReplacedCallback
  <2>1. rq[q].at # "none"
    <3>1. since[q] \subseteq Calls
      BY DEF ReachInv, ProtocolInv, RequestsTyped
    <3> QED BY <3>1, FieldTypes DEF ReachInv, RequestOK, TokenOK
  <2>2. KeptOK(q, rq[q]) /\ Slot(q) = SlotOf(rq[q])
    BY <2>1 DEF ReachInv, ArrivedOK, Slot, SlotOf
  <2> QED BY <2>2 DEF KeptOK
<1> QED BY <1>1, ReachInductive, PTL

=============================================================================
