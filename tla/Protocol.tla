------------------------------ MODULE Protocol ------------------------------
(***************************************************************************)
(* The executor endpoints /beat, /run, /idleBeat, /kill and /log           *)
(* (flask_xxljob/protocol/), composed with the registrations of Callbacks: *)
(* a request is a thread of the server that reads the callback registry    *)
(* while other threads replace it.                                         *)
(*                                                                         *)
(* A step is one read of the registry or of the request stream; the checks *)
(* that only look at the request belong to the step before which they run. *)
(* What a check finds is chosen when it is made.                           *)
(***************************************************************************)
EXTENDS Callbacks

CONSTANTS
  HttpRequests,   \* the requests
  MaxRequestSize, \* config.max_request_size
  MaxExcess       \* bound: bytes by which a body may be too long

ASSUME SizeAssumption ==
  /\ MaxRequestSize \in Nat \ {0} /\ MaxExcess \in Nat \ {0}
ASSUME RequestAssumption == HttpRequests \cap (Calls \cup Apps) = {}

VARIABLES
  rq,      \* the local variables of each request
  since,   \* history: the calls that were accepted when it arrived
  seen     \* history: the callbacks of its application when it arrived

request  == <<rq, since, seen>>
protocol == <<vars, request>>

Endpoints == {"beat", "run"} \cup Singles

\* app, endpoint, handler: where it goes; token: the header is right;
\* size: the bytes of the body; remaining, taken: the variables of the read
\* loop; callback: the local variable of that name; ran: it was called.
Fresh == [at |-> "none", app |-> Nothing, endpoint |-> "beat",
          handler |-> Nothing, token |-> FALSE, size |-> 0, remaining |-> 0,
          taken |-> 0, callback |-> Nothing, ran |-> FALSE, answer |-> "none"]

ProtocolInit ==
  /\ Init
  /\ rq = [q \in HttpRequests |-> Fresh]
  /\ since = [q \in HttpRequests |-> {}]
  /\ seen = [q \in HttpRequests |-> Empty]

At(q, p)     == rq[q].at = p
Go(q, p)     == rq' = [rq EXCEPT ![q] = [@ EXCEPT !.at = p]]
Answer(q, a) == rq' = [rq EXCEPT ![q] = [@ EXCEPT !.at = "answered", !.answer = a]]

\* The slot of the registry that a request is about.
Slot(q) == IF rq[q].endpoint = "run" THEN rq[q].handler ELSE rq[q].endpoint

-----------------------------------------------------------------------------

\* A request reaches an executor path.  A wrong method never gets to a view:
\* the hook of the application answers for the Blueprint.
Arrive(q) ==
  /\ At(q, "none")
  /\ \E a \in Apps, e \in Endpoints, token \in BOOLEAN :
       /\ pc[a] = "done"
       /\ rq' = [rq EXCEPT ![q] = [Fresh EXCEPT
                   !.at = "token", !.app = a, !.endpoint = e, !.token = token]]
       /\ seen' = [seen EXCEPT ![q] = regs[a]]
  /\ since' = [since EXCEPT ![q] = {c \in Calls : pc[c] = "accepted"}]

RoutingError(q) == At(q, "token") /\ Answer(q, "http") /\ UNCHANGED <<since, seen>>

\* Mutation: nothing looks at the token.
TokenUnchecked(q) ==
  /\ At(q, "token")
  /\ \/ rq[q].endpoint = "beat" /\ Answer(q, "success")
     \/ rq[q].endpoint = "run" /\ Go(q, "body")
     \/ rq[q].endpoint \in Singles /\ Go(q, "lookup")
  /\ UNCHANGED <<since, seen>>

\* check_access_token comes first, at every endpoint.
Token(q) ==
  /\ At(q, "token")
  /\ \/ ~rq[q].token /\ Answer(q, "token")
     \/ rq[q].token /\ rq[q].endpoint = "beat" /\ Answer(q, "success")
     \/ rq[q].token /\ rq[q].endpoint = "run" /\ Go(q, "body")
     \/ rq[q].token /\ rq[q].endpoint \in Singles /\ Go(q, "lookup")
  /\ UNCHANGED <<since, seen>>

\* Mutation: the extension-level registry goes before the one of the application.
LookupDeferred(q) ==
  LET deferred == regs[Deferred][Slot(q)]
      callback == IF deferred = Nothing THEN regs[rq[q].app][Slot(q)] ELSE deferred
  IN  /\ At(q, "lookup")
      /\ \/ callback = Nothing /\ Answer(q, "notConfigured")
         \/ /\ callback # Nothing
            /\ rq' = [rq EXCEPT ![q] = [@ EXCEPT !.at = "body", !.callback = callback]]
      /\ UNCHANGED <<since, seen>>

\* callback_registry.idle_beat, .kill or .log, before the body is read.
Lookup(q) ==
  LET callback == regs[rq[q].app][Slot(q)] IN
  /\ At(q, "lookup")
  /\ \/ callback = Nothing /\ Answer(q, "notConfigured")
     \/ /\ callback # Nothing
        /\ rq' = [rq EXCEPT ![q] = [@ EXCEPT !.at = "body", !.callback = callback]]
  /\ UNCHANGED <<since, seen>>

-----------------------------------------------------------------------------
(* The body.                                                               *)

TooLarge(n) == n > MaxRequestSize

\* Mutation: the buffer has no byte more than the limit.
RoomExact == MaxRequestSize

\* One byte over the limit tells a body that is too long.
Room == MaxRequestSize + 1

\* _read_limited_body: a known length is checked before anything is read.
BeginBody(q) ==
  /\ At(q, "body")
  /\ \E size \in 0..(MaxRequestSize + MaxExcess), known \in BOOLEAN :
       IF known /\ TooLarge(size)
       THEN Answer(q, "parse")
       ELSE rq' = [rq EXCEPT ![q] =
                     [@ EXCEPT !.at = "read", !.size = size, !.remaining = Room]]
  /\ UNCHANGED <<since, seen>>

\* stream.read(remaining) returns a chunk of any size up to remaining.
ReadChunk(q) ==
  LET r == rq[q] IN
  /\ At(q, "read") /\ r.remaining > 0
  /\ \E n \in 1..r.remaining :
       /\ n <= r.size - r.taken
       /\ rq' = [rq EXCEPT ![q] =
                    [r EXCEPT !.taken = r.taken + n, !.remaining = r.remaining - n]]
  /\ UNCHANGED <<since, seen>>

\* The stream raises: the errorhandler of the Blueprint answers.
ReadFails(q) == At(q, "read") /\ Answer(q, "http") /\ UNCHANGED <<since, seen>>

\* The end of the stream, or of the room; then parse_json_object,
\* check_param_length and from_wire.  Each may refuse the request.
Parse(q) ==
  LET r == rq[q] IN
  /\ At(q, "read") /\ (r.remaining = 0 \/ r.taken = r.size)
  /\ \/ Answer(q, "parse")
     \/ /\ ~TooLarge(r.taken) /\ r.taken # 0
        /\ Answer(q, "field")
     \/ /\ ~TooLarge(r.taken) /\ r.taken # 0
        /\ \E handler \in IF r.endpoint = "run" THEN Names \cup {Nothing}
                                                ELSE {Nothing} :
             rq' = [rq EXCEPT ![q] = [@ EXCEPT
               !.at = IF r.endpoint = "run" THEN "hasRun" ELSE "dispatch",
               !.handler = handler]]
  /\ UNCHANGED <<since, seen>>

-----------------------------------------------------------------------------
(* The callback.                                                           *)

\* Mutation: the unnamed callbacks are asked for.
HasRunSingles(q) ==
  /\ At(q, "hasRun")
  /\ IF \A s \in Singles : regs[rq[q].app][s] = Nothing
     THEN Answer(q, "notConfigured") ELSE Go(q, "getRun")
  /\ UNCHANGED <<since, seen>>

\* has_run_callbacks
HasRun(q) ==
  /\ At(q, "hasRun")
  /\ IF \A n \in Names : regs[rq[q].app][n] = Nothing
     THEN Answer(q, "notConfigured") ELSE Go(q, "getRun")
  /\ UNCHANGED <<since, seen>>

\* The local variable callback of /run is c.
Found(q, c) ==
  IF c = Nothing THEN Answer(q, "unsupported")
  ELSE rq' = [rq EXCEPT ![q] = [@ EXCEPT !.at = "dispatch", !.callback = c]]

\* Mutation: a name that is not registered gets any handler.
GetRunAny(q) ==
  /\ At(q, "getRun")
  /\ \E n \in Names : Found(q, regs[rq[q].app][n])
  /\ UNCHANGED <<since, seen>>

\* get_run: a second read; nobody has registered the name Nothing.
GetRun(q) ==
  /\ At(q, "getRun")
  /\ Found(q, IF rq[q].handler \in Names THEN regs[rq[q].app][rq[q].handler]
              ELSE Nothing)
  /\ UNCHANGED <<since, seen>>

\* _dispatch: the callback of the local variable is called.
Dispatch(q) ==
  /\ At(q, "dispatch")
  /\ rq' = [rq EXCEPT ![q] = [@ EXCEPT !.at = "running", !.ran = TRUE]]
  /\ UNCHANGED <<since, seen>>

\* It returns a response, raises, or returns something else; a response that
\* cannot be serialized ends in the errorhandler of the Blueprint.
Return(q) ==
  /\ At(q, "running")
  /\ \E a \in {"returned", "raised", "type", "internal"} : Answer(q, a)
  /\ UNCHANGED <<since, seen>>

Serve(q) ==
  \/ RoutingError(q) \/ Token(q) \/ Lookup(q)
  \/ BeginBody(q) \/ ReadChunk(q) \/ ReadFails(q) \/ Parse(q)
  \/ HasRun(q) \/ GetRun(q) \/ Dispatch(q) \/ Return(q)

ProtocolNext ==
  \/ Next /\ UNCHANGED request
  \/ \E q \in HttpRequests : (Arrive(q) \/ Serve(q)) /\ UNCHANGED vars

ProtocolSpec == ProtocolInit /\ [][ProtocolNext]_protocol

-----------------------------------------------------------------------------
(* Properties.                                                             *)

Answers == {"none", "success", "token", "http", "parse", "field",
            "notConfigured", "unsupported", "returned", "raised", "type",
            "internal"}

RequestRecord ==
  [at : {"none", "token", "lookup", "body", "read", "hasRun", "getRun",
         "dispatch", "running", "answered"},
   app : Apps \cup {Nothing}, endpoint : Endpoints,
   handler : Names \cup {Nothing}, token : BOOLEAN,
   size : 0..(MaxRequestSize + MaxExcess), remaining : 0..(MaxRequestSize + 1),
   taken : 0..(MaxRequestSize + 1), callback : Calls \cup {Nothing},
   ran : BOOLEAN, answer : Answers]

\* Every variable has its type, no request is without an application, and one
\* that is about to call user code has a callback.
ProtocolTypeOK ==
  /\ rq \in [HttpRequests -> RequestRecord]
  /\ since \in [HttpRequests -> SUBSET Calls]
  /\ seen \in [HttpRequests -> [Slots -> Calls \cup {Nothing}]]
  /\ \A q \in HttpRequests :
       /\ ~At(q, "none") => rq[q].app \in runtime
       /\ rq[q].at \in {"dispatch", "running"} => rq[q].callback # Nothing

\* The slots whose callback decides about an answer: /run asks for any handler
\* first.
Wanted(q) == IF rq[q].endpoint = "run" /\ rq[q].answer = "notConfigured"
             THEN Names ELSE {Slot(q)}

\* c was registered for the application of q, or seeded into it, before q came.
Registered(c, q) ==
  /\ c \in since[q] \ overlapped
  /\ \/ home[c] = rq[q].app
     \/ home[c] = Deferred /\ c \in early[rq[q].app]

\* A request is never told that there is no callback when one was registered,
\* by a call that overlapped no other, before the request arrived, whatever is
\* registered while it is served.
RegisteredIsReached ==
  \A q \in HttpRequests : rq[q].answer \in {"notConfigured", "unsupported"} =>
    \A c \in Calls : Registered(c, q) => req[c].batch \cap Wanted(q) = {}

\* A callback that was replaced before the request arrived is not taken: the
\* one that is was there at the arrival or was registered after it.  A
\* registration that overlapped another may bring an older callback back.
NoReplacedCallback ==
  \A q \in HttpRequests :
    rq[q].callback \in since[q] \ overlapped =>
      \A s \in Slots \cap {Slot(q)} :
        seen[q][s] \in {rq[q].callback} \cup overlapped

\* The callback that runs belongs to an accepted batch, was registered for the
\* slot of this request, and for its application or for all of them.
CallbackIsForThisRequest ==
  \A q \in HttpRequests : rq[q].ran =>
    LET c == rq[q].callback
    IN  /\ pc[c] \in {"commit", "accepted"}
        /\ Slot(q) \in req[c].batch
        /\ home[c] \in {rq[q].app, Deferred}

\* Not more than one byte over the limit is buffered, and a body that is
\* accepted is within the limit and complete, however it comes in chunks.
BodyIsWholeAndBounded ==
  \A q \in HttpRequests :
    /\ rq[q].taken <= MaxRequestSize + 1
    /\ rq[q].at \in {"hasRun", "getRun", "dispatch", "running"}
         => rq[q].taken = rq[q].size /\ rq[q].taken \in 1..MaxRequestSize

\* Without the right token the answer depends on nothing but the token: no
\* callback is looked up, no body is read, no user code runs.
TokenComesFirst ==
  \A q \in HttpRequests : ~rq[q].token =>
    /\ rq[q].answer \in {"none", "token", "http"}
    /\ rq[q].callback = Nothing /\ rq[q].taken = 0 /\ ~rq[q].ran

=============================================================================
