----------------------------- MODULE Callbacks -----------------------------
(***************************************************************************)
(* The request callbacks of the applications: CallbackRegistry             *)
(* (flask_xxljob/callback/registry.py), the choice of a registry by        *)
(* FlaskXXLJob._target_registry, and the seeding of a new application from *)
(* the extension-level registry during init_app.                           *)
(*                                                                         *)
(* There is no lock.  register_callbacks copies the four fields of the     *)
(* registry, validates the batch against the copy, and assigns the four    *)
(* fields; a step is one of these reads or assignments.  A callback is     *)
(* identified by the call that registered it.                              *)
(***************************************************************************)
EXTENDS Naturals, Sequences, FiniteSets

CONSTANTS
  Apps,         \* the Flask applications
  Calls,        \* the calls of register_callbacks, set_* and on_*
  Names,        \* the executorHandler names
  Batches,      \* the sets of slots a call may register
  Deferred,     \* the extension-level registry
  Nothing       \* no callback, no application

Singles == {"idleBeat", "kill", "log"}
Slots   == Names \cup Singles

ASSUME NamesAssumption   == Names \cap Singles = {} /\ Nothing \notin Slots
ASSUME BatchesAssumption == Batches \subseteq SUBSET Slots
ASSUME ValuesAssumption  ==
  /\ Calls \cap Apps = {} /\ Deferred \notin Apps
  /\ Nothing \notin Apps \cup Calls \cup {Deferred}

VARIABLES
  regs,     \* the registries: in each slot the call that registered it
  req,      \* the arguments of each call
  pc,       \* where each call and each init_app is
  pos,      \* the field that it reads, assigns or seeds next
  home,     \* the registry that the call works on
  copy,     \* the local copy of its fields
  runtime,  \* the applications with a Runtime in app.extensions
  tracked,  \* self._applications
  early,    \* history: the calls that were accepted when init_app began
  overlapped \* history: the calls that were in progress with another one

vars == <<regs, req, pc, pos, home, copy, runtime, tracked, early, overlapped>>

Registries == Apps \cup {Deferred}
Empty      == [s \in Slots |-> Nothing]

Requests == [app : Apps \cup {Nothing}, batch : Batches, replace : BOOLEAN]

\* The fields in the order in which the code reads and assigns them.
Fields     == <<"run", "idleBeat", "kill", "log">>
SlotsOf(f) == IF f = "run" THEN Names ELSE {f}
Current(x) == SlotsOf(Fields[pos[x]])

Init ==
  /\ regs = [r \in Registries |-> Empty]
  /\ req = [c \in Calls |-> Nothing]
  /\ pc = [x \in Calls \cup Apps |-> "idle"]
  /\ pos = [x \in Calls \cup Apps |-> 1]
  /\ home = [c \in Calls |-> Nothing]
  /\ copy = [c \in Calls |-> Empty]
  /\ runtime = {} /\ tracked = {}
  /\ early = [a \in Apps |-> {}] /\ overlapped = {}

Goto(x, p) == pc' = [pc EXCEPT ![x] = p]

\* On to the next field, or to the step p after the last one.
NextField(x, p) ==
  IF pos[x] < Len(Fields)
  THEN pos' = [pos EXCEPT ![x] = @ + 1] /\ UNCHANGED pc
  ELSE pos' = [pos EXCEPT ![x] = 1] /\ Goto(x, p)

-----------------------------------------------------------------------------
(* Registration.                                                           *)

Rest == {"idle", "raised", "accepted"}

Invoke(c) ==
  LET others == {d \in Calls : pc[d] \notin Rest}
  IN  /\ pc[c] = "idle"
      /\ \E r \in Requests : req' = [req EXCEPT ![c] = r]
      /\ Goto(c, "target")
      /\ overlapped' = IF others = {} THEN overlapped
                       ELSE overlapped \cup others \cup {c}
      /\ UNCHANGED <<regs, pos, home, copy, runtime, tracked, early>>

\* Mutation: without a Runtime the callbacks go to the defaults.
TargetOrDefault(c) ==
  LET a == req[c].app IN
  /\ pc[c] = "target"
  /\ IF a = Nothing /\ tracked # {}
     THEN Goto(c, "resolve") /\ UNCHANGED home
     ELSE /\ home' = [home EXCEPT ![c] = IF a \in runtime THEN a ELSE Deferred]
          /\ Goto(c, "read")
  /\ UNCHANGED <<regs, req, pos, copy, runtime, tracked, early, overlapped>>

\* _registry_for and _target_registry.  An explicit application, or the one
\* of the application context, must have a Runtime; without one, and without
\* any application, the callbacks are deferred.
Target(c) ==
  LET a == req[c].app IN
  /\ pc[c] = "target"
  /\ \/ /\ a \in runtime \/ (a = Nothing /\ tracked = {})
        /\ home' = [home EXCEPT ![c] = IF a = Nothing THEN Deferred ELSE a]
        /\ Goto(c, "read")
     \/ a \in Apps \ runtime /\ Goto(c, "raised") /\ UNCHANGED home
     \/ a = Nothing /\ tracked # {} /\ Goto(c, "resolve") /\ UNCHANGED home
  /\ UNCHANGED <<regs, req, pos, copy, runtime, tracked, early, overlapped>>

\* ApplicationRegistry.resolve and _get_runtime.
Resolve(c) ==
  /\ pc[c] = "resolve"
  /\ \/ \E a \in runtime : /\ tracked = {a}
                           /\ home' = [home EXCEPT ![c] = a] /\ Goto(c, "read")
     \/ /\ ~(\E a \in runtime : tracked = {a})
        /\ Goto(c, "raised") /\ UNCHANGED home
  /\ UNCHANGED <<regs, req, pos, copy, runtime, tracked, early, overlapped>>

Read(c) ==
  /\ pc[c] = "read"
  /\ copy' = [copy EXCEPT ![c] = [s \in Slots |->
                IF s \in Current(c) THEN regs[home[c]][s] ELSE @[s]]]
  /\ NextField(c, "validate")
  /\ UNCHANGED <<regs, req, home, runtime, tracked, early, overlapped>>

\* Mutation: a callback that is there stays, replace or not.
MergeDefault(c, s) ==
  IF copy[c][s] = Nothing /\ s \in req[c].batch THEN c ELSE copy[c][s]

\* What register_callbacks leaves in slot s.
Merge(c, s) == IF s \in req[c].batch THEN c ELSE copy[c][s]

Duplicate(c) == \E s \in req[c].batch : copy[c][s] # Nothing

\* What the validation comes to: valid or not.
Outcome(c, valid) ==
  /\ Goto(c, IF valid THEN "commit" ELSE "raised")
  /\ copy' = [copy EXCEPT ![c] = IF valid THEN @ ELSE Empty]

\* Mutation: the singles are validated after the names have been assigned.
ValidateInPlace(c) ==
  /\ pc[c] = "validate"
  /\ \E bad \in BOOLEAN : Outcome(c, ~bad /\ (req[c].replace \/ ~Duplicate(c)))
  /\ regs' = [regs EXCEPT ![home[c]] = [s \in Slots |->
                IF s \in Names THEN Merge(c, s) ELSE @[s]]]
  /\ UNCHANGED <<req, pos, home, runtime, tracked, early, overlapped>>

\* Mutation: only the names are looked for.
ValidateNames(c) ==
  /\ pc[c] = "validate"
  /\ \E bad \in BOOLEAN :
       Outcome(c, /\ ~bad
                  /\ \/ req[c].replace
                     \/ \A s \in req[c].batch \cap Names : copy[c][s] = Nothing)
  /\ UNCHANGED <<regs, req, pos, home, runtime, tracked, early, overlapped>>

\* The whole batch, against the copy; bad: a name or a callback of the batch
\* is not acceptable by itself.
Validate(c) ==
  /\ pc[c] = "validate"
  /\ \E bad \in BOOLEAN : Outcome(c, ~bad /\ (req[c].replace \/ ~Duplicate(c)))
  /\ UNCHANGED <<regs, req, pos, home, runtime, tracked, early, overlapped>>

Commit(c) ==
  /\ pc[c] = "commit"
  /\ regs' = [regs EXCEPT ![home[c]] = [s \in Slots |->
                IF s \in Current(c) THEN Merge(c, s) ELSE @[s]]]
  /\ NextField(c, "accepted")
  /\ copy' = [copy EXCEPT ![c] = IF pos[c] = Len(Fields) THEN Empty ELSE @]
  /\ UNCHANGED <<req, home, runtime, tracked, early, overlapped>>

-----------------------------------------------------------------------------
(* Initialization: the registry of a new application.                      *)

BeginInit(a) ==
  /\ pc[a] = "idle"
  /\ Goto(a, "seed")
  /\ early' = [early EXCEPT ![a] = {c \in Calls : pc[c] = "accepted"}]
  /\ UNCHANGED <<regs, req, pos, home, copy, runtime, tracked, overlapped>>

\* Mutation: only the unnamed callbacks are copied.
SeedSingles(a, s) == IF s \in Names THEN Nothing ELSE regs[Deferred][s]

\* seed_from copies what is not set yet.
Seed(a, s) == IF regs[a][s] = Nothing THEN regs[Deferred][s] ELSE regs[a][s]

SeedFrom(a) ==
  /\ pc[a] = "seed"
  /\ regs' = [regs EXCEPT ![a] = [s \in Slots |->
                IF s \in Current(a) THEN Seed(a, s) ELSE @[s]]]
  /\ NextField(a, "publish")
  /\ UNCHANGED <<req, home, copy, runtime, tracked, early, overlapped>>

Publish(a) ==
  /\ pc[a] = "publish"
  /\ runtime' = runtime \cup {a}
  /\ Goto(a, "track")
  /\ UNCHANGED <<regs, req, pos, home, copy, tracked, early, overlapped>>

\* The commit goes on to succeed, or fails and is rolled back.
Track(a) ==
  /\ pc[a] = "track"
  /\ tracked' = tracked \cup {a}
  /\ Goto(a, "done") \/ Goto(a, "rollback")
  /\ UNCHANGED <<regs, req, pos, home, copy, runtime, early, overlapped>>

Rollback(a) ==
  /\ pc[a] = "rollback"
  /\ runtime' = runtime \ {a}
  /\ Goto(a, "discard")
  /\ UNCHANGED <<regs, req, pos, home, copy, tracked, early, overlapped>>

Discard(a) ==
  /\ pc[a] = "discard"
  /\ tracked' = tracked \ {a}
  /\ Goto(a, "failed")
  /\ UNCHANGED <<regs, req, pos, home, copy, runtime, early, overlapped>>

\* Nobody has to call again.
Ended == /\ \A c \in Calls : pc[c] \in Rest
         /\ \A a \in Apps : pc[a] \in {"idle", "done", "failed"}
         /\ UNCHANGED vars

Next ==
  \/ \E c \in Calls : \/ Invoke(c) \/ Target(c) \/ Resolve(c)
                      \/ Read(c) \/ Validate(c) \/ Commit(c)
  \/ \E a \in Apps : \/ BeginInit(a) \/ SeedFrom(a) \/ Publish(a) \/ Track(a)
                     \/ Rollback(a) \/ Discard(a)
  \/ Ended

Spec == Init /\ [][Next]_vars

-----------------------------------------------------------------------------
(* Properties.                                                             *)

Steps == Rest \cup {"target", "resolve", "read", "validate", "commit", "seed",
                    "publish", "track", "rollback", "discard", "done", "failed"}

\* Every variable has its type, and a call that works on a registry has one.
TypeOK ==
  /\ regs \in [Registries -> [Slots -> Calls \cup {Nothing}]]
  /\ req \in [Calls -> Requests \cup {Nothing}]
  /\ pc \in [Calls \cup Apps -> Steps]
  /\ pos \in [Calls \cup Apps -> 1..Len(Fields)]
  /\ home \in [Calls -> Registries \cup {Nothing}]
  /\ copy \in [Calls -> [Slots -> Calls \cup {Nothing}]]
  /\ runtime \subseteq Apps /\ tracked \subseteq Apps
  /\ early \in [Apps -> SUBSET Calls] /\ overlapped \subseteq Calls
  /\ \A c \in Calls :
       /\ pc[c] # "idle" => req[c] \in Requests
       /\ pc[c] \in {"read", "validate", "commit", "accepted"}
            => home[c] # Nothing

\* A batch that was rejected has left nothing in any registry, and nothing in
\* the copies that other registrations are about to commit.
RejectedLeavesNothing ==
  \A c \in Calls : pc[c] = "raised" =>
    /\ \A r \in Registries : \A s \in Slots : regs[r][s] # c
    /\ \A d \in Calls : \A s \in Slots : copy[d][s] # c

\* Callbacks registered for one application are not shared with another one:
\* a call that names an application is seen in no other registry.
AppIsolation ==
  \A c \in Calls : \A r \in Registries : \A s \in Slots :
    regs[r][s] = c /\ req[c].app # Nothing => r = req[c].app

\* A slot is registered once unless replace is given: of two accepted calls
\* for the same slot of the same registry, one has asked to replace, unless
\* another registration overlapped one of them.
DuplicateRaises ==
  \A c, d \in Calls \ overlapped :
    /\ c # d /\ pc[c] = "accepted" /\ pc[d] = "accepted" /\ home[c] = home[d]
    /\ req[c].batch \cap req[d].batch # {}
    => req[c].replace \/ req[d].replace

\* Each callback of the batch is in its registry, or was replaced on request.
Served(c) ==
  \A s \in req[c].batch :
    LET d == regs[home[c]][s]
    IN d = c \/ (d # Nothing /\ req[d].replace /\ s \in req[d].batch)

\* A batch is all or nothing, and stays, even when later registrations overlap
\* one another: each callback of a call that ran alone is in its registry until
\* a call that asked to replace it takes its slot.
AcceptedIsServed ==
  \A c \in Calls \ overlapped : pc[c] = "accepted" => Served(c)

\* "Validate and commit atomically": the same for any accepted call.
CommitIsAtomic == \A c \in Calls : pc[c] = "accepted" => Served(c)

\* The handlers that were registered before init_app began are seeded into the
\* new application, whatever is registered while it runs.
SeededIntoLaterApps ==
  \A a \in Apps : pc[a] \in {"publish", "track", "done"} =>
    \A c \in early[a] \ overlapped :
      home[c] = Deferred => \A s \in req[c].batch : regs[a][s] # Nothing

=============================================================================
