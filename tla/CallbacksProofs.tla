-------------------------- MODULE CallbacksProofs --------------------------
(***************************************************************************)
(* What holds of the callback registries for every number of applications, *)
(* names and overlapping registrations, although nothing is locked: a      *)
(* rejected batch leaves no trace, no callback crosses from one            *)
(* application to another, and a batch that overlapped no other is kept.   *)
(*                                                                         *)
(* The first two need the local copies: what a registration has read it    *)
(* will write back.  The invariant says of the copies what is wanted of    *)
(* the registries, and that a copy is empty until its call has a registry. *)
(***************************************************************************)
EXTENDS Callbacks, TLAPS

\* c is in no registry and in no copy.
Absent(c) == /\ \A r \in Registries : \A s \in Slots : regs[r][s] # c
             /\ \A d \in Calls : \A s \in Slots : copy[d][s] # c

\* Only a call whose batch is valid is seen by anyone.
OnlyValidSeen ==
  \A c \in Calls : pc[c] \notin {"commit", "accepted"} => Absent(c)

\* The calls for one application work on its registry, and so do those that
\* have read one of them.
HomeInv ==
  \A c \in Calls :
    /\ pc[c] \in {"idle", "target", "resolve"} => copy[c] = Empty
    /\ pc[c] = "resolve" => req[c].app = Nothing
    /\ /\ pc[c] \in {"read", "validate", "commit", "accepted"}
       /\ req[c].app # Nothing
       => home[c] = req[c].app
    /\ pc[c] \in {"commit", "accepted"} /\ req[c].app # Nothing =>
         /\ \A r \in Registries : \A s \in Slots :
              regs[r][s] = c => r = req[c].app
         /\ \A d \in Calls : \A s \in Slots :
              copy[d][s] = c => home[d] = req[c].app

RegistryInv == TypeOK /\ OnlyValidSeen /\ HomeInv

-----------------------------------------------------------------------------
(* The constants.                                                          *)

LEMMA Places ==
  /\ Apps \subseteq Registries /\ Deferred \in Registries
  /\ Nothing \notin Registries /\ Deferred \notin Apps
  /\ Calls \cap Apps = {} /\ Nothing \notin Calls /\ Nothing \notin Apps
BY ValuesAssumption DEF Registries

LEMMA EmptyType ==
  /\ Empty \in [Slots -> Calls \cup {Nothing}]
  /\ \A s \in Slots : Empty[s] = Nothing
BY DEF Empty

LEMMA StepNames ==
  {"idle", "raised", "accepted", "target", "resolve", "read", "validate",
   "commit", "seed", "publish", "track", "rollback", "discard", "done",
   "failed"} \subseteq Steps
BY DEF Steps, Rest

LEMMA FieldCount == Len(Fields) = 4
BY DEF Fields

USE Places, EmptyType, StepNames, FieldCount

LEMMA RequestType ==
  ASSUME NEW r \in Requests
  PROVE  /\ r.app \in Apps \cup {Nothing} /\ r.batch \in Batches
         /\ r.replace \in BOOLEAN
BY DEF Requests

\* The two outcomes of a validation.
LEMMA ValidateStep ==
  ASSUME NEW c \in Calls, Validate(c), copy \in [Calls -> [Slots -> Calls \cup {Nothing}]]
  PROVE  /\ pc[c] = "validate"
         /\ \/ Goto(c, "commit") /\ copy' = copy
            \/ Goto(c, "raised") /\ copy' = [copy EXCEPT ![c] = Empty]
         /\ UNCHANGED <<regs, req, pos, home, runtime, tracked, early, overlapped>>
<1>1. PICK bad \in BOOLEAN :
        Outcome(c, ~bad /\ (req[c].replace \/ ~Duplicate(c)))
  BY DEF Validate
<1>2. CASE ~bad /\ (req[c].replace \/ ~Duplicate(c))
  BY <1>1, <1>2 DEF Validate, Outcome
<1>3. CASE ~(~bad /\ (req[c].replace \/ ~Duplicate(c)))
  BY <1>1, <1>3 DEF Validate, Outcome
<1> QED BY <1>2, <1>3

\* The two ways in which a program counter moves.
LEMMA GotoStep ==
  ASSUME TypeOK, NEW x \in Calls \cup Apps, NEW p \in Steps, Goto(x, p)
  PROVE  /\ pc' \in [Calls \cup Apps -> Steps] /\ pc'[x] = p
         /\ \A y \in Calls \cup Apps : y # x => pc'[y] = pc[y]
<1>1. pc \in [Calls \cup Apps -> Steps]
  BY DEF TypeOK
<1> QED BY <1>1 DEF Goto

LEMMA FieldStep ==
  ASSUME TypeOK, NEW x \in Calls \cup Apps, NEW p \in Steps, NextField(x, p)
  PROVE  /\ pos' \in [Calls \cup Apps -> 1..Len(Fields)]
         /\ pc' \in [Calls \cup Apps -> Steps] /\ pc'[x] \in {pc[x], p}
         /\ \A y \in Calls \cup Apps : y # x => pc'[y] = pc[y]
<1>1. pos \in [Calls \cup Apps -> 1..Len(Fields)] /\ pc \in [Calls \cup Apps -> Steps]
  BY DEF TypeOK
<1>2. CASE pos[x] < Len(Fields)
  BY <1>1, <1>2 DEF NextField
<1>3. CASE ~(pos[x] < Len(Fields))
  BY <1>1, <1>3, GotoStep DEF NextField
<1> QED BY <1>2, <1>3

LEMMA InitInv == Init => RegistryInv
<1> SUFFICES ASSUME Init PROVE RegistryInv
  OBVIOUS
<1>2. TypeOK
  BY DEF Init, TypeOK
<1>3. OnlyValidSeen
  BY DEF Init, OnlyValidSeen, Absent
<1>4. HomeInv
  BY DEF Init, HomeInv
<1> QED BY <1>2, <1>3, <1>4 DEF RegistryInv

-----------------------------------------------------------------------------
(* Type correctness.                                                       *)

Typed ==
  /\ regs \in [Registries -> [Slots -> Calls \cup {Nothing}]]
  /\ home \in [Calls -> Registries \cup {Nothing}]
  /\ copy \in [Calls -> [Slots -> Calls \cup {Nothing}]]

LocalsTyped ==
  \A c \in Calls :
    /\ pc[c] # "idle" => req[c] \in Requests
    /\ pc[c] \in {"read", "validate", "commit", "accepted"} => home[c] # Nothing

HistoryTyped ==
  /\ runtime \subseteq Apps /\ tracked \subseteq Apps
  /\ early \in [Apps -> SUBSET Calls] /\ overlapped \subseteq Calls

LEMMA Types ==
  TypeOK <=> /\ Typed /\ LocalsTyped /\ HistoryTyped
             /\ req \in [Calls -> Requests \cup {Nothing}]
             /\ pc \in [Calls \cup Apps -> Steps]
             /\ pos \in [Calls \cup Apps -> 1..Len(Fields)]
BY DEF TypeOK, Typed, LocalsTyped, HistoryTyped

LEMMA TypesNext ==
  /\ Typed' /\ LocalsTyped' /\ HistoryTyped'
  /\ req' \in [Calls -> Requests \cup {Nothing}]
  /\ pc' \in [Calls \cup Apps -> Steps]
  /\ pos' \in [Calls \cup Apps -> 1..Len(Fields)]
  => TypeOK'
BY DEF TypeOK, Typed, LocalsTyped, HistoryTyped

LEMMA CallType ==
  ASSUME TypeOK, NEW c \in Calls,
         Invoke(c) \/ Target(c) \/ Resolve(c) \/ Read(c) \/ Validate(c)
           \/ Commit(c)
  PROVE  TypeOK'
<1> USE Types, TypesNext
<1>1. CASE Invoke(c)
  <2>1. PICK r \in Requests : req' = [req EXCEPT ![c] = r]
    BY <1>1 DEF Invoke
  <2>2. /\ pc' \in [Calls \cup Apps -> Steps] /\ pc'[c] = "target"
        /\ \A y \in Calls \cup Apps : y # c => pc'[y] = pc[y]
    BY <1>1, GotoStep DEF Invoke
  <2>3. Typed' /\ HistoryTyped' /\ UNCHANGED <<home, pos>>
    BY <1>1 DEF Invoke, Typed, HistoryTyped
  <2>4. LocalsTyped'
    BY <2>1, <2>2, <2>3 DEF LocalsTyped
  <2> QED BY <2>1, <2>2, <2>3, <2>4
<1>2. CASE Target(c) \/ Resolve(c)
  <2>1. /\ pc[c] # "idle"
        /\ UNCHANGED <<regs, req, pos, copy, runtime, tracked, early, overlapped>>
    BY <1>2 DEF Target, Resolve
  <2>2. req[c].app \in Apps \cup {Nothing}
    BY <2>1, RequestType DEF LocalsTyped
  <2>3. /\ home' \in [Calls -> Registries \cup {Nothing}]
        /\ \A d \in Calls : d # c => home'[d] = home[d]
        /\ \/ Goto(c, "read") /\ home'[c] # Nothing
           \/ Goto(c, "raised")
           \/ Goto(c, "resolve")
    <3>1. CASE Target(c)
      BY <2>2, <3>1, SMTT(30) DEF Target, Typed, HistoryTyped
    <3>2. CASE Resolve(c)
      BY <2>2, <3>2 DEF Resolve, Typed, HistoryTyped
    <3> QED BY <1>2, <3>1, <3>2
  <2>4. /\ pc' \in [Calls \cup Apps -> Steps]
        /\ \/ pc'[c] = "read" /\ home'[c] # Nothing
           \/ pc'[c] \in {"raised", "resolve"}
        /\ \A y \in Calls \cup Apps : y # c => pc'[y] = pc[y]
    BY <2>3, GotoStep
  <2>5. Typed' /\ HistoryTyped'
    BY <2>1, <2>3 DEF Typed, HistoryTyped
  <2>6. LocalsTyped'
    BY <2>1, <2>3, <2>4 DEF LocalsTyped
  <2> QED BY <2>1, <2>4, <2>5, <2>6
<1>3. CASE Read(c)
  <2>1. /\ home[c] \in Registries /\ pc[c] = "read"
        /\ UNCHANGED <<regs, req, home, runtime, tracked, early, overlapped>>
    BY <1>3 DEF Read, LocalsTyped, Typed
  <2>2. Typed' /\ HistoryTyped'
    BY <1>3, <2>1 DEF Read, Typed, HistoryTyped
  <2>3. /\ pos' \in [Calls \cup Apps -> 1..Len(Fields)]
        /\ pc' \in [Calls \cup Apps -> Steps] /\ pc'[c] \in {pc[c], "validate"}
        /\ \A y \in Calls \cup Apps : y # c => pc'[y] = pc[y]
    BY <1>3, FieldStep DEF Read
  <2>4. LocalsTyped'
    BY <2>1, <2>3 DEF LocalsTyped
  <2> QED BY <2>1, <2>2, <2>3, <2>4
<1>4. CASE Validate(c)
  <2>1. /\ pc[c] = "validate"
        /\ Goto(c, "commit") \/ Goto(c, "raised")
        /\ copy' = copy \/ copy' = [copy EXCEPT ![c] = Empty]
        /\ UNCHANGED <<regs, req, pos, home, runtime, tracked, early, overlapped>>
    BY <1>4, ValidateStep DEF Typed
  <2>2. Typed' /\ HistoryTyped'
    <3>1. CASE copy' = copy
      BY <2>1, <3>1 DEF Typed, HistoryTyped
    <3>2. CASE copy' = [copy EXCEPT ![c] = Empty]
      BY <2>1, <3>2 DEF Typed, HistoryTyped
    <3> QED BY <2>1, <3>1, <3>2
  <2>3. /\ pc' \in [Calls \cup Apps -> Steps] /\ pc'[c] \in {"commit", "raised"}
        /\ \A y \in Calls \cup Apps : y # c => pc'[y] = pc[y]
    BY <2>1, GotoStep
  <2>4. LocalsTyped'
    BY <2>1, <2>3 DEF LocalsTyped
  <2> QED BY <2>1, <2>2, <2>3, <2>4
<1>5. CASE Commit(c)
  <2>1. /\ home[c] \in Registries /\ pc[c] = "commit"
        /\ UNCHANGED <<req, home, runtime, tracked, early, overlapped>>
    BY <1>5 DEF Commit, LocalsTyped, Typed
  <2>2. \A s \in Slots : Merge(c, s) \in Calls \cup {Nothing}
    BY DEF Merge, Typed
  <2>3. Typed' /\ HistoryTyped'
    BY <1>5, <2>1, <2>2 DEF Commit, Typed, HistoryTyped
  <2>4. /\ pos' \in [Calls \cup Apps -> 1..Len(Fields)]
        /\ pc' \in [Calls \cup Apps -> Steps] /\ pc'[c] \in {pc[c], "accepted"}
        /\ \A y \in Calls \cup Apps : y # c => pc'[y] = pc[y]
    BY <1>5, FieldStep DEF Commit
  <2>5. LocalsTyped'
    BY <2>1, <2>4 DEF LocalsTyped
  <2> QED BY <2>1, <2>3, <2>4, <2>5
<1> QED BY <1>1, <1>2, <1>3, <1>4, <1>5

\* An initialization changes nothing of a registration; it copies from the
\* extension-level registry.
LEMMA AppStep ==
  ASSUME TypeOK, NEW a \in Apps,
         BeginInit(a) \/ SeedFrom(a) \/ Publish(a) \/ Track(a) \/ Rollback(a)
           \/ Discard(a)
  PROVE  /\ TypeOK' /\ UNCHANGED <<req, home, copy>>
         /\ \A c \in Calls : pc'[c] = pc[c]
         /\ \A r \in Registries : \A s \in Slots :
              regs'[r][s] = regs[r][s] \/ regs'[r][s] = regs[Deferred][s]
<1> USE Types, TypesNext
<1>1. UNCHANGED <<req, home, copy>>
  BY DEF BeginInit, SeedFrom, Publish, Track, Rollback, Discard
<1>2. HistoryTyped'
  BY DEF BeginInit, SeedFrom, Publish, Track, Rollback, Discard, HistoryTyped
<1>3. /\ pc' \in [Calls \cup Apps -> Steps]
      /\ \A c \in Calls : pc'[c] = pc[c]
      /\ pos' \in [Calls \cup Apps -> 1..Len(Fields)]
  <2>1. CASE SeedFrom(a)
    BY <2>1, FieldStep DEF SeedFrom
  <2>2. CASE ~SeedFrom(a)
    BY <2>2, GotoStep DEF BeginInit, Publish, Track, Rollback, Discard
  <2> QED BY <2>1, <2>2
<1>4. /\ Typed'
      /\ \A r \in Registries : \A s \in Slots :
           regs'[r][s] = regs[r][s] \/ regs'[r][s] = regs[Deferred][s]
  <2>1. CASE SeedFrom(a)
    <3>1. \A s \in Slots : /\ Seed(a, s) \in Calls \cup {Nothing}
                           /\ Seed(a, s) \in {regs[a][s], regs[Deferred][s]}
      BY DEF Seed, Typed
    <3>2. regs' = [regs EXCEPT ![a] = [s \in Slots |->
                     IF s \in Current(a) THEN Seed(a, s) ELSE @[s]]]
      BY <2>1 DEF SeedFrom
    <3> QED BY <1>1, <3>1, <3>2 DEF Typed
  <2>2. CASE ~SeedFrom(a)
    BY <1>1, <2>2 DEF BeginInit, Publish, Track, Rollback, Discard, Typed
  <2> QED BY <2>1, <2>2
<1>5. LocalsTyped'
  BY <1>1, <1>3 DEF LocalsTyped
<1> QED BY <1>1, <1>2, <1>3, <1>4, <1>5

-----------------------------------------------------------------------------
(* The invariant.                                                          *)

LEMMA InvokeInv ==
  ASSUME RegistryInv, NEW c \in Calls, Invoke(c)
  PROVE  OnlyValidSeen' /\ HomeInv'
<1> USE DEF RegistryInv
<1>1. /\ pc[c] = "idle" /\ pc'[c] = "target"
      /\ \A d \in Calls : d # c => pc'[d] = pc[d]
      /\ UNCHANGED <<regs, copy, home>>
  BY GotoStep DEF Invoke
<1>2. \A d \in Calls : d # c => req'[d] = req[d]
  BY Types DEF Invoke
<1>3. OnlyValidSeen'
  BY <1>1 DEF OnlyValidSeen, Absent
<1>4. HomeInv'
  BY <1>1, <1>2 DEF HomeInv
<1> QED BY <1>3, <1>4

LEMMA TargetInv ==
  ASSUME RegistryInv, NEW c \in Calls, Target(c) \/ Resolve(c)
  PROVE  OnlyValidSeen' /\ HomeInv'
<1> USE DEF RegistryInv
<1>1. /\ pc[c] \in {"target", "resolve"} /\ copy[c] = Empty
      /\ UNCHANGED <<regs, copy, req>>
  BY DEF Target, Resolve, HomeInv
<1>2. /\ \A d \in Calls : d # c => home'[d] = home[d]
      /\ \/ /\ Goto(c, "read")
            /\ req[c].app # Nothing => home'[c] = req[c].app
         \/ Goto(c, "raised")
         \/ Goto(c, "resolve") /\ req[c].app = Nothing
  <2>1. home \in [Calls -> Registries \cup {Nothing}]
    BY Types DEF Typed
  <2>2. CASE Target(c)
    BY <2>1, <2>2 DEF Target
  <2>3. CASE Resolve(c)
    <3>1. req[c].app = Nothing
      BY <2>3 DEF Resolve, HomeInv
    <3> QED BY <2>1, <2>3, <3>1 DEF Resolve
  <2> QED BY <2>2, <2>3
<1>3. /\ \A d \in Calls : d # c => pc'[d] = pc[d]
      /\ pc'[c] \in {"read", "raised", "resolve"}
      /\ pc'[c] = "read" /\ req[c].app # Nothing => home'[c] = req[c].app
      /\ pc'[c] = "resolve" => req[c].app = Nothing
  BY <1>2, GotoStep
<1>4. OnlyValidSeen'
  BY <1>1, <1>3 DEF OnlyValidSeen, Absent
<1>6. HomeInv'
  BY <1>1, <1>2, <1>3 DEF HomeInv
<1> QED BY <1>4, <1>6

LEMMA ReadInv ==
  ASSUME RegistryInv, NEW c \in Calls, Read(c)
  PROVE  OnlyValidSeen' /\ HomeInv'
<1> USE DEF RegistryInv
<1>1. /\ pc[c] = "read" /\ home[c] \in Registries
      /\ UNCHANGED <<regs, req, home>>
  BY Types DEF Read, Typed, LocalsTyped
<1>2. pc'[c] \in {"read", "validate"} /\ \A d \in Calls : d # c => pc'[d] = pc[d]
  BY FieldStep DEF Read
<1>3. /\ \A d \in Calls : d # c => copy'[d] = copy[d]
      /\ \A s \in Slots : copy'[c][s] \in {copy[c][s], regs[home[c]][s]}
  BY Types DEF Read, Typed
<1>4. OnlyValidSeen'
  BY <1>1, <1>2, <1>3 DEF OnlyValidSeen, Absent
<1>5. HomeInv'
  BY <1>1, <1>2, <1>3 DEF HomeInv
<1> QED BY <1>4, <1>5

\* After it the call may be seen, but it is not yet.
LEMMA ValidateInv ==
  ASSUME RegistryInv, NEW c \in Calls, Validate(c)
  PROVE  OnlyValidSeen' /\ HomeInv'
<1> USE DEF RegistryInv
<1>0. /\ Goto(c, "commit") \/ Goto(c, "raised")
      /\ copy' = copy \/ copy' = [copy EXCEPT ![c] = Empty]
  BY Types, ValidateStep DEF Typed
<1>1. /\ pc[c] = "validate" /\ Absent(c)
      /\ UNCHANGED <<regs, req, home>>
  BY DEF Validate, OnlyValidSeen
<1>2. /\ pc'[c] \in {"commit", "raised"}
      /\ \A d \in Calls : d # c => pc'[d] = pc[d]
  BY <1>0, GotoStep
<1>3. /\ \A d \in Calls : d # c => copy'[d] = copy[d]
      /\ \A s \in Slots : copy'[c][s] \in {copy[c][s], Nothing}
      /\ copy'[c] \in {copy[c], Empty}
  BY <1>0, Types DEF Typed
<1>4. OnlyValidSeen'
  BY <1>1, <1>2, <1>3 DEF OnlyValidSeen, Absent
<1>5. HomeInv'
  BY <1>1, <1>2, <1>3 DEF HomeInv, Absent
<1> QED BY <1>4, <1>5

LEMMA CommitInv ==
  ASSUME RegistryInv, NEW c \in Calls, Commit(c)
  PROVE  OnlyValidSeen' /\ HomeInv'
<1> USE DEF RegistryInv
<1>1. /\ pc[c] = "commit" /\ home[c] \in Registries
      /\ UNCHANGED <<req, home>>
  BY Types DEF Commit, Typed, LocalsTyped
<1>2. pc'[c] \in {"commit", "accepted"} /\ \A d \in Calls : d # c => pc'[d] = pc[d]
  BY FieldStep DEF Commit
<1>3. /\ \A d \in Calls : d # c => copy'[d] = copy[d]
      /\ \A s \in Slots : copy'[c][s] \in {copy[c][s], Nothing}
      /\ copy'[c] \in {copy[c], Empty}
  BY Types DEF Commit, Typed
<1>4. /\ \A r \in Registries : r # home[c] => regs'[r] = regs[r]
      /\ \A s \in Slots :
           regs'[home[c]][s] \in {regs[home[c]][s], c, copy[c][s]}
  BY <1>1, Types DEF Commit, Merge, Typed
<1>5. OnlyValidSeen'
  BY <1>1, <1>2, <1>3, <1>4 DEF OnlyValidSeen, Absent
<1>6. HomeInv'
  BY <1>1, <1>2, <1>3, <1>4 DEF HomeInv
<1> QED BY <1>5, <1>6

\* The extension-level registry holds no callback of one application, so the
\* seeding takes none to another.
LEMMA AppStepInv ==
  ASSUME RegistryInv, NEW a \in Apps,
         BeginInit(a) \/ SeedFrom(a) \/ Publish(a) \/ Track(a) \/ Rollback(a)
           \/ Discard(a)
  PROVE  OnlyValidSeen' /\ HomeInv'
<1> USE DEF RegistryInv
<1>1. /\ UNCHANGED <<req, home, copy>>
      /\ \A c \in Calls : pc'[c] = pc[c]
      /\ \A r \in Registries : \A s \in Slots :
           regs'[r][s] = regs[r][s] \/ regs'[r][s] = regs[Deferred][s]
  BY AppStep
<1>2. OnlyValidSeen'
  BY <1>1 DEF OnlyValidSeen, Absent
<1>3. ASSUME NEW c \in Calls, pc[c] \in {"commit", "accepted"},
             req[c].app # Nothing, NEW s \in Slots
      PROVE  regs[Deferred][s] # c
  <2>1. req[c].app \in Apps
    BY <1>3, RequestType, Types DEF LocalsTyped
  <2> QED BY <1>3, <2>1 DEF HomeInv
<1>4. HomeInv'
  BY <1>1, <1>3 DEF HomeInv
<1> QED BY <1>2, <1>4

-----------------------------------------------------------------------------
LEMMA NextInv == RegistryInv /\ [Next]_vars => RegistryInv'
<1> SUFFICES ASSUME RegistryInv, [Next]_vars PROVE RegistryInv'
  OBVIOUS
<1>1. ASSUME NEW c \in Calls,
             Invoke(c) \/ Target(c) \/ Resolve(c) \/ Read(c) \/ Validate(c)
               \/ Commit(c)
      PROVE  RegistryInv'
  <2>1. TypeOK'
    BY <1>1, CallType DEF RegistryInv
  <2>2. OnlyValidSeen' /\ HomeInv'
    BY <1>1, InvokeInv, TargetInv, ReadInv, ValidateInv, CommitInv
  <2> QED BY <2>1, <2>2 DEF RegistryInv
<1>2. ASSUME NEW a \in Apps,
             BeginInit(a) \/ SeedFrom(a) \/ Publish(a) \/ Track(a)
               \/ Rollback(a) \/ Discard(a)
      PROVE  RegistryInv'
  BY <1>2, AppStep, AppStepInv DEF RegistryInv
<1>3. CASE UNCHANGED vars
  BY <1>3 DEF vars, RegistryInv, TypeOK, OnlyValidSeen, Absent, HomeInv
<1> QED BY <1>1, <1>2, <1>3 DEF Next, Ended

\* The inductive invariant holds in every state.
LEMMA Inductive == Spec => []RegistryInv
<1> QED BY InitInv, NextInv, PTL DEF Spec

\* Every variable always has its type, and a call that works on a registry has
\* one (_registry_for raises instead of returning none).
THEOREM TypeCorrect == Spec => []TypeOK
<1>1. RegistryInv => TypeOK
  BY DEF RegistryInv
<1> QED BY <1>1, Inductive, PTL

\* However many registrations overlap, one that raised has changed nothing and
\* will not be written back by another (register_callbacks validates the whole
\* batch first).
THEOREM RejectedLeaves == Spec => []RejectedLeavesNothing
<1>1. RegistryInv => RejectedLeavesNothing
  BY DEF RegistryInv, OnlyValidSeen, Absent, RejectedLeavesNothing
<1> QED BY <1>1, Inductive, PTL

\* A callback registered for one application is never in the registry of
\* another one or among the defaults (_get_runtime, seed_from).
THEOREM Isolation == Spec => []AppIsolation
<1>1. RegistryInv => AppIsolation
  BY DEF RegistryInv, OnlyValidSeen, Absent, HomeInv, AppIsolation
<1> QED BY <1>1, Inductive, PTL

-----------------------------------------------------------------------------
(* What a registration that overlapped no other can rely on, although the  *)
(* calls after it may overlap one another.                                 *)
(*                                                                         *)
(* While it is under way nobody else reads or writes a registry, so all    *)
(* later copies hold its callbacks, and a later commit puts in their place *)
(* what it has copied or, if it was asked to replace, its own.             *)

\* The slots of the fields before the n-th one.
Before(n) == {s \in Slots : \E i \in 1..Len(Fields) : i < n /\ s \in SlotsOf(Fields[i])}

\* The slots that the call d has read, that c has written, that the
\* initialization of a has seeded.
Copied(d) == CASE pc[d] = "read" -> Before(pos[d])
               [] pc[d] \in {"validate", "commit"} -> Slots
               [] OTHER -> {}

Written(c) == CASE pc[c] = "commit" -> Before(pos[c])
                [] pc[c] = "accepted" -> Slots
                [] OTHER -> {}

Seeded(a) == CASE pc[a] = "seed" -> Before(pos[a])
               [] pc[a] = "idle" -> {}
               [] OTHER -> Slots

\* Only the loops over the fields have a position.
PosInv ==
  /\ \A c \in Calls : pc[c] \notin {"read", "commit"} => pos[c] = 1
  /\ \A a \in Apps : pc[a] # "seed" => pos[a] = 1

\* A registry is used by calls only after it was seeded.
SeededFirst ==
  /\ \A a \in runtime : pc[a] \notin {"idle", "seed", "publish"}
  /\ \A c \in Calls :
       pc[c] \in {"read", "validate", "commit", "accepted"} /\ home[c] \in Apps
         => pc[home[c]] \notin {"idle", "seed", "publish"}

\* A call that overlapped no other is the only one in progress.
Alone ==
  \A c \in Calls \ overlapped : \A d \in Calls :
    pc[c] \notin Rest /\ pc[d] \notin Rest => c = d

\* What init_app found accepted, and what was found valid.
Remembered ==
  /\ \A a \in Apps : /\ pc[a] = "idle" => early[a] = {}
                     /\ \A c \in early[a] : pc[c] = "accepted"
  /\ \A d \in Calls : pc[d] = "commit" => req[d].replace \/ ~Duplicate(d)

\* v is the callback of c for the slot s, or one that replaced it on request;
\* rq are the arguments of the calls.
Keeps(rq, c, s, v) ==
  v = c \/ (v # Nothing /\ rq[v].replace /\ s \in rq[v].batch)

\* A callback of c that was written is kept, in the registry and in the copies
\* of later calls.
KeptInRegistry(c) ==
  pc[c] \in {"commit", "accepted"} =>
    \A s \in req[c].batch : s \in Written(c) => Keeps(req, c, s, regs[home[c]][s])

KeptInCopies(c) ==
  pc[c] = "accepted" =>
    \A s \in req[c].batch : \A d \in Calls :
      home[d] = home[c] /\ s \in Copied(d) => Keeps(req, c, s, copy[d][s])

ServedInv == \A c \in Calls \ overlapped : KeptInRegistry(c) /\ KeptInCopies(c)

\* Of two calls for one slot, the later has asked to replace.
OneReplaces ==
  \A c, d \in Calls \ overlapped :
    /\ c # d /\ pc[c] = "accepted" /\ pc[d] \in {"commit", "accepted"}
    /\ home[c] = home[d] /\ req[c].batch \cap req[d].batch # {}
    => req[c].replace \/ req[d].replace

\* What was seeded stays: no copy of the new registry is without it.
SeedInv ==
  \A a \in Apps : \A c \in early[a] \ overlapped : home[c] = Deferred =>
    \A s \in req[c].batch : s \in Seeded(a) =>
      /\ regs[a][s] # Nothing
      /\ \A d \in Calls : home[d] = a /\ s \in Copied(d) => copy[d][s] # Nothing

AloneInv == /\ PosInv /\ SeededFirst /\ Alone /\ Remembered
            /\ ServedInv /\ OneReplaces /\ SeedInv

ServedIndInv == RegistryInv /\ AloneInv

-----------------------------------------------------------------------------
(* The fields.                                                             *)

USE Places, EmptyType, StepNames, FieldCount

LEMMA BeforeNext ==
  /\ Before(1) = {}
  /\ \A n \in 1..3 : Before(n + 1) = Before(n) \cup SlotsOf(Fields[n])
  /\ Slots = Before(4) \cup SlotsOf(Fields[4])
<1>1. /\ SlotsOf(Fields[1]) = Names /\ SlotsOf(Fields[2]) = {"idleBeat"}
      /\ SlotsOf(Fields[3]) = {"kill"} /\ SlotsOf(Fields[4]) = {"log"}
  BY DEF SlotsOf, Fields
<1>2. \A n \in 1..4 : SlotsOf(Fields[n]) \subseteq Slots
  BY <1>1 DEF Slots, Singles
<1>3. Before(1) = {}
  BY DEF Before
<1>4. \A n \in 1..3 : Before(n + 1) = Before(n) \cup SlotsOf(Fields[n])
  BY <1>2 DEF Before
<1>5. Slots = Before(4) \cup SlotsOf(Fields[4])
  <2>1. \A s \in Slots : \E n \in 1..4 : s \in SlotsOf(Fields[n])
    BY <1>1 DEF Slots, Singles
  <2>2. \A s \in Slots : s \in Before(4) \/ s \in SlotsOf(Fields[4])
    BY <2>1 DEF Before
  <2> QED BY <1>2, <2>2 DEF Before
<1> QED BY <1>3, <1>4, <1>5

LEMMA BeforeDisjoint ==
  \A n \in 1..4 : Before(n) \cap SlotsOf(Fields[n]) = {}
<1>1. /\ SlotsOf(Fields[1]) = Names /\ SlotsOf(Fields[2]) = {"idleBeat"}
      /\ SlotsOf(Fields[3]) = {"kill"} /\ SlotsOf(Fields[4]) = {"log"}
  BY DEF SlotsOf, Fields
<1>2. \A m, n \in 1..4 : m < n => SlotsOf(Fields[m]) \cap SlotsOf(Fields[n]) = {}
  BY <1>1, NamesAssumption DEF Singles
<1> QED BY <1>2 DEF Before

\* Where a loop over the fields goes.
LEMMA FieldMove ==
  ASSUME TypeOK, NEW x \in Calls \cup Apps, NEW p \in Steps, NextField(x, p)
  PROVE  /\ \A y \in Calls \cup Apps : y # x => pc'[y] = pc[y] /\ pos'[y] = pos[y]
         /\ \/ /\ pos[x] \in 1..3 /\ pos'[x] = pos[x] + 1 /\ pc'[x] = pc[x]
               /\ Before(pos'[x]) = Before(pos[x]) \cup Current(x)
            \/ /\ pos[x] = 4 /\ pos'[x] = 1 /\ pc'[x] = p
               /\ Slots = Before(pos[x]) \cup Current(x)
<1>1. pos \in [Calls \cup Apps -> 1..4] /\ pc \in [Calls \cup Apps -> Steps]
  BY DEF TypeOK
<1>2. CASE pos[x] < 4
  <2>1. pos' = [pos EXCEPT ![x] = pos[x] + 1] /\ pc' = pc /\ pos[x] \in 1..3
    BY <1>1, <1>2 DEF NextField
  <2>2. Before(pos'[x]) = Before(pos[x]) \cup Current(x)
    BY <1>1, <2>1, BeforeNext DEF Current
  <2> QED BY <1>1, <2>1, <2>2
<1>3. CASE ~(pos[x] < 4)
  <2>1. pos' = [pos EXCEPT ![x] = 1] /\ Goto(x, p) /\ pos[x] = 4
    BY <1>1, <1>3 DEF NextField
  <2>2. Slots = Before(pos[x]) \cup Current(x)
    BY <2>1, BeforeNext DEF Current
  <2> QED BY <1>1, <2>1, <2>2, GotoStep
<1> QED BY <1>2, <1>3

-----------------------------------------------------------------------------
(* The invariant, step by step.                                            *)

LEMMA InitServed == Init => AloneInv
<1> SUFFICES ASSUME Init PROVE AloneInv
  OBVIOUS
<1>1. PosInv /\ SeededFirst /\ Alone
  BY DEF Init, PosInv, SeededFirst, Alone, Rest
<1>2. Remembered /\ ServedInv
  BY DEF Init, Remembered, ServedInv, KeptInRegistry, KeptInCopies
<1>3. OneReplaces /\ SeedInv
  BY DEF Init, OneReplaces, SeedInv
<1> QED BY <1>1, <1>2, <1>3 DEF AloneInv

\* A callback that is seen was registered by a call that is done with its
\* arguments.
LEMMA KeepsStays ==
  ASSUME OnlyValidSeen, NEW c \in Calls, NEW s \in Slots, NEW v,
         Keeps(req, c, s, v), v \in Calls \cup {Nothing},
         \/ \E r \in Registries : v = regs[r][s]
         \/ \E d \in Calls : v = copy[d][s],
         \A e \in Calls : pc[e] \in {"commit", "accepted"} => req'[e] = req[e]
  PROVE  Keeps(req', c, s, v)
<1>1. CASE v = c
  BY <1>1 DEF Keeps
<1>2. CASE v # c
  <2>1. v \in Calls /\ ~Absent(v)
    BY <1>2 DEF Keeps, Absent
  <2>2. req'[v] = req[v]
    BY <2>1 DEF OnlyValidSeen
  <2> QED BY <1>2, <2>1, <2>2 DEF Keeps
<1> QED BY <1>1, <1>2

LEMMA InvokeServed ==
  ASSUME ServedIndInv, NEW c \in Calls, Invoke(c)
  PROVE  AloneInv'
<1> USE DEF ServedIndInv, RegistryInv, AloneInv
<1> DEFINE others == {d \in Calls : pc[d] \notin Rest}
<1>1. /\ pc[c] = "idle" /\ pc'[c] = "target"
      /\ \A x \in Calls \cup Apps : x # c => pc'[x] = pc[x]
      /\ UNCHANGED <<regs, pos, home, copy, runtime, early>>
      /\ overlapped' = IF others = {} THEN overlapped
                       ELSE overlapped \cup others \cup {c}
  BY GotoStep DEF Invoke
<1>2. \A d \in Calls : d # c => req'[d] = req[d]
  BY Types DEF Invoke
<1>3. overlapped \subseteq overlapped'
  BY <1>1
<1>4. /\ \A d \in Calls : Copied(d)' = Copied(d) /\ Written(d)' = Written(d)
      /\ \A a \in Apps : Seeded(a)' = Seeded(a)
  BY <1>1 DEF Copied, Written, Seeded, Before
<1>5. PosInv' /\ SeededFirst'
  <2>1. PosInv'
    BY <1>1 DEF PosInv
  <2>2. SeededFirst'
    BY <1>1, Types DEF SeededFirst, HistoryTyped
  <2> QED BY <2>1, <2>2
<1>6. Alone'
  <2> SUFFICES ASSUME NEW e \in Calls, e \notin overlapped', NEW d \in Calls,
                      pc'[e] \notin Rest, pc'[d] \notin Rest
               PROVE  e = d
    BY DEF Alone
  <2>1. CASE others = {}
    BY <1>1, <2>1
  <2>2. CASE others # {}
    BY <1>1, <2>2
  <2> QED BY <2>1, <2>2
<1>7. Remembered'
  <2>1. \A a \in Apps : /\ pc'[a] = "idle" => early'[a] = {}
                        /\ \A e \in early'[a] : pc'[e] = "accepted"
    BY <1>1, Types DEF Remembered, HistoryTyped
  <2>2. \A d \in Calls : pc'[d] = "commit" => req'[d].replace \/ ~Duplicate(d)'
    BY <1>1, <1>2 DEF Remembered, Duplicate
  <2> QED BY <2>1, <2>2 DEF Remembered
<1>8. ServedInv'
  <2> SUFFICES ASSUME NEW e \in Calls, e \notin overlapped',
                      pc'[e] \in {"commit", "accepted"}, NEW s \in req'[e].batch
               PROVE  /\ s \in Written(e)' => Keeps(req', e, s, regs'[home'[e]][s])
                      /\ pc'[e] = "accepted" => \A d \in Calls :
                           home'[d] = home'[e] /\ s \in Copied(d)'
                             => Keeps(req', e, s, copy'[d][s])
    BY DEF ServedInv, KeptInRegistry, KeptInCopies
  <2>1. /\ e \notin overlapped /\ pc[e] = pc'[e] /\ req'[e] = req[e]
        /\ home[e] \in Registries /\ s \in Slots
    <3>1. e # c /\ pc[e] = pc'[e] /\ req'[e] = req[e]
      BY <1>1, <1>2
    <3>2. home[e] \in Registries /\ req[e] \in Requests
      BY <3>1, Types DEF LocalsTyped, Typed
    <3> QED BY <1>3, <3>1, <3>2, RequestType, BatchesAssumption
  <2>2. \A d \in Calls : pc[d] \in {"commit", "accepted"} => req'[d] = req[d]
    BY <1>1, <1>2
  <2>3. ASSUME s \in Written(e)' PROVE Keeps(req', e, s, regs'[home'[e]][s])
    <3>1. Keeps(req, e, s, regs[home[e]][s])
      BY <1>4, <2>1, <2>3 DEF ServedInv, KeptInRegistry
    <3>2. regs[home[e]][s] \in Calls \cup {Nothing}
      BY <2>1, Types DEF Typed
    <3> QED BY <1>1, <2>1, <2>2, <3>1, <3>2, KeepsStays
  <2>4. ASSUME pc'[e] = "accepted", NEW d \in Calls, home'[d] = home'[e],
               s \in Copied(d)'
        PROVE  Keeps(req', e, s, copy'[d][s])
    <3>1. Keeps(req, e, s, copy[d][s])
      BY <1>1, <1>4, <2>1, <2>4 DEF ServedInv, KeptInCopies
    <3>2. copy[d][s] \in Calls \cup {Nothing}
      BY <2>1, Types DEF Typed
    <3> QED BY <1>1, <2>1, <2>2, <3>1, <3>2, KeepsStays
  <2> QED BY <2>3, <2>4
<1>9. OneReplaces'
  BY <1>1, <1>2, <1>3 DEF OneReplaces
<1>10. SeedInv'
  <2> SUFFICES ASSUME NEW a \in Apps, NEW e \in early'[a], e \notin overlapped',
                      home'[e] = Deferred, NEW s \in req'[e].batch, s \in Seeded(a)'
               PROVE  /\ regs'[a][s] # Nothing
                      /\ \A d \in Calls : home'[d] = a /\ s \in Copied(d)'
                           => copy'[d][s] # Nothing
    BY DEF SeedInv
  <2>1. e \in Calls /\ pc[e] = "accepted"
    BY <1>1, Types DEF Remembered, HistoryTyped
  <2>2. e # c /\ req'[e] = req[e] /\ e \notin overlapped /\ e \in early[a]
    BY <1>1, <1>2, <1>3, <2>1
  <2> QED BY <1>1, <1>4, <2>2 DEF SeedInv
<1> QED BY <1>5, <1>6, <1>7, <1>8, <1>9, <1>10

\* What a step of a call in progress leaves alone.
LEMMA CallFrame ==
  ASSUME ServedIndInv, NEW c \in Calls, pc[c] \notin Rest,
         UNCHANGED <<req, runtime, early, overlapped>>,
         \A x \in Calls \cup Apps : x # c => pc'[x] = pc[x]
  PROVE  /\ Alone'
         /\ \A a \in Apps : /\ pc'[a] = "idle" => early'[a] = {}
                            /\ \A e \in early'[a] : pc'[e] = "accepted"
         /\ \A a \in Apps : \A e \in early[a] :
              e \in Calls /\ e # c /\ pc[e] = "accepted"
         /\ \A e \in Calls : pc[e] \in {"commit", "accepted"} =>
              home[e] \in Registries /\ req[e].batch \subseteq Slots
<1> USE DEF ServedIndInv, RegistryInv, AloneInv
<1>1. \A a \in Apps : \A e \in early[a] : e \in Calls /\ pc[e] = "accepted"
  BY Types DEF Remembered, HistoryTyped
<1>2. c \notin overlapped => \A d \in Calls : d # c => pc[d] \in Rest
  BY DEF Alone
<1>3. Alone'
  BY DEF Alone
<1>4. \A a \in Apps : /\ pc'[a] = "idle" => early'[a] = {}
                      /\ \A e \in early'[a] : pc'[e] = "accepted"
  BY <1>1 DEF Remembered, Rest
<1>5. ASSUME NEW e \in Calls, pc[e] \in {"commit", "accepted"}
      PROVE  home[e] \in Registries /\ req[e].batch \subseteq Slots
  BY <1>5, Types, RequestType, BatchesAssumption DEF LocalsTyped, Typed
<1> QED BY <1>1, <1>3, <1>4, <1>5 DEF Rest

LEMMA TargetServed ==
  ASSUME ServedIndInv, NEW c \in Calls, Target(c) \/ Resolve(c)
  PROVE  AloneInv'
<1> USE DEF ServedIndInv, RegistryInv, AloneInv
<1>1. /\ pc[c] \in {"target", "resolve"}
      /\ UNCHANGED <<regs, req, pos, copy, runtime, tracked, early, overlapped>>
  BY DEF Target, Resolve
<1>2. /\ \A d \in Calls : d # c => home'[d] = home[d]
      /\ \/ Goto(c, "read") /\ home'[c] \in runtime \cup {Deferred}
         \/ Goto(c, "raised")
         \/ Goto(c, "resolve")
  <2>1. home \in [Calls -> Registries \cup {Nothing}] /\ runtime \subseteq Apps
    BY Types DEF Typed, HistoryTyped
  <2>2. CASE Target(c)
    BY <2>1, <2>2 DEF Target
  <2>3. CASE Resolve(c)
    BY <2>1, <2>3 DEF Resolve
  <2> QED BY <2>2, <2>3
<1>3. /\ \A x \in Calls \cup Apps : x # c => pc'[x] = pc[x]
      /\ pc'[c] \in {"read", "raised", "resolve"}
      /\ pc'[c] = "read" => home'[c] \in runtime \cup {Deferred}
  BY <1>2, GotoStep
<1>4. /\ \A d \in Calls : d # c => Copied(d)' = Copied(d) /\ Written(d)' = Written(d)
      /\ \A a \in Apps : Seeded(a)' = Seeded(a)
  BY <1>1, <1>3 DEF Copied, Written, Seeded, Before
<1>5. pos[c] = 1 /\ Copied(c)' = {}
  <2>1. pos[c] = 1
    BY <1>1 DEF PosInv
  <2>2. Copied(c)' = IF pc'[c] = "read" THEN Before(1) ELSE {}
    BY <1>1, <1>3, <2>1 DEF Copied, Before
  <2> QED BY <2>1, <2>2, BeforeNext
<1>6. PosInv' /\ SeededFirst'
  <2>1. PosInv'
    BY <1>1, <1>3, <1>5 DEF PosInv
  <2>2. SeededFirst'
    BY <1>1, <1>2, <1>3, Types DEF SeededFirst, HistoryTyped
  <2> QED BY <2>1, <2>2
<1>7. pc[c] \notin Rest
  BY <1>1 DEF Rest
<1>8. Alone' /\ Remembered'
  <2>1. \A d \in Calls : pc'[d] = "commit" => req'[d].replace \/ ~Duplicate(d)'
    BY <1>1, <1>3 DEF Remembered, Duplicate
  <2> QED BY <1>1, <1>3, <1>7, <2>1, CallFrame DEF Remembered
<1>9. ServedInv'
  BY <1>1, <1>2, <1>3, <1>4, <1>5 DEF ServedInv, KeptInRegistry, KeptInCopies, Keeps
<1>10. OneReplaces'
  BY <1>1, <1>2, <1>3 DEF OneReplaces
<1>11. SeedInv'
  BY <1>1, <1>2, <1>3, <1>4, <1>5, <1>7, CallFrame DEF SeedInv
<1> QED BY <1>6, <1>8, <1>9, <1>10, <1>11

LEMMA ReadServed ==
  ASSUME ServedIndInv, NEW c \in Calls, Read(c)
  PROVE  AloneInv'
<1> USE DEF ServedIndInv, RegistryInv, AloneInv
<1>1. /\ pc[c] = "read" /\ home[c] \in Registries
      /\ UNCHANGED <<regs, req, home, runtime, tracked, early, overlapped>>
  BY Types DEF Read, Typed, LocalsTyped
<1>2. /\ \A x \in Calls \cup Apps : x # c => pc'[x] = pc[x] /\ pos'[x] = pos[x]
      /\ \/ /\ pc'[c] = "read" /\ Before(pos'[c]) = Before(pos[c]) \cup Current(c)
         \/ /\ pc'[c] = "validate" /\ pos'[c] = 1
            /\ Slots = Before(pos[c]) \cup Current(c)
  BY <1>1, FieldMove DEF Read
<1>3. /\ \A d \in Calls : d # c => copy'[d] = copy[d]
      /\ \A s \in Slots : copy'[c][s] = IF s \in Current(c) THEN regs[home[c]][s]
                                        ELSE copy[c][s]
  BY Types DEF Read, Typed
<1>4. /\ \A d \in Calls : d # c => Copied(d)' = Copied(d)
      /\ \A d \in Calls : Written(d)' = Written(d)
      /\ \A a \in Apps : Seeded(a)' = Seeded(a)
  BY <1>1, <1>2 DEF Copied, Written, Seeded, Before
<1>5. Copied(c)' = Copied(c) \cup Current(c)
  <2>1. Copied(c) = Before(pos[c])
    BY <1>1 DEF Copied
  <2>2. Copied(c)' = IF pc'[c] = "read" THEN Before(pos'[c]) ELSE Slots
    BY <1>2 DEF Copied, Before
  <2> QED BY <1>2, <2>1, <2>2
<1>6. PosInv' /\ SeededFirst'
  <2>1. PosInv'
    BY <1>1, <1>2 DEF PosInv
  <2>2. SeededFirst'
    BY <1>1, <1>2, Types DEF SeededFirst, HistoryTyped
  <2> QED BY <2>1, <2>2
<1>7. pc[c] \notin Rest
  BY <1>1 DEF Rest
<1>8. Alone' /\ Remembered'
  <2>1. \A d \in Calls : pc'[d] = "commit" => req'[d].replace \/ ~Duplicate(d)'
    BY <1>1, <1>2, <1>3 DEF Remembered, Duplicate
  <2> QED BY <1>1, <1>2, <1>7, <2>1, CallFrame DEF Remembered
<1>9. ServedInv'
  <2> SUFFICES ASSUME NEW e \in Calls, e \notin overlapped,
                      pc'[e] \in {"commit", "accepted"}, NEW s \in req[e].batch
               PROVE  /\ s \in Written(e)' => Keeps(req, e, s, regs[home[e]][s])
                      /\ pc'[e] = "accepted" => \A d \in Calls :
                           home[d] = home[e] /\ s \in Copied(d)'
                             => Keeps(req, e, s, copy'[d][s])
    BY <1>1 DEF ServedInv, KeptInRegistry, KeptInCopies
  <2>1. e # c /\ pc'[e] = pc[e] /\ s \in Slots
    BY <1>1, <1>2, <1>7, CallFrame
  <2>2. s \in Written(e)' => Keeps(req, e, s, regs[home[e]][s])
    BY <1>4, <2>1 DEF ServedInv, KeptInRegistry
  <2>3. ASSUME pc'[e] = "accepted", NEW d \in Calls, home[d] = home[e],
               s \in Copied(d)'
        PROVE  Keeps(req, e, s, copy'[d][s])
    <3>1. Keeps(req, e, s, regs[home[e]][s])
      BY <2>1, <2>3 DEF ServedInv, KeptInRegistry, Written
    <3>2. s \in Copied(d) => Keeps(req, e, s, copy[d][s])
      BY <2>1, <2>3 DEF ServedInv, KeptInCopies
    <3> QED BY <1>3, <1>4, <1>5, <2>1, <2>3, <3>1, <3>2
  <2> QED BY <2>2, <2>3
<1>10. OneReplaces'
  BY <1>1, <1>2 DEF OneReplaces
<1>11. SeedInv'
  BY <1>1, <1>2, <1>3, <1>4, <1>5, <1>7, CallFrame DEF SeedInv
<1> QED BY <1>6, <1>8, <1>9, <1>10, <1>11

\* Without replace a batch is found valid only if its slots are free.
LEMMA ValidateServed ==
  ASSUME ServedIndInv, NEW c \in Calls, Validate(c)
  PROVE  AloneInv'
<1> USE DEF ServedIndInv, RegistryInv, AloneInv
<1>1. /\ pc[c] = "validate"
      /\ UNCHANGED <<regs, req, pos, home, runtime, tracked, early, overlapped>>
  BY DEF Validate
<1>2. /\ \A x \in Calls \cup Apps : x # c => pc'[x] = pc[x]
      /\ \A d \in Calls : d # c => copy'[d] = copy[d]
      /\ \/ /\ pc'[c] = "commit" /\ copy'[c] = copy[c]
            /\ req[c].replace \/ ~Duplicate(c)
         \/ pc'[c] = "raised"
  <2>1. copy \in [Calls -> [Slots -> Calls \cup {Nothing}]]
    BY Types DEF Typed
  <2>2. PICK bad \in BOOLEAN :
          Outcome(c, ~bad /\ (req[c].replace \/ ~Duplicate(c)))
    BY DEF Validate
  <2>3. CASE ~bad /\ (req[c].replace \/ ~Duplicate(c))
    <3>1. Goto(c, "commit") /\ copy' = copy
      BY <2>1, <2>2, <2>3 DEF Outcome
    <3> QED BY <2>3, <3>1, GotoStep
  <2>4. CASE ~(~bad /\ (req[c].replace \/ ~Duplicate(c)))
    <3>1. Goto(c, "raised") /\ copy' = [copy EXCEPT ![c] = Empty]
      BY <2>1, <2>2, <2>4 DEF Outcome
    <3> QED BY <2>1, <3>1, GotoStep
  <2> QED BY <2>3, <2>4
<1>3. /\ \A d \in Calls : d # c => Copied(d)' = Copied(d) /\ Written(d)' = Written(d)
      /\ \A a \in Apps : Seeded(a)' = Seeded(a)
  BY <1>1, <1>2 DEF Copied, Written, Seeded, Before
<1>4. pos[c] = 1 /\ Written(c)' = {} /\ Copied(c) = Slots
  <2>1. pos[c] = 1
    BY <1>1 DEF PosInv
  <2>2. Written(c)' = IF pc'[c] = "commit" THEN Before(1) ELSE {}
    BY <1>1, <1>2, <2>1 DEF Written, Before
  <2> QED BY <1>1, <2>1, <2>2, BeforeNext DEF Copied
<1>5. Copied(c)' = {} \/ (Copied(c)' = Slots /\ copy'[c] = copy[c])
  BY <1>2 DEF Copied
<1>6. PosInv' /\ SeededFirst'
  <2>1. PosInv'
    BY <1>1, <1>2, <1>4 DEF PosInv
  <2>2. SeededFirst'
    BY <1>1, <1>2, Types DEF SeededFirst, HistoryTyped
  <2> QED BY <2>1, <2>2
<1>7. pc[c] \notin Rest
  BY <1>1 DEF Rest
<1>8. Alone' /\ Remembered'
  <2>1. \A d \in Calls : pc'[d] = "commit" => req'[d].replace \/ ~Duplicate(d)'
    BY <1>1, <1>2 DEF Remembered, Duplicate
  <2> QED BY <1>1, <1>2, <1>7, <2>1, CallFrame DEF Remembered
<1>9. ServedInv'
  <2> SUFFICES ASSUME NEW e \in Calls, e \notin overlapped,
                      pc'[e] \in {"commit", "accepted"}, NEW s \in req[e].batch
               PROVE  /\ s \in Written(e)' => Keeps(req, e, s, regs[home[e]][s])
                      /\ pc'[e] = "accepted" => \A d \in Calls :
                           home[d] = home[e] /\ s \in Copied(d)'
                             => Keeps(req, e, s, copy'[d][s])
    BY <1>1 DEF ServedInv, KeptInRegistry, KeptInCopies
  <2>1. CASE e = c
    BY <1>2, <1>4, <2>1
  <2>2. CASE e # c
    <3>1. pc'[e] = pc[e] /\ s \in Slots
      BY <1>1, <1>2, <1>7, <2>2, CallFrame
    <3> QED BY <1>2, <1>3, <1>4, <1>5, <2>2, <3>1
            DEF ServedInv, KeptInRegistry, KeptInCopies
  <2> QED BY <2>1, <2>2
<1>10. OneReplaces'
  <2> SUFFICES ASSUME NEW e \in Calls, NEW d \in Calls, e \notin overlapped,
                      d \notin overlapped, e # d, pc'[e] = "accepted",
                      pc'[d] \in {"commit", "accepted"}, home[e] = home[d],
                      NEW s \in req[e].batch, s \in req[d].batch
               PROVE  req[e].replace \/ req[d].replace
    BY <1>1 DEF OneReplaces
  <2>1. e # c /\ pc[e] = "accepted" /\ s \in Slots
    BY <1>1, <1>2, <1>7, CallFrame
  <2>2. CASE d = c
    <3>1. Keeps(req, e, s, copy[c][s])
      BY <1>4, <2>1, <2>2 DEF ServedInv, KeptInCopies
    <3>2. Duplicate(c)
      BY <2>2, <3>1 DEF Keeps, Duplicate
    <3> QED BY <1>2, <2>2, <3>2
  <2>3. CASE d # c
    BY <1>2, <2>1, <2>3 DEF OneReplaces
  <2> QED BY <2>2, <2>3
<1>11. SeedInv'
  <2> SUFFICES ASSUME NEW a \in Apps, NEW e \in early[a], e \notin overlapped,
                      home[e] = Deferred, NEW s \in req[e].batch, s \in Seeded(a)
               PROVE  /\ regs[a][s] # Nothing
                      /\ \A d \in Calls : home[d] = a /\ s \in Copied(d)'
                           => copy'[d][s] # Nothing
    BY <1>1, <1>3 DEF SeedInv
  <2>1. s \in Slots
    BY <1>1, <1>2, <1>7, CallFrame
  <2>2. regs[a][s] # Nothing /\ \A d \in Calls :
          home[d] = a /\ s \in Copied(d) => copy[d][s] # Nothing
    BY DEF SeedInv
  <2> QED BY <1>2, <1>3, <1>4, <1>5, <2>1, <2>2
<1> QED BY <1>6, <1>8, <1>9, <1>10, <1>11

\* A commit puts its own callback in the place of another only if it was asked
\* to replace, and otherwise writes what it has copied.
LEMMA MergeKeeps ==
  ASSUME ServedIndInv, NEW c \in Calls, pc[c] = "commit",
         NEW e \in Calls, NEW s \in Slots, Keeps(req, e, s, copy[c][s])
  PROVE  Keeps(req, e, s, Merge(c, s))
<1>1. CASE s \in req[c].batch
  <2>1. Duplicate(c)
    BY <1>1 DEF Keeps, Duplicate
  <2>2. req[c].replace
    BY <2>1 DEF ServedIndInv, AloneInv, Remembered
  <2> QED BY <1>1, <2>2 DEF Merge, Keeps
<1>2. CASE s \notin req[c].batch
  BY <1>2 DEF Merge
<1> QED BY <1>1, <1>2

LEMMA CommitServed ==
  ASSUME ServedIndInv, NEW c \in Calls, Commit(c)
  PROVE  AloneInv'
<1> USE DEF ServedIndInv, RegistryInv, AloneInv
<1>1. /\ pc[c] = "commit" /\ home[c] \in Registries /\ req[c].batch \subseteq Slots
      /\ UNCHANGED <<req, home, runtime, tracked, early, overlapped>>
  BY Types, RequestType, BatchesAssumption DEF Commit, Typed, LocalsTyped
<1>2. /\ \A x \in Calls \cup Apps : x # c => pc'[x] = pc[x] /\ pos'[x] = pos[x]
      /\ \/ /\ pos[c] # 4 /\ pc'[c] = "commit"
            /\ Before(pos'[c]) = Before(pos[c]) \cup Current(c)
         \/ /\ pc'[c] = "accepted" /\ pos'[c] = 1
            /\ Slots = Before(pos[c]) \cup Current(c)
  BY <1>1, FieldMove DEF Commit
<1>3. /\ \A d \in Calls : d # c => copy'[d] = copy[d]
      /\ pos[c] # 4 => copy'[c] = copy[c]
  BY Types DEF Commit, Typed
<1>4. /\ \A r \in Registries : r # home[c] => regs'[r] = regs[r]
      /\ \A s \in Slots : regs'[home[c]][s] = IF s \in Current(c) THEN Merge(c, s)
                                              ELSE regs[home[c]][s]
  BY <1>1, Types DEF Commit, Typed
<1>5. /\ \A d \in Calls : d # c => Copied(d)' = Copied(d) /\ Written(d)' = Written(d)
      /\ \A a \in Apps : Seeded(a)' = Seeded(a)
  BY <1>1, <1>2 DEF Copied, Written, Seeded, Before
<1>6. /\ Written(c)' = Written(c) \cup Current(c)
      /\ Copied(c) = Slots
      /\ Copied(c)' = {} \/ (Copied(c)' = Slots /\ copy'[c] = copy[c])
  <2>1. Written(c) = Before(pos[c]) /\ Copied(c) = Slots
    BY <1>1 DEF Written, Copied
  <2>2. Written(c)' = IF pc'[c] = "commit" THEN Before(pos'[c]) ELSE Slots
    BY <1>2 DEF Written, Before
  <2>3. Copied(c)' = IF pc'[c] = "commit" THEN Slots ELSE {}
    BY <1>2 DEF Copied
  <2> QED BY <1>2, <1>3, <2>1, <2>2, <2>3
<1>7. PosInv' /\ SeededFirst'
  <2>1. PosInv'
    BY <1>1, <1>2 DEF PosInv
  <2>2. SeededFirst'
    BY <1>1, <1>2, Types DEF SeededFirst, HistoryTyped
  <2> QED BY <2>1, <2>2
<1>8. pc[c] \notin Rest
  BY <1>1 DEF Rest
<1>9. Alone' /\ Remembered'
  <2>1. \A d \in Calls : pc'[d] = "commit" => req'[d].replace \/ ~Duplicate(d)'
    <3> SUFFICES ASSUME NEW d \in Calls, pc'[d] = "commit"
                 PROVE  req[d].replace \/ ~Duplicate(d)'
      BY <1>1
    <3>1. pc[d] = "commit" /\ copy'[d] = copy[d]
      BY <1>1, <1>2, <1>3
    <3> QED BY <1>1, <3>1 DEF Remembered, Duplicate
  <2> QED BY <1>1, <1>2, <1>8, <2>1, CallFrame DEF Remembered
<1>10. ASSUME NEW e \in Calls, e \notin overlapped, e # c,
              pc'[e] \in {"commit", "accepted"}
       PROVE  pc[e] = "accepted" /\ pc'[e] = "accepted"
  BY <1>1, <1>2, <1>8, <1>10 DEF Alone, Rest
<1>11. ServedInv'
  <2> SUFFICES ASSUME NEW e \in Calls, e \notin overlapped,
                      pc'[e] \in {"commit", "accepted"}, NEW s \in req[e].batch
               PROVE  /\ s \in Written(e)' => Keeps(req, e, s, regs'[home[e]][s])
                      /\ pc'[e] = "accepted" => \A d \in Calls :
                           home[d] = home[e] /\ s \in Copied(d)'
                             => Keeps(req, e, s, copy'[d][s])
    BY <1>1 DEF ServedInv, KeptInRegistry, KeptInCopies
  <2>1. CASE e = c
    <3>1. s \in Slots
      BY <1>1, <2>1
    <3>2. ASSUME s \in Written(c)' PROVE Keeps(req, c, s, regs'[home[c]][s])
      <4>1. CASE s \in Current(c)
        BY <1>4, <2>1, <3>1, <4>1 DEF Merge, Keeps
      <4>2. CASE s \notin Current(c)
        <5>1. Keeps(req, c, s, regs[home[c]][s])
          BY <1>1, <1>6, <2>1, <3>2, <4>2 DEF ServedInv, KeptInRegistry
        <5> QED BY <1>4, <3>1, <4>2, <5>1
      <4> QED BY <4>1, <4>2
    <3>3. ASSUME pc'[c] = "accepted", NEW d \in Calls PROVE Copied(d)' = {}
      <4>1. d # c => pc[d] \in Rest
        BY <1>8, <2>1 DEF Alone
      <4> QED BY <1>2, <3>3, <4>1 DEF Copied, Rest
    <3> QED BY <2>1, <3>2, <3>3
  <2>2. CASE e # c
    <3>1. pc[e] = "accepted" /\ s \in Slots /\ home[e] \in Registries
      BY <1>1, <1>2, <1>8, <1>10, <2>2, CallFrame
    <3>2. \A d \in Calls : home[d] = home[e] /\ s \in Copied(d)
            => Keeps(req, e, s, copy[d][s])
      BY <3>1 DEF ServedInv, KeptInCopies
    <3>3. Keeps(req, e, s, regs[home[e]][s])
      BY <3>1 DEF ServedInv, KeptInRegistry, Written
    <3>4. Keeps(req, e, s, regs'[home[e]][s])
      <4>1. CASE home[e] = home[c] /\ s \in Current(c)
        <5>1. Keeps(req, e, s, Merge(c, s))
          BY <1>1, <1>6, <3>1, <3>2, <4>1, MergeKeeps
        <5> QED BY <1>4, <3>1, <4>1, <5>1
      <4>2. CASE ~(home[e] = home[c] /\ s \in Current(c))
        BY <1>4, <3>1, <3>3, <4>2
      <4> QED BY <4>1, <4>2
    <3> QED BY <1>3, <1>5, <1>6, <3>2, <3>4
  <2> QED BY <2>1, <2>2
<1>12. OneReplaces'
  <2> SUFFICES ASSUME NEW e \in Calls, NEW d \in Calls, e \notin overlapped,
                      d \notin overlapped, e # d, pc'[e] = "accepted",
                      pc'[d] \in {"commit", "accepted"}, home[e] = home[d],
                      req[e].batch \cap req[d].batch # {}
               PROVE  req[e].replace \/ req[d].replace
    BY <1>1 DEF OneReplaces
  <2>1. CASE e = c
    BY <1>1, <1>10, <2>1 DEF OneReplaces
  <2>2. CASE d = c
    BY <1>1, <1>10, <2>2 DEF OneReplaces
  <2>3. CASE e # c /\ d # c
    BY <1>10, <2>3 DEF OneReplaces
  <2> QED BY <2>1, <2>2, <2>3
<1>13. SeedInv'
  <2> SUFFICES ASSUME NEW a \in Apps, NEW e \in early[a], e \notin overlapped,
                      home[e] = Deferred, NEW s \in req[e].batch, s \in Seeded(a)
               PROVE  /\ regs'[a][s] # Nothing
                      /\ \A d \in Calls : home[d] = a /\ s \in Copied(d)'
                           => copy'[d][s] # Nothing
    BY <1>1, <1>5 DEF SeedInv
  <2>1. s \in Slots
    BY <1>1, <1>2, <1>8, CallFrame
  <2>2. /\ regs[a][s] # Nothing
        /\ \A d \in Calls : home[d] = a /\ s \in Copied(d) => copy[d][s] # Nothing
    BY DEF SeedInv
  <2>3. regs'[a][s] # Nothing
    <3>1. CASE home[c] = a /\ s \in Current(c)
      <4>1. Merge(c, s) # Nothing
        BY <1>6, <2>1, <2>2, <3>1 DEF Merge
      <4> QED BY <1>4, <2>1, <3>1, <4>1
    <3>2. CASE ~(home[c] = a /\ s \in Current(c))
      BY <1>1, <1>4, <2>1, <2>2, <3>2
    <3> QED BY <3>1, <3>2
  <2> QED BY <1>3, <1>5, <1>6, <2>1, <2>2, <2>3
<1> QED BY <1>7, <1>9, <1>11, <1>12, <1>13

\* An initialization writes only a registry that no call works on yet.
LEMMA AppLeaves ==
  ASSUME ServedIndInv, NEW a \in Apps,
         BeginInit(a) \/ SeedFrom(a) \/ Publish(a) \/ Track(a) \/ Rollback(a)
           \/ Discard(a)
  PROVE  /\ UNCHANGED <<req, home, copy, overlapped>>
         /\ \A x \in Calls \cup Apps : x # a => pc'[x] = pc[x] /\ pos'[x] = pos[x]
         /\ \A b \in Apps : b # a => early'[b] = early[b]
         /\ \A r \in Registries : r # a => regs'[r] = regs[r]
         /\ ~SeedFrom(a) => UNCHANGED <<regs, pos>>
         /\ \A e \in Calls : pc[e] \in {"read", "validate", "commit", "accepted"}
              => home[e] \in Registries /\ regs'[home[e]] = regs[home[e]]
<1> USE DEF ServedIndInv, RegistryInv, AloneInv
<1>1. /\ UNCHANGED <<req, home, copy, overlapped>>
      /\ \A x \in Calls \cup Apps : x # a => pc'[x] = pc[x] /\ pos'[x] = pos[x]
      /\ \A b \in Apps : b # a => early'[b] = early[b]
      /\ \A r \in Registries : r # a => regs'[r] = regs[r]
      /\ ~SeedFrom(a) => UNCHANGED <<regs, pos>>
  <2>1. regs \in [Registries -> [Slots -> Calls \cup {Nothing}]]
        /\ early \in [Apps -> SUBSET Calls]
    BY Types DEF Typed, HistoryTyped
  <2>2. CASE SeedFrom(a)
    BY <2>1, <2>2, FieldMove DEF SeedFrom
  <2>3. CASE ~SeedFrom(a)
    BY <2>1, <2>3, GotoStep DEF BeginInit, Publish, Track, Rollback, Discard
  <2> QED BY <2>2, <2>3
<1>2. ASSUME NEW e \in Calls, pc[e] \in {"read", "validate", "commit", "accepted"}
      PROVE  home[e] \in Registries /\ regs'[home[e]] = regs[home[e]]
  <2>1. home[e] \in Registries
    BY <1>2, Types DEF LocalsTyped, Typed
  <2>2. CASE SeedFrom(a)
    BY <1>1, <1>2, <2>1, <2>2 DEF SeededFirst, SeedFrom
  <2>3. CASE ~SeedFrom(a)
    BY <1>1, <2>1, <2>3
  <2> QED BY <2>2, <2>3
<1> QED BY <1>1, <1>2

LEMMA AppServed ==
  ASSUME ServedIndInv, NEW a \in Apps,
         BeginInit(a) \/ SeedFrom(a) \/ Publish(a) \/ Track(a) \/ Rollback(a)
           \/ Discard(a)
  PROVE  AloneInv'
<1> USE DEF ServedIndInv, RegistryInv, AloneInv
<1>1. /\ UNCHANGED <<req, home, copy, overlapped>>
      /\ \A x \in Calls \cup Apps : x # a => pc'[x] = pc[x] /\ pos'[x] = pos[x]
      /\ \A b \in Apps : b # a => early'[b] = early[b]
      /\ \A r \in Registries : r # a => regs'[r] = regs[r]
      /\ ~SeedFrom(a) => UNCHANGED <<regs, pos>>
  BY AppLeaves
<1>2. /\ \A d \in Calls : pc'[d] = pc[d] /\ pos'[d] = pos[d]
      /\ \A d \in Calls : Copied(d)' = Copied(d) /\ Written(d)' = Written(d)
      /\ \A b \in Apps : b # a => Seeded(b)' = Seeded(b)
  BY <1>1 DEF Copied, Written, Seeded, Before
<1>3. \/ /\ pc[a] = "idle" /\ pc'[a] = "seed" /\ runtime' = runtime
         /\ early'[a] = {c \in Calls : pc[c] = "accepted"} /\ ~SeedFrom(a)
      \/ /\ pc[a] = "seed" /\ SeedFrom(a) /\ UNCHANGED <<early, runtime>>
         /\ \/ /\ pc'[a] = "seed"
               /\ Before(pos'[a]) = Before(pos[a]) \cup Current(a)
            \/ /\ pc'[a] = "publish" /\ pos'[a] = 1
               /\ Slots = Before(pos[a]) \cup Current(a)
      \/ /\ pc[a] = "publish" /\ pc'[a] = "track" /\ runtime' = runtime \cup {a}
         /\ UNCHANGED early /\ ~SeedFrom(a)
      \/ /\ pc[a] \in {"track", "rollback", "discard"} /\ runtime' \subseteq runtime
         /\ pc'[a] \in {"done", "rollback", "discard", "failed"}
         /\ UNCHANGED early /\ ~SeedFrom(a)
  <2>1. CASE BeginInit(a)
    BY <2>1, GotoStep, Types DEF BeginInit, HistoryTyped, SeedFrom
  <2>2. CASE SeedFrom(a)
    BY <2>2, FieldMove DEF SeedFrom
  <2>3. CASE Publish(a)
    BY <2>3, GotoStep DEF Publish, SeedFrom
  <2>4. CASE Track(a) \/ Rollback(a) \/ Discard(a)
    BY <2>4, GotoStep DEF Track, Rollback, Discard, SeedFrom
  <2> QED BY <2>1, <2>2, <2>3, <2>4
<1>4. pc[a] # "seed" => pos[a] = 1
  BY DEF PosInv
<1>5. PosInv' /\ SeededFirst'
  <2>1. PosInv'
    BY <1>1, <1>2, <1>3, <1>4 DEF PosInv
  <2>2. SeededFirst'
    BY <1>1, <1>2, <1>3, Types DEF SeededFirst, HistoryTyped
  <2> QED BY <2>1, <2>2
<1>6. Alone' /\ Remembered'
  <2>1. \A b \in Apps : \A e \in early[b] : e \in Calls
    BY Types DEF HistoryTyped
  <2>2. \A b \in Apps : /\ pc'[b] = "idle" => early'[b] = {}
                        /\ \A e \in early'[b] : pc'[e] = "accepted"
    BY <1>1, <1>2, <1>3, <2>1 DEF Remembered
  <2>3. \A d \in Calls : pc'[d] = "commit" => req'[d].replace \/ ~Duplicate(d)'
    BY <1>1, <1>2 DEF Remembered, Duplicate
  <2>4. Alone'
    BY <1>1, <1>2 DEF Alone
  <2> QED BY <2>2, <2>3, <2>4 DEF Remembered
<1>7. \A e \in Calls : pc[e] \in {"read", "validate", "commit", "accepted"} =>
        home[e] \in Registries /\ regs'[home[e]] = regs[home[e]]
  BY AppLeaves
<1>8. ServedInv'
  BY <1>1, <1>2, <1>7 DEF ServedInv, KeptInRegistry, KeptInCopies, Keeps
<1>9. OneReplaces'
  BY <1>1, <1>2 DEF OneReplaces
<1>10. SeedInv'
  <2> SUFFICES ASSUME NEW b \in Apps, NEW e \in early'[b], e \notin overlapped,
                      home[e] = Deferred, NEW s \in req[e].batch, s \in Seeded(b)'
               PROVE  /\ regs'[b][s] # Nothing
                      /\ \A d \in Calls : home[d] = b /\ s \in Copied(d)
                           => copy[d][s] # Nothing
    BY <1>1, <1>2 DEF SeedInv
  <2>1. e \in Calls /\ pc[e] = "accepted" /\ s \in Slots
    <3>1. early' \in [Apps -> SUBSET Calls]
      BY AppStep, Types DEF TypeOK
    <3>2. e \in Calls /\ pc'[e] = "accepted"
      BY <1>6, <3>1 DEF Remembered
    <3>3. req[e].batch \subseteq Slots
      BY <1>2, <3>2, Types, RequestType, BatchesAssumption DEF LocalsTyped
    <3> QED BY <1>2, <3>2, <3>3
  <2>2. CASE e \in early[b] /\ s \in Seeded(b)
    <3>1. /\ regs[b][s] # Nothing
          /\ \A d \in Calls : home[d] = b /\ s \in Copied(d) => copy[d][s] # Nothing
      BY <2>2 DEF SeedInv
    <3>2. regs'[b][s] # Nothing
      <4>1. CASE b = a /\ SeedFrom(a)
        <5>1. regs'[b][s] \in {regs[b][s], Seed(b, s)}
          BY <2>1, <4>1, Types DEF SeedFrom, Typed
        <5> QED BY <3>1, <5>1 DEF Seed
      <4>2. CASE ~(b = a /\ SeedFrom(a))
        BY <1>1, <3>1, <4>2
      <4> QED BY <4>1, <4>2
    <3> QED BY <3>1, <3>2
  <2>3. CASE b = a /\ pc[a] = "idle"
    <3>1. Seeded(a)' = {}
      <4>1. Seeded(a)' = Before(1)
        BY <1>1, <1>3, <1>4, <2>3 DEF Seeded, Before
      <4> QED BY <4>1, BeforeNext
    <3> QED BY <2>3, <3>1
  <2>4. CASE b = a /\ pc[a] = "seed"
    <3>1. /\ SeedFrom(a) /\ e \in early[b]
          /\ Seeded(a)' = Seeded(a) \cup Current(a)
      <4>1. SeedFrom(a) /\ e \in early[b] /\ Seeded(a) = Before(pos[a])
        BY <1>3, <2>4 DEF Seeded
      <4>2. Seeded(a)' = IF pc'[a] = "seed" THEN Before(pos'[a]) ELSE Slots
        BY <1>3, <2>4 DEF Seeded, Before
      <4> QED BY <1>3, <2>4, <4>1, <4>2
    <3>2. CASE s \in Current(a)
      <4>1. regs'[a][s] = Seed(a, s)
        BY <2>1, <3>1, <3>2, Types DEF SeedFrom, Typed
      <4>2. regs[Deferred][s] # Nothing
        <5>1. Keeps(req, e, s, regs[home[e]][s])
          BY <2>1 DEF ServedInv, KeptInRegistry, Written
        <5> QED BY <2>1, <5>1 DEF Keeps
      <4>3. \A d \in Calls : home[d] = a => Copied(d) = {}
        BY <2>4 DEF SeededFirst, Copied
      <4> QED BY <2>4, <4>1, <4>2, <4>3 DEF Seed
    <3>3. CASE s \notin Current(a)
      BY <2>2, <2>4, <3>1, <3>3
    <3> QED BY <3>2, <3>3
  <2>5. CASE b # a \/ pc[a] \notin {"idle", "seed"}
    <3>1. e \in early[b] /\ s \in Seeded(b)
      <4>1. CASE b # a
        BY <1>1, <1>2, <4>1
      <4>2. CASE b = a
        BY <1>3, <2>1, <2>5, <4>2 DEF Seeded
      <4> QED BY <4>1, <4>2
    <3> QED BY <2>2, <3>1
  <2> QED BY <2>3, <2>4, <2>5
<1> QED BY <1>5, <1>6, <1>8, <1>9, <1>10

-----------------------------------------------------------------------------
(* What a registration has copied and is still to write.                   *)

Held(d) == CASE pc[d] = "read" -> Before(pos[d])
             [] pc[d] = "validate" -> Slots
             [] pc[d] = "commit" -> Slots \ Before(pos[d])
             [] OTHER -> {}

\* A copy is current, and agrees with the other copies, but for what calls
\* that overlapped have written.
HeldIsCurrent ==
  \A d \in Calls : \A s \in Held(d) : copy[d][s] \notin overlapped =>
    /\ regs[home[d]][s] \in {copy[d][s]} \cup overlapped
    /\ \A e \in Calls : home[e] = home[d] /\ s \in Held(e) =>
         copy[e][s] \in {copy[d][s]} \cup overlapped

\* The callback of c is neither in the slot s of r nor about to be written
\* there again.
GoneFrom(c, s, r) ==
  /\ regs[r][s] # c
  /\ \A d \in Calls : home[d] = r /\ s \in Held(d) => copy[d][s] # c

\* What a step does to the copies, and to a slot of a registry.
CopiesMove ==
  \A d \in Calls : \A s \in Held(d)' :
    /\ pc[d] \in {"read", "validate", "commit"} /\ home'[d] = home[d] /\ s \in Slots
    /\ \/ s \in Held(d) /\ copy'[d][s] = copy[d][s]
       \/ copy'[d][s] = regs[home[d]][s] /\ regs' = regs

SlotsMove ==
  \A r \in Registries : \A s \in Slots :
    \/ regs'[r][s] = regs[r][s]
    \/ \E c \in Calls : /\ pc[c] = "commit" /\ home[c] = r
                        /\ s \in Held(c) /\ s \notin Held(c)'
                        /\ regs'[r][s] \in {c, copy[c][s]}
    \/ r \in Apps /\ pc[r] = "seed"

LEMMA HeldSlots ==
  \A d \in Calls : \A s \in Held(d) :
    s \in Slots /\ pc[d] \in {"read", "validate", "commit"}
BY DEF Held, Before

LEMMA HeldFrame ==
  ASSUME NEW d \in Calls, pc'[d] = pc[d], pos'[d] = pos[d]
  PROVE  Held(d)' = Held(d)
BY DEF Held, Before

LEMMA CallMove ==
  ASSUME ServedIndInv, NEW c \in Calls,
         Invoke(c) \/ Target(c) \/ Resolve(c) \/ Read(c) \/ Validate(c)
           \/ Commit(c)
  PROVE  CopiesMove /\ SlotsMove
<1> USE DEF ServedIndInv, RegistryInv, AloneInv
<1>1. CASE Invoke(c)
  <2>1. /\ pc'[c] = "target" /\ \A d \in Calls : d # c => pc'[d] = pc[d]
        /\ UNCHANGED <<regs, pos, home, copy>>
    BY <1>1, GotoStep DEF Invoke
  <2>2. Held(c)' = {} /\ \A d \in Calls : d # c => Held(d)' = Held(d)
    BY <2>1, HeldFrame DEF Held
  <2> QED BY <2>1, <2>2, HeldSlots DEF CopiesMove, SlotsMove
<1>2. CASE Target(c) \/ Resolve(c)
  <2>1. /\ UNCHANGED <<regs, pos, copy>> /\ pc[c] \in {"target", "resolve"}
        /\ \A d \in Calls : d # c => home'[d] = home[d]
    BY <1>2, Types DEF Target, Resolve, Typed
  <2>2. /\ pc'[c] \in {"read", "raised", "resolve"}
        /\ \A d \in Calls : d # c => pc'[d] = pc[d]
    BY <1>2, GotoStep DEF Target, Resolve
  <2>3. pos'[c] = 1
    BY <2>1 DEF PosInv
  <2>4. Held(c)' = IF pc'[c] = "read" THEN Before(1) ELSE {}
    BY <2>2, <2>3 DEF Held, Before
  <2>5. Held(c)' = {} /\ \A d \in Calls : d # c => Held(d)' = Held(d)
    BY <2>1, <2>2, <2>4, HeldFrame, BeforeNext
  <2> QED BY <2>1, <2>5, HeldSlots DEF CopiesMove, SlotsMove
<1>3. CASE Read(c)
  <2>1. /\ pc[c] = "read" /\ UNCHANGED <<regs, home>>
        /\ \A d \in Calls : d # c => copy'[d] = copy[d]
        /\ \A s \in Slots : copy'[c][s] = IF s \in Current(c) THEN regs[home[c]][s]
                                          ELSE copy[c][s]
    BY <1>3, Types DEF Read, Typed
  <2>2. /\ \A d \in Calls : d # c => pc'[d] = pc[d] /\ pos'[d] = pos[d]
        /\ \/ /\ pc'[c] = "read" /\ Before(pos'[c]) = Before(pos[c]) \cup Current(c)
           \/ pc'[c] = "validate" /\ Slots = Before(pos[c]) \cup Current(c)
    BY <1>3, <2>1, FieldMove DEF Read
  <2>3. Held(c)' = IF pc'[c] = "read" THEN Before(pos'[c]) ELSE Slots
    BY <2>2 DEF Held, Before
  <2>4. /\ Held(c)' = Held(c) \cup Current(c) /\ Held(c)' \subseteq Slots
        /\ \A d \in Calls : d # c => Held(d)' = Held(d)
    BY <2>1, <2>2, <2>3, HeldFrame DEF Held, Before
  <2> QED BY <2>1, <2>4, HeldSlots DEF CopiesMove, SlotsMove
<1>4. CASE Validate(c)
  <2>1. /\ pc[c] = "validate" /\ UNCHANGED <<regs, pos, home>>
        /\ \/ Goto(c, "commit") /\ copy' = copy
           \/ Goto(c, "raised") /\ copy' = [copy EXCEPT ![c] = Empty]
    BY <1>4, Types, ValidateStep DEF Typed
  <2>2. /\ \A d \in Calls : d # c => pc'[d] = pc[d] /\ copy'[d] = copy[d]
        /\ \/ pc'[c] = "commit" /\ copy'[c] = copy[c]
           \/ pc'[c] = "raised"
    BY <2>1, GotoStep, Types DEF Typed
  <2>3. pos'[c] = 1
    BY <2>1 DEF PosInv
  <2>4. Held(c)' = IF pc'[c] = "commit" THEN Slots \ Before(1) ELSE {}
    BY <2>2, <2>3 DEF Held, Before
  <2>5. /\ Held(c) = Slots
        /\ Held(c)' = {} \/ (Held(c)' = Slots /\ copy'[c] = copy[c])
        /\ \A d \in Calls : d # c => Held(d)' = Held(d)
    BY <2>1, <2>2, <2>4, HeldFrame, BeforeNext DEF Held
  <2> QED BY <2>1, <2>2, <2>5, HeldSlots DEF CopiesMove, SlotsMove
<1>5. CASE Commit(c)
  <2>1. /\ pc[c] = "commit" /\ home[c] \in Registries /\ UNCHANGED home
        /\ \A d \in Calls : d # c => copy'[d] = copy[d]
        /\ pos[c] # 4 => copy'[c] = copy[c]
    BY <1>5, Types DEF Commit, Typed, LocalsTyped
  <2>2. /\ \A r \in Registries : r # home[c] => regs'[r] = regs[r]
        /\ \A s \in Slots : regs'[home[c]][s] = IF s \in Current(c) THEN Merge(c, s)
                                                ELSE regs[home[c]][s]
    BY <1>5, <2>1, Types DEF Commit, Typed
  <2>3. /\ \A d \in Calls : d # c => pc'[d] = pc[d] /\ pos'[d] = pos[d]
        /\ \/ /\ pos[c] # 4 /\ pc'[c] = "commit"
              /\ Before(pos'[c]) = Before(pos[c]) \cup Current(c)
           \/ pc'[c] = "accepted"
    BY <1>5, <2>1, FieldMove DEF Commit
  <2>4. Held(c)' = IF pc'[c] = "commit" THEN Slots \ Before(pos'[c]) ELSE {}
    BY <2>3 DEF Held, Before
  <2>5. pos[c] \in 1..4
    BY Types
  <2>6. /\ Held(c) = Slots \ Before(pos[c])
        /\ Before(pos[c]) \cap Current(c) = {}
    BY <2>1, <2>5, BeforeDisjoint DEF Held, Current
  <2>7. /\ \A s \in Slots : s \in Current(c) => s \in Held(c) /\ s \notin Held(c)'
        /\ Held(c)' = {} \/ (Held(c)' \subseteq Held(c) /\ copy'[c] = copy[c])
        /\ \A d \in Calls : d # c => Held(d)' = Held(d)
    BY <2>1, <2>3, <2>4, <2>6, HeldFrame
  <2>8. CopiesMove
    BY <2>1, <2>7, HeldSlots DEF CopiesMove
  <2>9. SlotsMove
    <3> SUFFICES ASSUME NEW r \in Registries, NEW s \in Slots,
                        regs'[r][s] # regs[r][s]
                 PROVE  /\ pc[c] = "commit" /\ home[c] = r
                        /\ s \in Held(c) /\ s \notin Held(c)'
                        /\ regs'[r][s] \in {c, copy[c][s]}
      BY DEF SlotsMove
    <3> QED BY <2>1, <2>2, <2>7 DEF Merge
  <2> QED BY <2>8, <2>9
<1> QED BY <1>1, <1>2, <1>3, <1>4, <1>5

LEMMA Moves ==
  ASSUME ServedIndInv, Next
  PROVE  CopiesMove /\ SlotsMove /\ overlapped \subseteq overlapped'
<1>1. ASSUME NEW c \in Calls,
             Invoke(c) \/ Target(c) \/ Resolve(c) \/ Read(c) \/ Validate(c)
               \/ Commit(c)
      PROVE  overlapped \subseteq overlapped'
  BY <1>1 DEF Invoke, Target, Resolve, Read, Validate, Commit
<1>2. ASSUME NEW a \in Apps,
             BeginInit(a) \/ SeedFrom(a) \/ Publish(a) \/ Track(a)
               \/ Rollback(a) \/ Discard(a)
      PROVE  CopiesMove /\ SlotsMove /\ overlapped \subseteq overlapped'
  <2>1. /\ UNCHANGED <<home, copy, overlapped>>
        /\ \A d \in Calls : pc'[d] = pc[d] /\ pos'[d] = pos[d]
        /\ \A r \in Registries : r # a => regs'[r] = regs[r]
        /\ ~SeedFrom(a) => UNCHANGED regs
    BY <1>2, AppLeaves
  <2>2. \A d \in Calls : Held(d)' = Held(d)
    BY <2>1, HeldFrame
  <2>3. SeedFrom(a) => pc[a] = "seed"
    BY DEF SeedFrom
  <2>4. CopiesMove
    BY <2>1, <2>2, HeldSlots DEF CopiesMove
  <2>5. SlotsMove
    BY <2>1, <2>3 DEF SlotsMove
  <2> QED BY <2>1, <2>4, <2>5
<1>3. CASE Ended
  <2>1. UNCHANGED vars
    BY <1>3 DEF Ended
  <2>2. UNCHANGED <<regs, pc, pos, home, copy, overlapped>>
    BY <2>1 DEF vars
  <2>3. \A d \in Calls : Held(d)' = Held(d)
    BY <2>2, HeldFrame
  <2> QED BY <2>2, <2>3, HeldSlots DEF CopiesMove, SlotsMove
<1> QED BY <1>1, <1>2, <1>3, CallMove DEF Next

\* Two calls whose copies are to be written overlapped.
LEMMA HeldApart ==
  ASSUME ServedIndInv, NEW c \in Calls, NEW d \in Calls, c # d,
         NEW s, s \in Held(c), s \in Held(d)
  PROVE  c \in overlapped
<1>1. pc[c] \notin Rest /\ pc[d] \notin Rest
  BY HeldSlots DEF Rest
<1> QED BY <1>1 DEF ServedIndInv, AloneInv, Alone

\* A registry that a call works on is not being seeded.
LEMMA HomeIsSeeded ==
  ASSUME ServedIndInv, NEW d \in Calls, pc[d] \in {"read", "validate", "commit"}
  PROVE  home[d] \in Registries /\ (home[d] \in Apps => pc[home[d]] # "seed")
BY Types DEF ServedIndInv, RegistryInv, LocalsTyped, Typed, AloneInv, SeededFirst

LEMMA HeldNext ==
  ASSUME ServedIndInv, HeldIsCurrent, Next
  PROVE  HeldIsCurrent'
<1> SUFFICES ASSUME NEW d \in Calls, NEW s \in Held(d)', copy'[d][s] \notin overlapped'
             PROVE  /\ regs'[home'[d]][s] \in {copy'[d][s]} \cup overlapped'
                    /\ \A e \in Calls : home'[e] = home'[d] /\ s \in Held(e)' =>
                         copy'[e][s] \in {copy'[d][s]} \cup overlapped'
  BY DEF HeldIsCurrent
<1> DEFINE v == copy'[d][s]
<1>1. /\ CopiesMove /\ SlotsMove /\ overlapped \subseteq overlapped'
      /\ v \notin overlapped
  BY Moves
<1>2. /\ pc[d] \in {"read", "validate", "commit"} /\ home'[d] = home[d] /\ s \in Slots
      /\ \/ s \in Held(d) /\ v = copy[d][s]
         \/ v = regs[home[d]][s] /\ regs' = regs
  BY <1>1 DEF CopiesMove
<1>3. regs'[home[d]][s] \in {v} \cup overlapped
  <2>1. CASE regs'[home[d]][s] = regs[home[d]][s]
    BY <1>1, <1>2, <2>1 DEF HeldIsCurrent
  <2>2. CASE regs'[home[d]][s] # regs[home[d]][s]
    <3>1. PICK c \in Calls : /\ pc[c] = "commit" /\ home[c] = home[d]
                             /\ s \in Held(c) /\ s \notin Held(c)'
                             /\ regs'[home[d]][s] \in {c, copy[c][s]}
      BY <1>1, <1>2, <2>2, HomeIsSeeded DEF SlotsMove
    <3>2. s \in Held(d) /\ v = copy[d][s] /\ c # d
      BY <1>2, <2>2, <3>1
    <3>3. c \in overlapped
      BY <3>1, <3>2, HeldApart
    <3>4. copy[c][s] \in {v} \cup overlapped
      BY <1>1, <3>1, <3>2 DEF HeldIsCurrent
    <3> QED BY <3>1, <3>3, <3>4
  <2> QED BY <2>1, <2>2
<1>4. ASSUME NEW e \in Calls, home'[e] = home'[d], s \in Held(e)'
      PROVE  copy'[e][s] \in {v} \cup overlapped
  <2>1. /\ home[e] = home[d]
        /\ \/ s \in Held(e) /\ copy'[e][s] = copy[e][s]
           \/ copy'[e][s] = regs[home[d]][s]
    BY <1>1, <1>2, <1>4 DEF CopiesMove
  <2>2. CASE s \in Held(d) /\ v = copy[d][s]
    BY <1>1, <2>1, <2>2 DEF HeldIsCurrent
  <2>3. CASE v = regs[home[d]][s]
    BY <1>1, <2>1, <2>3 DEF HeldIsCurrent
  <2> QED BY <1>2, <2>2, <2>3
<1> QED BY <1>1, <1>2, <1>3, <1>4

\* A callback that is gone does not come back once the application is there.
LEMMA GoneStays ==
  ASSUME ServedIndInv, Next, NEW c \in Calls, pc[c] = "accepted",
         NEW a \in Apps, pc[a] = "done", NEW s \in Slots, GoneFrom(c, s, a)
  PROVE  GoneFrom(c, s, a)'
<1>1. CopiesMove /\ SlotsMove
  BY Moves
<1>2. regs'[a][s] # c
  BY <1>1 DEF SlotsMove, GoneFrom
<1>3. ASSUME NEW d \in Calls, home'[d] = a, s \in Held(d)'
      PROVE  copy'[d][s] # c
  BY <1>1, <1>3 DEF CopiesMove, GoneFrom
<1> QED BY <1>2, <1>3 DEF GoneFrom

-----------------------------------------------------------------------------
LEMMA NextServed == ServedIndInv /\ [Next]_vars => ServedIndInv'
<1> SUFFICES ASSUME ServedIndInv, [Next]_vars PROVE ServedIndInv'
  OBVIOUS
<1>1. RegistryInv'
  BY NextInv DEF ServedIndInv
<1>2. ASSUME NEW c \in Calls,
             Invoke(c) \/ Target(c) \/ Resolve(c) \/ Read(c) \/ Validate(c)
               \/ Commit(c)
      PROVE  AloneInv'
  BY <1>2, InvokeServed, TargetServed, ReadServed, ValidateServed, CommitServed
<1>3. ASSUME NEW a \in Apps,
             BeginInit(a) \/ SeedFrom(a) \/ Publish(a) \/ Track(a)
               \/ Rollback(a) \/ Discard(a)
      PROVE  AloneInv'
  BY <1>3, AppServed
<1>4. CASE UNCHANGED vars
  <2>1. PosInv' /\ SeededFirst' /\ Alone' /\ Remembered'
    BY <1>4 DEF vars, ServedIndInv, AloneInv, PosInv, SeededFirst, Alone,
                Remembered, Duplicate
  <2>2. /\ \A d \in Calls : Copied(d)' = Copied(d) /\ Written(d)' = Written(d)
        /\ \A a \in Apps : Seeded(a)' = Seeded(a)
    BY <1>4 DEF vars, Copied, Written, Seeded, Before
  <2>3. ServedInv'
    BY <1>4, <2>2 DEF vars, ServedIndInv, AloneInv, ServedInv, KeptInRegistry,
                      KeptInCopies, Keeps
  <2>4. OneReplaces'
    BY <1>4 DEF vars, ServedIndInv, AloneInv, OneReplaces
  <2>5. SeedInv'
    BY <1>4, <2>2 DEF vars, ServedIndInv, AloneInv, SeedInv
  <2> QED BY <1>1, <2>1, <2>3, <2>4, <2>5 DEF ServedIndInv, AloneInv
<1> QED BY <1>1, <1>2, <1>3, <1>4 DEF Next, Ended, ServedIndInv

LEMMA ServedInductive == Spec => []ServedIndInv
<1>1. Init => ServedIndInv
  BY InitInv, InitServed DEF ServedIndInv
<1> QED BY <1>1, NextServed, PTL DEF Spec

\* Of two registrations of one slot that overlapped no other, the later one
\* raised or was asked to replace (the duplicate tests of register_callbacks),
\* whatever else was registered between them.
THEOREM OnceOrReplaced == Spec => []DuplicateRaises
<1>1. ServedIndInv => DuplicateRaises
  BY DEF ServedIndInv, AloneInv, OneReplaces, DuplicateRaises
<1> QED BY <1>1, ServedInductive, PTL

\* An accepted batch is served whole, and no later registration, overlapping or
\* not, takes a callback of it away unless it was asked to replace it
\* (register_callbacks writes back what it has copied).
THEOREM StaysServed == Spec => []AcceptedIsServed
<1>1. ServedIndInv => AcceptedIsServed
  <2> SUFFICES ASSUME ServedIndInv, NEW c \in Calls, c \notin overlapped,
                      pc[c] = "accepted", NEW s \in req[c].batch
               PROVE  Keeps(req, c, s, regs[home[c]][s])
    BY DEF AcceptedIsServed, Served, Keeps
  <2>1. s \in Slots
    BY Types, RequestType, BatchesAssumption
       DEF ServedIndInv, RegistryInv, LocalsTyped
  <2> QED BY <2>1 DEF ServedIndInv, AloneInv, ServedInv, KeptInRegistry, Written
<1> QED BY <1>1, ServedInductive, PTL

\* What was registered on the extension before init_app began is there in the
\* application it returns, although calls overlap it (seed_from fills the
\* registry before _commit publishes the Runtime).
THEOREM SeededWhole == Spec => []SeededIntoLaterApps
<1>1. ServedIndInv => SeededIntoLaterApps
  <2> SUFFICES ASSUME ServedIndInv, NEW a \in Apps,
                      pc[a] \in {"publish", "track", "done"},
                      NEW c \in early[a], c \notin overlapped,
                      home[c] = Deferred, NEW s \in req[c].batch
               PROVE  regs[a][s] # Nothing
    BY DEF SeededIntoLaterApps
  <2>1. c \in Calls /\ pc[c] = "accepted"
    BY Types DEF ServedIndInv, AloneInv, Remembered, RegistryInv, HistoryTyped
  <2>2. s \in Seeded(a)
    BY <2>1, Types, RequestType, BatchesAssumption
       DEF ServedIndInv, RegistryInv, LocalsTyped, Seeded
  <2> QED BY <2>2 DEF ServedIndInv, AloneInv, SeedInv
<1> QED BY <1>1, ServedInductive, PTL

=============================================================================
