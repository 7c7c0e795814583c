--------------------------- MODULE InitAppProofs ---------------------------
(***************************************************************************)
(* What holds of init_app for every number of calls on one application,    *)
(* overlapping or not, and every set of steps that may raise.              *)
(*                                                                         *)
(* The invariant says of each call by itself where its worker, its logs    *)
(* and its finalizer are at each place (PlaceOK, CommitOK, WorkerOK), of   *)
(* each shared entry that some call which has not undone it owns it        *)
(* (SharedOK), and of a call that overlapped no other that nobody          *)
(* interferes with what it has put there (AloneOK).  The last is where     *)
(* CommittedTogether comes from: while the extension key stands no other   *)
(* call gets past its first step.                                          *)
(***************************************************************************)
EXTENDS InitApp, TLAPS

\* The places from the first irreversible step on.
Forward == {"publish", "track", "blueprint", "activate", "info", "settle", "done"}
Undoing == {"rollbackCli", "rollbackExtension", "rollbackRecord"}

\* The resources of a call at each of its places.
PlaceOK(i) ==
  /\ pc[i] \in {"idle", "refused", "preflight", "logs"} => own[i] = Private
  /\ pc[i] \in {"prepare", "finalizer"} => own[i].finalizer = "none"
  /\ pc[i] = "prepare" => own[i].worker = "none"
  /\ pc[i] \in {"prepare", "finalizer"} => own[i].logs = "open"
  /\ pc[i] \in Forward \cup {"cli"} => own[i].finalizer = "armed"
  /\ pc[i] \in Undoing => own[i].finalizer # "armed" /\ own[i].worker # "prepared"
  /\ pc[i] = "failed" =>
       IF blueprint = i
       THEN own[i].finalizer = "armed"
       ELSE /\ own[i].finalizer # "armed" /\ own[i].worker \notin {"prepared", "gated"}
            /\ own[i].logs # "open"

\* The Blueprint is visible from its registration on, and never taken back.
CommitOK(i) ==
  /\ blueprint = i => pc[i] \in {"activate", "info", "settle", "done", "failed"}
  /\ pc[i] \in {"activate", "info"} => blueprint = i \/ mode[i] = "disabled"
  /\ pc[i] = "settle" => blueprint = i

WorkerOK(i) ==
  /\ own[i].worker # "none" => mode[i] # "disabled"
  /\ own[i].worker = "gated" =>
       pc[i] = "settle" \/ (pc[i] = "failed" /\ "wake" \in Faults)
  /\ own[i].worker \in {"live", "gated"} => blueprint = i \/ i \in early

CallOK(i) == PlaceOK(i) /\ CommitOK(i) /\ WorkerOK(i)

\* Who added what is there.
CliOwner(i) ==
  own[i].cli /\ (pc[i] \in Forward \cup {"rollback", "rollbackCli"} \/ blueprint = i)
TrackOwner(i) ==
  own[i].tracked /\ (\/ pc[i] \in (Forward \ {"publish", "track"}) \cup {"rollback"} \cup Undoing
                     \/ blueprint = i)
KeyOwner(i) ==
  \/ pc[i] \in (Forward \ {"publish"}) \cup {"rollback", "rollbackCli", "rollbackExtension"}
  \/ blueprint = i

SharedOK ==
  /\ cli => \E i \in Inits : CliOwner(i)
  /\ tracked => \E i \in Inits : TrackOwner(i)
  /\ extension # Nobody => KeyOwner(extension)

\* A call that overlapped no other, until it is at rest or for good if it was
\* committed: the others rest, and what it has put there is there.
Standing(i) == pc[i] \notin Rest \/ blueprint = i

AloneOK(i) ==
  i \notin overlapped /\ Standing(i) =>
    /\ \A j \in Inits \ {i} : pc[j] \in Rest
    /\ pc[i] \in Forward \/ blueprint = i => cli
    /\ pc[i] \in Forward \ {"publish"} \/ blueprint = i => extension = i
    /\ pc[i] \in Forward \ {"publish", "track"} \/ blueprint = i => tracked

ExitOK ==
  exited => \A i \in Inits : /\ pc[i] \in Rest
                             /\ own[i].finalizer = "armed" =>
                                  /\ own[i].worker \notin {"prepared", "live"}
                                  /\ own[i].worker # "gated" => own[i].logs # "open"

InitInv ==
  /\ TypeOK
  /\ \A i \in Inits : CallOK(i) /\ AloneOK(i)
  /\ SharedOK /\ ExitOK

-----------------------------------------------------------------------------
(* What a step looks like. *)

\* Call i goes to p with the resources r.
Moves(i, p, r) ==
  /\ pc' \in [Inits -> Steps] /\ own' \in [Inits -> PrivateType]
  /\ pc'[i] = p /\ own'[i] = r
  /\ \A j \in Inits : j # i => pc'[j] = pc[j] /\ own'[j] = own[j]

\* A step that rewrites the resources of its call.
LEMMA MovesView ==
  ASSUME TypeOK, NEW i \in Inits, NEW p \in Steps, NEW r \in PrivateType,
         Goto(i, p), Set(i, r)
  PROVE  Moves(i, p, r)
BY DEF TypeOK, Goto, Set, Moves

\* A step that leaves them as they are.
LEMMA StaysView ==
  ASSUME TypeOK, NEW i \in Inits, NEW p \in Steps, Goto(i, p), own' = own
  PROVE  Moves(i, p, own[i])
BY DEF TypeOK, Goto, Moves

\* The step of a call under way: what was not overlapped before had the others
\* at rest, so that nobody but i can have put anything at stake.
LEMMA ActiveStep ==
  ASSUME InitInv, NEW i \in Inits, NEW p, NEW r, Moves(i, p, r), pc[i] \notin Rest,
         r.finalizer # "none" => r.logs # "none",
         UNCHANGED <<mode, exited, overlapped, early>>,
         blueprint' = blueprint \/ (blueprint = Nobody /\ blueprint' = i),
         cli' \in BOOLEAN, tracked' \in BOOLEAN, extension' \in Inits \cup {Nobody},
         CallOK(i)', AloneOK(i)', SharedOK'
  PROVE  InitInv'
<1>1. TypeOK'
  BY DEF InitInv, TypeOK, Moves
<1>2. ASSUME NEW j \in Inits, j # i  PROVE CallOK(j)' /\ AloneOK(j)'
  <2>1. pc'[j] = pc[j] /\ own'[j] = own[j] /\ mode'[j] = mode[j]
    BY <1>2 DEF Moves
  <2>2. blueprint' = j <=> blueprint = j
    BY <1>2, NobodyAssumption
  <2>3. CallOK(j)'
    BY <2>1, <2>2 DEF InitInv, CallOK, PlaceOK, CommitOK, WorkerOK
  <2>4. AloneOK(j)'
    BY <1>2, <2>1, <2>2 DEF InitInv, AloneOK, Standing
  <2> QED BY <2>3, <2>4
<1>3. ExitOK'
  BY DEF InitInv, ExitOK
<1> QED BY <1>1, <1>2, <1>3 DEF InitInv

\* A step that leaves the shared entries alone.
LEMMA PrivateStep ==
  ASSUME InitInv, NEW i \in Inits, NEW p, NEW r, Moves(i, p, r), pc[i] \notin Rest,
         r.finalizer # "none" => r.logs # "none",
         UNCHANGED <<mode, flask, exited, overlapped, early>>,
         r.cli = own[i].cli, r.tracked = own[i].tracked, CallOK(i)',
         p \in Forward => pc[i] \in Forward /\ (pc[i] = "publish" => p = "publish")
                          /\ (pc[i] = "track" => p \in {"publish", "track"}),
         pc[i] \in Forward \cup {"rollback"} => p \in (Forward \ {"publish", "track"})
                                                     \cup {"rollback", "rollbackCli", "failed"},
         p = "failed" => blueprint = i \/ pc[i] = "preflight",
         pc[i] \notin Undoing
  PROVE  InitInv'
<1>1. UNCHANGED <<cli, tracked, extension, blueprint>>
  BY DEF flask
<1>2. ASSUME NEW j \in Inits, j # i
      PROVE  (CliOwner(j) => CliOwner(j)') /\ (TrackOwner(j) => TrackOwner(j)')
             /\ (KeyOwner(j) => KeyOwner(j)')
  BY <1>1, <1>2 DEF Moves, CliOwner, TrackOwner, KeyOwner
<1>3. /\ CliOwner(i) => CliOwner(i)'
      /\ TrackOwner(i) => TrackOwner(i)'
      /\ KeyOwner(i) => KeyOwner(i)'
  <2>1. pc'[i] = p /\ own'[i] = r
    BY DEF Moves
  <2>2. CommitOK(i)
    BY DEF InitInv, CallOK
  <2> QED BY <1>1, <2>1, <2>2 DEF CliOwner, TrackOwner, KeyOwner, Forward, Undoing, CommitOK
<1>4. SharedOK'
  <2>1. extension \in Inits \cup {Nobody}
    BY DEF InitInv, TypeOK
  <2> QED BY <1>1, <1>2, <1>3, <2>1 DEF InitInv, SharedOK
<1>5. AloneOK(i)'
  <2>1. pc'[i] = p /\ \A j \in Inits : j # i => pc'[j] = pc[j]
    BY DEF Moves
  <2>2. AloneOK(i) /\ CommitOK(i)
    BY DEF InitInv, CallOK
  <2> QED BY <1>1, <2>1, <2>2 DEF AloneOK, Standing, Forward, CommitOK
<1> QED BY <1>1, <1>4, <1>5, ActiveStep DEF InitInv, TypeOK

-----------------------------------------------------------------------------
(* The steps of a call *)

\* What the invariant says of one call.
LEMMA CallFacts ==
  ASSUME InitInv, NEW i \in Inits
  PROVE  /\ TypeOK /\ own[i] \in PrivateType /\ pc[i] \in Steps
         /\ own[i].finalizer # "none" => own[i].logs # "none"
         /\ CallOK(i) /\ AloneOK(i) /\ SharedOK
BY DEF InitInv, TypeOK

\* A call goes on to the next place, or fails before it has anything.
LEMMA BeginKeeps ==
  ASSUME InitInv, NEW i \in Inits, Begin(i)
  PROVE  InitInv'
<1>1. PICK p \in {"preflight", "refused"} :
        /\ Moves(i, p, own[i]) /\ p = IF extension = Nobody THEN "preflight" ELSE "refused"
  <2>1. CASE extension = Nobody
    BY <2>1, CallFacts, StaysView DEF Begin, Steps
  <2>2. CASE extension # Nobody
    BY <2>2, CallFacts, StaysView DEF Begin, Steps, Rest
  <2> QED BY <2>1, <2>2
<1>2. /\ pc[i] = "idle" /\ ~exited
      /\ UNCHANGED <<mode, extension, cli, tracked, blueprint, own, exited, early>>
      /\ overlapped' = IF {j \in Inits : pc[j] \notin Rest} = {} THEN overlapped
                       ELSE overlapped \cup {j \in Inits : pc[j] \notin Rest} \cup {i}
  BY DEF Begin, flask
<1>3. pc'[i] = p /\ own'[i] = own[i] /\ \A j \in Inits : j # i => pc'[j] = pc[j]
  BY <1>1 DEF Moves
<1>4. blueprint # i /\ own[i] = Private
  BY <1>2, CallFacts DEF CallOK, PlaceOK, CommitOK
<1>5. TypeOK'
  BY <1>1, <1>2, CallFacts DEF TypeOK, Moves
<1>6. ASSUME NEW j \in Inits  PROVE CallOK(j)'
  <2>1. CASE j # i
    BY <1>2, <1>3, <2>1, CallFacts DEF CallOK, PlaceOK, CommitOK, WorkerOK
  <2>2. CASE j = i
    BY <1>2, <1>3, <1>4, <2>2, CallFacts
       DEF CallOK, PlaceOK, CommitOK, WorkerOK, Forward, Undoing, Private
  <2> QED BY <2>1, <2>2
<1>7. SharedOK'
  <2>1. \A j \in Inits : /\ CliOwner(j) => CliOwner(j)'
                         /\ TrackOwner(j) => TrackOwner(j)'
                         /\ KeyOwner(j) => KeyOwner(j)'
    BY <1>2, <1>3 DEF CliOwner, TrackOwner, KeyOwner, Forward, Undoing
  <2>2. extension \in Inits \cup {Nobody}
    BY CallFacts DEF TypeOK
  <2> QED BY <1>2, <2>1, <2>2, CallFacts DEF SharedOK
<1>8. ASSUME NEW j \in Inits  PROVE AloneOK(j)'
  <2>1. CASE j # i
    <3>1. CASE pc[j] \notin Rest
      BY <1>2, <2>1, <3>1 DEF AloneOK
    <3>2. CASE pc[j] \in Rest /\ blueprint = j /\ j \notin overlapped
      <4>1. extension # Nobody /\ AloneOK(j)
        BY <3>2, CallFacts, NobodyAssumption DEF AloneOK, Standing
      <4> QED BY <1>1, <1>2, <1>3, <2>1, <3>2, <4>1 DEF AloneOK, Standing, Rest
    <3> QED BY <1>2, <1>3, <2>1, <3>1, <3>2 DEF AloneOK, Standing
  <2>2. CASE j = i
    <3>1. CASE {k \in Inits : pc[k] \notin Rest} = {}
      BY <1>1, <1>2, <1>3, <1>4, <2>2, <3>1 DEF AloneOK, Standing, Rest, Forward
    <3>2. CASE {k \in Inits : pc[k] \notin Rest} # {}
      BY <1>2, <2>2, <3>2 DEF AloneOK
    <3> QED BY <3>1, <3>2
  <2> QED BY <2>1, <2>2
<1>9. ExitOK'
  BY <1>2 DEF ExitOK
<1> QED BY <1>5, <1>6, <1>7, <1>8, <1>9 DEF InitInv

\* Validation passes or fails before there is anything to undo.
LEMMA PreflightKeeps ==
  ASSUME InitInv, NEW i \in Inits, Preflight(i)
  PROVE  InitInv'
<1>1. PICK p \in {"logs", "failed"} : Moves(i, p, own[i])
  BY CallFacts, StaysView DEF Preflight, Steps, Rest
<1>2. /\ pc[i] = "preflight" /\ pc[i] \notin Rest
      /\ UNCHANGED <<mode, flask, exited, overlapped, early>>
  BY DEF Preflight, Rest
<1>3. CallOK(i)'
  <2>1. blueprint' = blueprint /\ mode' = mode /\ early' = early /\ pc'[i] = p /\ own'[i] = own[i]
    BY <1>1, <1>2 DEF Moves, flask
  <2> QED BY <1>2, <2>1, CallFacts
          DEF CallOK, PlaceOK, CommitOK, WorkerOK, Forward, Undoing, Private
<1> QED BY <1>1, <1>2, <1>3, CallFacts, PrivateStep DEF Forward, Undoing

\* The log manager is made, or raises.
LEMMA OpenLogsKeeps ==
  ASSUME InitInv, NEW i \in Inits, OpenLogs(i)
  PROVE  InitInv'
<1>1. /\ pc[i] = "logs" /\ pc[i] \notin Rest
      /\ UNCHANGED <<mode, flask, exited, overlapped, early>>
  BY DEF OpenLogs, Rest
<1>2. PICK p \in Steps, r \in PrivateType :
        /\ Moves(i, p, r)
        /\ \/ p = "prepare" /\ r = [own[i] EXCEPT !.logs = "open"]
           \/ p = "rollback" /\ r = own[i]
  <2>1. CASE Set(i, [own[i] EXCEPT !.logs = "open"]) /\ Goto(i, "prepare")
    <3>1. [own[i] EXCEPT !.logs = "open"] \in PrivateType
      BY CallFacts DEF PrivateType
    <3> QED BY <2>1, <3>1, CallFacts, MovesView DEF Steps
  <2>2. CASE Raise(i, "logs") /\ own' = own
    BY <2>2, CallFacts, StaysView DEF Raise, Steps
  <2> QED BY <2>1, <2>2 DEF OpenLogs
<1>3. /\ r.cli = own[i].cli /\ r.tracked = own[i].tracked /\ own[i] = Private
      /\ r.finalizer = "none" /\ r.worker = "none"
      /\ p = "prepare" => r.logs = "open"
  BY <1>1, <1>2, CallFacts DEF CallOK, PlaceOK, Private, PrivateType
<1>4. CallOK(i)'
  <2>1. blueprint' = blueprint /\ mode' = mode /\ early' = early /\ pc'[i] = p /\ own'[i] = r
    BY <1>1, <1>2 DEF Moves, flask
  <2> QED BY <1>1, <1>2, <1>3, <2>1, CallFacts
          DEF CallOK, PlaceOK, CommitOK, WorkerOK, Forward, Undoing
<1> QED BY <1>1, <1>2, <1>3, <1>4, PrivateStep DEF Forward, Undoing

\* A gated candidate is prepared, or its thread cannot be started.
LEMMA PrepareStartKeeps ==
  ASSUME InitInv, NEW i \in Inits, PrepareStart(i)
  PROVE  InitInv'
<1>1. /\ pc[i] = "prepare" /\ pc[i] \notin Rest
      /\ UNCHANGED <<mode, flask, exited, overlapped, early>>
  BY DEF PrepareStart, Rest
<1>2. PICK p \in Steps, r \in PrivateType :
        /\ Moves(i, p, r)
        /\ \/ p \in {"finalizer", "rollback"} /\ r = own[i]
           \/ p = "finalizer" /\ mode[i] = "auto" /\ r = [own[i] EXCEPT !.worker = "prepared"]
  <2>1. CASE mode[i] = "auto" /\ Set(i, [own[i] EXCEPT !.worker = "prepared"])
             /\ Goto(i, "finalizer")
    <3>1. [own[i] EXCEPT !.worker = "prepared"] \in PrivateType
      BY CallFacts DEF PrivateType
    <3> QED BY <2>1, <3>1, CallFacts, MovesView DEF Steps
  <2>2. CASE Goto(i, "finalizer") /\ own' = own
    BY <2>2, CallFacts, StaysView DEF Steps
  <2>3. CASE Raise(i, "prepare") /\ own' = own
    BY <2>3, CallFacts, StaysView DEF Raise, Steps
  <2> QED BY <2>1, <2>2, <2>3 DEF PrepareStart
<1>3. /\ r.cli = own[i].cli /\ r.tracked = own[i].tracked
      /\ r.finalizer = "none" /\ r.logs = "open"
      /\ r.worker = "none" \/ (r.worker = "prepared" /\ mode[i] = "auto")
  BY <1>1, <1>2, CallFacts DEF CallOK, PlaceOK, PrivateType
<1>4. CallOK(i)'
  <2>1. blueprint' = blueprint /\ mode' = mode /\ early' = early /\ pc'[i] = p /\ own'[i] = r
    BY <1>1, <1>2 DEF Moves, flask
  <2> QED BY <1>1, <1>2, <1>3, <2>1, CallFacts
          DEF CallOK, PlaceOK, CommitOK, WorkerOK, Forward, Undoing
<1> QED BY <1>1, <1>2, <1>3, <1>4, PrivateStep DEF Forward, Undoing

\* The finalizer is installed, or raises.
LEMMA InstallFinalizerKeeps ==
  ASSUME InitInv, NEW i \in Inits, InstallFinalizer(i)
  PROVE  InitInv'
<1>1. /\ pc[i] = "finalizer" /\ pc[i] \notin Rest
      /\ UNCHANGED <<mode, flask, exited, overlapped, early>>
  BY DEF InstallFinalizer, Rest
<1>2. PICK p \in Steps, r \in PrivateType :
        /\ Moves(i, p, r)
        /\ \/ p = "rollback" /\ r = own[i]
           \/ p = "cli" /\ r = [own[i] EXCEPT !.finalizer = "armed"]
  <2>1. CASE Set(i, [own[i] EXCEPT !.finalizer = "armed"]) /\ Goto(i, "cli")
    <3>1. [own[i] EXCEPT !.finalizer = "armed"] \in PrivateType
      BY CallFacts DEF PrivateType
    <3> QED BY <2>1, <3>1, CallFacts, MovesView DEF Steps
  <2>2. CASE Raise(i, "finalizer") /\ own' = own
    BY <2>2, CallFacts, StaysView DEF Raise, Steps
  <2> QED BY <2>1, <2>2 DEF InstallFinalizer
<1>3. /\ r.cli = own[i].cli /\ r.tracked = own[i].tracked
      /\ r.logs = "open" /\ r.worker = own[i].worker
      /\ p = "cli" => r.finalizer = "armed"
  BY <1>1, <1>2, CallFacts DEF CallOK, PlaceOK, PrivateType
<1>4. CallOK(i)'
  <2>1. blueprint' = blueprint /\ mode' = mode /\ early' = early /\ pc'[i] = p /\ own'[i] = r
    BY <1>1, <1>2 DEF Moves, flask
  <2> QED BY <1>1, <1>2, <1>3, <2>1, CallFacts
          DEF CallOK, PlaceOK, CommitOK, WorkerOK, Forward, Undoing
<1> QED BY <1>1, <1>2, <1>3, <1>4, PrivateStep DEF Forward, Undoing

\* Activation takes the candidate that is there, in front of the Blueprint.
LEMMA ActivateKeeps ==
  ASSUME InitInv, NEW i \in Inits, Activate(i)
  PROVE  InitInv'
<1>1. /\ pc[i] = "activate" /\ pc[i] \notin Rest
      /\ UNCHANGED <<mode, flask, exited, overlapped, early>>
  BY DEF Activate, Rest
<1>2. own[i].worker \in {"none", "prepared", "gated", "live", "cancelled", "stopped"}
  BY CallFacts DEF PrivateType
<1>3. PICK p \in Steps, w \in {"none", "prepared", "gated", "live", "cancelled", "stopped"} :
        /\ Moves(i, p, [own[i] EXCEPT !.worker = w])
        /\ \/ p = "info" /\ w = IF own[i].worker = "prepared" THEN "live" ELSE own[i].worker
           \/ p = OnError(i) /\ own[i].worker = "prepared" /\ w \in {"prepared", "gated"}
  <2>1. \A w \in {"none", "prepared", "gated", "live", "cancelled", "stopped"} :
          [own[i] EXCEPT !.worker = w] \in PrivateType
    BY CallFacts DEF PrivateType
  <2>2. CASE Goto(i, "info") /\ Set(i, IF own[i].worker = "prepared"
                                         THEN [own[i] EXCEPT !.worker = "live"] ELSE own[i])
    <3>1. own[i] = [own[i] EXCEPT !.worker = own[i].worker]
      BY CallFacts DEF PrivateType
    <3>2. Set(i, [own[i] EXCEPT !.worker = IF own[i].worker = "prepared"
                                            THEN "live" ELSE own[i].worker])
      BY <2>2, <3>1 DEF Set
    <3> QED BY <1>2, <2>1, <2>2, <3>2, CallFacts, MovesView DEF Steps
  <2>3. CASE /\ own[i].worker = "prepared" /\ Goto(i, OnError(i))
             /\ \E w \in {"prepared", "gated"} : Set(i, [own[i] EXCEPT !.worker = w])
    BY <2>1, <2>3, CallFacts, MovesView DEF Steps, OnError
  <2> QED BY <2>2, <2>3 DEF Activate
<1> DEFINE r == [own[i] EXCEPT !.worker = w]
<1>4. /\ r.cli = own[i].cli /\ r.tracked = own[i].tracked /\ r.worker = w
      /\ r.logs = own[i].logs /\ r.finalizer = own[i].finalizer
  BY CallFacts DEF PrivateType
<1> HIDE DEF r
<1>5. CallOK(i)'
  <2>1. blueprint' = blueprint /\ mode' = mode /\ early' = early /\ pc'[i] = p /\ own'[i] = r
    BY <1>1, <1>3 DEF Moves, flask, r
  <2> QED BY <1>1, <1>2, <1>3, <1>4, <2>1, CallFacts
          DEF CallOK, PlaceOK, CommitOK, WorkerOK, Forward, Undoing, OnError
<1>6. p \in {"info", "settle", "rollback"}
  BY <1>3 DEF OnError
<1> QED BY <1>1, <1>3, <1>4, <1>5, <1>6, CallFacts, PrivateStep DEF Forward, Undoing, r

\* The last log record is written, or raises.
LEMMA LogInitializedKeeps ==
  ASSUME InitInv, NEW i \in Inits, LogInitialized(i)
  PROVE  InitInv'
<1>1. /\ pc[i] = "info" /\ pc[i] \notin Rest
      /\ UNCHANGED <<mode, flask, exited, overlapped, early>>
  BY DEF LogInitialized, Rest
<1>2. PICK p \in {"done", OnError(i)} : Moves(i, p, own[i])
  BY CallFacts, StaysView DEF LogInitialized, Steps, Rest, OnError
<1>3. CallOK(i)'
  <2>1. blueprint' = blueprint /\ mode' = mode /\ early' = early
        /\ pc'[i] = p /\ own'[i] = own[i]
    BY <1>1, <1>2 DEF Moves, flask
  <2> QED BY <1>1, <1>2, <2>1, CallFacts
          DEF CallOK, PlaceOK, CommitOK, WorkerOK, Forward, Undoing, OnError
<1> QED BY <1>1, <1>2, <1>3, CallFacts, PrivateStep DEF Forward, Undoing, OnError

\* A failure after the Blueprint is visible: the call is committed.
LEMMA SettleKeeps ==
  ASSUME InitInv, NEW i \in Inits, Settle(i)
  PROVE  InitInv'
<1>1. /\ pc[i] = "settle" /\ pc[i] \notin Rest
      /\ UNCHANGED <<mode, flask, exited, overlapped, early>>
  BY DEF Settle, Rest
<1>2. PICK w \in Settled(own[i].worker) :
        Set(i, [own[i] EXCEPT !.worker = w]) /\ Goto(i, "failed")
  BY DEF Settle
<1>3. /\ w \in {"none", "gated", "live", "cancelled", "stopped"}
      /\ w # "none" => own[i].worker # "none"
      /\ w = "gated" => "wake" \in Faults
      /\ w \in {"live", "gated"} => own[i].worker \in {"live", "gated"}
  <2>1. own[i].worker \in {"none", "prepared", "gated", "live", "cancelled", "stopped"}
    BY CallFacts DEF PrivateType
  <2> QED BY <1>2, <2>1 DEF Settled
<1> DEFINE r == [own[i] EXCEPT !.worker = w]
<1>4. /\ r \in PrivateType /\ r.cli = own[i].cli /\ r.tracked = own[i].tracked /\ r.worker = w
      /\ r.logs = own[i].logs /\ r.finalizer = own[i].finalizer
  BY <1>3, CallFacts DEF PrivateType
<1>5. Moves(i, "failed", r)
  BY <1>2, <1>4, CallFacts, MovesView DEF Steps, Rest
<1> HIDE DEF r
<1>6. CallOK(i)'
  <2>1. blueprint' = blueprint /\ mode' = mode /\ early' = early /\ pc'[i] = "failed" /\ own'[i] = r
    BY <1>1, <1>5 DEF Moves, flask
  <2> QED BY <1>1, <1>3, <1>4, <2>1, CallFacts
          DEF CallOK, PlaceOK, CommitOK, WorkerOK, Forward, Undoing
<1>7. blueprint = i
  BY <1>1, CallFacts DEF CallOK, CommitOK
<1> QED BY <1>1, <1>4, <1>5, <1>6, <1>7, CallFacts, PrivateStep DEF Forward, Undoing

\* The rollback begins with what only the call can see.
LEMMA RollbackKeeps ==
  ASSUME InitInv, NEW i \in Inits, Rollback(i)
  PROVE  InitInv'
<1>1. /\ pc[i] = "rollback" /\ pc[i] \notin Rest
      /\ UNCHANGED <<mode, flask, exited, overlapped, early>>
  BY DEF Rollback, Rest
<1>2. PICK w, f :
        /\ w = IF own[i].worker = "prepared" THEN "cancelled" ELSE own[i].worker
        /\ f = IF own[i].finalizer = "armed" THEN "detached" ELSE own[i].finalizer
  OBVIOUS
<1>3. /\ own[i].worker \in {"none", "prepared", "gated", "live", "cancelled", "stopped"}
      /\ own[i].finalizer \in {"none", "armed", "detached"}
  BY CallFacts DEF PrivateType
<1>4. /\ w \in {"none", "gated", "live", "cancelled", "stopped"}
      /\ f \in {"none", "detached"} /\ (f # "none" => own[i].finalizer # "none")
      /\ w # "none" => own[i].worker # "none"
      /\ w \in {"live", "gated"} => own[i].worker = w
  BY <1>2, <1>3
<1> DEFINE r == [own[i] EXCEPT !.worker = w, !.finalizer = f]
<1>5. Disarm(own[i]) = r
  BY <1>2 DEF Disarm
<1>6. /\ r.cli = own[i].cli /\ r.tracked = own[i].tracked /\ r.worker = w
      /\ r.logs = own[i].logs /\ r.finalizer = f
  BY CallFacts DEF PrivateType
<1>7. r \in PrivateType
  <2> DEFINE q == [own[i] EXCEPT !.worker = w]
  <2>1. q \in PrivateType
    BY <1>4, CallFacts DEF PrivateType
  <2>2. r = [q EXCEPT !.finalizer = f]
    BY CallFacts DEF PrivateType
  <2> HIDE DEF q
  <2> QED BY <1>4, <2>1, <2>2 DEF PrivateType
<1>8. Moves(i, "rollbackCli", r)
  BY <1>5, <1>7, CallFacts, MovesView DEF Rollback, Steps
<1> HIDE DEF r
<1>9. CallOK(i)'
  <2>1. blueprint' = blueprint /\ mode' = mode /\ early' = early
        /\ pc'[i] = "rollbackCli" /\ own'[i] = r
    BY <1>1, <1>8 DEF Moves, flask
  <2> QED BY <1>1, <1>4, <1>6, <2>1, CallFacts
          DEF CallOK, PlaceOK, CommitOK, WorkerOK, Forward, Undoing
<1> QED BY <1>1, <1>4, <1>6, <1>8, <1>9, CallFacts, PrivateStep DEF Forward, Undoing

-----------------------------------------------------------------------------
(* The shared entries *)

\* Before it has put anything into the application a step may raise.
LEMMA RaiseKeeps ==
  ASSUME InitInv, NEW i \in Inits, pc[i] \in {"cli", "publish"}, Goto(i, "rollback"),
         UNCHANGED <<mode, flask, own, exited, overlapped, early>>
  PROVE  InitInv'
<1>1. Moves(i, "rollback", own[i]) /\ pc[i] \notin Rest
  BY CallFacts, StaysView DEF Steps, Rest
<1>2. CallOK(i)'
  <2>1. blueprint' = blueprint /\ pc'[i] = "rollback"
    BY <1>1 DEF Moves, flask
  <2> QED BY <2>1, CallFacts DEF CallOK, PlaceOK, CommitOK, WorkerOK, Forward, Undoing
<1> QED BY <1>1, <1>2, CallFacts, PrivateStep DEF Forward, Undoing

\* The CLI command gets an owner unless it has one.
LEMMA RegisterCliKeeps ==
  ASSUME InitInv, NEW i \in Inits, RegisterCli(i)
  PROVE  InitInv'
<1>0. CASE Raise(i, "cli") /\ UNCHANGED <<cli, own>>
  BY <1>0, RaiseKeeps DEF RegisterCli, Raise, flask
<1> SUFFICES ASSUME cli' = TRUE, Set(i, [own[i] EXCEPT !.cli = ~cli]), Goto(i, "publish")
             PROVE  InitInv'
  BY <1>0 DEF RegisterCli
<1>1. /\ pc[i] = "cli" /\ pc[i] \notin Rest /\ cli' = TRUE
      /\ UNCHANGED <<mode, extension, tracked, blueprint, exited, overlapped, early>>
  BY DEF RegisterCli, Rest
<1> DEFINE r == [own[i] EXCEPT !.cli = ~cli]
<1>2. /\ r \in PrivateType /\ r.cli = ~cli /\ r.tracked = own[i].tracked
      /\ r.worker = own[i].worker /\ r.logs = own[i].logs /\ r.finalizer = own[i].finalizer
  BY CallFacts DEF PrivateType, TypeOK
<1>3. Moves(i, "publish", r)
  BY <1>2, CallFacts, MovesView DEF Steps
<1> HIDE DEF r
<1>4. pc'[i] = "publish" /\ own'[i] = r
      /\ \A j \in Inits : j # i => pc'[j] = pc[j] /\ own'[j] = own[j]
  BY <1>3 DEF Moves
<1>5. CallOK(i)'
  BY <1>1, <1>2, <1>4, CallFacts
     DEF CallOK, PlaceOK, CommitOK, WorkerOK, Forward, Undoing
<1>6. AloneOK(i)'
  BY <1>1, <1>4, CallFacts DEF AloneOK, Standing, Forward, CallOK, CommitOK
<1>7. SharedOK'
  <2>1. \A j \in Inits \ {i} : /\ CliOwner(j) => CliOwner(j)'
                               /\ TrackOwner(j) => TrackOwner(j)'
                               /\ KeyOwner(j) => KeyOwner(j)'
    BY <1>1, <1>4 DEF CliOwner, TrackOwner, KeyOwner
  <2>2. ~CliOwner(i) /\ ~TrackOwner(i) /\ ~KeyOwner(i)
    BY <1>1, CallFacts DEF CliOwner, TrackOwner, KeyOwner, Forward, Undoing, CallOK, CommitOK
  <2>3. ~cli => CliOwner(i)'
    BY <1>1, <1>2, <1>4 DEF CliOwner, Forward
  <2>4. extension \in Inits \cup {Nobody} /\ cli \in BOOLEAN
    BY CallFacts DEF TypeOK
  <2> QED BY <1>1, <2>1, <2>2, <2>3, <2>4, CallFacts DEF SharedOK
<1> QED BY <1>1, <1>2, <1>3, <1>5, <1>6, <1>7, CallFacts, ActiveStep DEF TypeOK

\* The extension key is taken, whoever had it.
LEMMA PublishKeeps ==
  ASSUME InitInv, NEW i \in Inits, Publish(i)
  PROVE  InitInv'
<1>0. CASE Raise(i, "publish") /\ UNCHANGED extension
  BY <1>0, RaiseKeeps DEF Publish, Raise, flask
<1> SUFFICES ASSUME extension' = i, Goto(i, "track")  PROVE InitInv'
  BY <1>0 DEF Publish
<1>1. /\ pc[i] = "publish" /\ pc[i] \notin Rest /\ extension' = i
      /\ UNCHANGED <<mode, cli, tracked, blueprint, own, exited, overlapped, early>>
  BY DEF Publish, Rest
<1>2. Moves(i, "track", own[i])
  BY CallFacts, StaysView DEF Publish, Steps
<1>3. pc'[i] = "track" /\ \A j \in Inits : j # i => pc'[j] = pc[j]
  BY <1>2 DEF Moves
<1>4. CallOK(i)'
  BY <1>1, <1>3, CallFacts
     DEF CallOK, PlaceOK, CommitOK, WorkerOK, Forward, Undoing
<1>5. AloneOK(i)'
  BY <1>1, <1>3, CallFacts DEF AloneOK, Standing, Forward, CallOK, CommitOK
<1>6. SharedOK'
  <2>1. \A j \in Inits : /\ CliOwner(j) => CliOwner(j)'
                         /\ TrackOwner(j) => TrackOwner(j)'
    BY <1>1, <1>3 DEF CliOwner, TrackOwner, Forward, Undoing
  <2>2. KeyOwner(i)'
    BY <1>3 DEF KeyOwner, Forward
  <2> QED BY <1>1, <2>1, <2>2, CallFacts DEF SharedOK
<1> QED BY <1>1, <1>2, <1>4, <1>5, <1>6, CallFacts, ActiveStep DEF TypeOK

\* The application record is there and this call may remove it.
LEMMA TrackKeeps ==
  ASSUME InitInv, NEW i \in Inits, Track(i)
  PROVE  InitInv'
<1>1. /\ pc[i] = "track" /\ pc[i] \notin Rest
      /\ UNCHANGED <<mode, extension, cli, blueprint, exited, overlapped, early>>
  BY DEF Track, Rest
<1> DEFINE r == [own[i] EXCEPT !.tracked = TRUE]
<1>2. /\ r \in PrivateType /\ r.cli = own[i].cli /\ r.tracked
      /\ r.worker = own[i].worker /\ r.logs = own[i].logs /\ r.finalizer = own[i].finalizer
  BY CallFacts DEF PrivateType
<1>3. PICK p \in {"activate", "blueprint", "rollback"} :
        /\ Moves(i, p, r) /\ (p = "activate" => mode[i] = "disabled")
        /\ IF p = "rollback" THEN tracked' \in {tracked, TRUE} ELSE tracked' = TRUE
  BY <1>2, CallFacts, MovesView DEF Track, Raise, Steps
<1> HIDE DEF r
<1>4. pc'[i] = p /\ own'[i] = r
      /\ \A j \in Inits : j # i => pc'[j] = pc[j] /\ own'[j] = own[j]
  BY <1>3 DEF Moves
<1>5. CallOK(i)'
  BY <1>1, <1>2, <1>3, <1>4, CallFacts
     DEF CallOK, PlaceOK, CommitOK, WorkerOK, Forward, Undoing
<1>6. AloneOK(i)'
  BY <1>1, <1>3, <1>4, CallFacts DEF AloneOK, Standing, Forward, CallOK, CommitOK
<1>7. SharedOK'
  <2>1. \A j \in Inits : /\ CliOwner(j) => CliOwner(j)'
                         /\ KeyOwner(j) => KeyOwner(j)'
    BY <1>1, <1>2, <1>4 DEF CliOwner, KeyOwner, Forward
  <2>2. TrackOwner(i)'
    BY <1>2, <1>3, <1>4 DEF TrackOwner, Forward
  <2>3. extension \in Inits \cup {Nobody}
    BY CallFacts DEF TypeOK
  <2> QED BY <1>1, <2>1, <2>2, <2>3, CallFacts DEF SharedOK
<1> QED BY <1>1, <1>2, <1>3, <1>5, <1>6, <1>7, CallFacts, ActiveStep DEF TypeOK

\* The Blueprint becomes visible once at most.
LEMMA RegisterBlueprintKeeps ==
  ASSUME InitInv, NEW i \in Inits, RegisterBlueprint(i)
  PROVE  InitInv'
<1>1. /\ pc[i] = "blueprint" /\ pc[i] \notin Rest
      /\ UNCHANGED <<mode, extension, cli, tracked, own, exited, overlapped, early>>
  BY DEF RegisterBlueprint, Rest
<1>2. PICK p \in {"activate", "settle", "rollback"} :
        /\ Moves(i, p, own[i])
        /\ IF p = "rollback" THEN blueprint' = blueprint ELSE blueprint = Nobody /\ blueprint' = i
  BY CallFacts, StaysView DEF RegisterBlueprint, Steps
<1>3. pc'[i] = p /\ \A j \in Inits : j # i => pc'[j] = pc[j]
  BY <1>2 DEF Moves
<1>4. blueprint # i
  BY <1>1, CallFacts DEF CallOK, CommitOK
<1>5. CallOK(i)'
  BY <1>1, <1>2, <1>3, <1>4, CallFacts
     DEF CallOK, PlaceOK, CommitOK, WorkerOK, Forward, Undoing
<1>6. AloneOK(i)'
  BY <1>1, <1>2, <1>3, <1>4, CallFacts DEF AloneOK, Standing, Forward
<1>7. SharedOK'
  <2>1. \A j \in Inits : /\ CliOwner(j) => CliOwner(j)'
                         /\ TrackOwner(j) => TrackOwner(j)'
                         /\ KeyOwner(j) => KeyOwner(j)'
    BY <1>1, <1>2, <1>3, NobodyAssumption DEF CliOwner, TrackOwner, KeyOwner, Forward, Undoing
  <2>2. extension \in Inits \cup {Nobody}
    BY CallFacts DEF TypeOK
  <2> QED BY <1>1, <2>1, <2>2, CallFacts DEF SharedOK
<1> QED BY <1>1, <1>2, <1>5, <1>6, <1>7, CallFacts, ActiveStep DEF TypeOK

\* The command goes if this call has added it.
LEMMA RollbackCliKeeps ==
  ASSUME InitInv, NEW i \in Inits, RollbackCli(i)
  PROVE  InitInv'
<1>1. /\ pc[i] = "rollbackCli" /\ pc[i] \notin Rest /\ cli' = (cli /\ ~own[i].cli)
      /\ UNCHANGED <<mode, extension, tracked, blueprint, own, exited, overlapped, early>>
  BY DEF RollbackCli, Rest
<1>2. Moves(i, "rollbackExtension", own[i])
  BY CallFacts, StaysView DEF RollbackCli, Steps
<1>3. pc'[i] = "rollbackExtension" /\ \A j \in Inits : j # i => pc'[j] = pc[j]
  BY <1>2 DEF Moves
<1>4. CallOK(i)'
  BY <1>1, <1>3, CallFacts
     DEF CallOK, PlaceOK, CommitOK, WorkerOK, Forward, Undoing
<1>5. AloneOK(i)'
  BY <1>1, <1>3, CallFacts DEF AloneOK, Standing, Forward, CallOK, CommitOK
<1>6. SharedOK'
  <2>1. \A j \in Inits : /\ CliOwner(j) /\ j # i => CliOwner(j)'
                         /\ TrackOwner(j) => TrackOwner(j)'
                         /\ KeyOwner(j) => KeyOwner(j)'
    BY <1>1, <1>3 DEF CliOwner, TrackOwner, KeyOwner, Forward, Undoing
  <2>2. cli' => cli /\ ~CliOwner(i)
    BY <1>1 DEF CliOwner
  <2>3. extension \in Inits \cup {Nobody}
    BY CallFacts DEF TypeOK
  <2> QED BY <1>1, <2>1, <2>2, <2>3, CallFacts DEF SharedOK
<1>7. cli' \in BOOLEAN
  BY <1>1
<1> QED BY <1>1, <1>2, <1>4, <1>5, <1>6, <1>7, CallFacts, ActiveStep DEF TypeOK

\* The key goes if it is still the one of this call.
LEMMA RollbackExtensionKeeps ==
  ASSUME InitInv, NEW i \in Inits, RollbackExtension(i)
  PROVE  InitInv'
<1>1. /\ pc[i] = "rollbackExtension" /\ pc[i] \notin Rest
      /\ extension' = IF extension = i THEN Nobody ELSE extension
      /\ UNCHANGED <<mode, cli, tracked, blueprint, own, exited, overlapped, early>>
  BY DEF RollbackExtension, Rest
<1>2. Moves(i, "rollbackRecord", own[i])
  BY CallFacts, StaysView DEF RollbackExtension, Steps
<1>3. pc'[i] = "rollbackRecord" /\ \A j \in Inits : j # i => pc'[j] = pc[j]
  BY <1>2 DEF Moves
<1>4. CallOK(i)'
  BY <1>1, <1>3, CallFacts
     DEF CallOK, PlaceOK, CommitOK, WorkerOK, Forward, Undoing
<1>5. AloneOK(i)'
  BY <1>1, <1>3, CallFacts DEF AloneOK, Standing, Forward, CallOK, CommitOK
<1>6. SharedOK'
  <2>1. \A j \in Inits : /\ CliOwner(j) => CliOwner(j)'
                         /\ TrackOwner(j) => TrackOwner(j)'
                         /\ KeyOwner(j) /\ j # i => KeyOwner(j)'
    BY <1>1, <1>3 DEF CliOwner, TrackOwner, KeyOwner, Forward, Undoing
  <2>2. extension' # Nobody => extension' = extension /\ extension # i
    BY <1>1
  <2>3. extension \in Inits \cup {Nobody}
    BY CallFacts DEF TypeOK
  <2> QED BY <1>1, <2>1, <2>2, <2>3, CallFacts DEF SharedOK
<1>7. extension' \in Inits \cup {Nobody}
  BY <1>1, CallFacts DEF TypeOK
<1> QED BY <1>1, <1>2, <1>4, <1>5, <1>6, <1>7, CallFacts, ActiveStep DEF TypeOK

\* The application record and the log handlers go last.
LEMMA RollbackRecordKeeps ==
  ASSUME InitInv, NEW i \in Inits, RollbackRecord(i)
  PROVE  InitInv'
<1>1. /\ pc[i] = "rollbackRecord" /\ pc[i] \notin Rest /\ tracked' = (tracked /\ ~own[i].tracked)
      /\ UNCHANGED <<mode, extension, cli, blueprint, exited, overlapped, early>>
  BY DEF RollbackRecord, Rest
<1> DEFINE r == CloseLogs(own[i])
<1>2. /\ r \in PrivateType /\ r.cli = own[i].cli /\ r.tracked = own[i].tracked
      /\ r.worker = own[i].worker /\ r.finalizer = own[i].finalizer
      /\ r.logs # "open" /\ (own[i].logs # "none" => r.logs # "none")
  BY CallFacts DEF PrivateType, CloseLogs
<1>3. Moves(i, "failed", r)
  BY <1>2, CallFacts, MovesView DEF RollbackRecord, Steps, Rest
<1> HIDE DEF r
<1>4. pc'[i] = "failed" /\ own'[i] = r
      /\ \A j \in Inits : j # i => pc'[j] = pc[j] /\ own'[j] = own[j]
  BY <1>3 DEF Moves
<1>5. CallOK(i)'
  BY <1>1, <1>2, <1>4, CallFacts
     DEF CallOK, PlaceOK, CommitOK, WorkerOK, Forward, Undoing
<1>6. AloneOK(i)'
  BY <1>1, <1>4, CallFacts DEF AloneOK, Standing, Rest, CallOK, CommitOK
<1>7. SharedOK'
  <2>1. \A j \in Inits : /\ CliOwner(j) => CliOwner(j)'
                         /\ TrackOwner(j) /\ j # i => TrackOwner(j)'
                         /\ KeyOwner(j) => KeyOwner(j)'
    BY <1>1, <1>2, <1>4 DEF CliOwner, TrackOwner, KeyOwner, Forward, Undoing
  <2>2. tracked' => tracked /\ ~TrackOwner(i)
    BY <1>1 DEF TrackOwner
  <2>3. extension \in Inits \cup {Nobody}
    BY CallFacts DEF TypeOK
  <2> QED BY <1>1, <2>1, <2>2, <2>3, CallFacts DEF SharedOK
<1>8. tracked' \in BOOLEAN
  BY <1>1
<1> QED BY <1>1, <1>2, <1>3, <1>5, <1>6, <1>7, <1>8, CallFacts, ActiveStep DEF TypeOK

-----------------------------------------------------------------------------
(* The environment of a call *)

\* Another thread changes nothing but the worker of the published Runtime.
LEMMA OtherThreadKeeps ==
  ASSUME InitInv, extension # Nobody, ~exited, UNCHANGED <<pc, mode, flask, exited, overlapped>>,
         NEW w \in {"live", "cancelled", "stopped"}, own' = [own EXCEPT ![extension].worker = w],
         mode[extension] # "disabled", early \subseteq early', early' \subseteq Inits,
         w = "live" => blueprint = extension \/ extension \in early'
  PROVE  InitInv'
<1>1. PICK i \in Inits : i = extension /\ KeyOwner(i)
  BY DEF InitInv, TypeOK, SharedOK
<1>2. UNCHANGED <<extension, cli, tracked, blueprint>>
  BY DEF flask
<1> DEFINE r == [own[i] EXCEPT !.worker = w]
<1>3. /\ r \in PrivateType /\ r.cli = own[i].cli /\ r.tracked = own[i].tracked /\ r.worker = w
      /\ r.logs = own[i].logs /\ r.finalizer = own[i].finalizer
  BY CallFacts DEF PrivateType
<1>4. own' = [own EXCEPT ![i] = r]
  BY <1>1
<1> HIDE DEF r
<1>5. own' \in [Inits -> PrivateType] /\ own'[i] = r /\ \A j \in Inits : j # i => own'[j] = own[j]
  BY <1>3, <1>4 DEF InitInv, TypeOK
<1>6. TypeOK'
  BY <1>2, <1>3, <1>5 DEF InitInv, TypeOK
<1>7. CallOK(i)'
  BY <1>1, <1>2, <1>3, <1>5, CallFacts
     DEF CallOK, PlaceOK, CommitOK, WorkerOK, KeyOwner, Forward, Undoing
<1>8. ASSUME NEW j \in Inits, j # i  PROVE CallOK(j)'
  <2>1. /\ pc'[j] = pc[j] /\ own'[j] = own[j] /\ mode'[j] = mode[j]
        /\ (blueprint' = j <=> blueprint = j) /\ (j \in early => j \in early')
    BY <1>2, <1>5, <1>8
  <2>2. PlaceOK(j) /\ CommitOK(j) /\ WorkerOK(j)
    BY DEF InitInv, CallOK
  <2>3. PlaceOK(j)' /\ CommitOK(j)'
    BY <2>1, <2>2 DEF PlaceOK, CommitOK
  <2>4. WorkerOK(j)'
    BY <2>1, <2>2 DEF WorkerOK
  <2> QED BY <2>3, <2>4 DEF CallOK
<1>9. \A j \in Inits : AloneOK(j)'
  BY <1>2 DEF InitInv, AloneOK, Standing
<1>10. SharedOK'
  <2>1. \A j \in Inits : /\ CliOwner(j) => CliOwner(j)'
                         /\ TrackOwner(j) => TrackOwner(j)'
                         /\ KeyOwner(j) => KeyOwner(j)'
    BY <1>2, <1>3, <1>5 DEF CliOwner, TrackOwner, KeyOwner
  <2> QED BY <1>1, <1>2, <2>1 DEF InitInv, SharedOK
<1> QED BY <1>6, <1>7, <1>8, <1>9, <1>10 DEF InitInv, ExitOK

\* stop_registry from another thread.
LEMMA StopRegistryKeeps ==
  ASSUME InitInv, StopRegistry
  PROVE  InitInv'
<1>1. extension \in Inits /\ CallOK(extension)
  BY DEF InitInv, TypeOK, StopRegistry
<1>2. mode[extension] # "disabled"
  BY <1>1 DEF CallOK, WorkerOK, StopRegistry
<1>3. PICK w \in {"cancelled", "stopped"} : own' = [own EXCEPT ![extension].worker = w]
  BY DEF StopRegistry
<1> QED BY <1>2, <1>3, OtherThreadKeeps DEF StopRegistry, InitInv, TypeOK

\* start_registry from another thread.
LEMMA StartRegistryKeeps ==
  ASSUME InitInv, StartRegistry
  PROVE  InitInv'
<1>1. extension \in Inits /\ early \subseteq Inits
  BY DEF InitInv, TypeOK, StartRegistry
<1> QED BY <1>1, OtherThreadKeeps DEF StartRegistry

\* The finalizers run once every call is at rest.
LEMMA ExitKeeps ==
  ASSUME InitInv, Exit
  PROVE  InitInv'
<1>1. /\ exited' = TRUE /\ \A i \in Inits : pc[i] \in Rest
      /\ UNCHANGED <<pc, mode, overlapped, early, extension, cli, tracked, blueprint>>
  BY DEF Exit, flask
<1>2. ASSUME NEW i \in Inits
      PROVE  /\ own'[i] \in PrivateType /\ own'[i].cli = own[i].cli
             /\ own'[i].tracked = own[i].tracked /\ own'[i].finalizer = own[i].finalizer
             /\ own[i].finalizer # "armed" => own'[i] = own[i]
             /\ own'[i].worker = own[i].worker \/ own'[i].worker \in {"cancelled", "stopped"}
             /\ own[i].worker = "none" => own'[i].worker = "none"
             /\ own'[i].logs = own[i].logs \/ own'[i].logs = "closed"
             /\ own[i].finalizer = "armed" =>
                  /\ own'[i].worker \notin {"prepared", "live"}
                  /\ own'[i].worker # "gated" => own'[i].logs # "open"
  <2>1. own'[i] = Closed(own[i])
    BY <1>2 DEF Exit
  <2>2. CASE own[i].finalizer # "armed"
    BY <2>1, <2>2, CallFacts DEF Closed
  <2>3. CASE own[i].finalizer = "armed"
    <3>1. own[i].worker \in {"none", "prepared", "gated", "live", "cancelled", "stopped"}
      BY CallFacts DEF PrivateType
    <3>2. PICK w, l : /\ w = CASE own[i].worker = "prepared" -> "cancelled"
                               [] own[i].worker = "live"     -> "stopped"
                               [] OTHER                      -> own[i].worker
                      /\ l = IF own[i].worker = "gated" THEN own[i].logs ELSE "closed"
      OBVIOUS
    <3>3. /\ w \in {"none", "gated", "cancelled", "stopped"}
          /\ w = own[i].worker \/ w \in {"cancelled", "stopped"}
          /\ own[i].worker = "none" => w = "none"
          /\ w # "gated" => l = "closed"
          /\ l = own[i].logs \/ l = "closed"
      BY <3>1, <3>2
    <3> DEFINE q == [own[i] EXCEPT !.worker = w]
    <3>4. q \in PrivateType /\ q.worker = w /\ q.logs = own[i].logs /\ q.cli = own[i].cli
          /\ q.tracked = own[i].tracked /\ q.finalizer = own[i].finalizer
      BY <3>3, CallFacts DEF PrivateType
    <3>5. own'[i] = [q EXCEPT !.logs = l]
      BY <2>1, <2>3, <3>2, CallFacts DEF Closed, PrivateType
    <3> HIDE DEF q
    <3>6. l \in {"none", "open", "closed"}
      BY <3>3, CallFacts DEF PrivateType
    <3>7. /\ own'[i] \in PrivateType /\ own'[i].worker = w /\ own'[i].logs = l
          /\ own'[i].cli = q.cli /\ own'[i].tracked = q.tracked /\ own'[i].finalizer = q.finalizer
      BY <3>4, <3>5, <3>6 DEF PrivateType
    <3> QED BY <2>3, <3>3, <3>4, <3>7
  <2> QED BY <2>2, <2>3
<1>3. own' \in [Inits -> PrivateType]
  BY <1>2 DEF Exit
<1>4. TypeOK'
  BY <1>1, <1>2, <1>3 DEF InitInv, TypeOK
<1>5. ASSUME NEW i \in Inits  PROVE CallOK(i)'
  <2>1. pc[i] \in Rest /\ CallOK(i)
    BY <1>1 DEF InitInv
  <2>2. PlaceOK(i)'
    BY <1>1, <1>2, <2>1 DEF CallOK, PlaceOK, Rest, Forward, Undoing, Private
  <2>3. CommitOK(i)' /\ WorkerOK(i)'
    BY <1>1, <1>2, <2>1 DEF CallOK, CommitOK, WorkerOK
  <2> QED BY <2>2, <2>3 DEF CallOK
<1>6. \A i \in Inits : AloneOK(i)'
  BY <1>1 DEF InitInv, AloneOK, Standing
<1>7. SharedOK'
  BY <1>1, <1>2 DEF InitInv, SharedOK, CliOwner, TrackOwner, KeyOwner
<1>8. ExitOK'
  BY <1>1, <1>2 DEF ExitOK
<1> QED BY <1>4, <1>5, <1>6, <1>7, <1>8 DEF InitInv

-----------------------------------------------------------------------------

\* Nothing has begun.
LEMMA InitHolds ==
  ASSUME Init
  PROVE  InitInv
<1>1. Private \in PrivateType
  BY DEF Private, PrivateType
<1>2. TypeOK
  BY <1>1 DEF Init, TypeOK, Steps, Rest, Private
<1>3. ASSUME NEW i \in Inits  PROVE CallOK(i) /\ AloneOK(i)
  <2>1. pc[i] = "idle" /\ own[i] = Private /\ blueprint # i
    BY NobodyAssumption DEF Init
  <2> QED BY <2>1 DEF CallOK, PlaceOK, CommitOK, WorkerOK, AloneOK, Standing, Forward, Undoing,
                      Rest, Private
<1>4. SharedOK /\ ExitOK
  BY DEF Init, SharedOK, ExitOK
<1> QED BY <1>2, <1>3, <1>4 DEF InitInv

\* Every step of every call, of other threads and of the exit keeps the invariant.
LEMMA NextKeeps ==
  ASSUME InitInv, [Next]_vars
  PROVE  InitInv'
<1>1. ASSUME NEW i \in Inits, Step(i)  PROVE InitInv'
  <2>1. CASE Begin(i) \/ Preflight(i) \/ OpenLogs(i) \/ PrepareStart(i) \/ InstallFinalizer(i)
    BY <2>1, BeginKeeps, PreflightKeeps, OpenLogsKeeps, PrepareStartKeeps, InstallFinalizerKeeps
  <2>2. CASE RegisterCli(i) \/ Publish(i) \/ Track(i) \/ RegisterBlueprint(i)
    BY <2>2, RegisterCliKeeps, PublishKeeps, TrackKeeps, RegisterBlueprintKeeps
  <2>3. CASE Activate(i) \/ LogInitialized(i) \/ Settle(i)
    BY <2>3, ActivateKeeps, LogInitializedKeeps, SettleKeeps
  <2>4. CASE Rollback(i) \/ RollbackCli(i) \/ RollbackExtension(i) \/ RollbackRecord(i)
    BY <2>4, RollbackKeeps, RollbackCliKeeps, RollbackExtensionKeeps, RollbackRecordKeeps
  <2> QED BY <1>1, <2>1, <2>2, <2>3, <2>4 DEF Step
<1>2. CASE StopRegistry \/ StartRegistry \/ Exit
  BY <1>2, StopRegistryKeeps, StartRegistryKeeps, ExitKeeps
<1>3. CASE UNCHANGED vars
  <2>1. UNCHANGED <<pc, mode, extension, cli, tracked, blueprint, own, exited, overlapped, early>>
    BY <1>3 DEF vars, flask
  <2> QED BY <2>1
          DEF InitInv, TypeOK, CallOK, PlaceOK, CommitOK, WorkerOK, AloneOK, Standing,
              SharedOK, CliOwner, TrackOwner, KeyOwner, ExitOK
<1> QED BY <1>1, <1>2, <1>3 DEF Next, Ended

\* The inductive invariant of init_app.
THEOREM InitAppSafe == Spec => []InitInv
<1>1. Init => InitInv
  BY InitHolds
<1>2. InitInv /\ [Next]_vars => InitInv'
  BY NextKeeps
<1> QED BY <1>1, <1>2, PTL DEF Spec

\* Every variable keeps its type, and a finalizer is made for a Runtime that has
\* its log manager, for any number of calls.
THEOREM InitAppTypeCorrect == Spec => []TypeOK
<1>1. InitInv => TypeOK
  BY DEF InitInv
<1> QED BY <1>1, InitAppSafe, PTL

\* Whatever fails after the Blueprint is visible, everything that the call has
\* put into the application stays, unless another call overlapped it
\* (init_app, the exception handler of the commit).
THEOREM AllOrNothing == Spec => []CommittedTogether
<1>1. InitInv => CommittedTogether
  <2> SUFFICES ASSUME InitInv, blueprint \notin overlapped \cup {Nobody}
               PROVE  extension = blueprint /\ cli /\ tracked
                      /\ own[blueprint].finalizer = "armed"
    BY DEF CommittedTogether
  <2>1. blueprint \in Inits /\ CallOK(blueprint) /\ AloneOK(blueprint)
    BY DEF InitInv, TypeOK
  <2> QED BY <2>1 DEF CallOK, PlaceOK, CommitOK, AloneOK, Standing, Forward
<1> QED BY <1>1, InitAppSafe, PTL

\* A failed call leaves nothing behind that the next one would meet, and its
\* finalizer never runs (_close_uncommitted_runtime_resources), however many
\* calls overlap.
THEOREM FailsCleanly == Spec => []FailureLeavesNothing
<1>1. InitInv => FailureLeavesNothing
  <2> SUFFICES ASSUME InitInv  PROVE FailureLeavesNothing
    OBVIOUS
  <2>1. ASSUME \A i \in Inits : pc[i] \in {"idle", "failed"}, blueprint = Nobody
        PROVE  extension = Nobody /\ ~cli /\ ~tracked
    <3>1. \A i \in Inits : ~CliOwner(i) /\ ~TrackOwner(i) /\ ~KeyOwner(i)
      BY <2>1, NobodyAssumption DEF CliOwner, TrackOwner, KeyOwner, Forward, Undoing
    <3> QED BY <3>1 DEF InitInv, SharedOK, TypeOK
  <2>2. \A i \in Inits : pc[i] = "failed" /\ blueprint # i => own[i].finalizer # "armed"
    BY DEF InitInv, CallOK, PlaceOK
  <2> QED BY <2>1, <2>2 DEF FailureLeavesNothing
<1> QED BY <1>1, InitAppSafe, PTL

\* No renewal runs for a call whose Blueprint is not accepted, unless another
\* thread started the Registry of its published Runtime (the activation gate).
THEOREM GateHolds == Spec => []NoRenewalBeforeCommit
<1>1. InitInv => NoRenewalBeforeCommit
  BY DEF InitInv, CallOK, WorkerOK, NoRenewalBeforeCommit
<1> QED BY <1>1, InitAppSafe, PTL

\* After the exit no worker and no log handler is left, if the activation event
\* of a committed worker can be set at the second attempt
\* (_settle_prepared_after_publish_failure).
THEOREM EverythingEnds ==
  ASSUME "wake" \notin Faults
  PROVE  Spec => []NothingOutlivesTheApp
<1>1. ASSUME InitInv  PROVE NothingOutlivesTheApp
  <2> SUFFICES ASSUME exited, NEW i \in Inits
               PROVE  /\ \/ own[i].worker \in {"none", "cancelled", "stopped"}
                         \/ i \in early /\ pc[i] = "failed" /\ blueprint # i
                      /\ own[i].logs # "open"
    BY DEF NothingOutlivesTheApp
  <2>1. /\ pc[i] \in {"idle", "refused", "failed", "done"}
        /\ own[i].finalizer = "armed" =>
             /\ own[i].worker \notin {"prepared", "live"}
             /\ own[i].worker # "gated" => own[i].logs # "open"
    BY <1>1 DEF InitInv, ExitOK, Rest
  <2>2. PlaceOK(i) /\ WorkerOK(i)
    BY <1>1 DEF InitInv, CallOK
  <2>3. own[i].worker \in {"none", "prepared", "gated", "live", "cancelled", "stopped"}
        /\ own[i].worker # "gated"
    BY <1>1, <2>1, <2>2 DEF InitInv, TypeOK, PrivateType, WorkerOK
  <2>4. CASE pc[i] \in {"idle", "refused"}
    BY <2>2, <2>4 DEF PlaceOK, Private
  <2>5. CASE pc[i] = "done" \/ (pc[i] = "failed" /\ blueprint = i)
    BY <2>1, <2>2, <2>3, <2>5 DEF PlaceOK, Forward
  <2>6. CASE pc[i] = "failed" /\ blueprint # i
    BY <2>2, <2>3, <2>6 DEF PlaceOK, WorkerOK
  <2> QED BY <2>1, <2>4, <2>5, <2>6
<1>2. InitInv => NothingOutlivesTheApp
  BY <1>1
<1> QED BY <1>2, InitAppSafe, PTL

\* Among the calls that overlap, each takes away only the Runtime that it has
\* published itself, when it undoes its own publication
\* (_close_uncommitted_runtime_resources compares the entry with its Runtime),
\* so no Runtime that an application uses is removed under it.
THEOREM OthersRuntimeKept == Spec => OnlyOwnRuntimeRemoved
<1>1. InitInv /\ [Next]_vars
        => [extension # Nobody /\ extension' = Nobody
              => pc[extension] = "rollbackExtension"]_vars
  <2> SUFFICES ASSUME InitInv, Next, extension # Nobody, extension' = Nobody
               PROVE  pc[extension] = "rollbackExtension"
    OBVIOUS
  <2>1. ASSUME NEW i \in Inits, Step(i)
        PROVE  pc[extension] = "rollbackExtension"
    <3>1. CASE Publish(i)
      BY <3>1, NobodyAssumption DEF Publish
    <3>2. CASE RollbackExtension(i)
      BY <3>2 DEF RollbackExtension
    <3>3. CASE \/ Begin(i) \/ Preflight(i) \/ OpenLogs(i) \/ PrepareStart(i)
               \/ InstallFinalizer(i) \/ RegisterCli(i) \/ Track(i)
               \/ RegisterBlueprint(i) \/ Activate(i) \/ LogInitialized(i)
               \/ Settle(i) \/ Rollback(i) \/ RollbackCli(i)
               \/ RollbackRecord(i)
      BY <3>3 DEF Begin, Preflight, OpenLogs, PrepareStart, InstallFinalizer,
                  RegisterCli, Track, RegisterBlueprint, Activate,
                  LogInitialized, Settle, Rollback, RollbackCli,
                  RollbackRecord, flask
    <3> QED BY <2>1, <3>1, <3>2, <3>3 DEF Step
  <2>2. CASE StopRegistry \/ StartRegistry \/ Exit \/ Ended
    BY <2>2 DEF StopRegistry, StartRegistry, Exit, Ended, flask, vars
  <2> QED BY <2>1, <2>2 DEF Next
<1> QED BY <1>1, InitAppSafe, PTL DEF Spec, OnlyOwnRuntimeRemoved

=============================================================================
