------------------------------ MODULE Registry ------------------------------
(***************************************************************************)
(* The process-local registry lifecycle of Flask-XXLJob: RegistryService   *)
(* of flask_xxljob/registry/registry_service.py, in one process.           *)
(*                                                                         *)
(* Caller threads run the public operations (register, remove, start,      *)
(* stop, shutdown and the prepare / activate pair of init_app).  A renewal *)
(* worker is one spawned thread per lifecycle, a cleanup actor one spawned *)
(* thread per scheduled removal.                                           *)
(*                                                                         *)
(* A step is one critical section of state_lock, or the beginning or the   *)
(* end of one Admin call under network_lock.  The Event.set() that the     *)
(* code performs right after it releases state_lock is part of that        *)
(* critical section: it only wakes waiters, and a waiter that is woken     *)
(* later is a waiter that is scheduled later.                              *)
(***************************************************************************)
EXTENDS Integers, FiniteSets, Sequences

CONSTANTS
  Callers,      \* application threads that call the service
  Kinds,        \* the operations the callers may invoke
  Faults,       \* what may go wrong, see AllFaults
  MaxCalls,     \* bound: operations invoked in a behaviour
  MaxRenewals   \* bound: renewal timer expiries in a behaviour

AllKinds  == {"register", "remove", "start", "init", "stop", "stopRemove",
              "shutdown", "deregister"}
AllFaults == {"call",      \* an Admin call fails and has no effect
              "lost",      \* an Admin call takes effect, its answer is lost
              "prepare",   \* Thread.start() of a worker raises
              "spawn",     \* Thread.start() of a cleanup actor raises
              "config"}    \* validate_registry() raises during shutdown

ASSUME CallersAssumption == Callers \cap Nat = {}
ASSUME KindsAssumption   == Kinds \subseteq AllKinds
ASSUME FaultsAssumption  == Faults \subseteq AllFaults
ASSUME BoundsAssumption  == MaxCalls \in Nat /\ MaxRenewals \in Nat

VARIABLES
  generation,   \* state.generation
  worker,       \* state.worker: the thread of the committed context, or 0
  prepared,     \* state.prepared_start: the thread of the candidate, or 0
  stopping,     \* state.stopping_workers: the threads of the contexts
  ctx,          \* the worker contexts, by the thread each one runs on
  cl,           \* the cleanup part of the process state, see CleanupState
  actors,       \* state.cleanup_actors
  closing,      \* state.close_logs_when_idle
  logsClosed,   \* state.logs_closed
  net,          \* the thread that holds network_lock, or 0
  rpcSeq,       \* state.rpc_sequence
  applied,      \* state.last_applied_rpc_sequence
  thr,          \* the live threads and what each one is doing
  spawned,      \* how many threads were spawned, the name of the last one
  remote,       \* the Admin server lists this executor
  owed,         \* history: a removal was asked for, and no register and no
                \* start came after it
  released,     \* history: since the last removal that took effect, something
                \* happened that releases the library from what it owes
  calls,        \* operations invoked so far
  renewals      \* renewal timers expired so far

lifecycle == <<generation, worker, prepared, stopping, ctx>>
logs      == <<closing, logsClosed>>
rpcs      == <<net, rpcSeq, applied, remote, released>>
bounds    == <<calls, renewals>>
vars      == <<lifecycle, cl, actors, logs, rpcs, thr, spawned, owed, bounds>>

-----------------------------------------------------------------------------
(* Data.                                                                   *)

NoGen == -1     \* the None of an optional generation

\* _RegistryWorkerContext: stop and open are its stop and activation events,
\* wait the active removal at activation, owner whether prepared_owner is set.
\* The end of the worker clears it too, when nothing reads it any more.
Context(g) == [gen |-> g, stop |-> FALSE, wait |-> 0, open |-> FALSE, owner |-> TRUE]

\* _RemoveOperation: thread is its cleanup actor, result "none" before the end.
Operation(g) == [gen |-> g, done |-> FALSE, thread |-> 0, result |-> "none"]

\* _RegisterCoordination: the registers of one generation in flight.
Coordination(g) == [gen |-> g, inflight |-> 0, requested |-> FALSE,
                    done |-> FALSE]

\* A thread: the step it is at, the operation it runs, the removal or the
\* candidate it holds, its coordination, its generation, and its Admin call.
Idle == [pc |-> "idle", job |-> "none", ref |-> 0, coord |-> 0, gen |-> 0,
         rpc |-> "none", seq |-> 0, ok |-> FALSE]

Put(f, x, v)  == [y \in DOMAIN f \cup {x} |-> IF y = x THEN v ELSE f[y]]
Without(f, x) == [y \in DOMAIN f \ {x} |-> f[y]]

\* The thread t takes the local state v.
Go(t, v) == thr' = [thr EXCEPT ![t] = v]

\* The thread t moves on to the step p.
Goto(t, p) == thr' = [thr EXCEPT ![t].pc = p]

\* The local state after a call returned to the application, or the end of a
\* spawned thread.
Exit(t) == thr' = IF t \in Callers THEN [thr EXCEPT ![t] = Idle]
                  ELSE Without(thr, t)

\* The thread t is at the step p.
At(t, p) == t \in DOMAIN thr /\ thr[t].pc = p

-----------------------------------------------------------------------------
(* The helpers that run with state_lock held, on the cleanup state s.      *)
(* Those that may hand back an operation return the state and its name.    *)

Keep(s) == [cl |-> s, op |-> 0]

HasRemove(s, g) ==
  \/ s.active # 0 /\ s.ops[s.active].gen = g
  \/ s.pending # 0 /\ s.ops[s.pending].gen = g

\* Represent the cleanup of generation g as the pending operation, once.
EnsurePending(s, g) ==
  IF (g = 0 /\ ~s.registered) \/ s.removed = g
  THEN Keep(s)
  ELSE IF s.pending # 0
  THEN IF s.ops[s.pending].gen = g
       THEN [cl |-> [s EXCEPT !.requested = g], op |-> s.pending]
       ELSE Keep(s)
  ELSE IF s.requested = g
  THEN Keep(s)
  ELSE [cl |-> [s EXCEPT !.requested = g,
                         !.ops = Append(@, Operation(g)),
                         !.pending = Len(s.ops) + 1],
        op |-> Len(s.ops) + 1]

\* Mutation: a settled window stays the current one.
ReconcileKeepsWindow(s, g) ==
  LET k == s.coords[s.coord]
  IN  IF k.gen # g THEN Keep([s EXCEPT !.coord = 0])
      ELSE IF /\ k.requested /\ k.inflight = 0 /\ s.removed # g
              /\ g > 0 \/ s.registered
      THEN EnsurePending(s, g) ELSE Keep(s)

\* Settle the current coordination; g is the current generation.
Reconcile(s, g) ==
  LET k == s.coords[s.coord]
      r == IF /\ k.requested /\ k.inflight = 0
              /\ g > 0 \/ s.registered
              /\ s.removed # g
           THEN EnsurePending(s, g) ELSE Keep(s)
      settled == /\ k.inflight = 0
                 /\ \/ ~k.requested
                    \/ r.cl.removed = g
                    \/ g = 0 /\ ~s.registered
                    \/ ~HasRemove(r.cl, g) /\ r.cl.requested = g
  IN  IF k.gen # g THEN Keep([s EXCEPT !.coord = 0])
      ELSE IF settled THEN [r EXCEPT !.cl.coord = 0]
      ELSE r

\* Reconcile after a removal of generation og ended, whatever it hands back.
ReconcileAfter(s, og, g) ==
  IF s.coord # 0 /\ s.coords[s.coord].gen = og THEN Reconcile(s, g).cl ELSE s

\* A lifecycle asks for the cleanup of the current generation g.
RequestRemove(s, g) ==
  LET fallback(q) == IF q.removed = g \/ (g = 0 /\ ~q.registered)
                     THEN Keep(q) ELSE EnsurePending(q, g)
  IN  IF s.coord # 0 /\ s.coords[s.coord].gen = g
      THEN LET r == Reconcile([s EXCEPT !.coords[s.coord].requested = TRUE], g)
           IN  IF \/ r.op # 0
                  \/ r.cl.removed = g
                  \/ s.coords[s.coord].inflight > 0
               THEN r ELSE fallback(r.cl)
      ELSE fallback(s)

\* Mutation: the request marker of the cached removal survives.
InvalidateResultOnly(s, vg, c, g) ==
  IF vg = g /\ s.removed = g THEN [s EXCEPT !.removed = NoGen] ELSE s

\* An accepted register of generation vg reopens the cleanup responsibility;
\* c is the coordination it joined, 0 for a renewal.
Invalidate(s, vg, c, g) ==
  IF /\ vg = g
     /\ \/ s.removed = g
        \/ c # 0 /\ s.coord = c /\ s.coords[c].gen = g
             /\ (s.coords[c].requested \/ g = 0)
  THEN [s EXCEPT !.removed = NoGen, !.requested = NoGen]
  ELSE s

\* The registered part of _record_result_locked.
Record(s, kind, ok) ==
  [s EXCEPT !.registered = CASE kind = "renewal"        -> ok
                             [] kind = "register" /\ ok -> TRUE
                             [] kind = "remove" /\ ok   -> FALSE
                             [] OTHER                   -> @]

\* Mutation: the waiters are not woken.
FinishSilently(s, o, r) == [s EXCEPT !.ops[o].result = r]

\* The removal o ended with the result r: its done_event is set.
Finish(s, o, r) == [s EXCEPT !.ops[o].done = TRUE, !.ops[o].result = r]

\* Mutation: a removal that was cancelled stays pending.
CancelKeepsPending(s, o) == IF o = 0 THEN s ELSE [s EXCEPT !.ops[o].done = TRUE]

\* The removal o is dropped before any call was made for it.
Cancel(s, o) ==
  IF o = 0 THEN s ELSE [s EXCEPT !.pending = 0, !.ops[o].done = TRUE]

\* A new lifecycle detaches the window and wakes those who wait for it.
Detach(s) ==
  IF s.coord = 0 THEN s
  ELSE [s EXCEPT !.coords[s.coord].done = TRUE, !.coord = 0]

-----------------------------------------------------------------------------
Init ==
  /\ generation = 0 /\ worker = 0 /\ prepared = 0 /\ stopping = {}
  /\ ctx = [t \in {} |-> Context(0)]
  /\ cl = [pending |-> 0, active |-> 0, requested |-> NoGen,
           removed |-> NoGen, registered |-> FALSE, coord |-> 0,
           ops |-> <<>>, coords |-> <<>>]
  /\ actors = {} /\ closing = FALSE /\ logsClosed = FALSE
  /\ net = 0 /\ rpcSeq = 0 /\ applied = 0 /\ remote = FALSE /\ released = FALSE
  /\ thr = [c \in Callers |-> Idle]
  /\ spawned = 0 /\ owed = FALSE /\ calls = 0 /\ renewals = 0

\* state.worker is t and state.generation == t's generation, not stopped.
IsCurrent(t) == worker = t /\ generation = ctx[t].gen /\ ~ctx[t].stop

\* The caller c invokes an operation of the kind k.
Invoke(c, k) ==
  /\ k \in Kinds
  /\ thr[c].pc = "idle" /\ calls < MaxCalls
  /\ calls' = calls + 1
  /\ UNCHANGED <<renewals, rpcs>>

-----------------------------------------------------------------------------
(* register_once_result, remove_once_result                                *)

\* Join the window of the current generation, opening it when there is none;
\* a window that a cleanup has closed is not joined.
CallRegister(c) ==
  LET stale == cl.coord # 0 /\ cl.coords[cl.coord].gen # generation
      open  == cl.coord = 0 \/ stale
      coords1 == IF stale THEN [cl.coords EXCEPT ![cl.coord].done = TRUE]
                 ELSE cl.coords
      coords2 == IF open THEN Append(coords1, Coordination(generation))
                 ELSE coords1
      k == IF open THEN Len(coords2)
           ELSE IF cl.coords[cl.coord].requested THEN 0 ELSE cl.coord
  IN  /\ Invoke(c, "register")
      /\ cl' = [cl EXCEPT
           !.coord  = IF k = 0 THEN @ ELSE k,
           !.coords = IF k = 0 THEN coords2
                      ELSE [coords2 EXCEPT ![k].inflight = @ + 1,
                                           ![k].done = FALSE]]
      /\ Go(c, [Idle EXCEPT !.pc = "call", !.job = "register", !.coord = k,
                            !.gen = generation, !.rpc = "register"])
      /\ owed' = FALSE
      /\ UNCHANGED <<lifecycle, actors, logs, spawned>>

\* With no worker the removal is the terminal one of the generation.
CallRemove(c) ==
  /\ Invoke(c, "remove")
  /\ Go(c, [Idle EXCEPT !.pc = IF worker = 0 THEN "terminal" ELSE "call",
                        !.job = "remove", !.gen = generation,
                        !.rpc = "remove"])
  /\ UNCHANGED <<lifecycle, cl, actors, logs, spawned, owed>>

-----------------------------------------------------------------------------
(* One Admin call, under network_lock.                                     *)

RpcBegin(t) ==
  /\ At(t, "call") /\ net = 0
  /\ thr[t].rpc = "renewal" => IsCurrent(t)
  /\ net' = t
  /\ rpcSeq' = rpcSeq + 1
  /\ thr' = [thr EXCEPT ![t].pc = "rpc", ![t].seq = rpcSeq + 1]
  /\ UNCHANGED <<lifecycle, cl, actors, logs, applied, remote, released,
                 spawned, owed, bounds>>

\* The answers and the effects an Admin call may have.
Outcomes ==
  {o \in [ok : BOOLEAN, effect : BOOLEAN] :
     \/ o.ok /\ o.effect
     \/ ~o.ok /\ o.effect /\ "lost" \in Faults
     \/ ~o.ok /\ ~o.effect /\ "call" \in Faults}

\* The one removal of a generation was asked for and no success of it is on
\* record: a register whose window no cleanup waits for does not reopen it.
Spent == /\ generation > 0
         /\ cl.requested = generation /\ cl.removed # generation
         /\ ~(cl.coord # 0 /\ cl.coords[cl.coord].requested)

\* The library cannot answer for what the Admin server lists from now on: its
\* removal failed, or the answer of its register was lost, or the register
\* belongs to no window, or finds the removal of its generation spent.
Forsaken(t, o) ==
  \/ thr[t].rpc = "cleanup" /\ ~o.effect
  \/ thr[t].rpc \in {"register", "renewal"} /\ o.effect /\ ~o.ok
  \/ thr[t].rpc = "register" /\ o.effect
       /\ (thr[t].coord = 0 \/ thr[t].coord # cl.coord \/ Spent)

\* The call of t removed the executor.
Removed(t, o) == o.effect /\ thr[t].rpc \notin {"register", "renewal"}

RpcEnd(t) ==
  /\ At(t, "rpc")
  /\ \E o \in Outcomes :
       /\ remote' = IF o.effect THEN thr[t].rpc \in {"register", "renewal"}
                    ELSE remote
       /\ released' = (Forsaken(t, o) \/ (released /\ ~Removed(t, o)))
       /\ thr' = [thr EXCEPT ![t].pc = "commit", ![t].ok = o.ok]
  /\ net' = 0
  /\ UNCHANGED <<lifecycle, cl, actors, logs, rpcSeq, applied, spawned, owed,
                 bounds>>

\* Mutation: completions are applied in the order in which they arrive.
AcceptedAlways(t) == thr[t].seq > 0

\* The completion of t is newer than every one that was applied.
Accepted(t) == thr[t].seq > applied

\* _commit_one_shot of a register.
CommitRegister(t) ==
  LET me == thr[t]
      c  == me.coord
      s1 == IF Accepted(t) THEN Record(cl, "register", me.ok) ELSE cl
      s2 == IF /\ Accepted(t) /\ me.ok /\ c # 0 /\ cl.coord = c
               /\ generation = me.gen /\ cl.coords[c].gen = me.gen
            THEN Invalidate(s1, me.gen, c, generation) ELSE s1
      s3 == IF c = 0 THEN s2
            ELSE [s2 EXCEPT !.coords[c].inflight = IF @ > 0 THEN @ - 1 ELSE 0]
      r  == IF c # 0 /\ s3.coord = c THEN Reconcile(s3, generation)
            ELSE Keep(s3)
      s4 == IF c # 0 /\ s3.coords[c].inflight = 0
            THEN [r.cl EXCEPT !.coords[c].done = TRUE] ELSE r.cl
  IN  /\ At(t, "commit") /\ me.rpc = "register"
      /\ cl' = s4
      /\ applied' = IF Accepted(t) THEN me.seq ELSE applied
      /\ released' = (released \/ ~Accepted(t))
      /\ IF c = 0 THEN Exit(t)
         ELSE Goto(t, IF r.op # 0 THEN "schedTail" ELSE "closeTail")
      /\ UNCHANGED <<lifecycle, actors, logs, net, rpcSeq, remote, spawned,
                     owed, bounds>>

\* _commit_one_shot of a removal outside of the terminal protocol.
CommitRemove(t) ==
  /\ At(t, "commit") /\ thr[t].rpc = "remove"
  /\ cl' = IF Accepted(t) THEN Record(cl, "remove", thr[t].ok) ELSE cl
  /\ applied' = IF Accepted(t) THEN thr[t].seq ELSE applied
  /\ Exit(t)
  /\ UNCHANGED <<lifecycle, actors, logs, net, rpcSeq, remote, released,
                 spawned, owed, bounds>>

\* The second half of _perform_worker_registry: a result that is no longer
\* current is dropped and the worker ends.
CommitRenewal(t) ==
  LET me  == thr[t]
      acc == IsCurrent(t) /\ Accepted(t)
      s1  == Record(cl, "renewal", me.ok)
  IN  /\ At(t, "commit") /\ me.rpc = "renewal"
      /\ cl' = IF acc THEN IF me.ok
                           THEN Invalidate(s1, ctx[t].gen, 0, generation)
                           ELSE s1
               ELSE cl
      /\ applied' = IF acc THEN me.seq ELSE applied
      /\ Goto(t, IF IsCurrent(t) THEN "sleep" ELSE "finish")
      /\ UNCHANGED <<lifecycle, actors, logs, net, rpcSeq, remote, released,
                     spawned, owed, bounds>>

\* Mutation: the success is cached for whatever generation is current.
CloseCurrent(s, o) ==
  [s EXCEPT !.requested = generation, !.removed = generation]

\* The accepted success of the removal o is cached for its generation, if that
\* is the current one and its worker gone; a pending removal is then needless.
Close(s, o) ==
  LET og == cl.ops[o].gen
      s1 == [s EXCEPT !.requested = og, !.removed = og]
  IN  IF generation # og \/ worker # 0 THEN s
      ELSE IF s1.pending # 0 /\ s1.ops[s1.pending].gen = og
      THEN Cancel(s1, s1.pending) ELSE s1

\* _complete_remove_operation, with the done_event of the operation and of the
\* pending operation that its success made needless.
CompleteRemove(t) ==
  LET me  == thr[t]
      o   == me.ref
      og  == cl.ops[o].gen
      acc == cl.active = o /\ Accepted(t)
      s1  == IF acc THEN Record(cl, "remove", me.ok) ELSE cl
      s2  == IF acc /\ me.ok THEN Close(s1, o) ELSE s1
      s3  == IF s2.active = o THEN [s2 EXCEPT !.active = 0] ELSE s2
      s4  == Finish(s3, o, IF me.ok THEN "ok" ELSE "fail")
  IN  /\ At(t, "commit") /\ me.rpc = "cleanup"
      /\ cl' = ReconcileAfter(s4, og, generation)
      /\ applied' = IF acc THEN me.seq ELSE applied
      /\ Goto(t, "sched")
      /\ UNCHANGED <<lifecycle, actors, logs, net, rpcSeq, remote, released,
                     spawned, owed, bounds>>

-----------------------------------------------------------------------------
(* _terminal_remove_result: one iteration of its loop.                     *)

Unmoved == UNCHANGED <<lifecycle, actors, logs, rpcs, spawned, owed, bounds>>

InScope(t) == generation = thr[t].gen /\ worker = 0

RegistersInFlight(t) ==
  /\ cl.coord # 0
  /\ cl.coords[cl.coord].gen = thr[t].gen
  /\ cl.coords[cl.coord].inflight > 0

\* A newer lifecycle took the scope away: one plain removal.
TerminalOneShot(t) ==
  /\ At(t, "terminal") /\ ~InScope(t)
  /\ Goto(t, "call") /\ Unmoved /\ UNCHANGED cl

TerminalRegisters(t) ==
  /\ At(t, "terminal") /\ InScope(t) /\ RegistersInFlight(t)
  /\ thr' = [thr EXCEPT ![t].pc = "awaitRegisters", ![t].coord = cl.coord]
  /\ Unmoved /\ UNCHANGED cl

TerminalCached(t) ==
  /\ At(t, "terminal") /\ InScope(t) /\ ~RegistersInFlight(t)
  /\ cl.removed = thr[t].gen
  /\ Exit(t) /\ Unmoved /\ UNCHANGED cl

\* Mutation: the cached success does not end the loop.
UnsettledUncached(t) == At(t, "terminal") /\ InScope(t) /\ ~RegistersInFlight(t)

\* What is left to observe or to own.
Unsettled(t) == /\ At(t, "terminal") /\ InScope(t) /\ ~RegistersInFlight(t)
                /\ cl.removed # thr[t].gen

TerminalActive(t) ==
  /\ Unsettled(t) /\ cl.active # 0
  /\ thr' = [thr EXCEPT ![t].pc = "awaitActive", ![t].ref = cl.active]
  /\ Unmoved /\ UNCHANGED cl

\* Only an operation of the own generation is scheduled before the wait.
TerminalPending(t) ==
  /\ Unsettled(t) /\ cl.active = 0 /\ cl.pending # 0
  /\ thr' = [thr EXCEPT
       ![t].pc  = IF cl.ops[cl.pending].gen = thr[t].gen THEN "schedWait"
                  ELSE "awaitPending",
       ![t].ref = cl.pending]
  /\ Unmoved /\ UNCHANGED cl

TerminalOwn(t) ==
  /\ Unsettled(t) /\ cl.active = 0 /\ cl.pending = 0
  /\ cl' = [cl EXCEPT !.ops = Append(@, Operation(thr[t].gen)),
                      !.active = Len(cl.ops) + 1]
  /\ thr' = [thr EXCEPT ![t].pc = "call", ![t].rpc = "cleanup",
                        ![t].ref = Len(cl.ops) + 1]
  /\ Unmoved

AwaitRegisters(t) ==
  /\ At(t, "awaitRegisters") /\ cl.coords[thr[t].coord].done
  /\ Goto(t, "terminal") /\ Unmoved /\ UNCHANGED cl

\* The wait for an active operation of the own generation ends the call even
\* without a result; one that was cancelled while pending is looked at again.
AwaitRemove(t) ==
  LET o == cl.ops[thr[t].ref]
      same == o.gen = thr[t].gen
  IN  /\ At(t, "awaitActive") \/ At(t, "awaitPending")
      /\ o.done
      /\ IF same /\ (o.result # "none" \/ At(t, "awaitActive")) THEN Exit(t)
         ELSE Goto(t, "terminal")
      /\ Unmoved /\ UNCHANGED cl

-----------------------------------------------------------------------------
(* Threads that are spawned.                                               *)

\* A new thread in the local state v; f is what the others do meanwhile.
Spawn(f, v) == spawned' = spawned + 1 /\ thr' = Put(f, spawned + 1, v)

Local(j, p, g) == [Idle EXCEPT !.job = j, !.pc = p, !.gen = g]

\* Mutation: only a candidate stands in the way of a new one.
StartedPrepared == prepared # 0

\* A worker is current, or another caller owns a candidate.
Started == (worker # 0 /\ generation = ctx[worker].gen) \/ prepared # 0

\* _prepare_start: a worker thread that waits for its activation.
CallStart(c, k) ==
  LET t == spawned + 1
      nothing == UNCHANGED <<prepared, ctx, thr, spawned>>
  IN  /\ k \in {"start", "init"} /\ Invoke(c, k)
      /\ \/ Started /\ nothing
         \/ "prepare" \in Faults /\ ~Started /\ nothing
         \/ /\ ~Started
            /\ prepared' = t
            /\ ctx' = Put(ctx, t, Context(generation + 1))
            /\ Spawn([thr EXCEPT ![c] = [Idle EXCEPT !.pc = "prepared",
                                         !.job = k, !.ref = t]],
                     Local("worker", "gate", generation + 1))
      /\ UNCHANGED <<generation, worker, stopping, cl, actors, logs, owed>>

\* _activate_prepared_start.  Its three broken-ownership errors end at "raised".
Activate(c) ==
  LET p == thr[c].ref
      old == worker
      g == ctx[p].gen
      stop1 == IF old = 0 THEN ctx ELSE [ctx EXCEPT ![old].stop = TRUE]
      broken == \/ ~ctx[p].owner
                \/ g # generation + 1
                \/ old # 0 /\ generation = ctx[old].gen
  IN  /\ At(c, "prepared")
      /\ \/ /\ prepared # p
            /\ Exit(c) /\ UNCHANGED <<lifecycle, cl, released, owed>>
         \/ /\ prepared = p /\ broken
            /\ Goto(c, "raised") /\ UNCHANGED <<lifecycle, cl, released, owed>>
         \/ /\ prepared = p /\ ~broken
            /\ stopping' = IF old = 0 THEN stopping ELSE stopping \cup {old}
            /\ generation' = g /\ worker' = p /\ prepared' = 0
            /\ ctx' = [stop1 EXCEPT ![p].wait = cl.active, ![p].open = TRUE]
            /\ cl' = Cancel(Detach(cl), cl.pending)
            /\ owed' = FALSE /\ released' = FALSE
            /\ Exit(c)
      /\ UNCHANGED <<actors, logs, net, rpcSeq, applied, remote, spawned,
                     bounds>>

\* Take the candidate back: its thread is let through to find itself
\* uncommitted.
Discarded(p) == [ctx EXCEPT ![p].stop = TRUE, ![p].open = TRUE]

\* The same by the call that owns it.
Cancelled(p) == [ctx EXCEPT ![p].stop = TRUE, ![p].open = TRUE, ![p].owner = FALSE]

\* _cancel_prepared_start, and the uncommitted case of
\* _settle_prepared_after_publish_failure: init_app failed between the two.
CancelPrepared(c) ==
  LET p == thr[c].ref
  IN  /\ At(c, "prepared") /\ thr[c].job = "init"
      /\ IF prepared = p
         THEN prepared' = 0 /\ ctx' = Cancelled(p)
         ELSE UNCHANGED <<prepared, ctx>>
      /\ Exit(c)
      /\ UNCHANGED <<generation, worker, stopping, cl, actors, logs, rpcs,
                     spawned, owed, bounds>>

\* What stop() and shutdown() do first: drop the candidate, and let the
\* current worker stop.
StopLocal ==
  LET ctx1 == IF prepared = 0 THEN ctx ELSE Discarded(prepared)
  IN  /\ prepared' = 0
      /\ worker' = 0
      /\ stopping' = IF worker = 0 THEN stopping ELSE stopping \cup {worker}
      /\ ctx' = IF worker = 0 THEN ctx1 ELSE [ctx1 EXCEPT ![worker].stop = TRUE]
      /\ UNCHANGED generation

\* The coordination of the current generation, 0 when there is none.
Window == IF cl.coord # 0 /\ cl.coords[cl.coord].gen = generation
          THEN cl.coord ELSE 0

InflightRegister == Window # 0 /\ cl.coords[Window].inflight > 0

\* A cleanup of the current generation has something to remove.
CleanupDue ==
  \/ InflightRegister
  \/ /\ generation > 0 \/ cl.registered
     /\ cl.removed # generation /\ cl.requested # generation

CallStop(c, k) ==
  LET r == IF k = "stopRemove" THEN RequestRemove(cl, generation)
           ELSE Keep(cl)
  IN  /\ k \in {"stop", "stopRemove"} /\ Invoke(c, k)
      /\ StopLocal
      /\ cl' = r.cl
      /\ Go(c, Local(k, IF r.op # 0 THEN "schedStop" ELSE "closeTail",
                     generation))
      /\ owed' = (owed \/ (k = "stopRemove" /\ CleanupDue))
      /\ UNCHANGED <<actors, logs, spawned>>

\* The first critical section of shutdown(): stop, and close the window.
CallShutdown(c, k) ==
  LET deregister == k = "deregister"
      due == deregister /\ CleanupDue
  IN  /\ k \in {"shutdown", "deregister"} /\ Invoke(c, k)
      /\ StopLocal
      /\ closing' = TRUE
      /\ cl' = IF deregister /\ Window # 0
               THEN [cl EXCEPT !.coords[Window].requested = TRUE] ELSE cl
      /\ Go(c, Local(k, IF due THEN "request" ELSE "closeTail", generation))
      /\ owed' = (owed \/ due)
      /\ UNCHANGED <<actors, logsClosed, spawned>>

\* The second one, once the configuration was found valid.
ShutdownRequest(c) ==
  LET r == IF generation = thr[c].gen THEN RequestRemove(cl, generation)
           ELSE Keep(cl)
  IN  /\ At(c, "request")
      /\ \/ /\ cl' = r.cl
            /\ UNCHANGED owed
            /\ Goto(c, IF r.op # 0 THEN "schedShutdown" ELSE "closeTail")
         \/ /\ "config" \in Faults
            /\ owed' = FALSE
            /\ Goto(c, "closeTail") /\ UNCHANGED cl
      /\ UNCHANGED <<lifecycle, actors, logs, rpcs, spawned, bounds>>

-----------------------------------------------------------------------------
(* _schedule_pending_remove and _maybe_close_logs_when_idle.               *)

\* The five call sites of the scheduler, the step that follows each one, and
\* the step that follows when the actor's thread does not start: stop() and a
\* terminal removal raise, the others look at the logs once more.
SchedSites == {"sched", "schedTail", "schedStop", "schedShutdown", "schedWait"}
AfterSched(p) == CASE p = "sched"     -> "close"
                   [] p = "schedWait" -> "awaitPending"
                   [] OTHER           -> "closeTail"
AfterSpawnFailure(p) == CASE p = "sched"     -> "recheck"
                          [] p = "schedTail" -> "recheckTail"
                          [] OTHER           -> "closeTail"
Raises(p) == p \in {"schedStop", "schedWait"}

\* The pending operation has no owner yet and may get an actor.
Schedulable ==
  /\ cl.active = 0 /\ cl.pending # 0
  /\ \A w \in stopping : ctx[w].gen # cl.ops[cl.pending].gen
  /\ cl.ops[cl.pending].thread = 0

Schedule(t) ==
  LET p == thr[t].pc
      o == cl.pending
      a == spawned + 1
      moved == [thr EXCEPT ![t].pc = AfterSched(p)]
      failed == Finish([cl EXCEPT !.pending = 0], o, "fail")
  IN  /\ t \in DOMAIN thr /\ p \in SchedSites
      /\ \/ /\ ~Schedulable
            /\ thr' = moved /\ UNCHANGED <<cl, actors, spawned, released>>
         \/ /\ Schedulable
            /\ cl' = [cl EXCEPT !.ops[o].thread = a]
            /\ actors' = actors \cup {a}
            /\ Spawn(moved, [Local("actor", "claim", cl.ops[o].gen)
                               EXCEPT !.ref = o])
            /\ UNCHANGED released
         \/ /\ "spawn" \in Faults /\ Schedulable
            /\ cl' = ReconcileAfter(failed, cl.ops[o].gen, generation)
            /\ released' = TRUE
            /\ IF Raises(p) THEN Exit(t) ELSE Goto(t, AfterSpawnFailure(p))
            /\ UNCHANGED <<actors, spawned>>
      /\ UNCHANGED <<lifecycle, logs, net, rpcSeq, applied, remote, owed,
                     bounds>>

\* Mutation: the stopping workers are forgotten.
LogsIdleStopping == /\ prepared = 0 /\ worker = 0 /\ actors = {}
                    /\ cl.active = 0 /\ cl.pending = 0 /\ cl.coord = 0

LogsIdle == /\ prepared = 0 /\ worker = 0 /\ stopping = {} /\ actors = {}
            /\ cl.active = 0 /\ cl.pending = 0 /\ cl.coord = 0

\* The step after the logs were looked at inside of _execute_remove.
AfterExecute(j) == CASE j = "worker" -> "closeTail"
                     [] j = "actor"  -> "discard"
                     [] OTHER        -> "idle"

MaybeCloseLogs(t) ==
  LET p == thr[t].pc
      next == CASE p = "recheck"     -> "close"
                [] p = "recheckTail" -> "closeTail"
                [] p = "close"       -> AfterExecute(thr[t].job)
                [] OTHER             -> "idle"
  IN  /\ t \in DOMAIN thr
      /\ p \in {"recheck", "recheckTail", "close", "closeTail"}
      /\ logsClosed' = (logsClosed \/ (closing /\ LogsIdle))
      /\ IF next = "idle" THEN Exit(t) ELSE Goto(t, next)
      /\ UNCHANGED <<lifecycle, cl, actors, closing, rpcs, spawned, owed,
                     bounds>>

-----------------------------------------------------------------------------
(* The renewal worker.                                                     *)

\* Mutation: a worker that was stopped meanwhile was never committed.
CommittedCurrent(t) == worker = t

Committed(t) == worker = t \/ t \in stopping

\* _prepared_worker_entry and the head of _run_worker.
Gate(t) ==
  /\ At(t, "gate") /\ ctx[t].open
  /\ IF Committed(t)
     THEN thr' = [thr EXCEPT ![t].rpc = "renewal",
                             ![t].pc = IF IsCurrent(t) THEN
                                         IF ctx[t].wait = 0 THEN "call"
                                         ELSE "awaitOlder"
                                       ELSE "finish"]
     ELSE Exit(t)
  /\ Unmoved /\ UNCHANGED cl

\* Mutation: the older removal is not waited for.
AwaitOlderNot(t) ==
  At(t, "awaitOlder") /\ Goto(t, "call") /\ Unmoved /\ UNCHANGED cl

\* The wait for an older removal does not look at the stop event.
AwaitOlder(t) ==
  /\ At(t, "awaitOlder") /\ cl.ops[ctx[t].wait].done
  /\ Goto(t, "call") /\ Unmoved /\ UNCHANGED cl

\* Every ownership check of the loop, the one under network_lock included.
WorkerQuit(t) ==
  /\ \/ At(t, "call") /\ thr[t].rpc = "renewal"
     \/ At(t, "sleep")
  /\ ~IsCurrent(t)
  /\ Goto(t, "finish") /\ Unmoved /\ UNCHANGED cl

\* The wait for the interval timed out.
Tick(t) ==
  /\ At(t, "sleep") /\ ~ctx[t].stop
  /\ renewals < MaxRenewals /\ renewals' = renewals + 1
  /\ Goto(t, "call")
  /\ UNCHANGED <<lifecycle, cl, actors, logs, rpcs, spawned, owed, calls>>

\* Mutation: the claim overtakes the active removal.
MineAnyway(t) == cl.pending # 0 /\ cl.ops[cl.pending].gen = ctx[t].gen

\* The pending removal is the one of the worker t, which may take it over.
Mine(t) == /\ cl.pending # 0 /\ cl.active = 0
           /\ cl.ops[cl.pending].gen = ctx[t].gen

\* _finish_worker: claim the removal of the own generation and leave the
\* stopping workers in one critical section.
FinishWorker(t) ==
  /\ At(t, "finish")
  /\ stopping' = stopping \ {t}
  /\ worker' = IF worker = t THEN 0 ELSE worker
  /\ IF Mine(t)
     THEN /\ cl' = [cl EXCEPT !.pending = 0, !.active = cl.pending]
          /\ thr' = [thr EXCEPT ![t].pc = "call", ![t].rpc = "cleanup",
                                ![t].ref = cl.pending]
     ELSE Goto(t, "schedTail") /\ UNCHANGED cl
  /\ UNCHANGED <<generation, prepared, ctx, actors, logs, rpcs, spawned, owed,
                 bounds>>

-----------------------------------------------------------------------------
(* The cleanup actor.                                                      *)

Claim(t) ==
  /\ At(t, "claim")
  /\ IF cl.active = 0 /\ cl.pending = thr[t].ref
     THEN /\ cl' = [cl EXCEPT !.pending = 0, !.active = thr[t].ref]
          /\ thr' = [thr EXCEPT ![t].pc = "call", ![t].rpc = "cleanup"]
     ELSE Goto(t, "discard") /\ UNCHANGED cl
  /\ Unmoved

Discard(t) ==
  /\ At(t, "discard")
  /\ actors' = actors \ {t}
  /\ cl' = [cl EXCEPT !.ops[thr[t].ref].thread = IF @ = t THEN 0 ELSE @]
  /\ Goto(t, "schedTail")
  /\ UNCHANGED <<lifecycle, logs, rpcs, spawned, owed, bounds>>

-----------------------------------------------------------------------------
Call(c) ==
  \/ CallRegister(c)
  \/ CallRemove(c)
  \/ \E k \in Kinds : CallStart(c, k) \/ CallStop(c, k) \/ CallShutdown(c, k)

Step(t) ==
  \/ RpcBegin(t) \/ RpcEnd(t)
  \/ CommitRegister(t) \/ CommitRemove(t) \/ CommitRenewal(t)
  \/ CompleteRemove(t)
  \/ TerminalOneShot(t) \/ TerminalRegisters(t) \/ TerminalCached(t)
  \/ TerminalActive(t) \/ TerminalPending(t) \/ TerminalOwn(t)
  \/ AwaitRegisters(t) \/ AwaitRemove(t)
  \/ Activate(t) \/ CancelPrepared(t) \/ ShutdownRequest(t)
  \/ Schedule(t) \/ MaybeCloseLogs(t)
  \/ Gate(t) \/ AwaitOlder(t) \/ WorkerQuit(t) \/ FinishWorker(t)
  \/ Claim(t) \/ Discard(t)

\* No call is left to make, and every thread that lives is an idle caller or a
\* worker in the middle of its interval.
Quiet ==
  \A t \in DOMAIN thr : \/ thr[t].pc = "idle" /\ calls = MaxCalls
                        \/ thr[t].pc = "sleep" /\ ~ctx[t].stop
                             /\ renewals = MaxRenewals

Rest == Quiet /\ UNCHANGED vars

Next ==
  \/ \E c \in Callers : Call(c)
  \/ \E t \in DOMAIN thr : Step(t) \/ Tick(t)
  \/ Rest

Spec == Init /\ [][Next]_vars

-----------------------------------------------------------------------------
(* Types.                                                                  *)

Ref    == Nat
Gen    == Nat \cup {NoGen}

ContextType == [gen : Nat, stop : BOOLEAN, wait : Ref, open : BOOLEAN, owner : BOOLEAN]
OperationType == [gen : Nat, done : BOOLEAN, thread : Nat,
                  result : {"none", "ok", "fail"}]
CoordinationType == [gen : Nat, inflight : Nat, requested : BOOLEAN,
                     done : BOOLEAN]
CleanupState == [pending : Ref, active : Ref, requested : Gen, removed : Gen,
                 registered : BOOLEAN, coord : Ref, ops : Seq(OperationType),
                 coords : Seq(CoordinationType)]

Steps == {"idle", "raised", "call", "rpc", "commit", "terminal",
          "awaitRegisters", "awaitActive", "awaitPending", "prepared",
          "request", "recheck", "close", "recheckTail", "closeTail", "gate",
          "awaitOlder", "sleep", "finish", "claim", "discard"}
            \cup SchedSites
Jobs  == AllKinds \cup {"none", "worker", "actor"}
Rpcs  == {"none", "register", "remove", "renewal", "cleanup"}

LocalType == [pc : Steps, job : Jobs, ref : Ref, coord : Ref, gen : Nat,
              rpc : Rpcs, seq : Nat, ok : BOOLEAN]

\* The worker, the candidate and the stopping workers have a context.
LifecycleType ==
  /\ generation \in Nat /\ spawned \in Nat
  /\ DOMAIN ctx \subseteq 1..spawned
  /\ ctx \in [DOMAIN ctx -> ContextType]
  /\ worker \in DOMAIN ctx \cup {0}
  /\ prepared \in DOMAIN ctx \cup {0}
  /\ stopping \subseteq DOMAIN ctx

\* The fields of _RegistryProcessState name operations and a coordination
\* that exist.
CleanupType ==
  /\ cl \in CleanupState
  /\ cl.pending \in 0..Len(cl.ops) /\ cl.active \in 0..Len(cl.ops)
  /\ cl.coord \in 0..Len(cl.coords)

\* So do the threads.
RefsOK(v) ==
  /\ v.pc = "prepared" => v.ref \in DOMAIN ctx
  /\ v.rpc = "cleanup" \/ v.job = "actor" => v.ref \in 1..Len(cl.ops)

ThreadType ==
  /\ Callers \subseteq DOMAIN thr
  /\ DOMAIN thr \subseteq Callers \cup 1..spawned
  /\ \A t \in DOMAIN thr : thr[t] \in LocalType /\ RefsOK(thr[t])

\* Every variable has its type, and every name in it stands for something.
TypeOK ==
  /\ LifecycleType /\ CleanupType /\ ThreadType
  /\ actors \subseteq Nat
  /\ closing \in BOOLEAN /\ logsClosed \in BOOLEAN
  /\ net \in Callers \cup Nat /\ rpcSeq \in Nat /\ applied \in Nat
  /\ remote \in BOOLEAN /\ released \in BOOLEAN /\ owed \in BOOLEAN
  /\ calls \in Nat /\ renewals \in Nat

-----------------------------------------------------------------------------
(* Safety.                                                                 *)

\* The committed lifecycle is the newest one: a live worker belongs to the
\* current generation, a candidate to the one that follows and only while no
\* worker lives, and a pending removal to the current generation and only
\* once its worker is gone; so start() has cancelled every older one.
LifecycleOwnership ==
  /\ worker # 0 => ctx[worker].gen = generation /\ ~ctx[worker].stop
  /\ prepared # 0 => worker = 0 /\ ctx[prepared].gen = generation + 1
  /\ cl.pending # 0 => worker = 0 /\ cl.ops[cl.pending].gen = generation

\* The three RuntimeErrors of _activate_prepared_start are never raised.
NeverRaised == \A t \in DOMAIN thr : thr[t].pc # "raised"

\* The cached success of a removal is never served while a worker renews.
NoCachedRemovalWhileLive == worker # 0 => cl.removed # generation

\* A coordination window belongs to the current generation, and one that a
\* cleanup has closed goes with a lifecycle that has ended; so do a shutdown
\* that is about to ask for its removal, and a cached removal.
WindowOwnership ==
  /\ cl.coord # 0 => /\ cl.coords[cl.coord].gen = generation
                     /\ cl.coords[cl.coord].requested => worker = 0
  /\ \A t \in DOMAIN thr :
       thr[t].pc = "request" => /\ thr[t].gen <= generation
                                /\ thr[t].gen = generation => worker = 0
  /\ cl.removed <= generation

\* The inductive invariant of the lifecycle.
LifecycleInv == /\ TypeOK
                /\ LifecycleOwnership /\ NeverRaised
                /\ NoCachedRemovalWhileLive /\ WindowOwnership

\* A removal that is on its way belongs to the one active operation, which
\* still has to produce its result.
Removing(t) == thr[t].rpc = "cleanup" /\ thr[t].pc \in {"call", "rpc", "commit"}

OneActiveRemoval ==
  /\ \A t \in DOMAIN thr : Removing(t) => /\ cl.active = thr[t].ref
                                          /\ ~cl.ops[cl.active].done
  /\ \A t, u \in DOMAIN thr : Removing(t) /\ Removing(u) => t = u
  /\ cl.active # 0 => \E t \in DOMAIN thr : Removing(t)

\* A removal of an older lifecycle never undoes a registration of the current
\* one: until it is over, the current worker has not made its first call.
NoRemovalUnderNewLifecycle ==
  \A t \in DOMAIN thr :
    /\ thr[t].rpc = "cleanup" /\ thr[t].pc \in {"call", "rpc"}
    /\ worker # 0
    => /\ cl.ops[thr[t].ref].gen < generation
       /\ thr[worker].pc \in {"gate", "awaitOlder"}

\* No removal is sent for a generation whose removal has been accepted.
NoRedundantRemoval ==
  \A t \in DOMAIN thr :
    thr[t].rpc = "cleanup" /\ thr[t].pc \in {"call", "rpc"}
      => cl.removed # cl.ops[thr[t].ref].gen

\* A pending removal is never stranded: its own worker is stopping, it has an
\* actor, another removal is running, or a thread is about to schedule it.
PendingHasOwner ==
  cl.pending # 0 =>
    \/ cl.active # 0
    \/ \E w \in stopping \cap DOMAIN thr : ctx[w].gen = generation
    \/ cl.ops[cl.pending].thread \in actors
    \/ \E t \in DOMAIN thr : thr[t].pc \in SchedSites \cup {"discard", "finish"}

\* No call is under way and no background thread has work left.
Settled ==
  \A t \in DOMAIN thr : thr[t].pc = "idle" \/ (thr[t].pc = "sleep" /\ worker = t)

\* Deregistration works: once everything has come to rest after a cleanup was
\* asked for, the Admin server does not list the executor, unless since its
\* last removal a removal failed, the answer of a register was lost or came
\* after that of a newer call, or a register arrived outside of the window or
\* when the one removal of its generation was spent.  So a register or a
\* renewal that overlaps the cleanup is removed again.
CleanupIsEffective == Settled /\ owed /\ ~released => ~remote

\* What is expected of it: a register that reached the generation before the
\* cleanup was visible to it, in whatever order the two completed.
CleanupSeesRegisters == Settled /\ owed => ~remote

\* Without failing calls the registered flag of the manual API tells the
\* truth whenever no completion is outstanding.
SnapshotIsFaithful ==
  (/\ generation = 0
   /\ \A t \in DOMAIN thr : thr[t].pc \notin {"rpc", "commit"})
    => cl.registered = remote

\* A register that was accepted invalidates the cached removal.
CachedRemovalIsCurrent == ~(cl.registered /\ cl.removed = generation)

\* The log handlers are closed only when no spawned thread can still reach an
\* Admin call or a state change: what the guard counts is all there is.
Background(t) == t \notin Callers
  /\ thr[t].pc \notin SchedSites \cup {"recheck", "close", "recheckTail",
                                      "closeTail"}
  /\ ~(thr[t].pc = "gate" /\ t # worker /\ t \notin stopping)

LogsCloseAfterWork ==
  [][logsClosed' # logsClosed => \A t \in DOMAIN thr : ~Background(t)]_vars

-----------------------------------------------------------------------------
(* What the registry promises to those outside of it.                      *)

\* The committed lifecycle renews once its worker waits for nothing older.
Phase == IF worker = 0 THEN "off"
         ELSE IF thr[worker].pc \in {"gate", "awaitOlder"} THEN "starting"
         ELSE "renewing"

\* The call for the active removal came back with this answer.
Answered(ok) == \E t \in DOMAIN thr :
  Removing(t) /\ thr[t].pc = "commit" /\ thr[t].ok = ok

ActiveCleanup ==
  [gen    |-> IF cl.active = 0 THEN NoGen ELSE cl.ops[cl.active].gen,
   answer |-> IF Answered(TRUE) THEN "ok"
              ELSE IF Answered(FALSE) THEN "fail" ELSE "none"]

AdminCallNow == IF net = 0 THEN "none" ELSE thr[net].rpc

Contract == INSTANCE RegistryContract WITH
  phase <- Phase, cleanup <- ActiveCleanup, removed <- cl.removed,
  call <- AdminCallNow, listed <- remote, closed <- logsClosed

\* Whatever the threads do, the application and the Admin server see the
\* contract: one cleanup at a time, made for the newest lifecycle after its
\* end, over before the next one renews, on record only after its success,
\* and nothing of it after the log handlers were closed.
ImplementsContract == Contract!Spec

-----------------------------------------------------------------------------
(* Liveness.                                                               *)

\* Every operation returns to its caller.
CallsReturn == \A c \in Callers : thr[c].pc # "idle" ~> thr[c].pc = "idle"

\* A removal that was asked for is performed or given up, never forgotten.
RemovalsEnd == cl.pending # 0 \/ cl.active # 0
                 ~> cl.pending = 0 /\ cl.active = 0

\* After shutdown() the logs are closed, unless a lifecycle is started again.
LogsGetClosed == closing ~> logsClosed \/ worker # 0 \/ prepared # 0

=============================================================================
