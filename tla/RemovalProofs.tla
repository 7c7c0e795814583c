---------------------------- MODULE RemovalProofs ----------------------------
(***************************************************************************)
(* What the removals of Registry keep, for any number of callers, calls,   *)
(* renewals and faults: one removal at a time, none that is stranded, none *)
(* that is needless or that undoes the registration of a newer lifecycle,  *)
(* and no thread at work when the logs are closed.                         *)
(*                                                                         *)
(* Each fact is about the fields of the process state and the threads at   *)
(* once: RemovalInv says which thread every removal, every renewal worker  *)
(* and every cleanup actor that the state names is, and where it may be.   *)
(***************************************************************************)
EXTENDS RegistryProofs

-----------------------------------------------------------------------------
(* The inductive invariant.                                                *)

\* The steps of an Admin call, those of the renewal loop around it, and those
\* that a thread still takes when its work is done.
AdminSteps == {"call", "rpc", "commit"}
LoopSteps  == {"awaitOlder", "sleep", "finish"}
TailSteps  == {"sched", "schedTail", "recheck", "close", "recheckTail", "closeTail"}
LastSteps  == {"schedTail", "recheckTail", "closeTail"}

\* A renewal worker that has not left its loop.
InLoop(v) == \/ v.pc = "gate"
             \/ v.rpc = "renewal" /\ v.pc \in LoopSteps \cup AdminSteps

\* What each kind of thread may be at.
WorkerShape(v) ==
  /\ v.pc \in {"gate"} \cup LoopSteps \cup AdminSteps \cup TailSteps
  /\ v.pc \in LoopSteps => v.rpc = "renewal"
  /\ v.pc \in AdminSteps => v.rpc \in {"renewal", "cleanup"}

ActorShape(v) ==
  /\ v.pc \in {"claim", "discard"} \cup AdminSteps \cup TailSteps
  /\ v.pc \in AdminSteps => v.rpc = "cleanup"

TerminalSteps == {"terminal", "awaitRegisters", "awaitActive", "awaitPending",
                  "schedWait"}

CallerShape(v) ==
  /\ v.pc \notin {"gate", "claim", "discard"} \cup LoopSteps
  /\ v.rpc # "renewal"
  /\ v.pc \in TerminalSteps => v.rpc = "remove"

Shape(t, v) ==
  \/ t \notin Callers /\ v.job = "worker" /\ WorkerShape(v)
  \/ t \notin Callers /\ v.job = "actor" /\ ActorShape(v)
  \/ t \in Callers /\ v.job \notin {"worker", "actor"} /\ CallerShape(v)

Shapes == \A t \in DOMAIN thr : Shape(t, thr[t])

\* The active removal, the pending one, and the window.
ActiveOK(s, g) ==
  s.active # 0 => /\ s.ops[s.active].gen <= g
                  /\ ~s.ops[s.active].done
                  /\ s.removed # s.ops[s.active].gen

PendingOK(s, g) ==
  s.pending # 0 => /\ s.pending # s.active
                   /\ ~s.ops[s.pending].done
                   /\ s.removed # g

WindowOK(s, g) ==
  s.coord # 0 => s.coords[s.coord].inflight > 0 \/ s.requested = g

\* The renewal threads are those of the committed contexts.
WorkersOK ==
  /\ \A w \in stopping \cup ({worker} \ {0}) :
       /\ w \in DOMAIN thr
       /\ thr[w].job = "worker" /\ InLoop(thr[w])
  /\ \A t \in DOMAIN thr :
       thr[t].job = "worker" /\ thr[t].pc # "gate" /\ InLoop(thr[t])
         => t \in stopping \/ t = worker
  /\ prepared # 0 => /\ prepared \in DOMAIN thr /\ prepared \notin stopping
                     /\ thr[prepared].job = "worker"
                     /\ thr[prepared].pc = "gate" /\ ~ctx[prepared].open

\* The actors are those that state.cleanup_actors names, each with the removal
\* that names it.
Acting(v) == v.job = "actor" /\ v.pc \notin LastSteps

ActorsOK ==
  /\ actors = {t \in DOMAIN thr : Acting(thr[t])}
  /\ \A o \in 1..Len(cl.ops) :
       cl.ops[o].thread # 0 => /\ cl.ops[o].thread \in actors
                               /\ thr[cl.ops[o].thread].ref = o

\* The one thread that performs the active removal.
RemovingOK ==
  /\ \A t \in DOMAIN thr : Removing(t) => cl.active = thr[t].ref
  /\ \A t, u \in DOMAIN thr : Removing(t) /\ Removing(u) => t = u
  /\ cl.active # 0 => \E t \in DOMAIN thr : Removing(t)

\* A new worker waits for the active removal, which is of an older lifecycle.
WaitOK ==
  worker # 0 /\ cl.active # 0 =>
    /\ ctx[worker].wait = cl.active
    /\ thr[worker].pc \in {"gate", "awaitOlder"}
    /\ cl.ops[cl.active].gen < generation

RemovalInv ==
  /\ Shapes /\ WorkersOK /\ ActorsOK /\ RemovingOK /\ WaitOK
  /\ ActiveOK(cl, generation) /\ PendingOK(cl, generation)
  /\ WindowOK(cl, generation)
  /\ PendingHasOwner

-----------------------------------------------------------------------------
(* Lemmas about the helpers on the cleanup state.                          *)

\* c is s, or s with a new pending removal of generation g.
GrownTo(s, c, g) ==
  /\ c.active = s.active /\ c.removed = s.removed
  /\ \/ c.ops = s.ops /\ c.pending = s.pending
     \/ /\ s.pending = 0 /\ s.removed # g
        /\ c.ops = Append(s.ops, Operation(g))
        /\ c.pending = Len(s.ops) + 1

\* The same of a result that hands back an operation.
Grown(s, r, g) == /\ GrownTo(s, r.cl, g)
                  /\ r.op = 0 => r.cl.pending = s.pending

LEMMA KeepGrown == \A s, g : Grown(s, Keep(s), g) /\ Keep(s).cl = s
BY DEF Grown, GrownTo, Keep

\* A removal that is added keeps what is known of the others.
LEMMA GrownKeeps ==
  ASSUME NEW s, NEW c, NEW g \in Nat, NEW w \in Nat, CleanupOK(s, g, w),
         GrownTo(s, c, g)
  PROVE  /\ ActiveOK(s, g) => ActiveOK(c, g)
         /\ PendingOK(s, g) => PendingOK(c, g)
         /\ Len(s.ops) <= Len(c.ops)
         /\ \A o \in 1..Len(s.ops) : c.ops[o] = s.ops[o]
         /\ \A o \in 1..Len(c.ops) :
              o \notin 1..Len(s.ops) => c.ops[o].thread = 0
  <1> DEFINE n == Len(s.ops)
             q == Append(s.ops, Operation(g))
  <1>1. /\ s.ops \in Seq(OperationType) /\ n \in Nat
        /\ s.active \in 0..n /\ s.pending \in 0..n
    BY Fields DEF CleanupOK
  <1>2. /\ Len(q) = n + 1 /\ q[n + 1] = Operation(g)
        /\ \A o \in 1..n : q[o] = s.ops[o]
    BY <1>1, AddOperation
  <1>3. CASE c.ops = s.ops /\ c.pending = s.pending
    BY <1>1, <1>3 DEF GrownTo, ActiveOK, PendingOK
  <1>4. CASE s.removed # g /\ c.ops = q /\ c.pending = n + 1
    <2>1. ~Operation(g).done /\ Operation(g).thread = 0
      BY DEF Operation
    <2> HIDE DEF q, n
    <2>2. c.active = s.active /\ c.removed = s.removed
      BY DEF GrownTo
    <2>3. s.active # 0 => c.ops[c.active] = s.ops[s.active]
      BY <1>1, <1>2, <1>4, <2>2
    <2>4. /\ ActiveOK(s, g) => ActiveOK(c, g)
          /\ PendingOK(c, g)
      BY <1>1, <1>2, <1>4, <2>1, <2>2, <2>3 DEF ActiveOK, PendingOK
    <2> QED
      BY <1>1, <1>2, <1>4, <2>1, <2>4 DEF n
  <1> QED
    BY <1>3, <1>4 DEF GrownTo

\* What EnsurePending may do to a cleanup state without a worker.
LEMMA EnsurePendingGrown ==
  ASSUME NEW s, NEW g \in Nat, CleanupOK(s, g, 0),
         NEW r, r = EnsurePending(s, g)
  PROVE  /\ Grown(s, r, g)
         /\ r.cl.coord = s.coord /\ r.cl.coords = s.coords
         /\ WindowOK(s, g) => WindowOK(r.cl, g)
         /\ s.removed # g /\ (g > 0 \/ s.registered) => r.cl.requested = g
         /\ s.requested = g => r.cl.pending = s.pending
  <1> DEFINE q     == Append(s.ops, Operation(g))
             n     == Len(s.ops) + 1
             new   == [s EXCEPT !.requested = g, !.ops = q, !.pending = n]
             again == [s EXCEPT !.requested = g]
  <1>1. s \in CleanupState /\ n \in Nat /\ n # 0
    BY Fields DEF CleanupOK
  <1>2. s.pending # 0 => s.ops[s.pending].gen = g
    BY DEF CleanupOK
  <1>3. \/ r = Keep(s) /\ (s.removed # g /\ (g > 0 \/ s.registered) => s.requested = g)
        \/ r = [cl |-> again, op |-> s.pending] /\ s.pending # 0
        \/ /\ r = [cl |-> new, op |-> n]
           /\ s.pending = 0 /\ s.removed # g /\ s.requested # g
    BY <1>2 DEF EnsurePending
  <1>4. /\ new.pending = n /\ new.ops = q /\ new.requested = g
        /\ new.active = s.active /\ new.removed = s.removed
        /\ new.coord = s.coord /\ new.coords = s.coords
    BY <1>1 DEF CleanupState
  <1>5. /\ again.pending = s.pending /\ again.ops = s.ops
        /\ again.active = s.active /\ again.removed = s.removed
        /\ again.coord = s.coord /\ again.coords = s.coords
        /\ again.requested = g
    BY <1>1 DEF CleanupState
  <1> HIDE DEF new, again, q, n
  <1>6. CASE r = Keep(s)
    BY <1>3, <1>4, <1>5, <1>6, KeepGrown DEF Keep
  <1>7. CASE r = [cl |-> again, op |-> s.pending]
    BY <1>5, <1>7 DEF Grown, GrownTo, WindowOK
  <1>8. CASE /\ r = [cl |-> new, op |-> n]
             /\ s.pending = 0 /\ s.removed # g /\ s.requested # g
    BY <1>1, <1>4, <1>8 DEF Grown, GrownTo, WindowOK, q, n
  <1> QED
    BY <1>3, <1>6, <1>7, <1>8

\* A window is settled or asks for a removal; one that asks for it already
\* gets none a second time.
LEMMA ReconcileGrown ==
  ASSUME NEW s, NEW g \in Nat, NEW w \in Nat, CleanupOK(s, g, w),
         s.coord # 0, NEW r, r = Reconcile(s, g)
  PROVE  /\ Grown(s, r, g) /\ WindowOK(r.cl, g)
         /\ r.cl.coords = s.coords
         /\ WindowOK(s, g) => r.cl.pending = s.pending
  <1> DEFINE k == s.coords[s.coord]
             due == /\ k.requested /\ k.inflight = 0
                    /\ g > 0 \/ s.registered
                    /\ s.removed # g
             e == IF due THEN EnsurePending(s, g) ELSE Keep(s)
             settled == /\ k.inflight = 0
                        /\ \/ ~k.requested
                           \/ e.cl.removed = g
                           \/ g = 0 /\ ~s.registered
                           \/ ~HasRemove(e.cl, g) /\ e.cl.requested = g
             detached == [e EXCEPT !.cl.coord = 0]
  <1>1. /\ k.gen = g /\ (k.requested => w = 0) /\ k.inflight \in Nat
        /\ s \in CleanupState
    <2>1. s \in CleanupState /\ s.coord \in 1..Len(s.coords)
      BY Fields DEF CleanupOK
    <2>2. k \in CoordinationType
      BY <2>1, Fields
    <2> QED
      BY <2>1, <2>2 DEF CleanupOK, CoordinationType
  <1>2. /\ Grown(s, e, g)
        /\ e.cl.coord = s.coord /\ e.cl.coords = s.coords
        /\ due => e.cl.requested = g
        /\ s.requested = g => e.cl.pending = s.pending
        /\ ~due => e.cl = s
    <2>1. CASE due
      <3>1. CleanupOK(s, g, 0)
        BY <1>1, <2>1
      <3>2. e = EnsurePending(s, g)
        BY <2>1
      <3> HIDE DEF e, k
      <3> QED
        BY <2>1, <3>1, <3>2, EnsurePendingGrown
    <2>2. CASE ~due
      BY <2>2, KeepGrown
    <2> QED
      BY <2>1, <2>2
  <1>3. e = [cl |-> e.cl, op |-> e.op] /\ e.cl \in CleanupState
    <2>1. e = [cl |-> e.cl, op |-> e.op]
      BY DEF Keep, EnsurePending
    <2>2. CASE due
      <3>1. CleanupOK(s, g, 0)
        BY <1>1, <2>2
      <3>2. Handed(s, EnsurePending(s, g), g, 0)
        BY <3>1, EnsurePendingHanded
      <3> QED
        BY <2>1, <2>2, <3>2 DEF Handed, CleanupOK
    <2>3. CASE ~due
      BY <1>1, <1>2, <2>1, <2>3
    <2> QED
      BY <2>2, <2>3
  <1>4. r = IF settled THEN detached ELSE e
    BY <1>1 DEF Reconcile
  <1>5. WindowOK(s, g) => e.cl.pending = s.pending
    <2>1. CASE k.inflight > 0
      BY <1>2, <2>1
    <2>2. CASE ~(k.inflight > 0)
      BY <1>2, <2>2 DEF WindowOK
    <2> QED
      BY <2>1, <2>2
  <1>6. ~settled => k.inflight > 0 \/ e.cl.requested = g
    <2>1. SUFFICES ASSUME ~settled, ~(k.inflight > 0)
                   PROVE  e.cl.requested = g
      OBVIOUS
    <2>2. k.inflight = 0
      BY <1>1, <2>1
    <2>3. k.requested /\ e.cl.removed # g /\ ~(g = 0 /\ ~s.registered)
      BY <2>1, <2>2
    <2>4. s.removed # g
      BY <1>2, <2>3 DEF Grown, GrownTo
    <2>5. due
      BY <2>2, <2>3, <2>4
    <2> QED
      BY <1>2, <2>5
  <1> HIDE DEF due, e, settled
  <1>7. /\ detached = [cl |-> [e.cl EXCEPT !.coord = 0], op |-> e.op]
        /\ detached.op = e.op
        /\ detached.cl.active = e.cl.active /\ detached.cl.ops = e.cl.ops
        /\ detached.cl.removed = e.cl.removed
        /\ detached.cl.pending = e.cl.pending
        /\ detached.cl.coords = e.cl.coords /\ detached.cl.coord = 0
    BY <1>3 DEF CleanupState
  <1> HIDE DEF detached, k
  <1>8. CASE r = detached
    BY <1>2, <1>5, <1>7, <1>8 DEF Grown, GrownTo, WindowOK
  <1>9. CASE r = e /\ ~settled
    BY <1>2, <1>5, <1>6, <1>9 DEF Grown, WindowOK, k
  <1> QED
    BY <1>4, <1>8, <1>9

LEMMA ReconcileAfterGrown ==
  ASSUME NEW s, NEW og, NEW g \in Nat, NEW w \in Nat, CleanupOK(s, g, w),
         WindowOK(s, g)
  PROVE  /\ GrownTo(s, ReconcileAfter(s, og, g), g)
         /\ WindowOK(ReconcileAfter(s, og, g), g)
         /\ ReconcileAfter(s, og, g).pending = s.pending
  <1>1. CASE s.coord # 0 /\ s.coords[s.coord].gen = og
    BY <1>1, ReconcileGrown DEF ReconcileAfter, Grown
  <1>2. CASE ~(s.coord # 0 /\ s.coords[s.coord].gen = og)
    BY <1>2 DEF ReconcileAfter, GrownTo
  <1> QED
    BY <1>1, <1>2

\* A cleanup that is asked for with the worker gone.
LEMMA RequestRemoveGrown ==
  ASSUME NEW s, NEW g \in Nat, CleanupOK(s, g, 0), WindowOK(s, g),
         NEW r, r = RequestRemove(s, g)
  PROVE  Grown(s, r, g) /\ WindowOK(r.cl, g)
  <1> DEFINE fallback(q) == IF q.removed = g \/ (g = 0 /\ ~q.registered)
                            THEN Keep(q) ELSE EnsurePending(q, g)
             v == [s.coords[s.coord] EXCEPT !.requested = TRUE]
             closed == [s EXCEPT !.coords[s.coord].requested = TRUE]
             e == Reconcile(closed, g)
  <1>1. s \in CleanupState /\ Len(s.coords) \in Nat
    BY Fields DEF CleanupOK
  <1>2. ASSUME NEW q, CleanupOK(q, g, 0), WindowOK(q, g)
        PROVE  Grown(q, fallback(q), g) /\ WindowOK(fallback(q).cl, g)
    <2>1. CASE fallback(q) = Keep(q)
      BY <1>2, <2>1, KeepGrown
    <2>2. CASE fallback(q) = EnsurePending(q, g)
      BY <1>2, <2>2, EnsurePendingGrown
    <2> QED
      BY <2>1, <2>2
  <1>3. CASE ~(s.coord # 0 /\ s.coords[s.coord].gen = g)
    <2>1. r = fallback(s)
      BY <1>3 DEF RequestRemove
    <2> QED
      BY <1>2, <2>1
  <1>4. CASE s.coord # 0 /\ s.coords[s.coord].gen = g
    <2>1. s.coord \in 1..Len(s.coords)
      BY <1>1, <1>4 DEF CleanupOK
    <2>2. s.coords[s.coord] \in CoordinationType
      BY <1>1, <2>1, Fields
    <2>3. v \in CoordinationType /\ v.gen = s.coords[s.coord].gen
      BY <2>2 DEF CoordinationType
    <2>4. closed = [s EXCEPT !.coords = [s.coords EXCEPT ![s.coord] = v]]
      OBVIOUS
    <2>5. /\ closed.active = s.active /\ closed.ops = s.ops
          /\ closed.pending = s.pending /\ closed.removed = s.removed
          /\ closed.coord = s.coord
      BY <1>1, <2>4 DEF CleanupState
    <2> HIDE DEF closed, v
    <2>6. CleanupOK(closed, g, 0)
      <3> DEFINE c == s.coord
                 w == 0
      <3>1. /\ c \in 1..Len(s.coords) /\ v.gen = s.coords[c].gen
            /\ w = 0 \/ v.requested = s.coords[c].requested
            /\ closed = [s EXCEPT !.coords = [s.coords EXCEPT ![c] = v]]
            /\ w \in Nat /\ CleanupOK(s, g, w)
        BY <2>1, <2>3, <2>4
      <3> HIDE DEF c, w
      <3>2. Edited(s, closed, g, w)
        BY <2>3, <3>1, CoordinationChange
      <3> QED
        BY <3>2 DEF w, Edited
    <2>7. Grown(closed, e, g) /\ WindowOK(e.cl, g)
      <3>1. closed.coord # 0 /\ 0 \in Nat
        BY <1>4, <2>5
      <3> QED
        BY <2>6, <3>1, ReconcileGrown
    <2>8. CleanupOK(e.cl, g, 0)
      <3>1. closed.coord # 0 /\ 0 \in Nat
        BY <1>4, <2>5
      <3> QED
        BY <2>6, <3>1, ReconcileHanded DEF Handed
    <2>9. r = e \/ (r = fallback(e.cl) /\ e.op = 0)
      BY <1>4 DEF RequestRemove, closed
    <2> HIDE DEF e, fallback
    <2>10. Grown(s, e, g)
      BY <2>5, <2>7 DEF Grown, GrownTo
    <2>11. CASE r = fallback(e.cl) /\ e.op = 0
      <3>1. e.cl.ops = s.ops /\ e.cl.pending = s.pending
            /\ e.cl.active = s.active /\ e.cl.removed = s.removed
        <4>1. s.pending \in Nat /\ Len(s.ops) \in Nat
          BY <1>1, Fields
        <4> QED
          BY <2>10, <2>11, <4>1 DEF Grown, GrownTo
      <3>2. Grown(e.cl, fallback(e.cl), g) /\ WindowOK(fallback(e.cl).cl, g)
        BY <1>2, <2>7, <2>8
      <3> QED
        BY <2>11, <3>1, <3>2 DEF Grown, GrownTo
    <2> QED
      BY <2>7, <2>9, <2>10, <2>11
  <1> QED
    BY <1>3, <1>4

-----------------------------------------------------------------------------
(* Lemmas about the threads.                                               *)

\* No thread but t takes a step.
OnlyMoves(t) ==
  /\ DOMAIN thr' \ {t} = DOMAIN thr \ {t}
  /\ \A u \in DOMAIN thr \ {t} : thr'[u] = thr[u]

\* The thread t is still there.
Stays(t) == t \in DOMAIN thr'

LEMMA GoMoves ==
  ASSUME NEW t \in DOMAIN thr, NEW v, thr' = [thr EXCEPT ![t] = v]
  PROVE  OnlyMoves(t) /\ Stays(t) /\ thr'[t] = v
BY DEF OnlyMoves, Stays

LEMMA GotoMoves ==
  ASSUME IInv, NEW t \in DOMAIN thr, NEW p, Goto(t, p)
  PROVE  /\ OnlyMoves(t) /\ Stays(t)
         /\ thr'[t].pc = p /\ thr'[t].job = thr[t].job
         /\ thr'[t].rpc = thr[t].rpc /\ thr'[t].ref = thr[t].ref
         /\ thr'[t].gen = thr[t].gen
BY OwnLocal DEF Goto, OnlyMoves, Stays, LocalType

\* The call of a caller returns: it is idle. A spawned thread is gone.
LEMMA ExitMoves ==
  ASSUME NEW t \in DOMAIN thr, Exit(t)
  PROVE  /\ OnlyMoves(t)
         /\ Stays(t) <=> t \in Callers
         /\ Stays(t) => /\ thr'[t].pc = "idle" /\ thr'[t].job = "none"
                        /\ thr'[t].rpc = "none"
BY DEF Exit, OnlyMoves, Stays, Without, Idle

LEMMA ShapesStep ==
  ASSUME Shapes, NEW t, OnlyMoves(t), Stays(t) => Shape(t, thr'[t])
  PROVE  Shapes'
BY DEF Shapes, OnlyMoves, Stays

\* A caller that returns has its shape.
LEMMA ExitShape ==
  ASSUME Shapes, NEW t \in DOMAIN thr, Exit(t)
  PROVE  Shapes'
  <1>1. /\ OnlyMoves(t)
        /\ Stays(t) => /\ t \in Callers
                       /\ thr'[t].pc = "idle" /\ thr'[t].job = "none"
                       /\ thr'[t].rpc = "none"
    BY ExitMoves
  <1>2. Stays(t) => Shape(t, thr'[t])
    BY <1>1 DEF Shape, CallerShape, LoopSteps, TerminalSteps
  <1> QED
    BY <1>1, <1>2, ShapesStep

\* A committed worker stays in its loop, and no other thread enters it.
LEMMA WorkersStep ==
  ASSUME WorkersOK, NEW t, OnlyMoves(t), t # prepared,
         UNCHANGED <<worker, stopping, prepared>>,
         prepared # 0 => ctx'[prepared].open = ctx[prepared].open,
         Committed(t) => Stays(t) /\ thr'[t].job = "worker" /\ InLoop(thr'[t]),
         /\ Stays(t) /\ thr'[t].job = "worker" /\ thr'[t].pc # "gate"
         /\ InLoop(thr'[t])
         => Committed(t)
  PROVE  WorkersOK'
BY DEF WorkersOK, OnlyMoves, Stays, Committed, InLoop

\* An actor stays one, with its removal.
LEMMA ActorsStep ==
  ASSUME IInv, ActorsOK, NEW t, OnlyMoves(t), UNCHANGED actors,
         t \in DOMAIN thr,
         Acting(thr[t]) <=> Stays(t) /\ Acting(thr'[t]),
         Acting(thr[t]) => thr'[t].ref = thr[t].ref,
         \A o \in 1..Len(cl'.ops) :
           cl'.ops[o].thread = IF o \in 1..Len(cl.ops) THEN cl.ops[o].thread
                               ELSE 0
  PROVE  ActorsOK'
  <1>1. actors' = {u \in DOMAIN thr' : Acting(thr'[u])}
    BY DEF ActorsOK, OnlyMoves, Stays
  <1>2. ASSUME NEW o \in 1..Len(cl'.ops), cl'.ops[o].thread # 0
        PROVE  /\ cl'.ops[o].thread \in actors'
               /\ thr'[cl'.ops[o].thread].ref = o
    <2>1. /\ o \in 1..Len(cl.ops) /\ cl'.ops[o].thread = cl.ops[o].thread
          /\ cl.ops[o].thread # 0
      BY <1>2
    <2>2. cl.ops[o].thread \in actors /\ thr[cl.ops[o].thread].ref = o
      BY <2>1 DEF ActorsOK
    <2>3. cl.ops[o].thread \in DOMAIN thr /\ Acting(thr[cl.ops[o].thread])
      BY <2>2 DEF ActorsOK
    <2>4. thr'[cl.ops[o].thread].ref = thr[cl.ops[o].thread].ref
      BY <2>3 DEF OnlyMoves
    <2> QED
      BY <2>1, <2>2, <2>4
  <1> QED
    BY <1>1, <1>2 DEF ActorsOK

\* The thread that removes goes on with it, and no other one begins.
LEMMA RemovingStep ==
  ASSUME RemovingOK, NEW t \in DOMAIN thr, OnlyMoves(t),
         cl'.active = cl.active,
         Removing(t) => Stays(t) /\ Removing(t)',
         Stays(t) /\ Removing(t)' => Removing(t) /\ thr'[t].ref = thr[t].ref
  PROVE  RemovingOK'
  <1>1. \A u \in DOMAIN thr' : Removing(u)' =>
          u \in DOMAIN thr /\ Removing(u) /\ thr'[u].ref = thr[u].ref
    BY DEF OnlyMoves, Stays, Removing
  <1>2. \A u \in DOMAIN thr : Removing(u) => u \in DOMAIN thr' /\ Removing(u)'
    BY DEF OnlyMoves, Stays, Removing
  <1> QED
    BY <1>1, <1>2 DEF RemovingOK

\* Whoever owns the pending removal still does.
Owning(v) == v.pc \in SchedSites \cup {"discard", "finish"}

LEMMA OwnerStep ==
  ASSUME PendingHasOwner, NEW t \in DOMAIN thr, OnlyMoves(t),
         UNCHANGED <<generation, stopping, ctx, actors>>,
         \/ cl'.pending = 0
         \/ Stays(t) /\ Owning(thr'[t])
         \/ /\ cl'.pending = cl.pending /\ cl'.active = cl.active
            /\ cl'.ops[cl.pending].thread = cl.ops[cl.pending].thread
            /\ t \in stopping => Stays(t)
            /\ ~Owning(thr[t])
  PROVE  PendingHasOwner'
  <1>1. CASE cl'.pending = 0
    BY <1>1 DEF PendingHasOwner
  <1>2. CASE Stays(t) /\ Owning(thr'[t])
    BY <1>2 DEF PendingHasOwner, Owning, Stays
  <1>3. CASE /\ cl'.pending = cl.pending /\ cl'.active = cl.active
             /\ cl'.ops[cl.pending].thread = cl.ops[cl.pending].thread
             /\ t \in stopping => Stays(t)
             /\ ~Owning(thr[t])
    <2>1. \A w \in stopping \cap DOMAIN thr : w \in DOMAIN thr'
      BY <1>3 DEF OnlyMoves, Stays
    <2>2. \A u \in DOMAIN thr : Owning(thr[u]) =>
            u \in DOMAIN thr' /\ Owning(thr'[u])
      BY <1>3 DEF OnlyMoves
    <2>3. PendingHasOwner
      OBVIOUS
    <2> QED
      BY <1>3, <2>1, <2>2, <2>3 DEF PendingHasOwner, Owning
  <1> QED
    BY <1>1, <1>2, <1>3

-----------------------------------------------------------------------------
(* The steps that leave the removals as they are, or only add one.         *)

\* A removal may be added to the others, and none of them changes.
RemovalsGrow ==
  /\ cl'.active = cl.active
  /\ Len(cl.ops) <= Len(cl'.ops)
  /\ \A o \in 1..Len(cl.ops) : cl'.ops[o] = cl.ops[o]
  /\ \A o \in 1..Len(cl'.ops) : o \notin 1..Len(cl.ops) => cl'.ops[o].thread = 0
  /\ ActiveOK(cl', generation) /\ PendingOK(cl', generation)
  /\ WindowOK(cl', generation)

LEMMA GrowStep ==
  ASSUME IInv, RemovalInv, NEW t \in DOMAIN thr, OnlyMoves(t), RemovalsGrow,
         UNCHANGED <<worker, stopping, prepared, ctx, generation, actors>>,
         Shapes', t # prepared,
         Committed(t) => Stays(t) /\ thr'[t].job = "worker" /\ InLoop(thr'[t]),
         /\ Stays(t) /\ thr'[t].job = "worker" /\ thr'[t].pc # "gate"
         /\ InLoop(thr'[t])
         => Committed(t),
         Acting(thr[t]) <=> Stays(t) /\ Acting(thr'[t]),
         Acting(thr[t]) => thr'[t].ref = thr[t].ref,
         Removing(t) => Stays(t) /\ Removing(t)',
         Stays(t) /\ Removing(t)' => Removing(t) /\ thr'[t].ref = thr[t].ref,
         t = worker /\ cl.active # 0 => thr'[t].pc \in {"gate", "awaitOlder"},
         \/ Stays(t) /\ Owning(thr'[t])
         \/ cl'.pending = cl.pending /\ ~Owning(thr[t])
  PROVE  RemovalInv'
  <1>1. WorkersOK'
    BY WorkersStep DEF RemovalInv
  <1>2. /\ cl.active \in 0..Len(cl.ops) /\ cl.pending \in 0..Len(cl.ops)
        /\ Len(cl.ops) \in Nat
    BY Numbers DEF IInv, CleanupOK
  <1>3. ActorsOK'
    BY ActorsStep DEF RemovalInv, RemovalsGrow
  <1>4. RemovingOK'
    BY RemovingStep DEF RemovalInv, RemovalsGrow
  <1>5. WaitOK'
    BY <1>2 DEF RemovalInv, WaitOK, RemovalsGrow, OnlyMoves, WorkersOK
  <1>6. /\ ActiveOK(cl, generation)' /\ PendingOK(cl, generation)'
        /\ WindowOK(cl, generation)'
    BY DEF RemovalsGrow
  <1>7. t \in stopping => Stays(t)
    BY DEF Committed
  <1>8. PendingHasOwner'
    <2>1. PendingHasOwner
      BY DEF RemovalInv
    <2>2. cl.pending # 0 => cl'.ops[cl.pending] = cl.ops[cl.pending]
      BY <1>2 DEF RemovalsGrow
    <2>3. \/ cl'.pending = 0
          \/ Stays(t) /\ Owning(thr'[t])
          \/ /\ cl'.pending = cl.pending /\ cl'.active = cl.active
             /\ cl'.ops[cl.pending].thread = cl.ops[cl.pending].thread
             /\ t \in stopping => Stays(t)
             /\ ~Owning(thr[t])
      BY <1>7, <2>2 DEF RemovalsGrow
    <2> QED
      BY <2>1, <2>3, OwnerStep
  <1> QED
    BY <1>1, <1>3, <1>4, <1>5, <1>6, <1>8 DEF RemovalInv

\* A step that changes neither the lifecycle nor a removal.
NoRemovalMoves ==
  /\ UNCHANGED <<worker, stopping, prepared, ctx, generation, actors>>
  /\ cl'.ops = cl.ops /\ cl'.active = cl.active /\ cl'.pending = cl.pending
  /\ cl'.removed = cl.removed
  /\ WindowOK(cl', generation)

LEMMA QuietStep ==
  ASSUME IInv, RemovalInv, NEW t \in DOMAIN thr, OnlyMoves(t), NoRemovalMoves,
         Shapes', t # prepared,
         Committed(t) => Stays(t) /\ thr'[t].job = "worker" /\ InLoop(thr'[t]),
         /\ Stays(t) /\ thr'[t].job = "worker" /\ thr'[t].pc # "gate"
         /\ InLoop(thr'[t])
         => Committed(t),
         Acting(thr[t]) <=> Stays(t) /\ Acting(thr'[t]),
         Acting(thr[t]) => thr'[t].ref = thr[t].ref,
         Removing(t) => Stays(t) /\ Removing(t)',
         Stays(t) /\ Removing(t)' => Removing(t) /\ thr'[t].ref = thr[t].ref,
         t = worker /\ cl.active # 0 => thr'[t].pc \in {"gate", "awaitOlder"},
         \/ Stays(t) /\ Owning(thr'[t])
         \/ ~Owning(thr[t])
  PROVE  RemovalInv'
  <1>1. RemovalsGrow
    BY Numbers
       DEF RemovalsGrow, NoRemovalMoves, RemovalInv, ActiveOK, PendingOK
  <1> QED
    BY <1>1, GrowStep DEF NoRemovalMoves

\* Spawned threads are numbered from 1, and no caller is a number.
LEMMA ThreadNames ==
  ASSUME IInv
  PROVE  /\ 0 \notin DOMAIN thr
         /\ worker \notin Callers /\ prepared \notin Callers
         /\ stopping \cap Callers = {}
         /\ spawned + 1 \notin DOMAIN thr /\ spawned + 1 \notin Callers
         /\ spawned + 1 \notin stopping /\ spawned + 1 # worker
         /\ spawned + 1 # prepared
  <1>1. /\ spawned \in Nat /\ DOMAIN ctx \subseteq 1..spawned
        /\ worker \in DOMAIN ctx \cup {0} /\ prepared \in DOMAIN ctx \cup {0}
        /\ stopping \subseteq DOMAIN ctx
    BY DEF IInv, LifeOK
  <1>2. DOMAIN thr \subseteq Callers \cup 1..spawned
    BY DEF IInv, ThreadsOK
  <1>3. /\ worker \in Nat /\ prepared \in Nat /\ stopping \subseteq Nat
        /\ spawned + 1 \in Nat
    BY <1>1
  <1> QED
    BY <1>1, <1>2, <1>3, CallersAssumption

\* The thread t goes from v to u in the same role.
SameRole(v, u) ==
  /\ u.job = v.job
  /\ v.pc # "gate" /\ u.pc # "gate"
  /\ InLoop(v) <=> InLoop(u)
  /\ Acting(v) <=> Acting(u)
  /\ Acting(v) => u.ref = v.ref
  /\ v.rpc = "cleanup" /\ v.pc \in AdminSteps
       <=> u.rpc = "cleanup" /\ u.pc \in AdminSteps
  /\ u.rpc = "cleanup" /\ u.pc \in AdminSteps => u.ref = v.ref
  /\ Owning(v) => Owning(u)

LEMMA QuietMove ==
  ASSUME IInv, RemovalInv, NEW t \in DOMAIN thr, NEW u,
         thr' = [thr EXCEPT ![t] = u], NoRemovalMoves,
         Shape(t, thr[t]) => Shape(t, u), SameRole(thr[t], u),
         thr[t].pc = "awaitOlder" => t # worker \/ cl.active = 0
  PROVE  RemovalInv'
  <1>1. OnlyMoves(t) /\ Stays(t) /\ thr'[t] = u
    BY GoMoves
  <1>2. Shapes'
    BY <1>1, ShapesStep DEF RemovalInv, Shapes
  <1>3. t # prepared /\ (t = worker => worker # 0)
    BY ThreadNames DEF RemovalInv, WorkersOK, SameRole
  <1>4. Committed(t) => u.job = "worker" /\ InLoop(u)
    BY <1>3 DEF RemovalInv, WorkersOK, SameRole, Committed
  <1>5. u.job = "worker" /\ u.pc # "gate" /\ InLoop(u) => Committed(t)
    BY DEF RemovalInv, WorkersOK, SameRole, Committed
  <1>6. Removing(t) <=> Removing(t)'
    BY <1>1 DEF Removing, SameRole, AdminSteps
  <1>7. t = worker /\ cl.active # 0 => FALSE
    BY <1>3 DEF RemovalInv, WaitOK, SameRole
  <1>8. Removing(t)' => thr'[t].ref = thr[t].ref
    BY <1>1 DEF Removing, SameRole, AdminSteps
  <1>9. /\ Acting(thr[t]) <=> Acting(thr'[t])
        /\ Acting(thr[t]) => thr'[t].ref = thr[t].ref
        /\ Owning(thr'[t]) \/ ~Owning(thr[t])
    BY <1>1 DEF SameRole
  <1> QED
    BY <1>1, <1>2, <1>3, <1>4, <1>5, <1>6, <1>7, <1>8, <1>9, QuietStep

\* The same of a thread that only changes its step.
LEMMA QuietGoto ==
  ASSUME IInv, RemovalInv, NEW t \in DOMAIN thr, NEW p, Goto(t, p),
         NoRemovalMoves,
         Shape(t, thr[t]) => Shape(t, [thr[t] EXCEPT !.pc = p]),
         SameRole(thr[t], [thr[t] EXCEPT !.pc = p]),
         thr[t].pc = "awaitOlder" => t # worker \/ cl.active = 0
  PROVE  RemovalInv'
BY QuietMove DEF Goto

\* A thread without a part in a removal ends, or its call returns.
LEMMA QuietExit ==
  ASSUME IInv, RemovalInv, NEW t \in DOMAIN thr, Exit(t), NoRemovalMoves,
         t # prepared, ~Committed(t), ~Acting(thr[t]), ~Removing(t),
         ~Owning(thr[t])
  PROVE  RemovalInv'
  <1>1. /\ OnlyMoves(t)
        /\ Stays(t) => /\ t \in Callers
                       /\ thr'[t].pc = "idle" /\ thr'[t].job = "none"
                       /\ thr'[t].rpc = "none"
    BY ExitMoves
  <1>2. Shapes'
    BY ExitShape DEF RemovalInv
  <1>3. Stays(t) => ~Acting(thr'[t]) /\ ~Removing(t)' /\ ~InLoop(thr'[t])
    BY <1>1 DEF Acting, Removing, InLoop, LoopSteps, AdminSteps
  <1>4. t # worker
    BY DEF Committed
  <1> QED
    BY <1>1, <1>2, <1>3, <1>4, QuietStep

\* A caller has no part in a removal while it is at the step p.
LEMMA CallerExit ==
  ASSUME IInv, RemovalInv, NEW t \in DOMAIN thr, t \in Callers, Exit(t),
         NoRemovalMoves, ~Removing(t), ~Owning(thr[t])
  PROVE  RemovalInv'
  <1>1. t # prepared /\ ~Committed(t)
    BY ThreadNames DEF Committed
  <1>2. ~Acting(thr[t])
    BY DEF RemovalInv, Shapes, Shape, Acting
  <1> QED
    BY <1>1, <1>2, QuietExit

\* A caller has no part in a removal before it performs one of its own.
LEMMA CallerFacts ==
  ASSUME IInv, RemovalInv, NEW t \in DOMAIN thr, t \in Callers
  PROVE  /\ t # prepared /\ ~Committed(t) /\ t # worker /\ t \notin stopping
         /\ ~Acting(thr[t])
BY ThreadNames
   DEF Committed, RemovalInv, Shapes, Shape, Acting

\* A caller that has no part in a removal goes on, maybe to schedule one that
\* it added.
LEMMA CallerGrows ==
  ASSUME IInv, RemovalInv, NEW t \in DOMAIN thr, t \in Callers, RemovalsGrow,
         UNCHANGED <<worker, stopping, prepared, ctx, generation, actors>>,
         NEW u, thr' = [thr EXCEPT ![t] = u],
         u.job \notin {"worker", "actor"}, CallerShape(u),
         ~Removing(t), u.rpc = "cleanup" => u.pc \notin AdminSteps,
         ~Owning(thr[t]),
         Owning(u) \/ cl'.pending = cl.pending
  PROVE  RemovalInv'
  <1>1. OnlyMoves(t) /\ Stays(t) /\ thr'[t] = u
    BY GoMoves
  <1>2. Shapes'
    BY <1>1, ShapesStep DEF RemovalInv, Shape
  <1>3. /\ t # prepared /\ ~Committed(t) /\ t # worker /\ ~Acting(thr[t])
    BY CallerFacts
  <1>4. ~Removing(t)' /\ ~Acting(u)
    BY <1>1 DEF Removing, Acting, AdminSteps
  <1> QED
    BY <1>1, <1>2, <1>3, <1>4, GrowStep

LEMMA SameRemovals ==
  ASSUME IInv, RemovalInv,
         cl'.ops = cl.ops, cl'.active = cl.active, cl'.pending = cl.pending,
         cl'.removed = cl.removed, WindowOK(cl', generation)
  PROVE  RemovalsGrow
BY Numbers DEF RemovalsGrow, RemovalInv, ActiveOK, PendingOK

LEMMA SameCleanup ==
  ASSUME RemovalInv, UNCHANGED <<lifecycle, cl, actors>>
  PROVE  NoRemovalMoves
BY DEF RemovalInv, NoRemovalMoves, lifecycle, WindowOK

LEMMA RemovalRpcBegin ==
  ASSUME IInv, RemovalInv, NEW t \in DOMAIN thr, RpcBegin(t)
  PROVE  RemovalInv'
  <1> DEFINE u == [thr[t] EXCEPT !.pc = "rpc", !.seq = rpcSeq + 1]
  <1>1. thr' = [thr EXCEPT ![t] = u] /\ thr[t].pc = "call"
    BY DEF RpcBegin, At
  <1>2. /\ u.pc = "rpc" /\ u.rpc = thr[t].rpc /\ u.job = thr[t].job
        /\ u.ref = thr[t].ref
    BY OwnLocal DEF LocalType
  <1>3. NoRemovalMoves
    BY SameCleanup DEF RpcBegin
  <1> HIDE DEF u
  <1>4. SameRole(thr[t], u)
    BY <1>1, <1>2
       DEF SameRole, InLoop, Acting, Owning, AdminSteps, LoopSteps, LastSteps,
           SchedSites
  <1>5. Shape(t, thr[t]) => Shape(t, u)
    BY <1>1, <1>2
       DEF Shape, WorkerShape, ActorShape, CallerShape, AdminSteps, LoopSteps,
           TailSteps, SchedSites, TerminalSteps
  <1> QED
    BY <1>1, <1>3, <1>4, <1>5, QuietMove

LEMMA RemovalRpcEnd ==
  ASSUME IInv, RemovalInv, NEW t \in DOMAIN thr, RpcEnd(t)
  PROVE  RemovalInv'
  <1>1. PICK o \in Outcomes : thr' = [thr EXCEPT ![t].pc = "commit", ![t].ok = o.ok]
    BY DEF RpcEnd
  <1> DEFINE u == [thr[t] EXCEPT !.pc = "commit", !.ok = o.ok]
  <1>2. thr' = [thr EXCEPT ![t] = u] /\ thr[t].pc = "rpc"
    BY <1>1 DEF RpcEnd, At
  <1>3. /\ u.pc = "commit" /\ u.rpc = thr[t].rpc /\ u.job = thr[t].job
        /\ u.ref = thr[t].ref
    BY OwnLocal DEF LocalType
  <1>4. NoRemovalMoves
    BY SameCleanup DEF RpcEnd
  <1> HIDE DEF u
  <1>5. SameRole(thr[t], u)
    BY <1>2, <1>3
       DEF SameRole, InLoop, Acting, Owning, AdminSteps, LoopSteps, LastSteps,
           SchedSites
  <1>6. Shape(t, thr[t]) => Shape(t, u)
    BY <1>2, <1>3
       DEF Shape, WorkerShape, ActorShape, CallerShape, AdminSteps, LoopSteps,
           TailSteps, SchedSites, TerminalSteps
  <1> QED
    BY <1>2, <1>4, <1>5, <1>6, QuietMove

\* The fields of the state of a thread that moves on.
LEMMA MovedFields ==
  ASSUME IInv, NEW t \in DOMAIN thr, NEW p
  PROVE  LET u == [thr[t] EXCEPT !.pc = p]
         IN  /\ u.pc = p /\ u.rpc = thr[t].rpc /\ u.job = thr[t].job
             /\ u.ref = thr[t].ref
BY OwnLocal DEF LocalType

\* A caller that moves between the steps of its operation, none of which is
\* one of a removal.
LEMMA CallerGoto ==
  ASSUME IInv, RemovalInv, NEW t \in DOMAIN thr, t \in Callers, NEW p,
         Goto(t, p), NoRemovalMoves,
         p \notin {"gate", "claim", "discard"} \cup LoopSteps,
         thr[t].rpc # "cleanup", p \in TerminalSteps => thr[t].rpc = "remove",
         ~Owning(thr[t])
  PROVE  RemovalInv'
  <1> DEFINE u == [thr[t] EXCEPT !.pc = p]
  <1>1. /\ u.pc = p /\ u.rpc = thr[t].rpc /\ u.job = thr[t].job
        /\ u.ref = thr[t].ref
    BY MovedFields
  <1>2. thr[t].job \notin {"worker", "actor"} /\ CallerShape(thr[t])
    BY DEF RemovalInv, Shapes, Shape
  <1>3. t # worker
    BY ThreadNames
  <1> HIDE DEF u
  <1>4. SameRole(thr[t], u)
    BY <1>1, <1>2
       DEF SameRole, CallerShape, InLoop, Acting, AdminSteps, LoopSteps
  <1>5. Shape(t, u)
    BY <1>1, <1>2 DEF Shape, CallerShape
  <1> QED
    BY <1>3, <1>4, <1>5, QuietGoto DEF u

\* The steps of the terminal removal that only look at the state.
LEMMA TerminalCaller ==
  ASSUME RemovalInv, NEW t \in DOMAIN thr, thr[t].pc \in TerminalSteps
  PROVE  /\ t \in Callers /\ thr[t].rpc = "remove"
         /\ thr[t].job \notin {"worker", "actor"}
         /\ CallerShape(thr[t])
BY DEF RemovalInv, Shapes, Shape, WorkerShape, ActorShape, CallerShape,
       TerminalSteps, AdminSteps, LoopSteps, TailSteps, SchedSites

LEMMA RemovalTerminal ==
  ASSUME IInv, RemovalInv, NEW t \in DOMAIN thr,
         \/ TerminalOneShot(t) \/ TerminalRegisters(t) \/ TerminalCached(t)
         \/ TerminalActive(t) \/ TerminalPending(t)
         \/ AwaitRegisters(t) \/ AwaitRemove(t)
  PROVE  RemovalInv'
  <1>1. /\ thr[t].pc \in {"terminal", "awaitRegisters", "awaitActive",
                          "awaitPending"}
        /\ UNCHANGED <<lifecycle, cl, actors>>
    BY DEF TerminalOneShot, TerminalRegisters, TerminalCached, TerminalActive,
           TerminalPending, Unsettled, AwaitRegisters, AwaitRemove, At, Unmoved
  <1>2. t \in Callers /\ thr[t].rpc = "remove"
        /\ thr[t].job \notin {"worker", "actor"}
    BY <1>1, TerminalCaller DEF TerminalSteps
  <1>3. NoRemovalMoves
    BY <1>1, SameCleanup
  <1>4. ~Removing(t) /\ ~Owning(thr[t])
    BY <1>1, <1>2 DEF Removing, Owning, SchedSites
  <1>5. CASE Exit(t)
    BY <1>2, <1>3, <1>4, <1>5, CallerExit
  <1>6. CASE Goto(t, "call") \/ Goto(t, "terminal")
    BY <1>2, <1>3, <1>4, <1>6, CallerGoto DEF LoopSteps
  <1>7. ASSUME NEW p \in {"awaitRegisters", "awaitActive", "awaitPending",
                          "schedWait"},
               NEW u \in LocalType, thr' = [thr EXCEPT ![t] = u],
               u.pc = p, u.rpc = thr[t].rpc, u.job = thr[t].job
        PROVE  RemovalInv'
    <2>1. Shape(t, u)
      BY <1>2, <1>7 DEF Shape, CallerShape, LoopSteps
    <2>2. SameRole(thr[t], u)
      BY <1>1, <1>2, <1>4, <1>7
         DEF SameRole, InLoop, Acting, LoopSteps, AdminSteps
    <2> QED
      BY <1>1, <1>3, <1>7, <2>1, <2>2, QuietMove
  <1>8. CASE TerminalRegisters(t)
    <2> DEFINE u == [thr[t] EXCEPT !.pc = "awaitRegisters", !.coord = cl.coord]
    <2>1. cl.coord \in Ref
      BY Numbers, Fields DEF Ref
    <2>2. /\ u \in LocalType /\ u.pc = "awaitRegisters"
          /\ u.rpc = thr[t].rpc /\ u.job = thr[t].job
      BY <2>1, OwnLocal DEF LocalType, Steps
    <2>3. thr' = [thr EXCEPT ![t] = u]
      BY <1>8 DEF TerminalRegisters
    <2> QED
      BY <1>7, <2>2, <2>3
  <1>9. CASE TerminalActive(t) \/ TerminalPending(t)
    <2>1. PICK p \in {"awaitActive", "awaitPending", "schedWait"},
               o \in {cl.active, cl.pending} :
            thr' = [thr EXCEPT ![t].pc = p, ![t].ref = o]
      BY <1>9 DEF TerminalActive, TerminalPending
    <2> DEFINE u == [thr[t] EXCEPT !.pc = p, !.ref = o]
    <2>2. o \in Ref /\ p \in Steps
      BY Numbers, Fields DEF Ref, Steps, SchedSites
    <2>3. /\ u \in LocalType /\ u.pc = p
          /\ u.rpc = thr[t].rpc /\ u.job = thr[t].job
      BY <2>2, OwnLocal DEF LocalType
    <2>4. thr' = [thr EXCEPT ![t] = u]
      BY <2>1
    <2> QED
      BY <1>7, <2>3, <2>4
  <1> QED
    BY <1>5, <1>6, <1>8, <1>9
       DEF TerminalOneShot, TerminalCached, AwaitRegisters, AwaitRemove

\* The steps of a renewal worker that only look at the state.
LEMMA WorkerThread ==
  ASSUME RemovalInv, NEW t \in DOMAIN thr,
         \/ thr[t].pc \in LoopSteps
         \/ thr[t].rpc = "renewal" /\ thr[t].pc \in AdminSteps
  PROVE  /\ thr[t].job = "worker" /\ t \notin Callers
         /\ thr[t].rpc = "renewal" /\ InLoop(thr[t])
         /\ t \in stopping \/ t = worker
BY DEF RemovalInv, Shapes, Shape, WorkerShape, ActorShape, CallerShape,
       AdminSteps, LoopSteps, TailSteps, InLoop, WorkersOK

LEMMA WorkerGoto ==
  ASSUME IInv, RemovalInv, NEW t \in DOMAIN thr,
         \/ thr[t].pc \in LoopSteps
         \/ thr[t].rpc = "renewal" /\ thr[t].pc \in AdminSteps,
         thr[t].pc # "finish", NEW p \in LoopSteps \cup AdminSteps,
         Goto(t, p), NoRemovalMoves,
         thr[t].pc = "awaitOlder" => t # worker \/ cl.active = 0
  PROVE  RemovalInv'
  <1> DEFINE u == [thr[t] EXCEPT !.pc = p]
  <1>1. /\ u.pc = p /\ u.rpc = thr[t].rpc /\ u.job = thr[t].job
        /\ u.ref = thr[t].ref
    BY MovedFields
  <1>2. /\ thr[t].job = "worker" /\ t \notin Callers
        /\ thr[t].rpc = "renewal" /\ InLoop(thr[t])
    BY WorkerThread
  <1> HIDE DEF u
  <1>3. SameRole(thr[t], u)
    BY <1>1, <1>2
       DEF SameRole, InLoop, Acting, Owning, LoopSteps, AdminSteps, LastSteps,
           SchedSites
  <1>4. Shape(t, u)
    BY <1>1, <1>2 DEF Shape, WorkerShape, LoopSteps, AdminSteps
  <1> QED
    BY <1>3, <1>4, QuietGoto DEF u

LEMMA RemovalAwaitOlder ==
  ASSUME IInv, RemovalInv, NEW t \in DOMAIN thr, AwaitOlder(t)
  PROVE  RemovalInv'
  <1>1. NoRemovalMoves
    BY SameCleanup DEF AwaitOlder, Unmoved
  <1>2. t # worker \/ cl.active = 0
    <2>1. t # 0
      BY ThreadNames
    <2> QED
      BY <2>1 DEF AwaitOlder, RemovalInv, WaitOK, ActiveOK
  <1> QED
    BY <1>1, <1>2, WorkerGoto DEF AwaitOlder, At, LoopSteps, AdminSteps

LEMMA RemovalWorkerQuit ==
  ASSUME IInv, RemovalInv, NEW t \in DOMAIN thr, WorkerQuit(t) \/ Tick(t)
  PROVE  RemovalInv'
  <1>1. NoRemovalMoves
    BY SameCleanup DEF WorkerQuit, Tick, Unmoved
  <1> QED
    BY <1>1, WorkerGoto DEF WorkerQuit, Tick, At, LoopSteps, AdminSteps

\* A worker passes its gate once it is committed or was discarded.
LEMMA RemovalGate ==
  ASSUME IInv, RemovalInv, NEW t \in DOMAIN thr, Gate(t)
  PROVE  RemovalInv'
  <1>1. /\ thr[t].job = "worker" /\ t \notin Callers /\ thr[t].pc = "gate"
    BY DEF Gate, At, RemovalInv, Shapes, Shape, ActorShape, CallerShape,
           AdminSteps, TailSteps
  <1>2. t # prepared /\ t # 0
    BY ThreadNames DEF Gate, RemovalInv, WorkersOK
  <1>3. NoRemovalMoves
    BY SameCleanup DEF Gate, Unmoved
  <1>4. ~Acting(thr[t]) /\ ~Removing(t) /\ ~Owning(thr[t])
    BY <1>1 DEF Acting, Removing, Owning, SchedSites
  <1>5. CASE ~Committed(t)
    BY <1>2, <1>3, <1>4, <1>5, QuietExit DEF Gate
  <1>6. CASE Committed(t)
    <2> DEFINE p == IF IsCurrent(t) THEN IF ctx[t].wait = 0 THEN "call"
                                         ELSE "awaitOlder"
                    ELSE "finish"
               u == [thr[t] EXCEPT !.rpc = "renewal", !.pc = p]
    <2>1. thr' = [thr EXCEPT ![t] = u]
      BY <1>6 DEF Gate
    <2>2. p \in {"call", "awaitOlder", "finish"}
      OBVIOUS
    <2>3. t = worker /\ cl.active # 0 => p = "awaitOlder"
      <3>1. worker # 0 => ctx[worker].gen = generation /\ ~ctx[worker].stop
        BY DEF IInv, LifeOK
      <3> QED
        BY <1>2, <3>1 DEF RemovalInv, WaitOK, IsCurrent
    <2> HIDE DEF p
    <2>4. u.pc = p /\ u.rpc = "renewal" /\ u.job = "worker"
      BY <1>1, OwnLocal DEF LocalType
    <2> HIDE DEF u
    <2>5. OnlyMoves(t) /\ Stays(t) /\ thr'[t] = u
      BY <2>1, GoMoves
    <2>6. InLoop(u) /\ ~Acting(u)
      BY <2>2, <2>4 DEF InLoop, Acting, LoopSteps, AdminSteps
    <2>7. ~Removing(t)'
      BY <2>4, <2>5 DEF Removing
    <2>8. Shape(t, u)
      BY <1>1, <2>2, <2>4 DEF Shape, WorkerShape, LoopSteps, AdminSteps
    <2>9. Shapes'
      BY <2>5, <2>8, ShapesStep DEF RemovalInv
    <2> QED
      BY <1>2, <1>3, <1>4, <1>6, <2>3, <2>4, <2>5, <2>6, <2>7, <2>9, QuietStep
  <1> QED
    BY <1>5, <1>6

LEMMA RecordSame ==
  ASSUME NEW s \in CleanupState, NEW kind, NEW ok \in BOOLEAN,
         NEW r, r = Record(s, kind, ok)
  PROVE  /\ r.ops = s.ops /\ r.coords = s.coords /\ r.coord = s.coord
         /\ r.active = s.active /\ r.pending = s.pending
         /\ r.removed = s.removed /\ r.requested = s.requested
         /\ r \in CleanupState
  <1> DEFINE b == CASE kind = "renewal"        -> ok
                    [] kind = "register" /\ ok -> TRUE
                    [] kind = "remove" /\ ok   -> FALSE
                    [] OTHER                   -> s.registered
  <1>1. r = [s EXCEPT !.registered = b]
    BY Zenon DEF Record
  <1>2. s.registered \in BOOLEAN
    BY Fields
  <1>3. b \in BOOLEAN
    BY <1>2, Zenon
  <1> HIDE DEF b
  <1> QED
    BY <1>1, <1>3 DEF CleanupState

LEMMA RemovalCommitRemove ==
  ASSUME IInv, RemovalInv, NEW t \in DOMAIN thr, CommitRemove(t)
  PROVE  RemovalInv'
  <1>1. thr[t].pc = "commit" /\ thr[t].rpc = "remove"
    BY DEF CommitRemove, At
  <1>2. t \in Callers
    BY <1>1 DEF RemovalInv, Shapes, Shape, WorkerShape, ActorShape, AdminSteps
  <1>3. /\ cl'.ops = cl.ops /\ cl'.coords = cl.coords /\ cl'.coord = cl.coord
        /\ cl'.active = cl.active /\ cl'.pending = cl.pending
        /\ cl'.removed = cl.removed /\ cl'.requested = cl.requested
    BY Numbers, OwnLocal, RecordSame DEF CommitRemove
  <1>4. NoRemovalMoves
    BY <1>3 DEF NoRemovalMoves, CommitRemove, lifecycle, RemovalInv, WindowOK
  <1>5. ~Removing(t) /\ ~Owning(thr[t])
    BY <1>1 DEF Removing, Owning, SchedSites
  <1> QED
    BY <1>2, <1>4, <1>5, CallerExit DEF CommitRemove

\* A renewal never invalidates a cached removal: none is cached while its
\* worker is current.
LEMMA RemovalCommitRenewal ==
  ASSUME IInv, RemovalInv, NEW t \in DOMAIN thr, CommitRenewal(t)
  PROVE  RemovalInv'
  <1> DEFINE s1 == Record(cl, "renewal", thr[t].ok)
  <1>1. thr[t].pc = "commit" /\ thr[t].rpc = "renewal"
    BY DEF CommitRenewal, At
  <1>2. /\ s1.ops = cl.ops /\ s1.coords = cl.coords /\ s1.coord = cl.coord
        /\ s1.active = cl.active /\ s1.pending = cl.pending
        /\ s1.removed = cl.removed /\ s1.requested = cl.requested
    BY Numbers, OwnLocal, RecordSame
  <1>3. cl' \in {s1, cl}
    <2>1. IsCurrent(t) => cl.removed # generation
      BY ThreadNames DEF IInv, CleanupOK, IsCurrent
    <2> HIDE DEF s1
    <2>2. IsCurrent(t) => Invalidate(s1, ctx[t].gen, 0, generation) = s1
      BY <1>2, <2>1 DEF Invalidate
    <2> QED
      BY <2>2 DEF CommitRenewal, s1
  <1> HIDE DEF s1
  <1>4. NoRemovalMoves
    BY <1>2, <1>3
       DEF NoRemovalMoves, CommitRenewal, lifecycle, RemovalInv, WindowOK
  <1>5. PICK p \in {"sleep", "finish"} : Goto(t, p)
    BY DEF CommitRenewal
  <1> QED
    BY <1>1, <1>4, <1>5, WorkerGoto DEF AdminSteps, LoopSteps

LEMMA RemovalMaybeCloseLogs ==
  ASSUME IInv, RemovalInv, NEW t \in DOMAIN thr, MaybeCloseLogs(t)
  PROVE  RemovalInv'
  <1>1. thr[t].pc \in {"recheck", "recheckTail", "close", "closeTail"}
    BY DEF MaybeCloseLogs
  <1>2. NoRemovalMoves
    BY SameCleanup DEF MaybeCloseLogs
  <1>3. ~InLoop(thr[t]) /\ ~Removing(t) /\ ~Owning(thr[t])
    BY <1>1 DEF InLoop, Removing, Owning, SchedSites, LoopSteps, AdminSteps
  <1>4. t # prepared /\ ~Committed(t)
    BY <1>1, <1>3, ThreadNames DEF RemovalInv, WorkersOK, Committed
  <1>5. ASSUME thr[t].pc = "closeTail" \/ thr[t].job # "actor", Exit(t)
        PROVE  RemovalInv'
    BY <1>2, <1>3, <1>4, <1>5, QuietExit DEF Acting, LastSteps
  <1>6. ASSUME NEW p \in {"close", "closeTail", "discard"}, Goto(t, p),
               p = "discard" <=> thr[t].pc = "close" /\ thr[t].job = "actor",
               p = "closeTail" => \/ thr[t].pc = "recheckTail"
                                  \/ thr[t].pc = "close" /\ thr[t].job = "worker",
               p = "close" => thr[t].pc = "recheck"
        PROVE  RemovalInv'
    <2> DEFINE u == [thr[t] EXCEPT !.pc = p]
    <2>1. /\ u.pc = p /\ u.rpc = thr[t].rpc /\ u.job = thr[t].job
          /\ u.ref = thr[t].ref
      BY MovedFields
    <2> HIDE DEF u
    <2>2. SameRole(thr[t], u)
      BY <1>1, <1>3, <1>6, <2>1
         DEF SameRole, InLoop, Acting, LoopSteps, AdminSteps, LastSteps
    <2>3. Shape(t, thr[t]) => Shape(t, u)
      BY <1>1, <1>6, <2>1
         DEF Shape, WorkerShape, ActorShape, CallerShape, AdminSteps,
             LoopSteps, TailSteps, TerminalSteps
    <2> QED
      BY <1>1, <1>2, <1>6, <2>2, <2>3, QuietGoto DEF u
  <1>7. CASE thr[t].pc = "recheck"
    BY <1>6, <1>7 DEF MaybeCloseLogs
  <1>8. CASE thr[t].pc = "recheckTail"
    BY <1>6, <1>8 DEF MaybeCloseLogs
  <1>9. CASE thr[t].pc = "closeTail"
    BY <1>5, <1>9 DEF MaybeCloseLogs
  <1>10. CASE thr[t].pc = "close" /\ thr[t].job = "worker"
    BY <1>6, <1>10 DEF MaybeCloseLogs, AfterExecute
  <1>11. CASE thr[t].pc = "close" /\ thr[t].job = "actor"
    BY <1>6, <1>11 DEF MaybeCloseLogs, AfterExecute
  <1>12. CASE thr[t].pc = "close" /\ thr[t].job \notin {"worker", "actor"}
    <2>1. Exit(t)
      BY <1>12, Zenon DEF MaybeCloseLogs, AfterExecute
    <2> QED
      BY <1>5, <1>12, <2>1
  <1> QED
    BY <1>1, <1>7, <1>8, <1>9, <1>10, <1>11, <1>12

LEMMA RemovalCallRemove ==
  ASSUME IInv, RemovalInv, NEW c \in Callers, CallRemove(c)
  PROVE  RemovalInv'
  <1> DEFINE p == IF worker = 0 THEN "terminal" ELSE "call"
             u == [Idle EXCEPT !.pc = p, !.job = "remove", !.gen = generation,
                               !.rpc = "remove"]
  <1>1. c \in DOMAIN thr /\ thr[c].pc = "idle"
    BY Invoked DEF CallRemove, Invoke
  <1>2. thr' = [thr EXCEPT ![c] = u]
    BY DEF CallRemove, Go
  <1>3. u.pc \in {"terminal", "call"} /\ u.job = "remove" /\ u.rpc = "remove"
    BY DEF Idle
  <1> HIDE DEF u
  <1>4. CallerShape(u)
    BY <1>3 DEF CallerShape, LoopSteps
  <1>5. RemovalsGrow
    BY SameRemovals DEF CallRemove, RemovalInv
  <1>6. ~Removing(c) /\ ~Owning(thr[c])
    BY <1>1 DEF Removing, Owning, SchedSites
  <1> QED
    BY <1>1, <1>2, <1>3, <1>4, <1>5, <1>6, CallerGrows
       DEF CallRemove, lifecycle

-----------------------------------------------------------------------------
(* The steps of a register.                                                *)

LEMMA RemovalCallRegister ==
  ASSUME IInv, RemovalInv, NEW c \in Callers, CallRegister(c)
  PROVE  RemovalInv'
  <1> DEFINE stale == cl.coord # 0 /\ cl.coords[cl.coord].gen # generation
             open  == cl.coord = 0 \/ stale
             coords1 == IF stale THEN [cl.coords EXCEPT ![cl.coord].done = TRUE]
                        ELSE cl.coords
             coords2 == IF open THEN Append(coords1, Coordination(generation))
                        ELSE coords1
             k == IF open THEN Len(coords2)
                  ELSE IF cl.coords[cl.coord].requested THEN 0 ELSE cl.coord
             coords3 == IF k = 0 THEN coords2
                        ELSE [coords2 EXCEPT ![k].inflight = @ + 1,
                                             ![k].done = FALSE]
             u == [Idle EXCEPT !.pc = "call", !.job = "register", !.coord = k,
                               !.gen = generation, !.rpc = "register"]
  <1>1. cl' = [cl EXCEPT !.coord = IF k = 0 THEN @ ELSE k, !.coords = coords3]
    BY DEF CallRegister
  <1>2. /\ cl \in CleanupState /\ Len(cl.coords) \in Nat
        /\ cl.coords \in Seq(CoordinationType)
        /\ cl.coord \in 0..Len(cl.coords)
    BY Numbers, Fields DEF IInv, CleanupOK
  <1>3. ~stale
    BY DEF IInv, CleanupOK
  <1>4. /\ cl'.ops = cl.ops /\ cl'.active = cl.active
        /\ cl'.pending = cl.pending /\ cl'.removed = cl.removed
        /\ cl'.requested = cl.requested
        /\ cl'.coord = (IF k = 0 THEN cl.coord ELSE k) /\ cl'.coords = coords3
    <2> HIDE DEF k, coords3
    <2> QED
      BY <1>1, <1>2 DEF CleanupState
  <1>5. /\ c \in DOMAIN thr /\ thr[c].pc = "idle"
        /\ thr' = [thr EXCEPT ![c] = u]
    BY Invoked DEF CallRegister, Invoke, Go
  <1>6. WindowOK(cl', generation)
    <2>1. CASE k = 0
      <3>1. ~open
        BY <1>2, <1>3, <2>1 DEF Coordination
      <3> QED
        BY <1>4, <2>1, <3>1 DEF WindowOK, RemovalInv
    <2>2. CASE k # 0
      <3>1. /\ coords2 \in Seq(CoordinationType) /\ k \in 1..Len(coords2)
        <4>1. Coordination(generation) \in CoordinationType
          BY Numbers DEF Coordination, CoordinationType
        <4>2. CASE open
          <5>1. coords2 = Append(cl.coords, Coordination(generation))
                /\ k = Len(coords2)
            BY <1>3, <4>2
          <5> HIDE DEF coords2, k
          <5> QED
            BY <1>2, <4>1, <5>1
        <4>3. CASE ~open
          <5>1. coords2 = cl.coords /\ k = cl.coord
            BY <1>3, <2>2, <4>3
          <5> QED
            BY <1>2, <2>2, <5>1
        <4> QED
          BY <4>2, <4>3
      <3> HIDE DEF coords2, k
      <3>2. coords2[k] \in CoordinationType /\ coords2[k].inflight \in Nat
        <4>1. coords2[k] \in CoordinationType
          BY <3>1
        <4> QED
          BY <4>1 DEF CoordinationType
      <3>3. coords3[k].inflight = coords2[k].inflight + 1
        BY <2>2, <3>1, <3>2 DEF CoordinationType
      <3> QED
        BY <1>4, <2>2, <3>2, <3>3 DEF WindowOK
    <2> QED
      BY <2>1, <2>2
  <1>7. RemovalsGrow
    BY <1>4, <1>6, SameRemovals
  <1>8. u.pc = "call" /\ u.job = "register" /\ u.rpc = "register"
    BY DEF Idle
  <1> HIDE DEF u, k
  <1>9. CallerShape(u)
    BY <1>8 DEF CallerShape, LoopSteps, TerminalSteps
  <1>10. ~Owning(thr[c]) /\ ~Removing(c)
    BY <1>5 DEF Owning, SchedSites, Removing
  <1> QED
    BY <1>4, <1>5, <1>7, <1>8, <1>9, <1>10, CallerGrows
       DEF CallRegister, lifecycle

\* An invalidation only forgets a cached removal and a request.
LEMMA InvalidateSame ==
  ASSUME NEW s \in CleanupState, NEW vg, NEW c, NEW g,
         NEW r, r = Invalidate(s, vg, c, g)
  PROVE  /\ r.ops = s.ops /\ r.coords = s.coords /\ r.coord = s.coord
         /\ r.active = s.active /\ r.pending = s.pending
         /\ r.removed \in {s.removed, NoGen}
  <1> DEFINE x == [s EXCEPT !.removed = NoGen, !.requested = NoGen]
  <1>1. r \in {s, x}
    BY DEF Invalidate
  <1>2. /\ x.ops = s.ops /\ x.coords = s.coords /\ x.coord = s.coord
        /\ x.active = s.active /\ x.pending = s.pending /\ x.removed = NoGen
    BY DEF CleanupState
  <1> QED
    BY <1>1, <1>2

\* A register of the current window that was accepted invalidates the cached
\* removal; the window is then looked at again.
LEMMA RemovalCommitRegister ==
  ASSUME IInv, RemovalInv, NEW t \in DOMAIN thr, CommitRegister(t)
  PROVE  RemovalInv'
  <1> DEFINE me == thr[t]
             c  == me.coord
             g  == generation
             w  == worker
             s1 == IF Accepted(t) THEN Record(cl, "register", me.ok) ELSE cl
             s2 == IF /\ Accepted(t) /\ me.ok /\ c # 0 /\ cl.coord = c
                      /\ generation = me.gen /\ cl.coords[c].gen = me.gen
                   THEN Invalidate(s1, me.gen, c, generation) ELSE s1
             s3 == IF c = 0 THEN s2
                   ELSE [s2 EXCEPT !.coords[c].inflight =
                           IF @ > 0 THEN @ - 1 ELSE 0]
             r  == IF c # 0 /\ s3.coord = c THEN Reconcile(s3, generation)
                   ELSE Keep(s3)
             s4 == IF c # 0 /\ s3.coords[c].inflight = 0
                   THEN [r.cl EXCEPT !.coords[c].done = TRUE] ELSE r.cl
  <1>1. g \in Nat /\ w \in Nat /\ me.ok \in BOOLEAN /\ c \in Nat
        /\ CleanupOK(cl, g, w) /\ cl \in CleanupState
    BY Numbers, OwnLocal DEF IInv
  <1>2. thr[t].pc = "commit" /\ thr[t].rpc = "register"
    BY DEF CommitRegister, At
  <1>3. t \in Callers /\ thr[t].job \notin {"worker", "actor"}
    BY <1>2 DEF RemovalInv, Shapes, Shape, WorkerShape, ActorShape, AdminSteps
  <1>4. ~Removing(t) /\ ~Owning(thr[t])
    BY <1>2 DEF Removing, Owning, SchedSites
  <1>5. /\ CleanupOK(s1, g, w)
        /\ s1.ops = cl.ops /\ s1.coords = cl.coords /\ s1.coord = cl.coord
        /\ s1.active = cl.active /\ s1.pending = cl.pending
        /\ s1.removed = cl.removed /\ s1.requested = cl.requested
    BY <1>1, RecordOK, RecordSame
  <1> HIDE DEF s1
  <1>6. /\ CleanupOK(s2, g, w)
        /\ s2.ops = cl.ops /\ s2.coords = cl.coords /\ s2.coord = cl.coord
        /\ s2.active = cl.active /\ s2.pending = cl.pending
        /\ s2.removed \in {cl.removed, NoGen}
        /\ c = 0 \/ cl.coord # c => s2 = s1
    <2>1. s1 \in CleanupState
      BY <1>5 DEF CleanupOK
    <2> QED
      BY <1>1, <1>5, <2>1, InvalidateOK, InvalidateSame
  <1> HIDE DEF s2
  <1>7. cl' = s4
    BY DEF CommitRegister, s1, s2
  <1>8. CASE c = 0
    <2>1. cl' = s1
      BY <1>6, <1>7, <1>8 DEF Keep
    <2>2. NoRemovalMoves
      BY <1>5, <2>1
         DEF NoRemovalMoves, CommitRegister, lifecycle, RemovalInv, WindowOK
    <2>3. Exit(t)
      BY <1>8 DEF CommitRegister
    <2> QED
      BY <1>3, <1>4, <2>2, <2>3, CallerExit
  <1>9. CASE c # 0
    <2>1. /\ CleanupOK(s3, g, w) /\ OnlyCoords(s2, s3)
          /\ cl.coord # 0 /\ cl.coord # c
               => s3.coords[cl.coord] = cl.coords[cl.coord]
      <3>1. s3 = Leaves(s2, c)
        BY DEF Leaves
      <3> HIDE DEF s3, c, g, w
      <3>2. CleanupOK(s3, g, w) /\ OnlyCoords(s2, s3)
        BY <1>1, <1>6, <3>1, RegisterLeaves
      <3>3. s2.coord # 0 /\ s2.coord # c
              => s3.coords[s2.coord] = s2.coords[s2.coord]
        BY <1>1, <1>6, <3>1, RegisterLeaves
      <3> QED
        BY <1>6, <3>2, <3>3
    <2> HIDE DEF s3
    <2>2. s3.ops = cl.ops /\ s3.active = cl.active /\ s3.pending = cl.pending
          /\ s3.removed \in {cl.removed, NoGen} /\ s3.coord = cl.coord
      BY <1>6, <2>1 DEF OnlyCoords
    <2>3. /\ Grown(s3, r, g) /\ WindowOK(r.cl, g)
          /\ CleanupOK(r.cl, g, w)
      <3>1. CASE s3.coord = c
        BY <1>1, <1>9, <2>1, <3>1, ReconcileGrown, ReconcileHanded DEF Handed
      <3>2. CASE s3.coord # c
        <4>1. WindowOK(cl, g)
          BY DEF RemovalInv
        <4>2. WindowOK(s3, g)
          BY <1>5, <1>6, <2>1, <2>2, <3>2, <4>1 DEF WindowOK, OnlyCoords
        <4> QED
          BY <1>1, <2>1, <3>2, <4>2, KeepGrown
      <3> QED
        BY <3>1, <3>2
    <2> HIDE DEF r
    <2>4. /\ OnlyCoords(r.cl, s4) /\ WindowOK(s4, g)
      <3> DEFINE x == [r.cl EXCEPT !.coords[c].done = TRUE]
      <3>1. /\ OnlyCoords(r.cl, x)
            /\ r.cl.coord # 0 =>
                 x.coords[r.cl.coord].inflight = r.cl.coords[r.cl.coord].inflight
        BY <1>1, <2>3, WindowWakes
      <3>2. s4 \in {x, r.cl}
        OBVIOUS
      <3> HIDE DEF x, s4
      <3>3. OnlyCoords(r.cl, r.cl)
        BY DEF OnlyCoords
      <3> QED
        BY <2>3, <3>1, <3>2, <3>3 DEF WindowOK, OnlyCoords
    <2> HIDE DEF s4
    <2>5. NoGen \notin Nat
      BY DEF NoGen
    <2>6. ActiveOK(s3, g) /\ PendingOK(s3, g)
      <3>1. cl.active # 0 => cl.ops[cl.active].gen \in Nat
        <4>1. cl.ops \in Seq(OperationType) /\ cl.active \in 0..Len(cl.ops)
              /\ Len(cl.ops) \in Nat
          BY <1>1, Fields DEF CleanupOK
        <4>2. cl.active # 0 => cl.ops[cl.active] \in OperationType
          BY <4>1
        <4> QED
          BY <4>2 DEF OperationType
      <3>2. ActiveOK(cl, g) /\ PendingOK(cl, g)
        BY DEF RemovalInv
      <3> QED
        BY <1>1, <2>2, <2>5, <3>1, <3>2 DEF ActiveOK, PendingOK
    <2>7. /\ ActiveOK(r.cl, g) /\ PendingOK(r.cl, g)
          /\ Len(s3.ops) <= Len(r.cl.ops)
          /\ \A o \in 1..Len(s3.ops) : r.cl.ops[o] = s3.ops[o]
          /\ \A o \in 1..Len(r.cl.ops) :
               o \notin 1..Len(s3.ops) => r.cl.ops[o].thread = 0
      BY <1>1, <2>1, <2>3, <2>6, GrownKeeps DEF Grown
    <2>8. RemovalsGrow
      BY <1>7, <2>2, <2>3, <2>4, <2>7
         DEF RemovalsGrow, OnlyCoords, Grown, GrownTo, ActiveOK, PendingOK
    <2> DEFINE p == IF r.op # 0 THEN "schedTail" ELSE "closeTail"
               u == [thr[t] EXCEPT !.pc = p]
    <2>9. Goto(t, p)
      BY <1>9 DEF CommitRegister, r, s3, s2, s1
    <2>10. u.pc = p /\ u.rpc = thr[t].rpc /\ u.job = thr[t].job
      BY MovedFields
    <2>11. thr' = [thr EXCEPT ![t] = u]
      BY <2>9 DEF Goto
    <2>12. Owning(u) \/ cl'.pending = cl.pending
      BY <1>7, <2>2, <2>3, <2>4, <2>10 DEF Owning, SchedSites, Grown, OnlyCoords
    <2> HIDE DEF u
    <2>13. CallerShape(u)
      BY <1>2, <2>10 DEF CallerShape, LoopSteps, TerminalSteps
    <2> QED
      BY <1>2, <1>3, <1>4, <2>8, <2>10, <2>11, <2>12, <2>13, CallerGrows
         DEF CommitRegister, lifecycle
  <1> QED
    BY <1>8, <1>9

\* The second half of a shutdown asks for the removal.
LEMMA RemovalShutdownRequest ==
  ASSUME IInv, RemovalInv, NEW t \in DOMAIN thr, ShutdownRequest(t)
  PROVE  RemovalInv'
  <1> DEFINE r == IF generation = thr[t].gen THEN RequestRemove(cl, generation)
                  ELSE Keep(cl)
  <1>1. thr[t].pc = "request"
    BY DEF ShutdownRequest, At
  <1>2. t \in Callers /\ thr[t].job \notin {"worker", "actor"}
        /\ CallerShape(thr[t])
    BY <1>1 DEF RemovalInv, Shapes, Shape, WorkerShape, ActorShape, AdminSteps,
                LoopSteps, TailSteps
  <1>3. ~Removing(t) /\ ~Owning(thr[t])
    BY <1>1 DEF Removing, Owning, SchedSites
  <1>4. generation \in Nat /\ worker \in Nat /\ CleanupOK(cl, generation, worker)
        /\ ActiveOK(cl, generation) /\ PendingOK(cl, generation)
        /\ WindowOK(cl, generation)
    BY Numbers DEF IInv, RemovalInv
  <1>5. Grown(cl, r, generation) /\ WindowOK(r.cl, generation)
    <2>1. CASE generation = thr[t].gen
      <3>1. worker = 0
        BY <1>1, <2>1, OwnLocal DEF LocalOK
      <3> QED
        BY <1>4, <2>1, <3>1, RequestRemoveGrown
    <2>2. CASE generation # thr[t].gen
      BY <1>4, <2>2, KeepGrown
    <2> QED
      BY <2>1, <2>2
  <1> HIDE DEF r
  <1>6. ASSUME NEW p \in {"schedShutdown", "closeTail"}, Goto(t, p),
               cl' = r.cl \/ cl' = cl,
               p = "schedShutdown" \/ cl'.pending = cl.pending
        PROVE  RemovalInv'
    <2> DEFINE u == [thr[t] EXCEPT !.pc = p]
    <2>1. u.pc = p /\ u.rpc = thr[t].rpc /\ u.job = thr[t].job
      BY MovedFields
    <2>2. thr' = [thr EXCEPT ![t] = u]
      BY <1>6 DEF Goto
    <2> HIDE DEF u
    <2>3. GrownTo(cl, cl', generation) /\ WindowOK(cl', generation)
      BY <1>4, <1>5, <1>6, KeepGrown DEF Grown
    <2>4. RemovalsGrow
      BY <1>4, <2>3, GrownKeeps DEF RemovalsGrow, GrownTo
    <2>5. Owning(u) \/ cl'.pending = cl.pending
      BY <1>6, <2>1 DEF Owning, SchedSites
    <2>6. CallerShape(u)
      BY <1>2, <2>1 DEF CallerShape, LoopSteps, TerminalSteps
    <2>7. u.pc \notin AdminSteps
      BY <2>1 DEF AdminSteps
    <2> QED
      BY <1>2, <1>3, <2>1, <2>2, <2>4, <2>5, <2>6, <2>7, CallerGrows
         DEF ShutdownRequest, lifecycle
  <1> QED
    BY <1>5, <1>6 DEF ShutdownRequest, r, Grown

-----------------------------------------------------------------------------
(* The steps of a removal.                                                 *)

\* The operations keep their actors.
SameThreads(s, r) == /\ Len(r.ops) = Len(s.ops)
                     /\ \A o \in 1..Len(s.ops) : r.ops[o].thread = s.ops[o].thread

LEMMA CancelFields ==
  ASSUME NEW s \in CleanupState, NEW o \in 0..Len(s.ops),
         NEW r, r = Cancel(s, o)
  PROVE  /\ r \in CleanupState
         /\ r.active = s.active /\ r.coord = s.coord /\ r.coords = s.coords
         /\ r.removed = s.removed /\ r.requested = s.requested
         /\ r.pending = IF o = 0 THEN s.pending ELSE 0
         /\ SameThreads(s, r)
         /\ \A j \in 1..Len(s.ops) : r.ops[j].gen = s.ops[j].gen
         /\ \A j \in 1..Len(s.ops) : j # o => r.ops[j] = s.ops[j]
  <1>1. s.ops \in Seq(OperationType) /\ Len(s.ops) \in Nat
    BY Fields
  <1>2. CASE o = 0
    BY <1>2 DEF Cancel, SameThreads
  <1>3. CASE o # 0
    <2> DEFINE v == [s.ops[o] EXCEPT !.done = TRUE]
               q == [s.ops EXCEPT ![o] = v]
    <2>1. o \in 1..Len(s.ops) /\ s.ops[o] \in OperationType
      BY <1>1, <1>3
    <2>2. /\ v \in OperationType /\ v.gen = s.ops[o].gen
          /\ v.thread = s.ops[o].thread
      BY <2>1 DEF OperationType
    <2>3. r = [s EXCEPT !.pending = 0, !.ops = q]
      BY <1>3 DEF Cancel
    <2> HIDE DEF v
    <2>4. /\ q \in Seq(OperationType) /\ Len(q) = Len(s.ops)
          /\ \A j \in 1..Len(s.ops) : q[j] = IF j = o THEN v ELSE s.ops[j]
      BY <1>1, <2>1, <2>2, SeqUpdate
    <2> HIDE DEF q
    <2>5. /\ r \in CleanupState /\ r.ops = q /\ r.pending = 0
          /\ r.active = s.active /\ r.coord = s.coord /\ r.coords = s.coords
          /\ r.removed = s.removed /\ r.requested = s.requested
      <3>1. 0 \in Ref /\ q \in Seq(OperationType)
        BY <2>4 DEF Ref
      <3> QED
        BY <2>3, <3>1 DEF CleanupState
    <2> QED
      BY <1>3, <2>1, <2>2, <2>4, <2>5 DEF SameThreads
  <1> QED
    BY <1>2, <1>3

LEMMA FinishFields ==
  ASSUME NEW s \in CleanupState, NEW o \in 1..Len(s.ops),
         NEW x \in {"ok", "fail"}, NEW r, r = Finish(s, o, x)
  PROVE  /\ r \in CleanupState
         /\ r.active = s.active /\ r.coord = s.coord /\ r.coords = s.coords
         /\ r.removed = s.removed /\ r.requested = s.requested
         /\ r.pending = s.pending
         /\ SameThreads(s, r)
         /\ \A j \in 1..Len(s.ops) : r.ops[j].gen = s.ops[j].gen
         /\ \A j \in 1..Len(s.ops) : j # o => r.ops[j] = s.ops[j]
  <1> DEFINE v == [s.ops[o] EXCEPT !.done = TRUE, !.result = x]
             q == [s.ops EXCEPT ![o] = v]
  <1>1. s.ops \in Seq(OperationType) /\ Len(s.ops) \in Nat
        /\ s.ops[o] \in OperationType
    BY Fields
  <1>2. /\ v \in OperationType /\ v.gen = s.ops[o].gen
        /\ v.thread = s.ops[o].thread
    BY <1>1 DEF OperationType
  <1>3. r = [s EXCEPT !.ops = q]
    <2>1. [s.ops EXCEPT ![o].done = TRUE, ![o].result = x] = q
      BY <1>1
    <2> HIDE DEF q
    <2> QED
      BY <2>1 DEF Finish, CleanupState
  <1> HIDE DEF v
  <1>4. /\ q \in Seq(OperationType) /\ Len(q) = Len(s.ops)
        /\ \A j \in 1..Len(s.ops) : q[j] = IF j = o THEN v ELSE s.ops[j]
    BY <1>1, <1>2, SeqUpdate
  <1> HIDE DEF q
  <1>5. /\ r \in CleanupState /\ r.ops = q /\ r.pending = s.pending
        /\ r.active = s.active /\ r.coord = s.coord /\ r.coords = s.coords
        /\ r.removed = s.removed /\ r.requested = s.requested
    BY <1>3, <1>4 DEF CleanupState
  <1> QED
    BY <1>2, <1>4, <1>5 DEF SameThreads

\* The accepted success of the active removal.
LEMMA CloseFields ==
  ASSUME NEW s \in CleanupState, CleanupOK(s, generation, worker),
         PendingOK(s, generation), NEW o, o = s.active, o \in 1..Len(cl.ops),
         cl.ops = s.ops, NEW r, r = Close(s, o)
  PROVE  /\ r \in CleanupState
         /\ r.active = s.active /\ r.coord = s.coord /\ r.coords = s.coords
         /\ SameThreads(s, r)
         /\ \/ r = s
            \/ r.requested = generation /\ r.pending = 0
         /\ \A j \in 1..Len(s.ops) : r.ops[j].gen = s.ops[j].gen
  <1> DEFINE og == cl.ops[o].gen
             s1 == [s EXCEPT !.requested = og, !.removed = og]
  <1>1. CASE generation # og \/ worker # 0
    BY <1>1 DEF Close, SameThreads
  <1>2. CASE ~(generation # og \/ worker # 0)
    <2>1. og \in Gen /\ og = generation
      <3>1. cl.ops[o] \in OperationType
        BY Fields
      <3> QED
        BY <1>2, <3>1 DEF OperationType, Gen
    <2> HIDE DEF og
    <2>2. /\ s1 \in CleanupState /\ s1.ops = s.ops /\ s1.pending = s.pending
          /\ s1.active = s.active /\ s1.coord = s.coord
          /\ s1.coords = s.coords /\ s1.requested = generation
      BY <2>1 DEF CleanupState
    <2>3. r = IF s1.pending # 0 /\ s1.ops[s1.pending].gen = og
              THEN Cancel(s1, s1.pending) ELSE s1
      BY <1>2 DEF Close, og
    <2> HIDE DEF s1
    <2>4. s1.pending \in 0..Len(s1.ops)
          /\ (s1.pending # 0 => s1.ops[s1.pending].gen = og)
      BY <2>1, <2>2 DEF CleanupOK
    <2>5. r = Cancel(s1, s1.pending)
      BY <2>3, <2>4 DEF Cancel
    <2> QED
      BY <2>2, <2>4, <2>5, CancelFields DEF SameThreads
  <1> QED
    BY <1>1, <1>2

LEMMA CompletedFields ==
  ASSUME IInv, RemovalInv, NEW t \in DOMAIN thr, CompleteRemove(t),
         NEW s, s = Completed(t)
  PROVE  /\ s.active = 0 /\ s.coord = cl.coord /\ s.coords = cl.coords
         /\ SameThreads(cl, s)
         /\ PendingOK(s, generation) /\ WindowOK(s, generation)
  <1> DEFINE me  == thr[t]
             o   == me.ref
             n   == Len(cl.ops)
             acc == cl.active = o /\ Accepted(t)
             s1  == IF acc THEN Record(cl, "remove", me.ok) ELSE cl
             s2  == IF acc /\ me.ok THEN Close(s1, o) ELSE s1
             s3  == IF s2.active = o THEN [s2 EXCEPT !.active = 0] ELSE s2
             x   == IF me.ok THEN "ok" ELSE "fail"
  <1>1. /\ cl \in CleanupState /\ me.ok \in BOOLEAN /\ generation \in Nat
        /\ worker \in Nat /\ CleanupOK(cl, generation, worker)
        /\ n \in Nat /\ o \in 1..n
    BY Numbers, OwnLocal DEF IInv, CompleteRemove, LocalOK
  <1>2. cl.active = o
    <2>1. Removing(t)
      BY DEF Removing, CompleteRemove, At
    <2> QED
      BY <2>1 DEF RemovalInv, RemovingOK
  <1>3. /\ PendingOK(cl, generation) /\ WindowOK(cl, generation)
    BY DEF RemovalInv
  <1>4. s = Finish(s3, o, x)
    BY DEF Completed
  <1>5. /\ s1 \in CleanupState /\ CleanupOK(s1, generation, worker)
        /\ s1.ops = cl.ops /\ s1.coords = cl.coords /\ s1.coord = cl.coord
        /\ s1.active = cl.active /\ s1.pending = cl.pending
        /\ s1.removed = cl.removed /\ s1.requested = cl.requested
    BY <1>1, RecordOK, RecordSame
  <1> HIDE DEF s1
  <1>6. PendingOK(s1, generation)
    BY <1>3, <1>5 DEF PendingOK
  <1>7. /\ s2 \in CleanupState /\ s2.active = o
        /\ s2.coord = cl.coord /\ s2.coords = cl.coords
        /\ SameThreads(cl, s2)
        /\ \/ s2 = s1
           \/ s2.requested = generation /\ s2.pending = 0
    <2>1. CASE acc /\ me.ok
      <3>1. s2 = Close(s1, o)
        BY <2>1
      <3> HIDE DEF s2, o, acc
      <3>2. /\ s2 \in CleanupState
            /\ s2.active = s1.active /\ s2.coord = s1.coord
            /\ s2.coords = s1.coords /\ SameThreads(s1, s2)
            /\ \/ s2 = s1
               \/ s2.requested = generation /\ s2.pending = 0
        BY <1>1, <1>2, <1>5, <1>6, <3>1, CloseFields
      <3> QED
        BY <1>2, <1>5, <3>2 DEF SameThreads
    <2>2. CASE ~(acc /\ me.ok)
      BY <1>2, <1>5, <2>2 DEF SameThreads
    <2> QED
      BY <2>1, <2>2
  <1> HIDE DEF s2
  <1>8. /\ s3 \in CleanupState /\ s3.active = 0
        /\ s3.coord = s2.coord /\ s3.coords = s2.coords /\ s3.ops = s2.ops
        /\ s3.pending = s2.pending /\ s3.removed = s2.removed
        /\ s3.requested = s2.requested
    BY <1>7 DEF CleanupState, Ref
  <1> HIDE DEF s3
  <1>9. Len(s3.ops) = n
    BY <1>7, <1>8 DEF SameThreads
  <1>10. /\ s.active = 0 /\ s.coord = cl.coord /\ s.coords = cl.coords
         /\ s.removed = s2.removed /\ s.requested = s2.requested
         /\ s.pending = s2.pending /\ SameThreads(s3, s)
         /\ \A j \in 1..n : j # o => s.ops[j] = s3.ops[j]
    <2>1. x \in {"ok", "fail"}
      OBVIOUS
    <2> HIDE DEF x, o, n, acc
    <2>2. s3 \in CleanupState /\ o \in 1..Len(s3.ops)
      BY <1>1, <1>8, <1>9
    <2>3. /\ s.active = s3.active /\ s.coord = s3.coord
          /\ s.coords = s3.coords /\ s.removed = s3.removed
          /\ s.requested = s3.requested /\ s.pending = s3.pending
          /\ SameThreads(s3, s)
          /\ \A j \in 1..Len(s3.ops) : j # o => s.ops[j] = s3.ops[j]
      BY <1>4, <2>1, <2>2, FinishFields
    <2> QED
      BY <1>7, <1>8, <1>9, <2>3
  <1>11. SameThreads(cl, s)
    BY <1>7, <1>8, <1>10 DEF SameThreads
  <1>12. PendingOK(s, generation)
    <2>1. CASE s2 = s1
      <3>1. s1.pending # 0 => s1.pending \in 1..n /\ s1.pending # o
        BY <1>1, <1>2, <1>3, <1>5, <1>6 DEF PendingOK, CleanupOK
      <3> QED
        BY <1>2, <1>5, <1>6, <1>8, <1>10, <2>1, <3>1 DEF PendingOK
    <2>2. CASE s2.pending = 0
      BY <1>10, <2>2 DEF PendingOK
    <2> QED
      BY <1>7, <2>1, <2>2
  <1>13. WindowOK(s, generation)
    BY <1>3, <1>5, <1>7, <1>10 DEF WindowOK
  <1> QED
    BY <1>10, <1>11, <1>12, <1>13

\* A removal ends: its thread owns the pending one, if any.
LEMMA RemovalCompleteRemove ==
  ASSUME IInv, RemovalInv, NEW t \in DOMAIN thr, CompleteRemove(t)
  PROVE  RemovalInv'
  <1> DEFINE s == Completed(t)
             g == generation
             u == [thr[t] EXCEPT !.pc = "sched"]
  <1>1. /\ CleanupOK(s, g, worker) /\ Len(s.ops) = Len(cl.ops)
        /\ cl' = ReconcileAfter(s, cl.ops[thr[t].ref].gen, g)
    BY CompletedOK
  <1>2. /\ s.active = 0 /\ SameThreads(cl, s)
        /\ PendingOK(s, g) /\ WindowOK(s, g)
    BY CompletedFields
  <1>3. g \in Nat /\ worker \in Nat /\ Len(cl.ops) \in Nat
    BY Numbers
  <1> HIDE DEF s
  <1>4. GrownTo(s, cl', g) /\ WindowOK(cl', g)
    BY <1>1, <1>2, <1>3, ReconcileAfterGrown
  <1>5. /\ PendingOK(cl', g)
        /\ Len(s.ops) <= Len(cl'.ops)
        /\ \A o \in 1..Len(s.ops) : cl'.ops[o] = s.ops[o]
        /\ \A o \in 1..Len(cl'.ops) :
             o \notin 1..Len(s.ops) => cl'.ops[o].thread = 0
    BY <1>1, <1>2, <1>3, <1>4, GrownKeeps
  <1>6. cl'.active = 0
    BY <1>2, <1>4 DEF GrownTo
  <1>7. \A o \in 1..Len(cl'.ops) :
          cl'.ops[o].thread = IF o \in 1..Len(cl.ops) THEN cl.ops[o].thread
                              ELSE 0
    BY <1>1, <1>2, <1>5 DEF SameThreads
  <1>8. /\ thr[t].pc = "commit" /\ thr[t].rpc = "cleanup" /\ Goto(t, "sched")
        /\ UNCHANGED <<worker, stopping, prepared, ctx, generation, actors>>
    BY DEF CompleteRemove, At, lifecycle
  <1>9. /\ OnlyMoves(t) /\ Stays(t)
        /\ thr'[t].pc = "sched" /\ thr'[t].job = thr[t].job
        /\ thr'[t].rpc = thr[t].rpc /\ thr'[t].ref = thr[t].ref
    BY <1>8, GotoMoves
  <1>10. Removing(t) /\ ~InLoop(thr[t]) /\ ~InLoop(thr'[t])
    BY <1>8, <1>9 DEF Removing, InLoop, LoopSteps, AdminSteps
  <1>11. Shapes'
    <2>1. Shape(t, thr'[t])
      BY <1>8, <1>9
         DEF RemovalInv, Shapes, Shape, WorkerShape, ActorShape, CallerShape,
             AdminSteps, LoopSteps, TailSteps, TerminalSteps
    <2> QED
      BY <1>9, <2>1, ShapesStep DEF RemovalInv
  <1>12. WorkersOK'
    <2>1. t # prepared /\ ~Committed(t)
      BY <1>8, <1>10, ThreadNames DEF RemovalInv, WorkersOK, Committed
    <2> QED
      BY <1>8, <1>9, <1>10, <2>1, WorkersStep DEF RemovalInv
  <1>13. ActorsOK'
    <2>1. Acting(thr[t]) <=> Acting(thr'[t])
      BY <1>8, <1>9 DEF Acting, LastSteps
    <2> QED
      BY <1>7, <1>8, <1>9, <2>1, ActorsStep DEF RemovalInv
  <1>14. RemovingOK'
    <2>1. \A v \in DOMAIN thr' : ~Removing(v)'
      BY <1>9, <1>10 DEF RemovalInv, RemovingOK, OnlyMoves, Removing
    <2> QED
      BY <1>6, <2>1 DEF RemovingOK
  <1>15. PendingHasOwner'
    BY <1>9 DEF PendingHasOwner, Stays, SchedSites
  <1> QED
    BY <1>4, <1>5, <1>6, <1>8, <1>11, <1>12, <1>13, <1>14, <1>15
       DEF RemovalInv, WaitOK, ActiveOK, PendingOK, WindowOK

\* Without an active removal no thread removes, and the one that begins is
\* the only one.
LEMMA NoRemover ==
  ASSUME IInv, RemovalInv, cl.active = 0
  PROVE  \A t \in DOMAIN thr : ~Removing(t)
  <1> SUFFICES ASSUME NEW t \in DOMAIN thr, Removing(t)
               PROVE  FALSE
    OBVIOUS
  <1>1. thr[t].ref \in 1..Len(cl.ops)
    BY OwnLocal DEF LocalOK, Removing
  <1>2. thr[t].ref = 0
    BY DEF RemovalInv, RemovingOK
  <1> QED
    BY <1>1, <1>2

LEMMA RemovalBegins ==
  ASSUME IInv, RemovalInv, cl.active = 0, NEW t, OnlyMoves(t), Stays(t),
         thr'[t].pc = "call", thr'[t].rpc = "cleanup", cl'.active = thr'[t].ref
  PROVE  RemovingOK'
  <1>1. \A v \in DOMAIN thr' : Removing(v)' <=> v = t
    BY NoRemover DEF OnlyMoves, Stays, Removing
  <1> QED
    BY <1>1 DEF RemovingOK, Stays

\* A terminal removal owns a new operation.
LEMMA RemovalTerminalOwn ==
  ASSUME IInv, RemovalInv, NEW t \in DOMAIN thr, TerminalOwn(t)
  PROVE  RemovalInv'
  <1> DEFINE n == Len(cl.ops) + 1
             q == Append(cl.ops, Operation(thr[t].gen))
             u == [thr[t] EXCEPT !.pc = "call", !.rpc = "cleanup", !.ref = n]
  <1>1. /\ thr[t].pc = "terminal" /\ thr[t].gen = generation /\ worker = 0
        /\ cl.active = 0 /\ cl.pending = 0 /\ cl.removed # generation
        /\ UNCHANGED <<worker, stopping, prepared, ctx, generation, actors>>
    BY DEF TerminalOwn, Unsettled, InScope, At, Unmoved, lifecycle
  <1>2. t \in Callers /\ thr[t].job \notin {"worker", "actor"}
    BY <1>1, TerminalCaller DEF TerminalSteps
  <1>3. /\ cl \in CleanupState /\ cl.ops \in Seq(OperationType)
        /\ Len(cl.ops) \in Nat /\ generation \in Nat
    BY Numbers, Fields
  <1>4. /\ q \in Seq(OperationType) /\ Len(q) = n
        /\ q[n] = Operation(generation)
        /\ \A j \in 1..Len(cl.ops) : q[j] = cl.ops[j]
    BY <1>1, <1>3, AddOperation
  <1>5. cl' = [cl EXCEPT !.ops = q, !.active = n]
    BY DEF TerminalOwn
  <1>6. n \in Ref
    BY <1>3 DEF Ref
  <1>7. /\ u.pc = "call" /\ u.rpc = "cleanup" /\ u.ref = n
        /\ u.job = thr[t].job
    BY <1>6, OwnLocal DEF LocalType
  <1>8. thr' = [thr EXCEPT ![t] = u]
    BY DEF TerminalOwn
  <1> HIDE DEF q, u
  <1>9. /\ cl'.ops = q /\ cl'.active = n /\ cl'.pending = 0
        /\ cl'.coord = cl.coord /\ cl'.coords = cl.coords
        /\ cl'.removed = cl.removed /\ cl'.requested = cl.requested
    BY <1>1, <1>3, <1>4, <1>5, <1>6 DEF CleanupState
  <1>10. OnlyMoves(t) /\ Stays(t) /\ thr'[t] = u
    BY <1>8, GoMoves
  <1>11. Shapes'
    <2>1. Shape(t, u)
      BY <1>2, <1>7 DEF Shape, CallerShape, LoopSteps, TerminalSteps
    <2> QED
      BY <1>10, <2>1, ShapesStep DEF RemovalInv
  <1>12. /\ t # prepared /\ ~Committed(t) /\ ~Acting(thr[t]) /\ ~Acting(u)
    BY <1>2, <1>7, CallerFacts DEF Acting
  <1>13. WorkersOK'
    BY <1>1, <1>2, <1>7, <1>10, <1>12, WorkersStep DEF RemovalInv
  <1>14. ActorsOK'
    <2>1. Operation(generation).thread = 0
      BY DEF Operation
    <2>2. \A o \in 1..Len(cl'.ops) :
            cl'.ops[o].thread = IF o \in 1..Len(cl.ops) THEN cl.ops[o].thread
                                ELSE 0
      BY <1>3, <1>4, <1>9, <2>1
    <2> QED
      BY <1>1, <1>10, <1>12, <2>2, ActorsStep DEF RemovalInv
  <1>15. RemovingOK'
    BY <1>1, <1>7, <1>9, <1>10, RemovalBegins
  <1>16. ActiveOK(cl', generation) /\ PendingOK(cl', generation)
         /\ WindowOK(cl', generation)
    <2>1. ~Operation(generation).done /\ Operation(generation).gen = generation
      BY DEF Operation
    <2> QED
      BY <1>1, <1>3, <1>4, <1>9, <2>1
         DEF ActiveOK, PendingOK, WindowOK, RemovalInv
  <1> QED
    BY <1>1, <1>9, <1>11, <1>13, <1>14, <1>15, <1>16
       DEF RemovalInv, WaitOK, PendingHasOwner, ActiveOK, PendingOK, WindowOK

\* The fields of a cleanup state whose pending removal becomes the active one.
LEMMA TakenOver ==
  ASSUME IInv, RemovalInv, cl.pending # 0, cl.active = 0,
         cl' = [cl EXCEPT !.pending = 0, !.active = cl.pending]
  PROVE  /\ cl'.pending = 0 /\ cl'.active = cl.pending /\ cl'.ops = cl.ops
         /\ cl'.coord = cl.coord /\ cl'.coords = cl.coords
         /\ ActiveOK(cl', generation) /\ PendingOK(cl', generation)
         /\ WindowOK(cl', generation)
         /\ worker = 0 /\ cl.ops[cl.pending].gen = generation
  <1>1. /\ cl \in CleanupState /\ generation \in Nat
    BY Numbers
  <1>2. worker = 0 /\ cl.ops[cl.pending].gen = generation
    BY DEF IInv, CleanupOK
  <1>3. /\ cl'.pending = 0 /\ cl'.active = cl.pending /\ cl'.ops = cl.ops
        /\ cl'.coord = cl.coord /\ cl'.coords = cl.coords
        /\ cl'.removed = cl.removed /\ cl'.requested = cl.requested
    BY <1>1 DEF CleanupState
  <1> QED
    BY <1>1, <1>2, <1>3 DEF RemovalInv, ActiveOK, PendingOK, WindowOK

LEMMA RemovalClaim ==
  ASSUME IInv, RemovalInv, NEW t \in DOMAIN thr, Claim(t)
  PROVE  RemovalInv'
  <1>1. thr[t].pc = "claim" /\ UNCHANGED <<lifecycle, actors>>
    BY DEF Claim, At, Unmoved
  <1>2. t \notin Callers /\ thr[t].job = "actor"
    BY <1>1 DEF RemovalInv, Shapes, Shape, WorkerShape, CallerShape, AdminSteps,
                LoopSteps, TailSteps
  <1>3. t # prepared /\ ~Committed(t)
    BY <1>2, ThreadNames DEF RemovalInv, WorkersOK, Committed
  <1>4. Acting(thr[t]) /\ ~Removing(t) /\ ~Owning(thr[t]) /\ ~InLoop(thr[t])
    BY <1>1, <1>2
       DEF Acting, Removing, Owning, LastSteps, SchedSites, InLoop, LoopSteps,
           AdminSteps
  <1>5. CASE ~(cl.active = 0 /\ cl.pending = thr[t].ref)
    <2> DEFINE u == [thr[t] EXCEPT !.pc = "discard"]
    <2>1. Goto(t, "discard") /\ UNCHANGED cl
      BY <1>5 DEF Claim
    <2>2. /\ u.pc = "discard" /\ u.rpc = thr[t].rpc /\ u.job = thr[t].job
          /\ u.ref = thr[t].ref
      BY MovedFields
    <2> HIDE DEF u
    <2>3. SameRole(thr[t], u)
      BY <1>1, <1>2, <1>4, <2>2
         DEF SameRole, InLoop, Acting, AdminSteps, LoopSteps, LastSteps
    <2>4. Shape(t, u)
      BY <1>2, <2>2 DEF Shape, ActorShape, AdminSteps
    <2>5. NoRemovalMoves
      BY <1>1, <2>1, SameCleanup
    <2> QED
      BY <1>1, <2>1, <2>3, <2>4, <2>5, QuietGoto DEF u
  <1>6. CASE cl.active = 0 /\ cl.pending = thr[t].ref
    <2> DEFINE u == [thr[t] EXCEPT !.pc = "call", !.rpc = "cleanup"]
    <2>1. /\ cl' = [cl EXCEPT !.pending = 0, !.active = cl.pending]
          /\ thr' = [thr EXCEPT ![t] = u]
      BY <1>6 DEF Claim
    <2>2. cl.pending # 0
      <3>1. thr[t].ref \in 1..Len(cl.ops)
        BY <1>2, OwnLocal DEF LocalOK
      <3> QED
        BY <1>6, <3>1
    <2>3. /\ cl'.pending = 0 /\ cl'.active = cl.pending /\ cl'.ops = cl.ops
          /\ ActiveOK(cl', generation) /\ PendingOK(cl', generation)
          /\ WindowOK(cl', generation) /\ worker = 0
      BY <1>6, <2>1, <2>2, TakenOver
    <2>4. /\ u.pc = "call" /\ u.rpc = "cleanup" /\ u.job = thr[t].job
          /\ u.ref = thr[t].ref
      BY OwnLocal DEF LocalType
    <2> HIDE DEF u
    <2>5. OnlyMoves(t) /\ Stays(t) /\ thr'[t] = u
      BY <2>1, GoMoves
    <2>6. Shapes'
      <3>1. Shape(t, u)
        BY <1>2, <2>4 DEF Shape, ActorShape, AdminSteps
      <3> QED
        BY <2>5, <3>1, ShapesStep DEF RemovalInv
    <2>7. WorkersOK'
      BY <1>1, <1>2, <1>3, <2>4, <2>5, WorkersStep DEF RemovalInv, lifecycle
    <2>8. ActorsOK'
      <3>1. Acting(u)
        BY <1>2, <2>4 DEF Acting, LastSteps
      <3>2. \A o \in 1..Len(cl'.ops) :
              cl'.ops[o].thread = IF o \in 1..Len(cl.ops) THEN cl.ops[o].thread
                                  ELSE 0
        BY <2>3
      <3> QED
        BY <1>1, <1>4, <2>4, <2>5, <3>1, <3>2, ActorsStep DEF RemovalInv
    <2>9. RemovingOK'
      BY <1>6, <2>3, <2>4, <2>5, RemovalBegins
    <2> QED
      BY <1>1, <2>3, <2>6, <2>7, <2>8, <2>9
         DEF RemovalInv, WaitOK, PendingHasOwner, ActiveOK, PendingOK,
             WindowOK, lifecycle
  <1> QED
    BY <1>5, <1>6

\* A worker leaves its loop, with the removal that waited for it or to see to
\* the one that does not.
LEMMA RemovalFinishWorker ==
  ASSUME IInv, RemovalInv, NEW t \in DOMAIN thr, FinishWorker(t)
  PROVE  RemovalInv'
  <1>1. /\ thr[t].pc = "finish"
        /\ stopping' = stopping \ {t}
        /\ worker' = (IF worker = t THEN 0 ELSE worker)
        /\ UNCHANGED <<generation, prepared, ctx, actors>>
    BY DEF FinishWorker, At
  <1>2. /\ thr[t].job = "worker" /\ t \notin Callers /\ InLoop(thr[t])
        /\ t # 0 /\ t # prepared
    BY <1>1, WorkerThread, ThreadNames DEF LoopSteps, RemovalInv, WorkersOK
  <1>3. ~Acting(thr[t]) /\ ~Removing(t)
    BY <1>1, <1>2 DEF Acting, Removing
  <1>4. ASSUME OnlyMoves(t), Stays(t), thr'[t].job = "worker",
               ~InLoop(thr'[t]), thr'[t].pc # "gate", WorkerShape(thr'[t])
        PROVE  WorkersOK' /\ Shapes'
    <2>1. Shapes'
      BY <1>2, <1>4, ShapesStep DEF RemovalInv, Shape
    <2>2. WorkersOK
      BY DEF RemovalInv
    <2> QED
      BY <1>1, <1>2, <1>4, <2>1, <2>2 DEF WorkersOK, OnlyMoves, Stays, InLoop
  <1>5. CASE Mine(t)
    <2> DEFINE u == [thr[t] EXCEPT !.pc = "call", !.rpc = "cleanup",
                                   !.ref = cl.pending]
    <2>1. /\ cl' = [cl EXCEPT !.pending = 0, !.active = cl.pending]
          /\ thr' = [thr EXCEPT ![t] = u]
          /\ cl.pending # 0 /\ cl.active = 0
      BY <1>5 DEF FinishWorker, Mine
    <2>2. /\ cl'.pending = 0 /\ cl'.active = cl.pending /\ cl'.ops = cl.ops
          /\ ActiveOK(cl', generation) /\ PendingOK(cl', generation)
          /\ WindowOK(cl', generation) /\ worker = 0
      BY <2>1, TakenOver
    <2>3. cl.pending \in Ref
      BY Numbers, Fields DEF Ref
    <2>4. /\ u.pc = "call" /\ u.rpc = "cleanup" /\ u.job = "worker"
          /\ u.ref = cl.pending
      BY <1>2, <2>3, OwnLocal DEF LocalType
    <2> HIDE DEF u
    <2>5. OnlyMoves(t) /\ Stays(t) /\ thr'[t] = u
      BY <2>1, GoMoves
    <2>6. ~InLoop(u) /\ WorkerShape(u) /\ ~Acting(u)
      BY <2>4 DEF InLoop, WorkerShape, AdminSteps, LoopSteps, Acting
    <2>7. WorkersOK' /\ Shapes'
      BY <1>4, <2>4, <2>5, <2>6
    <2>8. ActorsOK'
      <3>1. \A o \in 1..Len(cl'.ops) :
              cl'.ops[o].thread = IF o \in 1..Len(cl.ops) THEN cl.ops[o].thread
                                  ELSE 0
        BY <2>2
      <3> QED
        BY <1>1, <1>3, <2>5, <2>6, <3>1, ActorsStep DEF RemovalInv
    <2>9. RemovingOK'
      BY <2>1, <2>2, <2>4, <2>5, RemovalBegins
    <2>10. worker' = 0
      BY <1>1, <2>2
    <2> QED
      BY <1>1, <2>2, <2>7, <2>8, <2>9, <2>10
         DEF RemovalInv, WaitOK, PendingHasOwner, ActiveOK, PendingOK, WindowOK
  <1>6. CASE ~Mine(t)
    <2>1. Goto(t, "schedTail") /\ UNCHANGED cl
      BY <1>6 DEF FinishWorker
    <2>2. /\ OnlyMoves(t) /\ Stays(t)
          /\ thr'[t].pc = "schedTail" /\ thr'[t].job = thr[t].job
          /\ thr'[t].rpc = thr[t].rpc /\ thr'[t].ref = thr[t].ref
      BY <2>1, GotoMoves
    <2>3. ~InLoop(thr'[t]) /\ WorkerShape(thr'[t]) /\ ~Acting(thr'[t])
          /\ ~Removing(t)'
      BY <1>2, <2>2
         DEF InLoop, WorkerShape, AdminSteps, LoopSteps, TailSteps, Acting,
             Removing
    <2>4. WorkersOK' /\ Shapes'
      BY <1>2, <1>4, <2>2, <2>3
    <2>5. ActorsOK'
      BY <1>1, <1>3, <2>1, <2>2, <2>3, ActorsStep DEF RemovalInv
    <2>6. RemovingOK'
      BY <1>3, <2>1, <2>2, <2>3, RemovingStep DEF RemovalInv
    <2>7. WaitOK'
      BY <1>1, <2>1, <2>2 DEF RemovalInv, WaitOK, OnlyMoves, WorkersOK
    <2>8. PendingHasOwner'
      BY <2>2 DEF PendingHasOwner, Stays, SchedSites
    <2> QED
      BY <1>1, <2>1, <2>4, <2>5, <2>6, <2>7, <2>8
         DEF RemovalInv, ActiveOK, PendingOK, WindowOK
  <1> QED
    BY <1>5, <1>6

\* The fields of a cleanup state in which an operation has another actor.
LEMMA NotedFields ==
  ASSUME NEW s \in CleanupState, NEW o \in 1..Len(s.ops), NEW a \in Nat,
         NEW r, r = [s EXCEPT !.ops[o].thread = a]
  PROVE  /\ r.active = s.active /\ r.pending = s.pending
         /\ r.coord = s.coord /\ r.coords = s.coords
         /\ r.removed = s.removed /\ r.requested = s.requested
         /\ Len(r.ops) = Len(s.ops)
         /\ \A j \in 1..Len(s.ops) :
              /\ r.ops[j].thread = IF j = o THEN a ELSE s.ops[j].thread
              /\ r.ops[j].gen = s.ops[j].gen /\ r.ops[j].done = s.ops[j].done
  <1> DEFINE v == [s.ops[o] EXCEPT !.thread = a]
             q == [s.ops EXCEPT ![o] = v]
  <1>1. s.ops \in Seq(OperationType) /\ Len(s.ops) \in Nat
        /\ s.ops[o] \in OperationType
    BY Fields
  <1>2. /\ v \in OperationType /\ v.gen = s.ops[o].gen
        /\ v.thread = a /\ v.done = s.ops[o].done
    BY <1>1 DEF OperationType
  <1>3. r = [s EXCEPT !.ops = q]
    OBVIOUS
  <1> HIDE DEF v
  <1>4. /\ q \in Seq(OperationType) /\ Len(q) = Len(s.ops)
        /\ \A j \in 1..Len(s.ops) : q[j] = IF j = o THEN v ELSE s.ops[j]
    BY <1>1, <1>2, SeqUpdate
  <1> HIDE DEF q
  <1>5. /\ r.ops = q /\ r.active = s.active /\ r.pending = s.pending
        /\ r.coord = s.coord /\ r.coords = s.coords
        /\ r.removed = s.removed /\ r.requested = s.requested
    BY <1>3, <1>4 DEF CleanupState
  <1> QED
    BY <1>2, <1>4, <1>5

\* The invariants on the fields do not look at the actors.
LEMMA NotedKeeps ==
  ASSUME IInv, RemovalInv, NEW o \in 1..Len(cl.ops), NEW a \in Nat,
         cl' = [cl EXCEPT !.ops[o].thread = a]
  PROVE  /\ ActiveOK(cl', generation) /\ PendingOK(cl', generation)
         /\ WindowOK(cl', generation)
         /\ cl'.active = cl.active /\ cl'.pending = cl.pending
         /\ Len(cl'.ops) = Len(cl.ops)
         /\ \A j \in 1..Len(cl.ops) :
              cl'.ops[j].thread = IF j = o THEN a ELSE cl.ops[j].thread
         /\ cl.active # 0 => cl'.ops[cl.active].gen = cl.ops[cl.active].gen
  <1>1. /\ cl \in CleanupState /\ Len(cl.ops) \in Nat
        /\ cl.active \in 0..Len(cl.ops) /\ cl.pending \in 0..Len(cl.ops)
    BY Numbers DEF IInv, CleanupOK
  <1>2. /\ cl'.active = cl.active /\ cl'.pending = cl.pending
        /\ cl'.coord = cl.coord /\ cl'.coords = cl.coords
        /\ cl'.removed = cl.removed /\ cl'.requested = cl.requested
        /\ Len(cl'.ops) = Len(cl.ops)
        /\ \A j \in 1..Len(cl.ops) :
             /\ cl'.ops[j].thread = IF j = o THEN a ELSE cl.ops[j].thread
             /\ cl'.ops[j].gen = cl.ops[j].gen
             /\ cl'.ops[j].done = cl.ops[j].done
    BY <1>1, NotedFields
  <1> QED
    BY <1>1, <1>2 DEF RemovalInv, ActiveOK, PendingOK, WindowOK

\* An actor gives up its removal.
LEMMA RemovalDiscard ==
  ASSUME IInv, RemovalInv, NEW t \in DOMAIN thr, Discard(t)
  PROVE  RemovalInv'
  <1> DEFINE o == thr[t].ref
             a == IF cl.ops[o].thread = t THEN 0 ELSE cl.ops[o].thread
  <1>1. /\ thr[t].pc = "discard" /\ actors' = actors \ {t}
        /\ cl' = [cl EXCEPT !.ops[o].thread = a] /\ Goto(t, "schedTail")
        /\ UNCHANGED <<worker, stopping, prepared, ctx, generation>>
    BY DEF Discard, At, lifecycle
  <1>2. t \notin Callers /\ thr[t].job = "actor"
    BY <1>1 DEF RemovalInv, Shapes, Shape, WorkerShape, CallerShape, AdminSteps,
                LoopSteps, TailSteps
  <1>3. /\ cl \in CleanupState /\ Len(cl.ops) \in Nat /\ o \in 1..Len(cl.ops)
    BY <1>2, Numbers, OwnLocal DEF LocalOK
  <1>4. a \in Nat
    <2>1. cl.ops[o] \in OperationType
      BY <1>3, Fields
    <2> QED
      BY <2>1 DEF OperationType
  <1> HIDE DEF a
  <1>5. /\ ActiveOK(cl', generation) /\ PendingOK(cl', generation)
        /\ WindowOK(cl', generation)
        /\ cl'.active = cl.active /\ Len(cl'.ops) = Len(cl.ops)
        /\ \A j \in 1..Len(cl.ops) :
             cl'.ops[j].thread = IF j = o THEN a ELSE cl.ops[j].thread
        /\ cl.active # 0 => cl'.ops[cl.active].gen = cl.ops[cl.active].gen
    BY <1>1, <1>3, <1>4, NotedKeeps
  <1>6. /\ OnlyMoves(t) /\ Stays(t)
        /\ thr'[t].pc = "schedTail" /\ thr'[t].job = thr[t].job
        /\ thr'[t].rpc = thr[t].rpc /\ thr'[t].ref = thr[t].ref
    BY <1>1, GotoMoves
  <1>7. /\ t # prepared /\ ~Committed(t) /\ ~Removing(t) /\ ~Removing(t)'
        /\ ~Acting(thr'[t]) /\ t # worker
    BY <1>1, <1>2, <1>6, ThreadNames
       DEF RemovalInv, WorkersOK, Committed, Removing, Acting, LastSteps
  <1>8. Shapes'
    <2>1. Shape(t, thr'[t])
      BY <1>2, <1>6 DEF Shape, ActorShape, TailSteps, AdminSteps
    <2> QED
      BY <1>6, <2>1, ShapesStep DEF RemovalInv
  <1>9. WorkersOK'
    BY <1>1, <1>2, <1>6, <1>7, WorkersStep DEF RemovalInv
  <1>10. ActorsOK'
    <2>1. actors = {v \in DOMAIN thr : Acting(thr[v])}
      BY DEF RemovalInv, ActorsOK
    <2>2. actors' = {v \in DOMAIN thr' : Acting(thr'[v])}
      BY <1>1, <1>6, <1>7, <2>1 DEF OnlyMoves, Stays
    <2>3. ASSUME NEW j \in 1..Len(cl'.ops), cl'.ops[j].thread # 0
          PROVE  /\ cl'.ops[j].thread \in actors'
                 /\ thr'[cl'.ops[j].thread].ref = j
      <3>1. /\ cl'.ops[j].thread = cl.ops[j].thread
            /\ cl.ops[j].thread # t
        <4>1. cl.ops[j].thread # 0 => thr[cl.ops[j].thread].ref = j
          BY <1>5, <2>3 DEF RemovalInv, ActorsOK
        <4> QED
          BY <1>5, <2>3, <4>1 DEF a
      <3>2. cl.ops[j].thread \in actors /\ thr[cl.ops[j].thread].ref = j
        BY <1>5, <2>3, <3>1 DEF RemovalInv, ActorsOK
      <3> QED
        BY <1>1, <1>6, <2>1, <3>1, <3>2 DEF OnlyMoves
    <2> QED
      BY <2>2, <2>3 DEF ActorsOK
  <1>11. RemovingOK'
    BY <1>5, <1>6, <1>7, RemovingStep DEF RemovalInv
  <1>12. WaitOK'
    BY <1>1, <1>5, <1>6, <1>7 DEF RemovalInv, WaitOK, OnlyMoves, WorkersOK
  <1>13. PendingHasOwner'
    BY <1>6 DEF PendingHasOwner, Stays, SchedSites
  <1> QED
    BY <1>1, <1>5, <1>8, <1>9, <1>10, <1>11, <1>12, <1>13
       DEF RemovalInv, ActiveOK, PendingOK, WindowOK

-----------------------------------------------------------------------------
(* The scheduler.                                                          *)

\* A thread at one of the call sites of the scheduler.
LEMMA SchedThread ==
  ASSUME IInv, RemovalInv, NEW t \in DOMAIN thr, thr[t].pc \in SchedSites
  PROVE  /\ ~InLoop(thr[t]) /\ thr[t].pc # "gate" /\ ~Removing(t)
         /\ t # prepared /\ ~Committed(t) /\ t # worker
         /\ t \notin Callers => thr[t].pc \in {"sched", "schedTail"}
         /\ Acting(thr[t]) <=> thr[t].job = "actor" /\ thr[t].pc = "sched"
  <1>1. ~InLoop(thr[t]) /\ thr[t].pc # "gate" /\ ~Removing(t)
    BY DEF SchedSites, InLoop, LoopSteps, AdminSteps, Removing
  <1>2. t # prepared /\ ~Committed(t) /\ t # worker
    BY <1>1, ThreadNames DEF RemovalInv, WorkersOK, Committed
  <1>3. t \notin Callers => thr[t].pc \in {"sched", "schedTail"}
    BY DEF RemovalInv, Shapes, Shape, WorkerShape, ActorShape, SchedSites,
           LoopSteps, AdminSteps, TailSteps
  <1>4. Acting(thr[t]) <=> thr[t].job = "actor" /\ thr[t].pc = "sched"
    <2>1. thr[t].job = "actor" => t \notin Callers
      BY DEF RemovalInv, Shapes, Shape
    <2> QED
      BY <1>3, <2>1 DEF Acting, LastSteps
  <1> QED
    BY <1>1, <1>2, <1>3, <1>4

\* Where it goes from there, whether the actor started or not.
LEMMA SchedGoes ==
  ASSUME IInv, RemovalInv, NEW t \in DOMAIN thr, NEW p, p = thr[t].pc,
         p \in SchedSites,
         NEW q, q = AfterSched(p) \/ (q = AfterSpawnFailure(p) /\ ~Raises(p)),
         NEW u, u = [thr[t] EXCEPT !.pc = q]
  PROVE  /\ u.pc = q /\ u.job = thr[t].job /\ u.ref = thr[t].ref
         /\ u.rpc = thr[t].rpc
         /\ Shape(t, u)
         /\ ~InLoop(u) /\ q \notin AdminSteps
         /\ Acting(thr[t]) <=> Acting(u)
  <1>1. u.pc = q /\ u.job = thr[t].job /\ u.ref = thr[t].ref
        /\ u.rpc = thr[t].rpc
    BY MovedFields
  <1>2. /\ p = "sched" => q \in {"close", "recheck"}
        /\ p = "schedTail" => q \in {"closeTail", "recheckTail"}
        /\ p = "schedWait" => q = "awaitPending"
        /\ p \in {"schedStop", "schedShutdown"} => q = "closeTail"
    BY DEF AfterSched, AfterSpawnFailure, Raises, SchedSites
  <1>3. p \in {"sched", "schedTail", "schedStop", "schedShutdown", "schedWait"}
    BY DEF SchedSites
  <1>4. q \in {"close", "recheck", "closeTail", "recheckTail", "awaitPending"}
    BY <1>2, <1>3
  <1>5. ~InLoop(u) /\ q \notin AdminSteps
    BY <1>1, <1>4 DEF InLoop, LoopSteps, AdminSteps
  <1>6. t \notin Callers => p \in {"sched", "schedTail"}
    BY SchedThread
  <1>7. Acting(thr[t]) <=> Acting(u)
    <2>1. thr[t].job = "actor" => t \notin Callers
      BY DEF RemovalInv, Shapes, Shape
    <2> QED
      BY <1>1, <1>2, <1>6, <2>1 DEF Acting, LastSteps
  <1>8. Shape(t, u)
    <2>1. Shape(t, thr[t])
      BY DEF RemovalInv, Shapes
    <2>2. CASE t \in Callers
      BY <1>1, <1>2, <1>3, <1>4, <2>1, <2>2
         DEF Shape, CallerShape, LoopSteps, TerminalSteps
    <2>3. CASE t \notin Callers
      <3>1. q \in TailSteps /\ q \notin LoopSteps \cup AdminSteps
        BY <1>2, <1>6, <2>3 DEF TailSteps, LoopSteps, AdminSteps
      <3> QED
        BY <1>1, <2>1, <2>3, <3>1 DEF Shape, WorkerShape, ActorShape
    <2> QED
      BY <2>2, <2>3
  <1> QED
    BY <1>1, <1>5, <1>7, <1>8

\* What the scheduler finds owned: the pending removal waits for the active
\* one, for its worker or for its actor.
LEMMA ScheduledHasOwner ==
  ASSUME IInv, RemovalInv, NEW t \in DOMAIN thr, OnlyMoves(t), ~Schedulable,
         thr[t].pc \in SchedSites,
         UNCHANGED <<cl, generation, stopping, ctx, actors>>
  PROVE  PendingHasOwner'
  <1>1. ASSUME cl.pending # 0, cl.active = 0,
               NEW w \in stopping, ctx[w].gen = cl.ops[cl.pending].gen
        PROVE  \E x \in stopping \cap DOMAIN thr' : ctx[x].gen = generation
    <2>1. cl.ops[cl.pending].gen = generation
      BY <1>1 DEF IInv, CleanupOK
    <2>2. w \in DOMAIN thr /\ w # t
      BY SchedThread DEF RemovalInv, WorkersOK, Committed
    <2> QED
      BY <1>1, <2>1, <2>2 DEF OnlyMoves
  <1>2. ASSUME cl.pending # 0, cl.ops[cl.pending].thread # 0
        PROVE  cl.ops[cl.pending].thread \in actors
    <2>1. cl.pending \in 1..Len(cl.ops)
      BY <1>2, Numbers DEF IInv, CleanupOK
    <2> QED
      BY <1>2, <2>1 DEF RemovalInv, ActorsOK
  <1> QED
    BY <1>1, <1>2 DEF Schedulable, PendingHasOwner

LEMMA ScheduleNothing ==
  ASSUME IInv, RemovalInv, NEW t \in DOMAIN thr, Schedule(t), ~Schedulable
  PROVE  RemovalInv'
  <1> DEFINE p == thr[t].pc
             u == [thr[t] EXCEPT !.pc = AfterSched(p)]
  <1>1. /\ p \in SchedSites /\ UNCHANGED <<lifecycle, cl, actors>>
        /\ thr' = [thr EXCEPT ![t] = u]
    BY DEF Schedule
  <1>2. /\ u.pc = AfterSched(p) /\ u.job = thr[t].job /\ u.ref = thr[t].ref
        /\ u.rpc = thr[t].rpc
        /\ Shape(t, u) /\ ~InLoop(u) /\ u.pc \notin AdminSteps
        /\ Acting(thr[t]) <=> Acting(u)
    BY <1>1, SchedGoes
  <1> HIDE DEF u
  <1>3. OnlyMoves(t) /\ Stays(t) /\ thr'[t] = u
    BY <1>1, GoMoves
  <1>4. Shapes'
    BY <1>2, <1>3, ShapesStep DEF RemovalInv
  <1>5. /\ ~InLoop(thr[t]) /\ ~Removing(t) /\ ~Removing(t)'
        /\ t # prepared /\ ~Committed(t) /\ t # worker
    BY <1>1, <1>2, <1>3, SchedThread DEF Removing, AdminSteps
  <1>6. WorkersOK'
    BY <1>1, <1>2, <1>3, <1>5, WorkersStep DEF RemovalInv, lifecycle
  <1>7. ActorsOK'
    BY <1>1, <1>2, <1>3, ActorsStep DEF RemovalInv
  <1>8. RemovingOK'
    BY <1>1, <1>3, <1>5, RemovingStep DEF RemovalInv
  <1>9. WaitOK'
    BY <1>1, <1>3, <1>5
       DEF RemovalInv, WaitOK, OnlyMoves, WorkersOK, lifecycle
  <1>10. PendingHasOwner'
    BY <1>1, <1>3, ScheduledHasOwner DEF lifecycle
  <1> QED
    BY <1>1, <1>4, <1>6, <1>7, <1>8, <1>9, <1>10
       DEF RemovalInv, ActiveOK, PendingOK, WindowOK, lifecycle

\* t takes the local state u, and a new thread a the local state v.
SpawnedBy(t, u, a, v) ==
  /\ DOMAIN thr' = DOMAIN thr \cup {a}
  /\ thr'[t] = u /\ thr'[a] = v
  /\ \A x \in DOMAIN thr \ {t} : thr'[x] = thr[x]

LEMMA SpawnMoves ==
  ASSUME IInv, NEW t \in DOMAIN thr, NEW u, NEW v,
         Spawn([thr EXCEPT ![t] = u], v)
  PROVE  SpawnedBy(t, u, spawned + 1, v)
  <1> DEFINE f == [thr EXCEPT ![t] = u]
             a == spawned + 1
  <1>1. a \notin DOMAIN thr
    BY ThreadNames
  <1>2. /\ DOMAIN f = DOMAIN thr /\ f[t] = u
        /\ \A x \in DOMAIN thr \ {t} : f[x] = thr[x]
    OBVIOUS
  <1>3. thr' = Put(f, a, v)
    BY DEF Spawn
  <1> HIDE DEF f, a
  <1> QED
    BY <1>1, <1>2, <1>3 DEF Put, SpawnedBy, a

\* The pending removal gets an actor.
LEMMA ScheduleActor ==
  ASSUME IInv, RemovalInv, NEW t \in DOMAIN thr, thr[t].pc \in SchedSites,
         NEW a, a = spawned + 1, NEW o, o = cl.pending, Schedulable,
         cl' = [cl EXCEPT !.ops[o].thread = a], actors' = actors \cup {a},
         Spawn([thr EXCEPT ![t].pc = AfterSched(thr[t].pc)],
               [Local("actor", "claim", cl.ops[o].gen) EXCEPT !.ref = o]),
         UNCHANGED lifecycle
  PROVE  RemovalInv'
  <1> DEFINE u == [thr[t] EXCEPT !.pc = AfterSched(thr[t].pc)]
             v == [Local("actor", "claim", cl.ops[o].gen) EXCEPT !.ref = o]
  <1>1. SpawnedBy(t, u, a, v)
    BY SpawnMoves
  <1>2. v.job = "actor" /\ v.pc = "claim" /\ v.ref = o /\ v.rpc = "none"
    BY DEF Local, Idle
  <1>3. /\ u.pc = AfterSched(thr[t].pc) /\ u.job = thr[t].job
        /\ u.ref = thr[t].ref /\ u.rpc = thr[t].rpc
        /\ Shape(t, u) /\ ~InLoop(u) /\ u.pc \notin AdminSteps
        /\ Acting(thr[t]) <=> Acting(u)
    BY SchedGoes
  <1> HIDE DEF u, v
  <1>4. /\ a \notin DOMAIN thr /\ a \notin Callers /\ a \in Nat /\ a # 0
        /\ a \notin stopping /\ a # worker /\ a # prepared
    BY ThreadNames, Numbers
  <1>5. /\ o # 0 /\ cl.active = 0 /\ cl.ops[o].thread = 0
        /\ o \in 1..Len(cl.ops)
    BY Numbers DEF Schedulable, IInv, CleanupOK
  <1>6. /\ ActiveOK(cl', generation) /\ PendingOK(cl', generation)
        /\ WindowOK(cl', generation)
        /\ cl'.active = 0 /\ cl'.pending = o
        /\ Len(cl'.ops) = Len(cl.ops)
        /\ \A j \in 1..Len(cl.ops) :
             cl'.ops[j].thread = IF j = o THEN a ELSE cl.ops[j].thread
    BY <1>4, <1>5, NotedKeeps
  <1>7. /\ ~InLoop(v) /\ Acting(v) /\ Shape(a, v)
    BY <1>2, <1>4
       DEF InLoop, LoopSteps, AdminSteps, Acting, LastSteps, Shape, ActorShape
  <1>8. /\ ~InLoop(thr[t]) /\ t # prepared /\ ~Committed(t) /\ t # worker
    BY SchedThread
  <1>9. Shapes'
    BY <1>1, <1>3, <1>4, <1>7 DEF RemovalInv, Shapes, SpawnedBy
  <1>10. WorkersOK'
    BY <1>1, <1>2, <1>3, <1>4, <1>7, <1>8
       DEF RemovalInv, WorkersOK, SpawnedBy, Committed, lifecycle
  <1>11. ActorsOK'
    <2>1. actors = {x \in DOMAIN thr : Acting(thr[x])}
      BY DEF RemovalInv, ActorsOK
    <2>2. actors' = {x \in DOMAIN thr' : Acting(thr'[x])}
      BY <1>1, <1>3, <1>4, <1>7, <2>1 DEF SpawnedBy
    <2>3. ASSUME NEW j \in 1..Len(cl'.ops), cl'.ops[j].thread # 0
          PROVE  /\ cl'.ops[j].thread \in actors'
                 /\ thr'[cl'.ops[j].thread].ref = j
      <3>1. CASE j = o
        BY <1>1, <1>2, <1>5, <1>6, <3>1 DEF SpawnedBy
      <3>2. CASE j # o
        <4>1. /\ cl'.ops[j].thread = cl.ops[j].thread
              /\ cl.ops[j].thread \in actors /\ thr[cl.ops[j].thread].ref = j
          BY <1>6, <2>3, <3>2 DEF RemovalInv, ActorsOK
        <4> QED
          BY <1>1, <1>3, <2>1, <4>1 DEF SpawnedBy
      <3> QED
        BY <3>1, <3>2
    <2> QED
      BY <2>2, <2>3 DEF ActorsOK
  <1>12. RemovingOK'
    <2>1. \A x \in DOMAIN thr' : ~Removing(x)'
      BY <1>1, <1>2, <1>3, <1>4, <1>5, NoRemover
         DEF SpawnedBy, Removing, AdminSteps
    <2> QED
      BY <1>6, <2>1 DEF RemovingOK
  <1>13. PendingHasOwner'
    BY <1>5, <1>6 DEF PendingHasOwner
  <1> QED
    BY <1>6, <1>9, <1>10, <1>11, <1>12, <1>13
       DEF RemovalInv, WaitOK, ActiveOK, PendingOK, WindowOK, lifecycle

LEMMA PendingDropped ==
  ASSUME NEW s, NEW g \in Nat, NEW w \in Nat, CleanupOK(s, g, w),
         NEW r, r = [s EXCEPT !.pending = 0]
  PROVE  /\ CleanupOK(r, g, w)
         /\ r.pending = 0 /\ r.ops = s.ops /\ r.active = s.active
         /\ r.coord = s.coord /\ r.coords = s.coords
         /\ r.requested = s.requested
  <1>1. s \in CleanupState /\ Len(s.ops) \in Nat /\ 0 \in Ref
    BY Fields DEF CleanupOK, Ref
  <1>2. /\ r \in CleanupState /\ r.pending = 0 /\ r.ops = s.ops
        /\ r.active = s.active /\ r.coord = s.coord /\ r.coords = s.coords
        /\ r.requested = s.requested /\ r.removed = s.removed
    BY <1>1 DEF CleanupState
  <1> QED
    BY <1>1, <1>2 DEF CleanupOK

\* The actor does not start: the pending removal ends with a failure.
LEMMA ScheduleFails ==
  ASSUME IInv, RemovalInv, NEW t \in DOMAIN thr, thr[t].pc \in SchedSites,
         NEW o, o = cl.pending, Schedulable,
         cl' = ReconcileAfter(Finish([cl EXCEPT !.pending = 0], o, "fail"),
                              cl.ops[o].gen, generation),
         IF Raises(thr[t].pc) THEN Exit(t)
                              ELSE Goto(t, AfterSpawnFailure(thr[t].pc)),
         UNCHANGED <<lifecycle, actors>>
  PROVE  RemovalInv'
  <1> DEFINE p == thr[t].pc
             g == generation
             s == [cl EXCEPT !.pending = 0]
             f == Finish(s, o, "fail")
             u == [thr[t] EXCEPT !.pc = AfterSpawnFailure(p)]
  <1>1. /\ cl \in CleanupState /\ g \in Nat /\ worker \in Nat
        /\ CleanupOK(cl, g, worker) /\ Len(cl.ops) \in Nat
        /\ cl.active = 0 /\ o \in 1..Len(cl.ops)
    BY Numbers DEF Schedulable, IInv, CleanupOK
  <1>2. CleanupOK(s, g, worker) /\ s.ops = cl.ops
    BY <1>1, PendingDropped
  <1>3. /\ s \in CleanupState /\ s.active = 0 /\ s.pending = 0
        /\ s.coord = cl.coord /\ s.coords = cl.coords
        /\ s.requested = cl.requested
    BY <1>1, PendingDropped DEF CleanupOK
  <1> HIDE DEF s
  <1>4. CleanupOK(f, g, worker)
    <2> DEFINE x == "fail"
    <2>1. x \in {"ok", "fail"} /\ o \in 1..Len(s.ops)
      BY <1>1, <1>2
    <2> HIDE DEF x
    <2>2. Edited(s, Finish(s, o, x), g, worker)
      BY <1>1, <1>2, <2>1, FinishOK
    <2> QED
      BY <2>2 DEF Edited, x
  <1>5. /\ f.active = 0 /\ f.pending = 0 /\ f.coord = cl.coord
        /\ f.coords = cl.coords /\ f.requested = cl.requested
        /\ SameThreads(cl, f)
    <2> DEFINE x == "fail"
    <2>1. x \in {"ok", "fail"} /\ o \in 1..Len(s.ops)
      BY <1>1, <1>2
    <2>2. f = Finish(s, o, x)
      OBVIOUS
    <2> HIDE DEF x, f
    <2> QED
      BY <1>2, <1>3, <2>1, <2>2, FinishFields DEF SameThreads
  <1>6. cl' = ReconcileAfter(f, cl.ops[o].gen, g)
    BY DEF s
  <1> HIDE DEF f
  <1>7. WindowOK(f, g) /\ PendingOK(f, g)
    BY <1>5 DEF RemovalInv, WindowOK, PendingOK
  <1>8. /\ GrownTo(f, cl', g) /\ WindowOK(cl', g) /\ cl'.pending = 0
    BY <1>1, <1>4, <1>5, <1>6, <1>7, ReconcileAfterGrown
  <1>9. /\ Len(f.ops) <= Len(cl'.ops)
        /\ \A j \in 1..Len(f.ops) : cl'.ops[j] = f.ops[j]
        /\ \A j \in 1..Len(cl'.ops) :
             j \notin 1..Len(f.ops) => cl'.ops[j].thread = 0
    BY <1>1, <1>4, <1>8, GrownKeeps
  <1>10. cl'.active = 0
    BY <1>5, <1>8 DEF GrownTo
  <1>11. \A j \in 1..Len(cl'.ops) :
           cl'.ops[j].thread = IF j \in 1..Len(cl.ops) THEN cl.ops[j].thread
                               ELSE 0
    BY <1>5, <1>9 DEF SameThreads
  <1>12. /\ t # prepared /\ ~Committed(t) /\ ~InLoop(thr[t])
         /\ t \notin Callers => p \in {"sched", "schedTail"}
    BY SchedThread
  <1>13. /\ OnlyMoves(t) /\ Shapes'
         /\ Stays(t) => ~InLoop(thr'[t])
         /\ Acting(thr[t]) <=> Stays(t) /\ Acting(thr'[t])
         /\ Acting(thr[t]) => thr'[t].ref = thr[t].ref
         /\ Stays(t) => ~Removing(t)'
    <2>1. CASE Raises(p)
      <3>1. t \in Callers /\ Exit(t)
        BY <1>12, <2>1 DEF Raises
      <3>2. /\ OnlyMoves(t)
            /\ thr'[t].pc = "idle" /\ thr'[t].job = "none"
            /\ thr'[t].rpc = "none"
        BY <3>1, ExitMoves
      <3>3. Shapes'
        BY <3>1, ExitShape DEF RemovalInv
      <3>4. ~Acting(thr[t])
        BY <3>1, CallerFacts
      <3> QED
        BY <3>2, <3>3, <3>4 DEF InLoop, LoopSteps, AdminSteps, Acting, Removing
    <2>2. CASE ~Raises(p)
      <3>1. thr' = [thr EXCEPT ![t] = u]
        BY <2>2 DEF Goto
      <3>2. /\ u.pc = AfterSpawnFailure(p) /\ u.job = thr[t].job
            /\ u.ref = thr[t].ref /\ Shape(t, u) /\ ~InLoop(u)
            /\ u.pc \notin AdminSteps
            /\ Acting(thr[t]) <=> Acting(u)
        BY <2>2, SchedGoes
      <3> HIDE DEF u
      <3>3. OnlyMoves(t) /\ Stays(t) /\ thr'[t] = u
        BY <3>1, GoMoves
      <3>4. Shapes'
        BY <3>2, <3>3, ShapesStep DEF RemovalInv
      <3> QED
        BY <3>2, <3>3, <3>4 DEF Removing, AdminSteps
    <2> QED
      BY <2>1, <2>2
  <1>14. WorkersOK'
    BY <1>12, <1>13, WorkersStep DEF RemovalInv, lifecycle
  <1>15. ActorsOK'
    BY <1>11, <1>13, ActorsStep DEF RemovalInv
  <1>16. RemovingOK'
    <2>1. \A x \in DOMAIN thr' : ~Removing(x)'
      BY <1>1, <1>13, NoRemover DEF OnlyMoves, Stays, Removing
    <2> QED
      BY <1>10, <2>1 DEF RemovingOK
  <1> QED
    BY <1>8, <1>10, <1>13, <1>14, <1>15, <1>16
       DEF RemovalInv, WaitOK, ActiveOK, PendingOK, WindowOK, PendingHasOwner,
           lifecycle

LEMMA RemovalSchedule ==
  ASSUME IInv, RemovalInv, NEW t \in DOMAIN thr, Schedule(t)
  PROVE  RemovalInv'
  <1>1. CASE ~Schedulable
    BY <1>1, ScheduleNothing
  <1>2. CASE Schedulable
    BY <1>2, ScheduleActor, ScheduleFails DEF Schedule
  <1> QED
    BY <1>1, <1>2

-----------------------------------------------------------------------------
(* The steps that change the lifecycle.                                    *)

\* A context that is told to stop keeps its generation.
LEMMA StopLocalGens ==
  ASSUME IInv, StopLocal
  PROVE  \A q \in DOMAIN ctx : ctx'[q].gen = ctx[q].gen
  <1> DEFINE D == DOMAIN ctx
             x == IF prepared = 0 THEN ctx ELSE Discarded(prepared)
             y == IF worker = 0 THEN x ELSE [x EXCEPT ![worker].stop = TRUE]
  <1>1. /\ ctx \in [D -> ContextType]
        /\ worker \in D \cup {0} /\ prepared \in D \cup {0}
    BY DEF IInv, LifeOK
  <1>2. x \in [D -> ContextType] /\ \A q \in D : x[q].gen = ctx[q].gen
    <2>1. CASE prepared = 0
      BY <1>1, <2>1
    <2>2. CASE prepared # 0
      <3>1. x = Discarded(prepared) /\ prepared \in D
        BY <1>1, <2>2
      <3> HIDE DEF x, D
      <3>2. ContextEdited(ctx, x, D, prepared)
        BY <1>1, <3>1, ContextStops DEF Discarded
      <3> QED
        BY <3>2 DEF ContextEdited
    <2> QED
      BY <2>1, <2>2
  <1>3. ctx' = y
    BY DEF StopLocal
  <1> HIDE DEF x
  <1>4. \A q \in D : y[q].gen = x[q].gen
    <2>1. CASE worker = 0
      BY <2>1
    <2>2. CASE worker # 0
      <3>1. y = [x EXCEPT ![worker].stop = TRUE] /\ worker \in D
        BY <1>1, <2>2
      <3> HIDE DEF y, D
      <3>2. ContextEdited(x, y, D, worker)
        BY <1>2, <3>1, ContextStops
      <3> QED
        BY <3>2 DEF ContextEdited
    <2> QED
      BY <2>1, <2>2
  <1> HIDE DEF y
  <1> QED
    BY <1>2, <1>3, <1>4

\* A caller stops the lifecycle, and may add a removal that it is about to
\* schedule.
LEMMA StopGrows ==
  ASSUME IInv, RemovalInv, StopLocal, NEW c \in DOMAIN thr, c \in Callers,
         thr[c].pc = "idle", NEW v, thr' = [thr EXCEPT ![c] = v],
         v.job \notin {"worker", "actor"}, CallerShape(v),
         v.pc \notin AdminSteps, RemovalsGrow, UNCHANGED actors,
         Owning(v) \/ cl'.pending = cl.pending
  PROVE  RemovalInv'
  <1>1. OnlyMoves(c) /\ Stays(c) /\ thr'[c] = v
    BY GoMoves
  <1>2. /\ worker' = 0 /\ prepared' = 0 /\ generation' = generation
        /\ stopping' = stopping \cup ({worker} \ {0})
    BY DEF StopLocal
  <1>3. Shapes'
    BY <1>1, ShapesStep DEF RemovalInv, Shape
  <1>4. ~Removing(c) /\ ~Removing(c)' /\ ~Acting(thr[c]) /\ ~Acting(v)
        /\ ~Owning(thr[c])
    BY <1>1, CallerFacts DEF Removing, Acting, AdminSteps, Owning, SchedSites
  <1>5. WorkersOK'
    <2>1. WorkersOK
      BY DEF RemovalInv
    <2>2. c \notin stopping /\ c # worker
      BY CallerFacts
    <2> QED
      BY <1>1, <1>2, <2>1, <2>2 DEF WorkersOK, OnlyMoves, Stays
  <1>6. ActorsOK'
    BY <1>1, <1>4, ActorsStep DEF RemovalInv, RemovalsGrow
  <1>7. RemovingOK'
    BY <1>1, <1>4, RemovingStep DEF RemovalInv, RemovalsGrow
  <1>8. PendingHasOwner'
    <2>1. CASE Owning(v)
      BY <1>1, <2>1 DEF PendingHasOwner, Owning, Stays
    <2>2. CASE cl'.pending = cl.pending
      <3>1. SUFFICES ASSUME cl.pending # 0
                     PROVE  PendingHasOwner'
        BY <2>2 DEF PendingHasOwner
      <3>2. cl'.ops[cl.pending] = cl.ops[cl.pending]
        BY <3>1, Numbers DEF RemovalsGrow, IInv, CleanupOK
      <3>3. PendingHasOwner /\ cl'.active = cl.active
        BY DEF RemovalInv, RemovalsGrow
      <3>4. CASE \E w \in stopping \cap DOMAIN thr : ctx[w].gen = generation
        <4>1. PICK w \in stopping \cap DOMAIN thr : ctx[w].gen = generation
          BY <3>4
        <4>2. w \in DOMAIN ctx
          BY DEF IInv, LifeOK
        <4>3. ctx'[w].gen = generation'
          BY <1>2, <4>1, <4>2, StopLocalGens
        <4>4. w \in stopping' \cap DOMAIN thr'
          BY <1>1, <1>2 DEF OnlyMoves, Stays
        <4> QED
          BY <4>3, <4>4 DEF PendingHasOwner
      <3>5. CASE \E u \in DOMAIN thr : Owning(thr[u])
        <4>1. PICK u \in DOMAIN thr : Owning(thr[u])
          BY <3>5
        <4>2. u \in DOMAIN thr' /\ Owning(thr'[u])
          BY <1>1, <1>4, <4>1 DEF OnlyMoves
        <4> QED
          BY <4>2 DEF PendingHasOwner, Owning
      <3>6. CASE cl.active # 0 \/ cl.ops[cl.pending].thread \in actors
        BY <2>2, <3>2, <3>3, <3>6 DEF PendingHasOwner
      <3> QED
        BY <3>1, <3>3, <3>4, <3>5, <3>6 DEF PendingHasOwner, Owning
    <2> QED
      BY <2>1, <2>2
  <1>9. /\ ActiveOK(cl, generation)' /\ PendingOK(cl, generation)'
        /\ WindowOK(cl, generation)'
    BY <1>2 DEF RemovalsGrow
  <1> QED
    BY <1>2, <1>3, <1>5, <1>6, <1>7, <1>8, <1>9 DEF RemovalInv, WaitOK

LEMMA RemovalCallStop ==
  ASSUME IInv, RemovalInv, NEW c \in Callers, NEW k, CallStop(c, k)
  PROVE  RemovalInv'
  <1> DEFINE r == IF k = "stopRemove" THEN RequestRemove(cl, generation)
                  ELSE Keep(cl)
             p == IF r.op # 0 THEN "schedStop" ELSE "closeTail"
             v == [Idle EXCEPT !.job = k, !.pc = p, !.gen = generation]
  <1>1. /\ c \in DOMAIN thr /\ thr[c].pc = "idle"
        /\ k \in {"stop", "stopRemove"} /\ StopLocal
        /\ cl' = r.cl /\ UNCHANGED actors
        /\ thr' = [thr EXCEPT ![c] = v]
    BY Invoked DEF CallStop, Invoke, Go, Local
  <1>2. generation \in Nat /\ CleanupOK(cl, generation, 0)
        /\ ActiveOK(cl, generation) /\ PendingOK(cl, generation)
        /\ WindowOK(cl, generation)
    BY Numbers, WorkerGone DEF IInv, RemovalInv
  <1>3. Grown(cl, r, generation) /\ WindowOK(r.cl, generation)
    BY <1>2, RequestRemoveGrown, KeepGrown
  <1> HIDE DEF r
  <1>4. v.job = k /\ v.pc = p /\ v.rpc = "none"
    BY DEF Idle
  <1> HIDE DEF v
  <1>5. GrownTo(cl, cl', generation) /\ WindowOK(cl', generation)
    BY <1>1, <1>3 DEF Grown
  <1>6. 0 \in Nat
    OBVIOUS
  <1>7. RemovalsGrow
    BY <1>2, <1>5, <1>6, GrownKeeps DEF RemovalsGrow, GrownTo
  <1>8. Owning(v) \/ cl'.pending = cl.pending
    BY <1>1, <1>3, <1>4 DEF Owning, SchedSites, Grown
  <1>9. CallerShape(v) /\ v.pc \notin AdminSteps
    BY <1>4 DEF CallerShape, LoopSteps, TerminalSteps, AdminSteps
  <1> QED
    BY <1>1, <1>4, <1>7, <1>8, <1>9, StopGrows

\* The first half of a shutdown asks the window for a removal: it is in flight,
\* or the second half is to come.
LEMMA RemovalCallShutdown ==
  ASSUME IInv, RemovalInv, NEW c \in Callers, NEW k, CallShutdown(c, k)
  PROVE  RemovalInv'
  <1>1. PICK p \in {"request", "closeTail"} : Go(c, Local(k, p, generation))
    BY DEF CallShutdown
  <1> DEFINE v == [Idle EXCEPT !.job = k, !.pc = p, !.gen = generation]
  <1>2. /\ c \in DOMAIN thr /\ thr[c].pc = "idle"
        /\ k \in {"shutdown", "deregister"} /\ StopLocal
        /\ UNCHANGED actors
        /\ thr' = [thr EXCEPT ![c] = v]
    BY <1>1, Invoked DEF CallShutdown, Invoke, Go, Local
  <1>3. v.job = k /\ v.pc = p /\ v.rpc = "none"
    BY DEF Idle
  <1> HIDE DEF v
  <1>4. /\ cl'.ops = cl.ops /\ cl'.active = cl.active
        /\ cl'.pending = cl.pending /\ cl'.removed = cl.removed
        /\ WindowOK(cl', generation)
    <2>1. WindowOK(cl, generation) /\ cl \in CleanupState
      BY DEF RemovalInv, IInv, CleanupOK
    <2>2. CASE cl' = cl
      BY <2>1, <2>2
    <2>3. CASE cl' # cl
      <3> DEFINE d == Window
                 x == [cl.coords[d] EXCEPT !.requested = TRUE]
                 q == [cl.coords EXCEPT ![d] = x]
      <3>1. d # 0 /\ cl' = [cl EXCEPT !.coords = q]
        BY <2>3 DEF CallShutdown
      <3>2. d = cl.coord /\ d \in 1..Len(cl.coords)
        BY <3>1, Numbers DEF Window, IInv, CleanupOK
      <3>3. cl.coords[d] \in CoordinationType
        BY <3>2, Numbers, Fields
      <3>4. x.inflight = cl.coords[d].inflight
        BY <3>3 DEF CoordinationType
      <3>5. d \in DOMAIN cl.coords
        BY <3>2, Numbers, Fields
      <3>6. q[d].inflight = cl.coords[d].inflight
        BY <3>4, <3>5
      <3> HIDE DEF q, d
      <3>7. /\ cl'.ops = cl.ops /\ cl'.active = cl.active
            /\ cl'.pending = cl.pending /\ cl'.removed = cl.removed
            /\ cl'.coord = cl.coord /\ cl'.requested = cl.requested
            /\ cl'.coords = q
        BY <2>1, <3>1 DEF CleanupState
      <3> QED
        BY <2>1, <3>2, <3>6, <3>7 DEF WindowOK
    <2> QED
      BY <2>2, <2>3
  <1>5. RemovalsGrow
    BY <1>4, SameRemovals
  <1>6. CallerShape(v) /\ v.pc \notin AdminSteps
    BY <1>3 DEF CallerShape, LoopSteps, TerminalSteps, AdminSteps
  <1> QED
    BY <1>2, <1>3, <1>4, <1>5, <1>6, StopGrows

\* A worker thread is spawned that waits at its gate.
LEMMA RemovalCallStart ==
  ASSUME IInv, RemovalInv, NEW c \in Callers, NEW k, CallStart(c, k)
  PROVE  RemovalInv'
  <1> DEFINE a == spawned + 1
             vc == [Idle EXCEPT !.pc = "prepared", !.job = k, !.ref = a]
             vw == [Idle EXCEPT !.job = "worker", !.pc = "gate",
                                !.gen = generation + 1]
  <1>1. /\ c \in DOMAIN thr /\ thr[c].pc = "idle" /\ k \in {"start", "init"}
        /\ UNCHANGED <<generation, worker, stopping, cl, actors>>
    BY Invoked DEF CallStart, Invoke
  <1>2. CASE UNCHANGED <<prepared, ctx, thr, spawned>>
    BY <1>1, <1>2
       DEF RemovalInv, Shapes, WorkersOK, ActorsOK, RemovingOK, WaitOK,
           ActiveOK, PendingOK, WindowOK, PendingHasOwner, Removing
  <1>3. CASE /\ prepared = 0 /\ prepared' = a
             /\ ctx' = Put(ctx, a, Context(generation + 1))
             /\ Spawn([thr EXCEPT ![c] = vc],
                      Local("worker", "gate", generation + 1))
    <2>1. SpawnedBy(c, vc, a, vw)
      BY <1>1, <1>3, SpawnMoves DEF Local
    <2>2. /\ vc.pc = "prepared" /\ vc.job = k /\ vc.rpc = "none"
          /\ vw.pc = "gate" /\ vw.job = "worker" /\ vw.rpc = "none"
      BY DEF Idle
    <2> HIDE DEF vc, vw
    <2>3. /\ a \notin DOMAIN thr /\ a \notin Callers /\ a # 0
          /\ a \notin stopping /\ a # worker /\ a \notin DOMAIN ctx
      <3>1. spawned \in Nat /\ DOMAIN ctx \subseteq 1..spawned
        BY DEF IInv, LifeOK
      <3>2. a \notin DOMAIN ctx /\ a # 0
        BY <3>1
      <3> QED
        BY <3>2, ThreadNames
    <2>4. /\ ~ctx'[a].open
          /\ \A q \in DOMAIN ctx : ctx'[q] = ctx[q]
      BY <1>3, <2>3 DEF Put, Context
    <2>5. /\ worker \in DOMAIN ctx \cup {0} /\ stopping \subseteq DOMAIN ctx
      BY DEF IInv, LifeOK
    <2>6. c # worker /\ c \notin stopping /\ ~Acting(thr[c]) /\ ~Removing(c)
          /\ ~Owning(thr[c])
      BY <1>1, CallerFacts DEF Removing, Owning, SchedSites
    <2>7. Shapes'
      <3>1. Shape(c, vc) /\ Shape(a, vw)
        BY <1>1, <2>2, <2>3
           DEF Shape, CallerShape, WorkerShape, LoopSteps, AdminSteps,
               TerminalSteps
      <3> QED
        BY <2>1, <3>1 DEF RemovalInv, Shapes, SpawnedBy
    <2>8. WorkersOK'
      <3>1. vc.job # "worker"
        BY <1>1, <2>2
      <3>2. WorkersOK
        BY DEF RemovalInv
      <3>3. \A w \in stopping' \cup ({worker'} \ {0}) :
              /\ w \in DOMAIN thr'
              /\ thr'[w].job = "worker" /\ InLoop(thr'[w])
        BY <1>1, <2>1, <2>6, <3>2 DEF WorkersOK, SpawnedBy
      <3>4. \A t \in DOMAIN thr' :
              thr'[t].job = "worker" /\ thr'[t].pc # "gate" /\ InLoop(thr'[t])
                => t \in stopping' \/ t = worker'
        BY <1>1, <2>1, <2>2, <3>1, <3>2 DEF WorkersOK, SpawnedBy
      <3>5. /\ a \in DOMAIN thr' /\ a \notin stopping'
            /\ thr'[a].job = "worker" /\ thr'[a].pc = "gate"
        BY <1>1, <2>1, <2>2, <2>3 DEF SpawnedBy
      <3> QED
        BY <1>3, <2>4, <3>3, <3>4, <3>5 DEF WorkersOK
    <2>9. ActorsOK'
      <3>1. ~Acting(vc) /\ ~Acting(vw)
        BY <1>1, <2>2 DEF Acting
      <3>2. actors = {x \in DOMAIN thr : Acting(thr[x])}
        BY DEF RemovalInv, ActorsOK
      <3>3. actors' = {x \in DOMAIN thr' : Acting(thr'[x])}
        BY <1>1, <2>1, <2>3, <2>6, <3>1, <3>2 DEF SpawnedBy
      <3>4. \A x \in actors : x # c /\ thr'[x] = thr[x]
        BY <2>1, <2>6, <3>2 DEF SpawnedBy
      <3> QED
        BY <1>1, <3>3, <3>4 DEF RemovalInv, ActorsOK
    <2>10. RemovingOK'
      <3>1. \A x \in {c, a} : ~Removing(x)'
        BY <2>1, <2>2 DEF SpawnedBy, Removing
      <3>2. \A x \in DOMAIN thr' : Removing(x)' => x \in DOMAIN thr \ {c}
        BY <2>1, <3>1 DEF SpawnedBy
      <3>3. \A x \in DOMAIN thr \ {c} : /\ x \in DOMAIN thr'
                                        /\ Removing(x)' <=> Removing(x)
                                        /\ thr'[x] = thr[x]
        BY <2>1 DEF SpawnedBy, Removing
      <3> QED
        BY <1>1, <2>6, <3>2, <3>3 DEF RemovalInv, RemovingOK
    <2>11. WaitOK'
      <3>1. worker # 0 => /\ ctx'[worker] = ctx[worker]
                          /\ thr'[worker] = thr[worker]
        BY <2>1, <2>4, <2>5, <2>6 DEF RemovalInv, WorkersOK, SpawnedBy
      <3> QED
        BY <1>1, <3>1 DEF RemovalInv, WaitOK
    <2>12. PendingHasOwner'
      <3>1. \A w \in stopping \cap DOMAIN thr :
              w \in DOMAIN thr' /\ ctx'[w] = ctx[w]
        BY <2>1, <2>4, <2>5 DEF SpawnedBy
      <3>2. \A u \in DOMAIN thr : Owning(thr[u]) =>
              u \in DOMAIN thr' /\ thr'[u] = thr[u]
        BY <2>1, <2>6 DEF SpawnedBy
      <3>3. PendingHasOwner
        BY DEF RemovalInv
      <3> QED
        BY <1>1, <3>1, <3>2, <3>3 DEF PendingHasOwner, Owning
    <2> QED
      BY <1>1, <2>7, <2>8, <2>9, <2>10, <2>11, <2>12
         DEF RemovalInv, ActiveOK, PendingOK, WindowOK
  <1>4. k \in {"start", "init"} /\ ~Started => prepared = 0
    BY DEF Started
  <1> QED
    BY <1>2, <1>3, <1>4 DEF CallStart

\* A candidate is taken back: nothing that is committed changes.
LEMMA RemovalCancelPrepared ==
  ASSUME IInv, RemovalInv, NEW t \in DOMAIN thr, CancelPrepared(t)
  PROVE  RemovalInv'
  <1> DEFINE p == thr[t].ref
  <1>1. /\ thr[t].pc = "prepared" /\ thr[t].job = "init" /\ Exit(t)
        /\ UNCHANGED <<generation, worker, stopping, cl, actors>>
    BY DEF CancelPrepared, At
  <1>2. t \in Callers
    BY <1>1 DEF RemovalInv, Shapes, Shape
  <1>3. ~Removing(t) /\ ~Owning(thr[t])
    BY <1>1 DEF Removing, Owning, SchedSites
  <1>4. CASE prepared # p
    <2>1. UNCHANGED <<lifecycle, cl, actors>>
      BY <1>1, <1>4 DEF CancelPrepared, lifecycle
    <2> QED
      BY <1>1, <1>2, <1>3, <2>1, SameCleanup, CallerExit
  <1>5. CASE prepared = p
    <2>1. prepared' = 0 /\ ctx' = Cancelled(p)
      BY <1>5 DEF CancelPrepared
    <2>2. /\ p \in DOMAIN ctx /\ worker = 0
          /\ ctx \in [DOMAIN ctx -> ContextType] /\ stopping \subseteq DOMAIN ctx
      <3>1. p \in DOMAIN ctx
        BY <1>1, OwnLocal DEF LocalOK
      <3>2. p # 0
        BY <3>1 DEF IInv, LifeOK
      <3> QED
        BY <1>5, <3>1, <3>2 DEF IInv, LifeOK
    <2>3. \A q \in stopping : ctx'[q].gen = ctx[q].gen
      <3> HIDE DEF p
      <3>1. ContextEdited(ctx, ctx', DOMAIN ctx, p)
        BY <2>1, <2>2, ContextCancelled
      <3> QED
        BY <2>2, <3>1 DEF ContextEdited
    <2>4. /\ OnlyMoves(t) /\ Stays(t)
          /\ thr'[t].pc = "idle" /\ thr'[t].job = "none"
          /\ thr'[t].rpc = "none"
      BY <1>1, <1>2, ExitMoves
    <2>5. Shapes'
      BY <1>1, ExitShape DEF RemovalInv
    <2>6. ~Acting(thr[t]) /\ ~Acting(thr'[t]) /\ ~Removing(t)' /\ t \notin stopping
      BY <1>2, <2>4, CallerFacts DEF Acting, Removing
    <2>7. WorkersOK'
      BY <1>1, <2>1, <2>2, <2>4, <2>6
         DEF RemovalInv, WorkersOK, OnlyMoves, Stays
    <2>8. ActorsOK'
      BY <1>1, <2>4, <2>6, ActorsStep DEF RemovalInv
    <2>9. RemovingOK'
      BY <1>1, <1>3, <2>4, <2>6, RemovingStep DEF RemovalInv
    <2>10. PendingHasOwner'
      <3>1. \A w \in stopping \cap DOMAIN thr :
              w \in DOMAIN thr' /\ ctx'[w].gen = ctx[w].gen
        BY <2>3, <2>4 DEF OnlyMoves, Stays
      <3>2. \A u \in DOMAIN thr : Owning(thr[u]) =>
              u \in DOMAIN thr' /\ thr'[u] = thr[u]
        BY <1>3, <2>4 DEF OnlyMoves
      <3>3. PendingHasOwner
        BY DEF RemovalInv
      <3> QED
        BY <1>1, <3>1, <3>2, <3>3 DEF PendingHasOwner, Owning
    <2> QED
      BY <1>1, <2>2, <2>5, <2>7, <2>8, <2>9, <2>10
         DEF RemovalInv, WaitOK, ActiveOK, PendingOK, WindowOK
  <1> QED
    BY <1>4, <1>5

\* The candidate becomes the worker of the next generation, after the removal
\* that is active.
LEMMA RemovalActivate ==
  ASSUME IInv, RemovalInv, NEW t \in DOMAIN thr, Activate(t)
  PROVE  RemovalInv'
  <1> DEFINE p == thr[t].ref
             g == generation
             s == Detach(cl)
  <1>1. thr[t].pc = "prepared" /\ p \in DOMAIN ctx /\ actors' = actors
    BY OwnLocal DEF Activate, At, LocalOK
  <1>2. t \in Callers
    BY <1>1 DEF RemovalInv, Shapes, Shape, WorkerShape, ActorShape, LoopSteps,
                AdminSteps, TailSteps
  <1>3. ~Removing(t) /\ ~Owning(thr[t])
    BY <1>1 DEF Removing, Owning, SchedSites
  <1>4. CASE prepared # p
    <2>1. Exit(t) /\ UNCHANGED <<lifecycle, cl, actors>>
      BY <1>1, <1>4 DEF Activate
    <2> QED
      BY <1>2, <1>3, <2>1, SameCleanup, CallerExit
  <1>5. CASE prepared = p
    <2>1. /\ p # 0 /\ worker = 0 /\ ctx[p].gen = g + 1 /\ g \in Nat /\ ctx[p].owner
          /\ ctx \in [DOMAIN ctx -> ContextType] /\ stopping \subseteq DOMAIN ctx
      <3>1. LifeOK(ctx, g, worker, p, stopping, spawned)
        BY <1>5 DEF IInv
      <3>2. p # 0
        BY <1>1, <3>1 DEF LifeOK
      <3> QED
        BY <3>1, <3>2 DEF LifeOK
    <2>2. /\ stopping' = stopping
          /\ generation' = g + 1 /\ worker' = p /\ prepared' = 0
          /\ ctx' = [ctx EXCEPT ![p].wait = cl.active, ![p].open = TRUE]
          /\ cl' = Cancel(s, cl.pending)
          /\ Exit(t)
      BY <1>5, <2>1 DEF Activate
    <2>3. /\ cl \in CleanupState /\ cl.active \in 0..Len(cl.ops)
          /\ cl.pending \in 0..Len(cl.ops) /\ Len(cl.ops) \in Nat
      BY Numbers DEF IInv, CleanupOK
    <2>4. /\ s \in CleanupState /\ s.ops = cl.ops /\ s.coord = 0
          /\ s.active = cl.active /\ s.pending = cl.pending
          /\ s.removed = cl.removed
      <3>1. CASE cl.coord = 0
        BY <2>3, <3>1 DEF Detach
      <3>2. CASE cl.coord # 0
        <4> DEFINE v == [cl.coords[cl.coord] EXCEPT !.done = TRUE]
                   q == [cl.coords EXCEPT ![cl.coord] = v]
        <4>1. cl.coord \in 1..Len(cl.coords)
          BY <3>2, Numbers DEF IInv, CleanupOK
        <4>2. cl.coords[cl.coord] \in CoordinationType
              /\ cl.coords \in Seq(CoordinationType)
          BY <4>1, Numbers, Fields
        <4>3. v \in CoordinationType
          BY <4>2 DEF CoordinationType
        <4> HIDE DEF v
        <4>4. q \in Seq(CoordinationType)
          BY <4>1, <4>2, <4>3, SeqUpdate
        <4>5. s = [cl EXCEPT !.coords = q, !.coord = 0]
          BY <3>2 DEF Detach, v
        <4> HIDE DEF q, s
        <4>6. s \in CleanupState
          BY <2>3, <4>4, <4>5 DEF CleanupState, Ref
        <4>7. /\ s.ops = cl.ops /\ s.coord = 0
              /\ s.active = cl.active /\ s.pending = cl.pending
              /\ s.removed = cl.removed
          BY <2>3, <4>5 DEF CleanupState
        <4> QED
          BY <4>6, <4>7
      <3> QED
        BY <3>1, <3>2
    <2> HIDE DEF s
    <2>5. /\ cl'.pending = 0 /\ cl'.active = cl.active /\ cl'.coord = 0
          /\ cl'.removed = cl.removed /\ SameThreads(cl, cl')
          /\ \A j \in 1..Len(cl.ops) : j # cl.pending => cl'.ops[j] = cl.ops[j]
      BY <2>2, <2>3, <2>4, CancelFields DEF SameThreads
    <2>6. cl.active # 0 => /\ cl'.ops[cl.active] = cl.ops[cl.active]
                           /\ cl.ops[cl.active].gen \in Nat
                           /\ cl.ops[cl.active].gen < g + 1
      <3>1. SUFFICES ASSUME cl.active # 0
                     PROVE  /\ cl'.ops[cl.active] = cl.ops[cl.active]
                            /\ cl.ops[cl.active].gen \in Nat
                            /\ cl.ops[cl.active].gen < g + 1
        OBVIOUS
      <3>2. cl.pending # cl.active
        BY <3>1 DEF RemovalInv, PendingOK
      <3>3. cl.active \in 1..Len(cl.ops)
        BY <2>3, <3>1
      <3>4. cl.ops[cl.active] \in OperationType
        BY <2>3, <3>3, Fields
      <3> QED
        BY <2>1, <2>5, <3>1, <3>2, <3>3, <3>4
           DEF RemovalInv, ActiveOK, OperationType
    <2>7. ActiveOK(cl', g + 1) /\ PendingOK(cl', g + 1) /\ WindowOK(cl', g + 1)
      <3>1. ActiveOK(cl, g)
        BY DEF RemovalInv
      <3> QED
        BY <2>1, <2>5, <2>6, <3>1 DEF ActiveOK, PendingOK, WindowOK
    <2>8. /\ OnlyMoves(t) /\ Stays(t)
          /\ thr'[t].pc = "idle" /\ thr'[t].job = "none"
          /\ thr'[t].rpc = "none"
      BY <1>2, <2>2, ExitMoves
    <2>9. Shapes'
      BY <2>2, ExitShape DEF RemovalInv
    <2>10. ~Acting(thr[t]) /\ ~Acting(thr'[t]) /\ ~Removing(t)' /\ t # p
           /\ t \notin stopping
      BY <1>2, <1>5, <2>8, CallerFacts DEF Acting, Removing
    <2>11. p \in DOMAIN thr' /\ thr'[p].job = "worker" /\ thr'[p].pc = "gate"
      BY <1>5, <2>1, <2>8, <2>10 DEF RemovalInv, WorkersOK, OnlyMoves
    <2>12. WorkersOK'
      <3>1. WorkersOK
        BY DEF RemovalInv
      <3> HIDE DEF p, g
      <3>2. \A w \in stopping \cup {p} :
              /\ w \in DOMAIN thr'
              /\ thr'[w].job = "worker" /\ InLoop(thr'[w])
        <4>1. InLoop(thr'[p])
          BY <2>11 DEF InLoop
        <4>2. \A w \in stopping : /\ w \in DOMAIN thr' /\ thr'[w] = thr[w]
                                  /\ thr[w].job = "worker" /\ InLoop(thr[w])
          BY <2>8, <2>10, <3>1 DEF WorkersOK, OnlyMoves
        <4> QED
          BY <2>11, <4>1, <4>2
      <3>3. \A x \in DOMAIN thr' :
              thr'[x].job = "worker" /\ thr'[x].pc # "gate" /\ InLoop(thr'[x])
                => x \in stopping
        <4>1. \A x \in DOMAIN thr' : x # t => x \in DOMAIN thr /\ thr'[x] = thr[x]
          BY <2>8 DEF OnlyMoves
        <4> QED
          BY <2>1, <2>8, <3>1, <4>1, ThreadNames DEF WorkersOK
      <3> QED
        BY <2>2, <3>2, <3>3 DEF WorkersOK
    <2>13. ActorsOK'
      <3>1. \A o \in 1..Len(cl'.ops) :
              cl'.ops[o].thread = IF o \in 1..Len(cl.ops) THEN cl.ops[o].thread
                                  ELSE 0
        BY <2>5 DEF SameThreads
      <3> QED
        BY <1>1, <2>8, <2>10, <3>1, ActorsStep DEF RemovalInv
    <2>14. RemovingOK'
      BY <1>3, <2>5, <2>8, <2>10, RemovingStep DEF RemovalInv
    <2>15. WaitOK'
      <3>1. ctx'[p].wait = cl.active
        <4>1. ctx[p] \in ContextType
          BY <1>1, <2>1
        <4> QED
          BY <1>1, <2>2, <4>1 DEF ContextType
      <3> QED
        BY <2>2, <2>5, <2>6, <2>11, <3>1 DEF WaitOK
    <2> QED
      BY <2>2, <2>5, <2>7, <2>9, <2>12, <2>13, <2>14, <2>15
         DEF RemovalInv, PendingHasOwner, ActiveOK, PendingOK, WindowOK
  <1> QED
    BY <1>4, <1>5

-----------------------------------------------------------------------------
(* The invariant.                                                          *)

LEMMA InitRemoval == Init => RemovalInv
  <1> SUFFICES ASSUME Init
               PROVE  RemovalInv
    OBVIOUS
  <1>1. \A t \in DOMAIN thr : /\ t \in Callers /\ thr[t].pc = "idle"
                              /\ thr[t].job = "none" /\ thr[t].rpc = "none"
    BY DEF Init, Idle
  <1>2. Shapes
    BY <1>1 DEF Shapes, Shape, CallerShape, LoopSteps, TerminalSteps
  <1>3. WorkersOK
    BY <1>1 DEF Init, WorkersOK
  <1>4. ActorsOK
    BY <1>1 DEF Init, ActorsOK, Acting
  <1>5. RemovingOK
    BY <1>1 DEF Init, RemovingOK, Removing
  <1> QED
    BY <1>2, <1>3, <1>4, <1>5
       DEF Init, RemovalInv, WaitOK, ActiveOK, PendingOK, WindowOK,
           PendingHasOwner

LEMMA NextRemoval == IInv /\ RemovalInv /\ [Next]_vars => RemovalInv'
  <1> SUFFICES ASSUME IInv, RemovalInv, [Next]_vars
               PROVE  RemovalInv'
    OBVIOUS
  <1>1. CASE UNCHANGED vars
    BY <1>1
       DEF vars, lifecycle, RemovalInv, Shapes, WorkersOK, ActorsOK,
           RemovingOK, Removing, WaitOK, ActiveOK, PendingOK, WindowOK,
           PendingHasOwner
  <1>2. ASSUME NEW c \in Callers, Call(c)
        PROVE  RemovalInv'
    BY <1>2, RemovalCallRegister, RemovalCallRemove, RemovalCallStart,
       RemovalCallStop, RemovalCallShutdown DEF Call
  <1>3. ASSUME NEW t \in DOMAIN thr, Step(t)
        PROVE  RemovalInv'
    BY <1>3, RemovalRpcBegin, RemovalRpcEnd, RemovalCommitRegister,
       RemovalCommitRemove, RemovalCommitRenewal, RemovalCompleteRemove,
       RemovalTerminal, RemovalTerminalOwn, RemovalActivate,
       RemovalCancelPrepared, RemovalShutdownRequest, RemovalSchedule,
       RemovalMaybeCloseLogs, RemovalGate, RemovalAwaitOlder,
       RemovalWorkerQuit, RemovalFinishWorker, RemovalClaim, RemovalDiscard
       DEF Step
  <1>4. ASSUME NEW t \in DOMAIN thr, Tick(t)
        PROVE  RemovalInv'
    BY <1>4, RemovalWorkerQuit
  <1> QED
    BY <1>1, <1>2, <1>3, <1>4 DEF Next, Rest

LEMMA RemovalInvariant == Spec => [](IInv /\ RemovalInv)
  <1>1. Init => IInv /\ RemovalInv
    BY InitInvariant, InitRemoval
  <1>2. IInv /\ RemovalInv /\ [Next]_vars => (IInv /\ RemovalInv)'
    BY NextInvariant, NextRemoval
  <1> QED
    BY <1>1, <1>2, PTL DEF Spec

-----------------------------------------------------------------------------
(* The results.                                                            *)

\* At most one thread performs a removal, and it is the one that
\* state.active_remove_operation stands for: the renewal worker, the cleanup
\* actor and the terminal removal hand the operation over under state_lock,
\* and the active one is never left without a thread that will end it.
THEOREM OneRemovalAtATime == Spec => []OneActiveRemoval
  <1>1. IInv /\ RemovalInv => OneActiveRemoval
    <2> SUFFICES ASSUME IInv, RemovalInv
                 PROVE  OneActiveRemoval
      OBVIOUS
    <2>1. RemovingOK /\ ActiveOK(cl, generation)
      BY DEF RemovalInv
    <2>2. \A t \in DOMAIN thr : Removing(t) => thr[t].ref \in 1..Len(cl.ops)
      BY OwnLocal DEF LocalOK, Removing
    <2>3. \A t \in DOMAIN thr : Removing(t) => cl.active # 0
      BY <2>1, <2>2 DEF RemovingOK
    <2> QED
      BY <2>1, <2>3 DEF RemovingOK, ActiveOK, OneActiveRemoval
  <1> QED
    BY <1>1, RemovalInvariant, PTL

\* While the removal of an older lifecycle is on its way to the Admin server,
\* the worker of the newer one has not passed the wait for its
\* remove_operation: the removal cannot undo the first registration.
THEOREM NewLifecycleWaits == Spec => []NoRemovalUnderNewLifecycle
  <1>1. IInv /\ RemovalInv => NoRemovalUnderNewLifecycle
    <2> SUFFICES ASSUME IInv, RemovalInv, NEW t \in DOMAIN thr,
                        thr[t].rpc = "cleanup", thr[t].pc \in {"call", "rpc"},
                        worker # 0
                 PROVE  /\ cl.ops[thr[t].ref].gen < generation
                        /\ thr[worker].pc \in {"gate", "awaitOlder"}
      BY DEF NoRemovalUnderNewLifecycle
    <2>1. Removing(t) /\ thr[t].ref \in 1..Len(cl.ops)
      BY OwnLocal DEF LocalOK, Removing
    <2>2. cl.active = thr[t].ref /\ cl.active # 0
      BY <2>1 DEF RemovalInv, RemovingOK
    <2> QED
      BY <2>2 DEF RemovalInv, WaitOK
  <1> QED
    BY <1>1, RemovalInvariant, PTL

\* The active removal is of a generation whose accepted removal is not cached:
\* _close_cleanup_locked and the schedulers never let a second one through.
THEOREM RemovedOnce == Spec => []NoRedundantRemoval
  <1>1. IInv /\ RemovalInv => NoRedundantRemoval
    <2> SUFFICES ASSUME IInv, RemovalInv, NEW t \in DOMAIN thr,
                        thr[t].rpc = "cleanup", thr[t].pc \in {"call", "rpc"}
                 PROVE  cl.removed # cl.ops[thr[t].ref].gen
      BY DEF NoRedundantRemoval
    <2>1. Removing(t) /\ thr[t].ref \in 1..Len(cl.ops)
      BY OwnLocal DEF LocalOK, Removing
    <2>2. cl.active = thr[t].ref /\ cl.active # 0
      BY <2>1 DEF RemovalInv, RemovingOK
    <2> QED
      BY <2>2 DEF RemovalInv, ActiveOK
  <1> QED
    BY <1>1, RemovalInvariant, PTL

\* A pending removal is never stranded: its worker has yet to stop, its actor
\* has yet to claim it, another removal is active and schedules it when it
\* ends, or a thread is about to call _schedule_pending_remove.
THEOREM NothingStranded == Spec => []PendingHasOwner
  <1>1. RemovalInv => PendingHasOwner
    BY DEF RemovalInv
  <1> QED
    BY <1>1, RemovalInvariant, PTL

\* When _maybe_close_logs_when_idle finds nothing counted, nothing is at work.
LEMMA IdleMeansIdle ==
  ASSUME IInv, RemovalInv, LogsIdle, NEW t \in DOMAIN thr
  PROVE  ~Background(t)
  <1> SUFFICES ASSUME Background(t)
               PROVE  FALSE
    OBVIOUS
  <1>1. /\ t \notin Callers
        /\ thr[t].pc \notin {"sched", "schedTail", "recheck", "close",
                             "recheckTail", "closeTail"}
        /\ thr[t].pc # "gate"
        /\ t # worker /\ t \notin stopping
    <2>1. t \in Callers \cup 1..spawned /\ 0 \notin 1..spawned
      BY DEF IInv, ThreadsOK
    <2> QED
      BY <2>1 DEF Background, SchedSites, LogsIdle
  <1>2. ~Removing(t)
    BY NoRemover DEF LogsIdle
  <1>3. CASE thr[t].job = "actor"
    <2>1. ~Acting(thr[t])
      BY DEF RemovalInv, ActorsOK, LogsIdle
    <2> QED
      BY <1>1, <1>3, <2>1 DEF Acting, LastSteps
  <1>4. CASE thr[t].job = "worker" /\ WorkerShape(thr[t])
    <2>1. ~InLoop(thr[t])
      BY <1>1, <1>4 DEF RemovalInv, WorkersOK
    <2> QED
      BY <1>1, <1>2, <1>4, <2>1
         DEF WorkerShape, InLoop, Removing, AdminSteps, LoopSteps, TailSteps
  <1> QED
    BY <1>1, <1>3, <1>4 DEF RemovalInv, Shapes, Shape

\* The log handlers of the process are closed only when no renewal worker and
\* no cleanup actor has a call or a state change left, so nothing is logged to
\* a handler that shutdown() has closed.
THEOREM LogsCloseLast == Spec => LogsCloseAfterWork
  <1>1. IInv /\ RemovalInv /\ [Next]_vars
          => [logsClosed' # logsClosed => \A t \in DOMAIN thr : ~Background(t)]_vars
    <2> SUFFICES ASSUME IInv, RemovalInv, Next, logsClosed' # logsClosed
                 PROVE  \A t \in DOMAIN thr : ~Background(t)
      OBVIOUS
    <2>1. LogsIdle
      <3>1. ASSUME NEW c \in Callers, Call(c)
            PROVE  FALSE
        BY <3>1
           DEF Call, CallRegister, CallRemove, CallStart, CallStop,
               CallShutdown, logs
      <3>2. ASSUME NEW t \in DOMAIN thr, Step(t)
            PROVE  LogsIdle
        <4>1. \/ UNCHANGED logsClosed
              \/ MaybeCloseLogs(t)
          BY <3>2
             DEF Step, RpcBegin, RpcEnd, CommitRegister, CommitRemove,
                 CommitRenewal, CompleteRemove, TerminalOneShot,
                 TerminalRegisters, TerminalCached, TerminalActive,
                 TerminalPending, TerminalOwn, AwaitRegisters, AwaitRemove,
                 Activate, CancelPrepared, ShutdownRequest, Schedule, Gate,
                 AwaitOlder, WorkerQuit, FinishWorker, Claim, Discard, Unmoved,
                 logs
        <4>2. logsClosed \in BOOLEAN
          BY DEF IInv, RestOK
        <4>3. ASSUME MaybeCloseLogs(t)
              PROVE  logsClosed' = (logsClosed \/ (closing /\ LogsIdle))
          BY <4>3 DEF MaybeCloseLogs
        <4> QED
          BY <4>1, <4>2, <4>3, Zenon
      <3>3. ASSUME NEW t \in DOMAIN thr, Tick(t)
            PROVE  FALSE
        BY <3>3 DEF Tick, logs
      <3> QED
        BY <3>1, <3>2, <3>3 DEF Next, Rest, vars, logs
    <2> QED
      BY <2>1, IdleMeansIdle
  <1> QED
    BY <1>1, RemovalInvariant, PTL DEF Spec, LogsCloseAfterWork

=============================================================================
