--------------------------- MODULE RegistryProofs ---------------------------
(***************************************************************************)
(* The proof that LifecycleInv is an invariant of Registry, for any number *)
(* of callers, calls, renewals and faults.                                 *)
(*                                                                         *)
(* The invariant is cut into three predicates on values, one for the       *)
(* lifecycle, one for the cleanup state and one for the threads.  Each     *)
(* helper that the code runs with state_lock held has a lemma that says it *)
(* preserves the second one; each way a thread can move has a lemma for    *)
(* the third.  The steps of the specification then only combine these.     *)
(***************************************************************************)
EXTENDS Registry, SequenceTheorems, TLAPS

-----------------------------------------------------------------------------
(* The three parts.                                                        *)

\* Contexts c, generation g, worker w, candidate p, stopping workers st, n
\* threads spawned.
LifeOK(c, g, w, p, st, n) ==
  /\ g \in Nat /\ n \in Nat
  /\ DOMAIN c \subseteq 1..n
  /\ c \in [DOMAIN c -> ContextType]
  /\ w \in DOMAIN c \cup {0}
  /\ p \in DOMAIN c \cup {0}
  /\ st \subseteq DOMAIN c
  /\ w # 0 => c[w].gen = g /\ ~c[w].stop
  /\ p # 0 => w = 0 /\ c[p].gen = g + 1 /\ ~c[p].stop /\ c[p].owner

\* The cleanup state s next to generation g and worker w.
CleanupOK(s, g, w) ==
  /\ s \in CleanupState
  /\ s.pending \in 0..Len(s.ops) /\ s.active \in 0..Len(s.ops)
  /\ s.coord \in 0..Len(s.coords)
  /\ s.pending # 0 => w = 0 /\ s.ops[s.pending].gen = g
  /\ s.coord # 0 => /\ s.coords[s.coord].gen = g
                    /\ s.coords[s.coord].requested => w = 0
  /\ s.removed <= g
  /\ w # 0 => s.removed # g

\* The local state v of a thread, when D names the contexts and there are n
\* operations.
LocalOK(v, D, n, g, w) ==
  /\ v \in LocalType
  /\ v.pc = "prepared" => v.ref \in D
  /\ v.rpc = "cleanup" \/ v.job = "actor" => v.ref \in 1..n
  /\ v.pc # "raised"
  /\ v.pc = "claim" => v.job = "actor"
  /\ v.pc = "request" => v.gen <= g /\ (v.gen = g => w = 0)

\* The threads f, when k were spawned.
ThreadsOK(f, k, D, n, g, w) ==
  /\ Callers \subseteq DOMAIN f
  /\ DOMAIN f \subseteq Callers \cup 1..k
  /\ \A t \in DOMAIN f : LocalOK(f[t], D, n, g, w)

RestOK ==
  /\ actors \subseteq Nat
  /\ closing \in BOOLEAN /\ logsClosed \in BOOLEAN
  /\ net \in Callers \cup Nat /\ rpcSeq \in Nat /\ applied \in Nat
  /\ remote \in BOOLEAN /\ released \in BOOLEAN /\ owed \in BOOLEAN
  /\ calls \in Nat /\ renewals \in Nat

IInv ==
  /\ LifeOK(ctx, generation, worker, prepared, stopping, spawned)
  /\ CleanupOK(cl, generation, worker)
  /\ ThreadsOK(thr, spawned, DOMAIN ctx, Len(cl.ops), generation, worker)
  /\ RestOK

LEMMA PartsMakeInvariant == IInv => LifecycleInv
BY DEF IInv, LifeOK, CleanupOK, ThreadsOK, LocalOK, RestOK, LifecycleInv,
       TypeOK, LifecycleType, CleanupType, ThreadType, RefsOK,
       LifecycleOwnership, NeverRaised, NoCachedRemovalWhileLive,
       WindowOwnership

-----------------------------------------------------------------------------
(* Lemmas about the helpers on the cleanup state.                          *)

\* Updating a sequence in its domain.
LEMMA SeqUpdate ==
  ASSUME NEW S, NEW s \in Seq(S), NEW i \in 1..Len(s), NEW v \in S
  PROVE  /\ [s EXCEPT ![i] = v] \in Seq(S)
         /\ Len([s EXCEPT ![i] = v]) = Len(s)
         /\ \A j \in 1..Len(s) :
              [s EXCEPT ![i] = v][j] = IF j = i THEN v ELSE s[j]
BY ExceptSeq

\* An operation is added at the end.
LEMMA AddOperation ==
  ASSUME NEW s \in Seq(OperationType), NEW g \in Nat
  PROVE  LET q == Append(s, Operation(g))
         IN  /\ q \in Seq(OperationType)
             /\ Len(q) = Len(s) + 1
             /\ q[Len(s) + 1] = Operation(g)
             /\ Operation(g).gen = g
             /\ \A j \in 1..Len(s) : q[j] = s[j]
BY DEF Operation, OperationType

\* The fields of a cleanup state have their types.
LEMMA Fields ==
  ASSUME NEW s \in CleanupState
  PROVE  /\ s.pending \in Nat /\ s.active \in Nat /\ s.coord \in Nat
         /\ s.requested \in Gen /\ s.removed \in Gen
         /\ s.registered \in BOOLEAN
         /\ s.ops \in Seq(OperationType) /\ Len(s.ops) \in Nat
         /\ s.coords \in Seq(CoordinationType) /\ Len(s.coords) \in Nat
BY DEF CleanupState, Ref

\* What the helpers that hand back an operation keep: only the pending
\* operation, the request marker and the window may change.
Handed(s, r, g, w) ==
  /\ CleanupOK(r.cl, g, w)
  /\ Len(s.ops) <= Len(r.cl.ops)
  /\ r.cl.coords = s.coords
  /\ r.cl.active = s.active
  /\ r.op \in Nat

LEMMA KeepHanded ==
  ASSUME NEW s, NEW g \in Nat, NEW w \in Nat, CleanupOK(s, g, w)
  PROVE  Handed(s, Keep(s), g, w)
BY Fields DEF Handed, Keep, CleanupOK

\* Only the request marker changes.
LEMMA WithRequest ==
  ASSUME NEW s \in CleanupState, NEW g \in Nat,
         NEW r, r = [s EXCEPT !.requested = g]
  PROVE  /\ r \in CleanupState
         /\ r.pending = s.pending /\ r.ops = s.ops
         /\ r.active = s.active /\ r.removed = s.removed
         /\ r.coord = s.coord /\ r.coords = s.coords
  <1>1. g \in Gen
    BY DEF Gen
  <1> QED
    BY <1>1 DEF CleanupState

LEMMA EnsurePendingHanded ==
  ASSUME NEW s, NEW g \in Nat, CleanupOK(s, g, 0)
  PROVE  /\ Handed(s, EnsurePending(s, g), g, 0)
         /\ EnsurePending(s, g).cl.coord = s.coord
  <1> DEFINE q     == Append(s.ops, Operation(g))
             n     == Len(s.ops) + 1
             new   == [s EXCEPT !.requested = g, !.ops = q, !.pending = n]
             again == [s EXCEPT !.requested = g]
  <1>1. s \in CleanupState
    BY DEF CleanupOK
  <1>2. /\ q \in Seq(OperationType) /\ Len(q) = n
        /\ q[n].gen = g /\ n \in Nat
    BY <1>1, Fields, AddOperation
  <1>3. \/ EnsurePending(s, g) = Keep(s)
        \/ EnsurePending(s, g) = [cl |-> again, op |-> s.pending]
        \/ EnsurePending(s, g) = [cl |-> new, op |-> n]
    BY DEF EnsurePending
  <1>4. /\ new \in CleanupState
        /\ new.pending = n /\ new.ops = q
        /\ new.active = s.active /\ new.removed = s.removed
        /\ new.coord = s.coord /\ new.coords = s.coords
    <2> HIDE DEF q, n
    <2>1. n \in Ref /\ g \in Gen /\ q \in Seq(OperationType)
      BY <1>2 DEF Ref, Gen
    <2> QED
      BY <1>1, <2>1 DEF CleanupState
  <1>5. /\ again \in CleanupState
        /\ again.pending = s.pending /\ again.ops = s.ops
        /\ again.active = s.active /\ again.removed = s.removed
        /\ again.coord = s.coord /\ again.coords = s.coords
    BY <1>1, WithRequest
  <1> HIDE DEF new, again, q
  <1>6. Handed(s, [cl |-> new, op |-> n], g, 0)
    <2>1. /\ Len(s.ops) \in Nat /\ s.active \in 0..Len(s.ops)
          /\ s.coord \in 0..Len(s.coords)
      BY <1>1, Fields DEF CleanupOK
    <2>2. CleanupOK(new, g, 0)
      BY <1>2, <1>4, <2>1 DEF CleanupOK
    <2> QED
      BY <1>2, <1>4, <2>1, <2>2 DEF Handed
  <1>7. Handed(s, [cl |-> again, op |-> s.pending], g, 0)
    BY <1>1, <1>5, Fields DEF Handed, CleanupOK
  <1>8. Handed(s, Keep(s), g, 0)
    BY KeepHanded
  <1>9. CASE EnsurePending(s, g) = Keep(s)
    BY <1>8, <1>9 DEF Keep
  <1>10. CASE EnsurePending(s, g) = [cl |-> again, op |-> s.pending]
    BY <1>5, <1>7, <1>10
  <1>11. CASE EnsurePending(s, g) = [cl |-> new, op |-> n]
    BY <1>4, <1>6, <1>11
  <1> QED
    BY <1>3, <1>9, <1>10, <1>11

\* A coordination or an operation is updated in place: r is s after that.
Edited(s, r, g, w) ==
  /\ CleanupOK(r, g, w)
  /\ Len(r.ops) = Len(s.ops) /\ Len(r.coords) = Len(s.coords)
  /\ \A j \in 1..Len(s.ops) : r.ops[j].gen = s.ops[j].gen
  /\ r.coord = s.coord /\ r.active = s.active /\ r.pending = s.pending

LEMMA CoordinationChange ==
  ASSUME NEW s, NEW g \in Nat, NEW w \in Nat, CleanupOK(s, g, w),
         NEW c \in 1..Len(s.coords), NEW v \in CoordinationType,
         v.gen = s.coords[c].gen,
         w = 0 \/ v.requested = s.coords[c].requested,
         NEW r, r = [s EXCEPT !.coords = [s.coords EXCEPT ![c] = v]]
  PROVE  Edited(s, r, g, w)
  <1> DEFINE k == [s.coords EXCEPT ![c] = v]
  <1>1. s \in CleanupState
    BY DEF CleanupOK
  <1>2. s.coords \in Seq(CoordinationType) /\ Len(s.coords) \in Nat
    BY <1>1, Fields
  <1>3. /\ k \in Seq(CoordinationType) /\ Len(k) = Len(s.coords)
        /\ \A j \in 1..Len(s.coords) : k[j] = IF j = c THEN v ELSE s.coords[j]
    BY <1>2, SeqUpdate
  <1> HIDE DEF k
  <1>4. r = [s EXCEPT !.coords = k]
    BY DEF k
  <1>5. /\ r \in CleanupState /\ r.coords = k
        /\ r.ops = s.ops /\ r.coord = s.coord /\ r.active = s.active
        /\ r.pending = s.pending /\ r.removed = s.removed
    BY <1>1, <1>3, <1>4 DEF CleanupState
  <1>6. r.coord # 0 => /\ r.coords[r.coord].gen = g
                       /\ r.coords[r.coord].requested => w = 0
    <2>1. s.coord \in 0..Len(s.coords)
      BY DEF CleanupOK
    <2>2. s.coord # 0 => /\ s.coords[s.coord].gen = g
                         /\ s.coords[s.coord].requested => w = 0
      BY DEF CleanupOK
    <2> QED
      BY <1>2, <1>3, <1>5, <2>1, <2>2
  <1>7. CleanupOK(r, g, w)
    BY <1>3, <1>5, <1>6 DEF CleanupOK
  <1> QED
    BY <1>3, <1>5, <1>7 DEF Edited

LEMMA OperationChange ==
  ASSUME NEW s, NEW g \in Nat, NEW w \in Nat, CleanupOK(s, g, w),
         NEW o \in 1..Len(s.ops), NEW v \in OperationType,
         v.gen = s.ops[o].gen,
         NEW r, r = [s EXCEPT !.ops = [s.ops EXCEPT ![o] = v]]
  PROVE  Edited(s, r, g, w)
  <1> DEFINE k == [s.ops EXCEPT ![o] = v]
  <1>1. s \in CleanupState
    BY DEF CleanupOK
  <1>2. s.ops \in Seq(OperationType) /\ Len(s.ops) \in Nat
    BY <1>1, Fields
  <1>3. /\ k \in Seq(OperationType) /\ Len(k) = Len(s.ops)
        /\ \A j \in 1..Len(s.ops) : k[j] = IF j = o THEN v ELSE s.ops[j]
    BY <1>2, SeqUpdate
  <1> HIDE DEF k
  <1>4. r = [s EXCEPT !.ops = k]
    BY DEF k
  <1>5. /\ r \in CleanupState /\ r.ops = k
        /\ r.coords = s.coords /\ r.coord = s.coord /\ r.active = s.active
        /\ r.pending = s.pending /\ r.removed = s.removed
    BY <1>1, <1>3, <1>4 DEF CleanupState
  <1>6. \A j \in 1..Len(s.ops) : k[j].gen = s.ops[j].gen
    BY <1>3
  <1>7. r.pending # 0 => w = 0 /\ r.ops[r.pending].gen = g
    BY <1>2, <1>5, <1>6 DEF CleanupOK
  <1>8. CleanupOK(r, g, w)
    BY <1>3, <1>5, <1>7 DEF CleanupOK
  <1> QED
    BY <1>3, <1>5, <1>6, <1>8 DEF Edited

\* The window is detached.
LEMMA WindowDetached ==
  ASSUME NEW s, NEW g \in Nat, NEW w \in Nat, CleanupOK(s, g, w),
         NEW r, r = [s EXCEPT !.coord = 0]
  PROVE  /\ CleanupOK(r, g, w)
         /\ r.ops = s.ops /\ r.coords = s.coords /\ r.active = s.active
         /\ r.coord = 0 /\ r.pending = s.pending
  <1>1. s \in CleanupState
    BY DEF CleanupOK
  <1>2. /\ r \in CleanupState
        /\ r.ops = s.ops /\ r.coords = s.coords /\ r.active = s.active
        /\ r.coord = 0 /\ r.pending = s.pending /\ r.removed = s.removed
    BY <1>1 DEF CleanupState, Ref
  <1>3. Len(s.coords) \in Nat
    BY <1>1, Fields
  <1> QED
    BY <1>2, <1>3 DEF CleanupOK

\* Reconcile only creates a removal when the window is closed, and then the
\* lifecycle has ended.
LEMMA ReconcileHanded ==
  ASSUME NEW s, NEW g \in Nat, NEW w \in Nat, CleanupOK(s, g, w),
         s.coord # 0
  PROVE  Handed(s, Reconcile(s, g), g, w)
  <1> DEFINE k == s.coords[s.coord]
             due == /\ k.requested /\ k.inflight = 0
                    /\ g > 0 \/ s.registered
                    /\ s.removed # g
             r == IF due THEN EnsurePending(s, g) ELSE Keep(s)
             detached == [s EXCEPT !.coord = 0]
             rdetached == [r EXCEPT !.cl.coord = 0]
  <1>1. k.gen = g /\ (k.requested => w = 0)
    BY DEF CleanupOK
  <1>2. Handed(s, Keep(s), g, w)
    BY KeepHanded
  <1>3. Handed(s, r, g, w)
    <2>1. CASE due
      <3>1. w = 0
        BY <1>1, <2>1
      <3> QED
        BY <2>1, <3>1, EnsurePendingHanded
    <2>2. CASE ~due
      BY <1>2, <2>2
    <2> QED
      BY <2>1, <2>2
  <1>4. r = [cl |-> r.cl, op |-> r.op]
    BY DEF Keep, EnsurePending
  <1> HIDE DEF due, r
  <1>5. rdetached = [cl |-> [r.cl EXCEPT !.coord = 0], op |-> r.op]
    BY <1>4
  <1>6. Handed(s, rdetached, g, w)
    <2> DEFINE x == [r.cl EXCEPT !.coord = 0]
    <2>1. CleanupOK(r.cl, g, w) /\ Len(s.ops) <= Len(r.cl.ops)
          /\ r.cl.coords = s.coords /\ r.cl.active = s.active /\ r.op \in Nat
      BY <1>3 DEF Handed
    <2>2. /\ CleanupOK(x, g, w)
          /\ x.ops = r.cl.ops /\ x.coords = r.cl.coords
          /\ x.active = r.cl.active
      BY <2>1, WindowDetached
    <2> QED
      BY <1>5, <2>1, <2>2 DEF Handed
  <1>7. Reconcile(s, g) \in {rdetached, r}
    BY <1>1 DEF Reconcile, r, due
  <1> QED
    BY <1>3, <1>6, <1>7

LEMMA ReconcileAfterOK ==
  ASSUME NEW s, NEW og, NEW g \in Nat, NEW w \in Nat, CleanupOK(s, g, w)
  PROVE  /\ CleanupOK(ReconcileAfter(s, og, g), g, w)
         /\ Len(s.ops) <= Len(ReconcileAfter(s, og, g).ops)
  <1>1. Len(s.ops) \in Nat
    BY Fields DEF CleanupOK
  <1>2. CASE ReconcileAfter(s, og, g) = s
    BY <1>1, <1>2
  <1>3. CASE s.coord # 0 /\ ReconcileAfter(s, og, g) = Reconcile(s, g).cl
    BY <1>3, ReconcileHanded DEF Handed
  <1> QED
    BY <1>2, <1>3 DEF ReconcileAfter

\* A cleanup that is asked for with the worker gone.
LEMMA RequestRemoveOK ==
  ASSUME NEW s, NEW g \in Nat, CleanupOK(s, g, 0)
  PROVE  /\ CleanupOK(RequestRemove(s, g).cl, g, 0)
         /\ Len(s.ops) <= Len(RequestRemove(s, g).cl.ops)
  <1> DEFINE fallback(q) == IF q.removed = g \/ (g = 0 /\ ~q.registered)
                            THEN Keep(q) ELSE EnsurePending(q, g)
             v == [s.coords[s.coord] EXCEPT !.requested = TRUE]
             closed == [s EXCEPT !.coords[s.coord].requested = TRUE]
             r == Reconcile(closed, g)
  <1>1. s \in CleanupState /\ Len(s.ops) \in Nat
    BY Fields DEF CleanupOK
  <1>2. ASSUME NEW q, CleanupOK(q, g, 0)
        PROVE  /\ CleanupOK(fallback(q).cl, g, 0)
               /\ Len(q.ops) <= Len(fallback(q).cl.ops)
    <2>1. Handed(q, Keep(q), g, 0) /\ Handed(q, EnsurePending(q, g), g, 0)
      BY <1>2, KeepHanded, EnsurePendingHanded
    <2>2. fallback(q) \in {Keep(q), EnsurePending(q, g)}
      OBVIOUS
    <2> QED
      BY <2>1, <2>2 DEF Handed
  <1>3. CASE ~(s.coord # 0 /\ s.coords[s.coord].gen = g)
    <2>1. RequestRemove(s, g) = fallback(s)
      BY <1>3 DEF RequestRemove
    <2> QED
      BY <1>2, <2>1
  <1>4. CASE s.coord # 0 /\ s.coords[s.coord].gen = g
    <2>1. s.coord \in 1..Len(s.coords)
      BY <1>1, <1>4, Fields DEF CleanupOK
    <2>2. s.coords[s.coord] \in CoordinationType
      BY <1>1, <2>1, Fields
    <2>3. v \in CoordinationType /\ v.gen = s.coords[s.coord].gen
      BY <2>2 DEF CoordinationType
    <2>4. closed = [s EXCEPT !.coords = [s.coords EXCEPT ![s.coord] = v]]
      OBVIOUS
    <2> HIDE DEF closed, v
    <2>5. /\ CleanupOK(closed, g, 0) /\ Len(closed.ops) = Len(s.ops)
          /\ closed.coord = s.coord
      <3> DEFINE c == s.coord
                 w == 0
      <3>1. /\ c \in 1..Len(s.coords) /\ v.gen = s.coords[c].gen
            /\ w = 0 \/ v.requested = s.coords[c].requested
            /\ closed = [s EXCEPT !.coords = [s.coords EXCEPT ![c] = v]]
            /\ w \in Nat /\ CleanupOK(s, g, w)
        BY <2>1, <2>3, <2>4
      <3> HIDE DEF c, w
      <3>2. Edited(s, closed, g, w)
        BY <2>3, <3>1, CoordinationChange
      <3> QED
        BY <3>2 DEF w, Edited
    <2>6. CleanupOK(r.cl, g, 0) /\ Len(s.ops) <= Len(r.cl.ops)
      BY <1>4, <2>5, ReconcileHanded DEF Handed
    <2>7. RequestRemove(s, g) \in {r, fallback(r.cl)}
      BY <1>4 DEF RequestRemove, closed
    <2> HIDE DEF r, fallback
    <2>8. /\ CleanupOK(fallback(r.cl).cl, g, 0)
          /\ Len(r.cl.ops) <= Len(fallback(r.cl).cl.ops)
      BY <1>2, <2>6
    <2>9. Len(r.cl.ops) \in Nat /\ Len(fallback(r.cl).cl.ops) \in Nat
      BY <2>6, <2>8, Fields DEF CleanupOK
    <2> QED
      BY <1>1, <2>6, <2>7, <2>8, <2>9
  <1> QED
    BY <1>3, <1>4

\* The fields that the other helpers change are free of the invariant.
LEMMA RecordOK ==
  ASSUME NEW s, NEW g \in Nat, NEW w \in Nat, CleanupOK(s, g, w),
         NEW kind, NEW ok \in BOOLEAN
  PROVE  LET r == Record(s, kind, ok)
         IN  /\ CleanupOK(r, g, w)
             /\ r.ops = s.ops /\ r.coords = s.coords /\ r.coord = s.coord
             /\ r.active = s.active /\ r.pending = s.pending
  <1> DEFINE b == CASE kind = "renewal"        -> ok
                    [] kind = "register" /\ ok -> TRUE
                    [] kind = "remove" /\ ok   -> FALSE
                    [] OTHER                   -> s.registered
             r == [s EXCEPT !.registered = b]
  <1>1. s \in CleanupState /\ s.registered \in BOOLEAN
    BY Fields DEF CleanupOK
  <1>2. b \in BOOLEAN
    BY <1>1, Zenon
  <1>3. Record(s, kind, ok) = r
    BY Zenon DEF Record
  <1> HIDE DEF b
  <1>4. /\ r \in CleanupState
        /\ r.ops = s.ops /\ r.coords = s.coords /\ r.active = s.active
        /\ r.coord = s.coord /\ r.pending = s.pending
        /\ r.removed = s.removed
    BY <1>1, <1>2 DEF CleanupState
  <1> QED
    BY <1>3, <1>4 DEF CleanupOK

LEMMA InvalidateOK ==
  ASSUME NEW s, NEW g \in Nat, NEW w \in Nat, CleanupOK(s, g, w),
         NEW vg, NEW c
  PROVE  LET r == Invalidate(s, vg, c, g)
         IN  /\ CleanupOK(r, g, w)
             /\ r.ops = s.ops /\ r.coords = s.coords /\ r.coord = s.coord
  <1> DEFINE r == [s EXCEPT !.removed = NoGen, !.requested = NoGen]
  <1>1. s \in CleanupState
    BY DEF CleanupOK
  <1>2. NoGen \in Gen /\ NoGen <= g /\ NoGen # g
    BY DEF Gen, NoGen
  <1>3. /\ r \in CleanupState /\ r.removed = NoGen
        /\ r.ops = s.ops /\ r.coords = s.coords /\ r.active = s.active
        /\ r.coord = s.coord /\ r.pending = s.pending
    BY <1>1, <1>2 DEF CleanupState
  <1> HIDE DEF r
  <1>4. CleanupOK(r, g, w)
    BY <1>2, <1>3 DEF CleanupOK
  <1>5. Invalidate(s, vg, c, g) \in {s, r}
    BY DEF Invalidate, r
  <1> QED
    BY <1>3, <1>4, <1>5

LEMMA FinishOK ==
  ASSUME NEW s, NEW g \in Nat, NEW w \in Nat, CleanupOK(s, g, w),
         NEW o \in 1..Len(s.ops), NEW x \in {"ok", "fail"}
  PROVE  Edited(s, Finish(s, o, x), g, w)
  <1> DEFINE v == [s.ops[o] EXCEPT !.done = TRUE, !.result = x]
  <1>1. s.ops[o] \in OperationType
    BY Fields DEF CleanupOK
  <1>2. v \in OperationType /\ v.gen = s.ops[o].gen
    BY <1>1 DEF OperationType
  <1>3. s \in CleanupState
    BY DEF CleanupOK
  <1>4. Finish(s, o, x) = [s EXCEPT !.ops = [s.ops EXCEPT ![o] = v]]
    <2>1. [s.ops EXCEPT ![o].done = TRUE, ![o].result = x]
            = [s.ops EXCEPT ![o] = v]
      BY <1>3, Fields
    <2> QED
      BY <1>3, <2>1 DEF Finish, CleanupState
  <1> HIDE DEF v
  <1> QED
    BY <1>2, <1>4, OperationChange

-----------------------------------------------------------------------------
(* Lemmas about the threads.                                               *)

\* The world that the threads refer to grows: more spawned threads, contexts
\* and operations, and a new generation or a worker that only goes away.
Grows(k, D, n, g, w, k2, D2, n2, g2, w2) ==
  /\ k \in Nat /\ k2 \in Nat /\ k <= k2
  /\ D \subseteq D2
  /\ n \in Nat /\ n2 \in Nat /\ n <= n2
  /\ g \in Nat /\ g2 \in Nat /\ g <= g2
  /\ g2 = g /\ w = 0 => w2 = 0

LEMMA LocalStable ==
  ASSUME NEW k, NEW D, NEW n, NEW g, NEW w,
         NEW k2, NEW D2, NEW n2, NEW g2, NEW w2,
         Grows(k, D, n, g, w, k2, D2, n2, g2, w2),
         NEW v, LocalOK(v, D, n, g, w)
  PROVE  LocalOK(v, D2, n2, g2, w2)
  <1>1. v \in LocalType /\ v.gen \in Nat /\ v.ref \in Nat
    BY DEF LocalOK, LocalType, Ref
  <1>2. v.rpc = "cleanup" \/ v.job = "actor" => v.ref \in 1..n2
    BY <1>1 DEF LocalOK, Grows
  <1>3. v.pc = "request" => v.gen <= g2 /\ (v.gen = g2 => w2 = 0)
    BY <1>1 DEF LocalOK, Grows
  <1> QED
    BY <1>1, <1>2, <1>3 DEF LocalOK, Grows

\* One thread takes the local state v.
LEMMA ThreadGoes ==
  ASSUME NEW k, NEW D, NEW n, NEW g, NEW w,
         NEW k2, NEW D2, NEW n2, NEW g2, NEW w2,
         Grows(k, D, n, g, w, k2, D2, n2, g2, w2),
         NEW f, ThreadsOK(f, k, D, n, g, w),
         NEW t \in DOMAIN f, NEW v, LocalOK(v, D2, n2, g2, w2)
  PROVE  ThreadsOK([f EXCEPT ![t] = v], k2, D2, n2, g2, w2)
  <1> DEFINE f2 == [f EXCEPT ![t] = v]
  <1>1. DOMAIN f2 = DOMAIN f
    OBVIOUS
  <1>2. ASSUME NEW u \in DOMAIN f2
        PROVE  LocalOK(f2[u], D2, n2, g2, w2)
    <2>1. CASE u = t
      BY <2>1
    <2>2. CASE u # t
      <3>1. f2[u] = f[u] /\ LocalOK(f[u], D, n, g, w)
        BY <1>1, <1>2, <2>2 DEF ThreadsOK
      <3> QED
        BY <3>1, LocalStable
    <2> QED
      BY <2>1, <2>2
  <1>3. 1..k \subseteq 1..k2
    BY DEF Grows
  <1> QED
    BY <1>1, <1>2, <1>3 DEF ThreadsOK

\* One thread ends, or its call returns.
LEMMA ThreadExits ==
  ASSUME NEW k, NEW D, NEW n, NEW g, NEW w,
         NEW k2, NEW D2, NEW n2, NEW g2, NEW w2,
         Grows(k, D, n, g, w, k2, D2, n2, g2, w2),
         NEW f, ThreadsOK(f, k, D, n, g, w),
         NEW t \in DOMAIN f,
         NEW f2, f2 = IF t \in Callers THEN [f EXCEPT ![t] = Idle]
                      ELSE Without(f, t)
  PROVE  ThreadsOK(f2, k2, D2, n2, g2, w2)
  <1>1. LocalOK(Idle, D2, n2, g2, w2)
    BY DEF Idle, LocalOK, LocalType, Steps, Jobs, Rpcs, Ref, SchedSites
  <1>2. CASE t \in Callers
    BY <1>1, <1>2, ThreadGoes
  <1>3. CASE t \notin Callers
    <2>1. DOMAIN f2 = DOMAIN f \ {t} /\ \A u \in DOMAIN f2 : f2[u] = f[u]
      BY <1>3 DEF Without
    <2>2. \A u \in DOMAIN f : LocalOK(f[u], D2, n2, g2, w2)
      BY LocalStable DEF ThreadsOK
    <2>3. 1..k \subseteq 1..k2
      BY DEF Grows
    <2> QED
      BY <1>3, <2>1, <2>2, <2>3 DEF ThreadsOK
  <1> QED
    BY <1>2, <1>3

\* A thread is spawned.
LEMMA ThreadSpawned ==
  ASSUME NEW k \in Nat, NEW D, NEW n, NEW g, NEW w,
         NEW f, ThreadsOK(f, k, D, n, g, w),
         NEW v, LocalOK(v, D, n, g, w)
  PROVE  ThreadsOK(Put(f, k + 1, v), k + 1, D, n, g, w)
  <1> DEFINE f2 == Put(f, k + 1, v)
  <1>1. /\ DOMAIN f2 = DOMAIN f \cup {k + 1}
        /\ \A u \in DOMAIN f2 : f2[u] = IF u = k + 1 THEN v ELSE f[u]
    BY DEF Put
  <1> HIDE DEF f2
  <1>2. 1..(k + 1) = (1..k) \cup {k + 1}
    OBVIOUS
  <1> QED
    BY <1>1, <1>2 DEF ThreadsOK, f2

\* The steps that say nothing about the operation a thread runs.
PlainSteps == Steps \ {"raised", "prepared", "request", "claim"}

LEMMA LocalGoes ==
  ASSUME NEW D, NEW n, NEW g, NEW w, NEW v, LocalOK(v, D, n, g, w),
         NEW p \in PlainSteps
  PROVE  LocalOK([v EXCEPT !.pc = p], D, n, g, w)
  <1> DEFINE x == [v EXCEPT !.pc = p]
  <1>1. v \in LocalType /\ p \in Steps
        /\ p # "raised" /\ p # "prepared" /\ p # "request" /\ p # "claim"
    BY DEF LocalOK, PlainSteps
  <1>2. /\ x \in LocalType /\ x.pc = p
        /\ x.rpc = v.rpc /\ x.job = v.job /\ x.ref = v.ref
    BY <1>1 DEF LocalType
  <1> HIDE DEF x
  <1> QED
    BY <1>1, <1>2 DEF LocalOK, x

-----------------------------------------------------------------------------
(* The steps of a thread that change neither the lifecycle nor the cleanup *)
(* state.                                                                  *)

ThreadsNow == ThreadsOK(thr, spawned, DOMAIN ctx, Len(cl.ops), generation,
                        worker)

LEMMA Numbers ==
  ASSUME IInv
  PROVE  /\ generation \in Nat /\ spawned \in Nat /\ worker \in Nat
         /\ Len(cl.ops) \in Nat /\ Len(cl.coords) \in Nat
         /\ cl \in CleanupState
         /\ rpcSeq \in Nat /\ applied \in Nat /\ calls \in Nat
         /\ renewals \in Nat
         /\ ThreadsNow
         /\ Grows(spawned, DOMAIN ctx, Len(cl.ops), generation, worker,
                  spawned, DOMAIN ctx, Len(cl.ops), generation, worker)
BY Fields DEF IInv, LifeOK, CleanupOK, RestOK, ThreadsNow, Grows

LEMMA OwnLocal ==
  ASSUME IInv, NEW t \in DOMAIN thr
  PROVE  /\ LocalOK(thr[t], DOMAIN ctx, Len(cl.ops), generation, worker)
         /\ thr[t] \in LocalType
         /\ thr[t].gen \in Nat /\ thr[t].ref \in Nat /\ thr[t].coord \in Nat
         /\ thr[t].seq \in Nat /\ thr[t].ok \in BOOLEAN
         /\ thr[t].job \in Jobs /\ thr[t].rpc \in Rpcs
BY DEF IInv, ThreadsOK, LocalOK, LocalType, Ref

\* A thread moves on to a plain step, or ends.
LEMMA PlainMove ==
  ASSUME IInv, NEW t \in DOMAIN thr, NEW p \in PlainSteps, Goto(t, p)
  PROVE  ThreadsOK(thr', spawned, DOMAIN ctx, Len(cl.ops), generation, worker)
  <1> DEFINE v == [thr[t] EXCEPT !.pc = p]
  <1>1. LocalOK(v, DOMAIN ctx, Len(cl.ops), generation, worker)
    BY OwnLocal, LocalGoes
  <1>2. thr' = [thr EXCEPT ![t] = v]
    BY DEF Goto
  <1> HIDE DEF v
  <1> QED
    BY <1>1, <1>2, Numbers, ThreadGoes DEF ThreadsNow

LEMMA PlainExit ==
  ASSUME IInv, NEW t \in DOMAIN thr, Exit(t)
  PROVE  ThreadsOK(thr', spawned, DOMAIN ctx, Len(cl.ops), generation, worker)
BY Numbers, ThreadExits DEF ThreadsNow, Exit

\* A thread takes another local state.
LEMMA LocalMove ==
  ASSUME IInv, NEW t \in DOMAIN thr, NEW v,
         LocalOK(v, DOMAIN ctx, Len(cl.ops), generation, worker),
         thr' = [thr EXCEPT ![t] = v]
  PROVE  ThreadsOK(thr', spawned, DOMAIN ctx, Len(cl.ops), generation, worker)
BY Numbers, ThreadGoes DEF ThreadsNow

\* Nothing but the threads and the simple variables change.
LEMMA LocalStep ==
  ASSUME IInv, UNCHANGED <<lifecycle, cl, spawned>>, RestOK',
         ThreadsOK(thr', spawned, DOMAIN ctx, Len(cl.ops), generation, worker)
  PROVE  IInv'
BY DEF IInv, lifecycle

LEMMA UnmovedRest ==
  ASSUME IInv, UNCHANGED <<actors, logs, rpcs, owed, bounds>>
  PROVE  RestOK'
BY DEF IInv, RestOK, logs, rpcs, bounds

LEMMA StepRpcBegin ==
  ASSUME IInv, NEW t \in DOMAIN thr, RpcBegin(t)
  PROVE  IInv'
  <1> DEFINE v == [thr[t] EXCEPT !.pc = "rpc", !.seq = rpcSeq + 1]
  <1>1. rpcSeq + 1 \in Nat
    BY Numbers
  <1>2. v \in LocalType
    BY <1>1, OwnLocal DEF LocalType, Steps
  <1>3. /\ v.pc = "rpc" /\ v.rpc = thr[t].rpc /\ v.job = thr[t].job
        /\ v.ref = thr[t].ref
    BY OwnLocal DEF LocalType
  <1>4. thr' = [thr EXCEPT ![t] = v]
    BY DEF RpcBegin
  <1> HIDE DEF v
  <1>5. LocalOK(v, DOMAIN ctx, Len(cl.ops), generation, worker)
    BY <1>2, <1>3, OwnLocal DEF LocalOK
  <1>6. ThreadsOK(thr', spawned, DOMAIN ctx, Len(cl.ops), generation, worker)
    BY <1>4, <1>5, LocalMove
  <1>7. t \in Callers \cup Nat
    BY Numbers DEF ThreadsNow, ThreadsOK
  <1>8. RestOK'
    BY <1>1, <1>7 DEF IInv, RestOK, RpcBegin, logs, bounds
  <1> QED
    BY <1>6, <1>8, LocalStep DEF RpcBegin

LEMMA StepRpcEnd ==
  ASSUME IInv, NEW t \in DOMAIN thr, RpcEnd(t)
  PROVE  IInv'
  <1>1. PICK o \in Outcomes :
          /\ remote' = IF o.effect THEN thr[t].rpc \in {"register", "renewal"}
                       ELSE remote
          /\ released' = (Forsaken(t, o) \/ (released /\ ~Removed(t, o)))
          /\ thr' = [thr EXCEPT ![t].pc = "commit", ![t].ok = o.ok]
    BY DEF RpcEnd
  <1> DEFINE v == [thr[t] EXCEPT !.pc = "commit", !.ok = o.ok]
  <1>2. o.ok \in BOOLEAN /\ o.effect \in BOOLEAN
    BY DEF Outcomes
  <1>3. v \in LocalType
    BY <1>2, OwnLocal DEF LocalType, Steps
  <1>4. /\ v.pc = "commit" /\ v.rpc = thr[t].rpc /\ v.job = thr[t].job
        /\ v.ref = thr[t].ref
    BY OwnLocal DEF LocalType
  <1>5. thr' = [thr EXCEPT ![t] = v]
    BY <1>1
  <1> HIDE DEF v
  <1>6. LocalOK(v, DOMAIN ctx, Len(cl.ops), generation, worker)
    BY <1>3, <1>4, OwnLocal DEF LocalOK
  <1>7. ThreadsOK(thr', spawned, DOMAIN ctx, Len(cl.ops), generation, worker)
    BY <1>5, <1>6, LocalMove
  <1>8. remote' \in BOOLEAN /\ released' \in BOOLEAN
    <2>1. remote \in BOOLEAN
      BY DEF IInv, RestOK
    <2>2. released' \in BOOLEAN
      BY <1>1, Zenon
    <2>3. (thr[t].rpc \in {"register", "renewal"}) \in BOOLEAN
      OBVIOUS
    <2>4. CASE o.effect
      BY <1>1, <2>2, <2>3, <2>4, Zenon
    <2>5. CASE ~o.effect
      BY <1>1, <2>1, <2>2, <2>5
    <2> QED
      BY <1>2, <2>4, <2>5
  <1>9. RestOK'
    BY <1>8 DEF IInv, RestOK, RpcEnd, logs, bounds
  <1> QED
    BY <1>7, <1>9, LocalStep DEF RpcEnd

LEMMA StepUnmoved ==
  ASSUME IInv, Unmoved, UNCHANGED cl,
         ThreadsOK(thr', spawned, DOMAIN ctx, Len(cl.ops), generation, worker)
  PROVE  IInv'
BY UnmovedRest, LocalStep DEF Unmoved

\* The steps of the terminal removal that only look at the state.
LEMMA StepTerminal ==
  ASSUME IInv, NEW t \in DOMAIN thr,
         \/ TerminalOneShot(t) \/ TerminalRegisters(t) \/ TerminalCached(t)
         \/ TerminalActive(t) \/ TerminalPending(t)
         \/ AwaitRegisters(t) \/ AwaitRemove(t)
  PROVE  IInv'
  <1>1. {"call", "terminal"} \subseteq PlainSteps
    BY DEF PlainSteps, Steps
  <1>2. CASE TerminalOneShot(t) \/ AwaitRegisters(t)
    BY <1>1, <1>2, PlainMove, StepUnmoved DEF TerminalOneShot, AwaitRegisters
  <1>3. CASE TerminalCached(t)
    BY <1>3, PlainExit, StepUnmoved DEF TerminalCached
  <1>4. CASE AwaitRemove(t)
    <2>1. Exit(t) \/ Goto(t, "terminal")
      BY <1>4 DEF AwaitRemove
    <2>2. ThreadsOK(thr', spawned, DOMAIN ctx, Len(cl.ops), generation, worker)
      BY <1>1, <2>1, PlainExit, PlainMove
    <2> QED
      BY <1>4, <2>2, StepUnmoved DEF AwaitRemove
  <1>5. CASE TerminalRegisters(t)
    <2> DEFINE v == [thr[t] EXCEPT !.pc = "awaitRegisters", !.coord = cl.coord]
    <2>1. cl.coord \in Ref
      BY Numbers, Fields DEF Ref
    <2>2. v \in LocalType
      BY <2>1, OwnLocal DEF LocalType, Steps
    <2>3. /\ v.pc = "awaitRegisters" /\ v.rpc = thr[t].rpc
          /\ v.job = thr[t].job /\ v.ref = thr[t].ref
      BY OwnLocal DEF LocalType
    <2>4. thr' = [thr EXCEPT ![t] = v]
      BY <1>5 DEF TerminalRegisters
    <2> HIDE DEF v
    <2>5. LocalOK(v, DOMAIN ctx, Len(cl.ops), generation, worker)
      BY <2>2, <2>3, OwnLocal DEF LocalOK
    <2>6. ThreadsOK(thr', spawned, DOMAIN ctx, Len(cl.ops), generation, worker)
      BY <2>4, <2>5, LocalMove
    <2> QED
      BY <1>5, <2>6, StepUnmoved DEF TerminalRegisters
  <1>6. CASE TerminalActive(t) \/ TerminalPending(t)
    <2>1. PICK p \in {"awaitActive", "awaitPending", "schedWait"},
               o \in {cl.active, cl.pending} :
            thr' = [thr EXCEPT ![t].pc = p, ![t].ref = o] /\ o # 0
      BY <1>6 DEF TerminalActive, TerminalPending, Unsettled
    <2> DEFINE v == [thr[t] EXCEPT !.pc = p, !.ref = o]
    <2>2. o \in Ref /\ o \in 1..Len(cl.ops) /\ p \in PlainSteps
      BY <2>1, Numbers, Fields, SMTT(30)
         DEF Ref, IInv, CleanupOK, PlainSteps, Steps, SchedSites
    <2>3. v \in LocalType
      BY <2>2, OwnLocal DEF LocalType, PlainSteps
    <2>4. v.pc = p /\ v.ref = o
      BY OwnLocal DEF LocalType
    <2>5. thr' = [thr EXCEPT ![t] = v]
      BY <2>1
    <2> HIDE DEF v
    <2>6. LocalOK(v, DOMAIN ctx, Len(cl.ops), generation, worker)
      BY <2>2, <2>3, <2>4 DEF LocalOK, PlainSteps
    <2>7. ThreadsOK(thr', spawned, DOMAIN ctx, Len(cl.ops), generation, worker)
      BY <2>5, <2>6, LocalMove
    <2> QED
      BY <1>6, <2>7, StepUnmoved DEF TerminalActive, TerminalPending
  <1> QED
    BY <1>2, <1>3, <1>4, <1>5, <1>6

\* The steps of a worker that only look at the state.
LEMMA StepWorker ==
  ASSUME IInv, NEW t \in DOMAIN thr,
         Gate(t) \/ AwaitOlder(t) \/ WorkerQuit(t) \/ Tick(t)
  PROVE  IInv'
  <1>1. {"call", "finish", "awaitOlder"} \subseteq PlainSteps
    BY DEF PlainSteps, Steps
  <1>2. CASE AwaitOlder(t) \/ WorkerQuit(t)
    BY <1>1, <1>2, PlainMove, StepUnmoved DEF AwaitOlder, WorkerQuit
  <1>3. CASE Tick(t)
    <2>1. RestOK'
      BY <1>3, Numbers DEF Tick, IInv, RestOK, logs, rpcs
    <2>2. ThreadsOK(thr', spawned, DOMAIN ctx, Len(cl.ops), generation, worker)
      BY <1>1, <1>3, PlainMove DEF Tick
    <2> QED
      BY <1>3, <2>1, <2>2, LocalStep DEF Tick
  <1>4. CASE Gate(t)
    <2>1. CASE Exit(t)
      BY <1>4, <2>1, PlainExit, StepUnmoved DEF Gate
    <2>2. CASE ~Exit(t)
      <3>1. PICK p \in {"call", "finish", "awaitOlder"} :
              thr' = [thr EXCEPT ![t].rpc = "renewal", ![t].pc = p]
        BY <1>4, <2>2 DEF Gate
      <3> DEFINE v == [thr[t] EXCEPT !.rpc = "renewal", !.pc = p]
      <3>2. p \in PlainSteps
        BY <1>1
      <3>3. v \in LocalType
        BY <3>2, OwnLocal DEF LocalType, PlainSteps, Rpcs
      <3>4. /\ v.pc = p /\ v.rpc = "renewal" /\ v.job = thr[t].job
            /\ v.ref = thr[t].ref
        BY OwnLocal DEF LocalType
      <3>5. thr' = [thr EXCEPT ![t] = v]
        BY <3>1
      <3> HIDE DEF v
      <3>6. LocalOK(v, DOMAIN ctx, Len(cl.ops), generation, worker)
        BY <3>2, <3>3, <3>4, OwnLocal DEF LocalOK, PlainSteps
      <3>7. ThreadsOK(thr', spawned, DOMAIN ctx, Len(cl.ops), generation,
                      worker)
        BY <3>5, <3>6, LocalMove
      <3> QED
        BY <1>4, <3>7, StepUnmoved DEF Gate
    <2> QED
      BY <2>1, <2>2
  <1> QED
    BY <1>2, <1>3, <1>4

LEMMA StepMaybeCloseLogs ==
  ASSUME IInv, NEW t \in DOMAIN thr, MaybeCloseLogs(t)
  PROVE  IInv'
  <1>1. {"close", "closeTail", "discard"} \subseteq PlainSteps
    BY DEF PlainSteps, Steps
  <1>2. Exit(t) \/ \E p \in {"close", "closeTail", "discard"} : Goto(t, p)
    BY DEF MaybeCloseLogs, AfterExecute
  <1>3. ThreadsOK(thr', spawned, DOMAIN ctx, Len(cl.ops), generation, worker)
    BY <1>1, <1>2, PlainExit, PlainMove
  <1>4. logsClosed' \in BOOLEAN
    BY Zenon DEF MaybeCloseLogs, IInv, RestOK
  <1>5. RestOK'
    BY <1>4 DEF MaybeCloseLogs, IInv, RestOK, rpcs, bounds
  <1> QED
    BY <1>3, <1>5, LocalStep DEF MaybeCloseLogs

\* A caller that invokes an operation.
LEMMA Invoked ==
  ASSUME IInv, NEW c \in Callers, NEW k, Invoke(c, k)
  PROVE  /\ c \in DOMAIN thr
         /\ calls' \in Nat /\ UNCHANGED <<renewals, rpcs>>
         /\ k \in Jobs
BY Numbers, KindsAssumption
   DEF Invoke, ThreadsNow, ThreadsOK, Jobs

LEMMA StepCallRemove ==
  ASSUME IInv, NEW c \in Callers, CallRemove(c)
  PROVE  IInv'
  <1> DEFINE p == IF worker = 0 THEN "terminal" ELSE "call"
             v == [Idle EXCEPT !.pc = p, !.job = "remove", !.gen = generation,
                               !.rpc = "remove"]
  <1>1. c \in DOMAIN thr /\ calls' \in Nat /\ UNCHANGED <<renewals, rpcs>>
    BY Invoked DEF CallRemove
  <1>2. p \in {"terminal", "call"}
    OBVIOUS
  <1>3. generation \in Nat
    BY Numbers
  <1> HIDE DEF p
  <1>4. LocalOK(v, DOMAIN ctx, Len(cl.ops), generation, worker)
    BY <1>2, <1>3
       DEF LocalOK, LocalType, Idle, Steps, Jobs, Rpcs, Ref, AllKinds
  <1>5. thr' = [thr EXCEPT ![c] = v]
    BY DEF CallRemove, Go, p
  <1> HIDE DEF v
  <1>6. ThreadsOK(thr', spawned, DOMAIN ctx, Len(cl.ops), generation, worker)
    BY <1>1, <1>4, <1>5, LocalMove
  <1>7. RestOK'
    BY <1>1 DEF CallRemove, IInv, RestOK, logs, rpcs
  <1> QED
    BY <1>6, <1>7, LocalStep DEF CallRemove

-----------------------------------------------------------------------------
(* The steps that change the cleanup state and leave the lifecycle alone.  *)

CleanupChange ==
  /\ CleanupOK(cl', generation, worker)
  /\ Len(cl.ops) <= Len(cl'.ops)

LEMMA CleanupGrows ==
  ASSUME IInv, CleanupChange
  PROVE  /\ Grows(spawned, DOMAIN ctx, Len(cl.ops), generation, worker,
                  spawned, DOMAIN ctx, Len(cl'.ops), generation, worker)
         /\ Len(cl'.ops) \in Nat
  <1>1. cl' \in CleanupState
    BY DEF CleanupChange, CleanupOK
  <1>2. Len(cl'.ops) \in Nat
    BY <1>1, Fields
  <1> QED
    BY <1>2, Numbers DEF CleanupChange, Grows

LEMMA CleanupStep ==
  ASSUME IInv, CleanupChange, UNCHANGED <<lifecycle, spawned>>, RestOK',
         ThreadsOK(thr', spawned, DOMAIN ctx, Len(cl'.ops), generation, worker)
  PROVE  IInv'
BY DEF IInv, lifecycle, CleanupChange

LEMMA CleanupLocalMove ==
  ASSUME IInv, CleanupChange, NEW t \in DOMAIN thr, NEW v,
         LocalOK(v, DOMAIN ctx, Len(cl'.ops), generation, worker),
         thr' = [thr EXCEPT ![t] = v]
  PROVE  ThreadsOK(thr', spawned, DOMAIN ctx, Len(cl'.ops), generation, worker)
BY Numbers, CleanupGrows, ThreadGoes DEF ThreadsNow

LEMMA CleanupPlainMove ==
  ASSUME IInv, CleanupChange, NEW t \in DOMAIN thr, NEW p \in PlainSteps,
         Goto(t, p)
  PROVE  ThreadsOK(thr', spawned, DOMAIN ctx, Len(cl'.ops), generation, worker)
  <1> DEFINE v == [thr[t] EXCEPT !.pc = p]
  <1>1. LocalOK(thr[t], DOMAIN ctx, Len(cl'.ops), generation, worker)
    BY OwnLocal, CleanupGrows, LocalStable
  <1>2. LocalOK(v, DOMAIN ctx, Len(cl'.ops), generation, worker)
    BY <1>1, LocalGoes
  <1>3. thr' = [thr EXCEPT ![t] = v]
    BY DEF Goto
  <1> HIDE DEF v
  <1> QED
    BY <1>2, <1>3, CleanupLocalMove

LEMMA CleanupPlainExit ==
  ASSUME IInv, CleanupChange, NEW t \in DOMAIN thr, Exit(t)
  PROVE  ThreadsOK(thr', spawned, DOMAIN ctx, Len(cl'.ops), generation, worker)
BY Numbers, CleanupGrows, ThreadExits DEF ThreadsNow, Exit

\* What the commits leave alone.
LEMMA CommitRest ==
  ASSUME IInv, applied' \in Nat,
         released' = released \/ released' \in BOOLEAN,
         UNCHANGED <<actors, logs, net, rpcSeq, remote, owed, bounds>>
  PROVE  RestOK'
BY DEF IInv, RestOK, logs, bounds

LEMMA AppliedNat ==
  ASSUME IInv, NEW t \in DOMAIN thr,
         applied' \in {thr[t].seq, applied}
  PROVE  applied' \in Nat
BY Numbers, OwnLocal

\* Nothing but the state of the coordinations changes.
OnlyCoords(s, r) ==
  /\ r.ops = s.ops /\ r.active = s.active /\ r.pending = s.pending
  /\ r.removed = s.removed /\ r.requested = s.requested
  /\ r.registered = s.registered /\ r.coord = s.coord

\* A coordination that exists changes, or none.
\* v may stand for the coordination c of s.
StandsFor(v, s, c) ==
  c \in 1..Len(s.coords) => /\ v \in CoordinationType
                            /\ v.gen = s.coords[c].gen
                            /\ v.requested = s.coords[c].requested

\* r is s with v for the coordination c.
Replaced(s, r, c, v, g, w) ==
  /\ CleanupOK(r, g, w) /\ OnlyCoords(s, r)
  /\ \A j \in 1..Len(s.coords) :
       r.coords[j] = IF j = c THEN v ELSE s.coords[j]

LEMMA CoordinationKept ==
  ASSUME NEW s, NEW g \in Nat, NEW w \in Nat, CleanupOK(s, g, w),
         NEW c \in Nat, NEW v, StandsFor(v, s, c),
         NEW r, r = [s EXCEPT !.coords = [s.coords EXCEPT ![c] = v]]
  PROVE  Replaced(s, r, c, v, g, w)
  <1>1. s \in CleanupState /\ s.coords \in Seq(CoordinationType)
        /\ Len(s.coords) \in Nat
    BY Fields DEF CleanupOK
  <1>2. CASE c \notin 1..Len(s.coords)
    <2>1. [s.coords EXCEPT ![c] = v] = s.coords
      BY <1>1, <1>2
    <2>2. [s EXCEPT !.coords = s.coords] = s
      BY <1>1 DEF CleanupState
    <2>3. r = s
      BY <2>1, <2>2
    <2> QED
      BY <1>2, <2>3 DEF OnlyCoords, Replaced
  <1>3. CASE c \in 1..Len(s.coords)
    <2> DEFINE k == [s.coords EXCEPT ![c] = v]
    <2>1. /\ k \in Seq(CoordinationType)
          /\ \A j \in 1..Len(s.coords) : k[j] = IF j = c THEN v ELSE s.coords[j]
      BY <1>1, <1>3, SeqUpdate DEF StandsFor
    <2>2. CleanupOK(r, g, w)
      BY <1>3, CoordinationChange DEF Edited, StandsFor
    <2> HIDE DEF k
    <2>3. OnlyCoords(s, r) /\ r.coords = k
      BY <1>1, <2>1 DEF OnlyCoords, CleanupState, k
    <2> QED
      BY <2>1, <2>2, <2>3 DEF Replaced
  <1> QED
    BY <1>2, <1>3

\* A register leaves the coordination c.
Leaves(s, c) ==
  IF c = 0 THEN s
  ELSE [s EXCEPT !.coords[c].inflight = IF @ > 0 THEN @ - 1 ELSE 0]

LEMMA RegisterLeaves ==
  ASSUME NEW s, NEW g \in Nat, NEW w \in Nat, CleanupOK(s, g, w),
         NEW c \in Nat, NEW r, r = Leaves(s, c)
  PROVE  /\ CleanupOK(r, g, w) /\ OnlyCoords(s, r)
         /\ s.coord # 0 /\ s.coord # c => r.coords[s.coord] = s.coords[s.coord]
  <1>1. CASE c = 0
    BY <1>1 DEF OnlyCoords, Leaves
  <1>2. CASE c # 0
    <2> DEFINE b == IF s.coords[c].inflight > 0
                    THEN s.coords[c].inflight - 1 ELSE 0
               v == [s.coords[c] EXCEPT !.inflight = b]
    <2>1. s.coords \in Seq(CoordinationType) /\ s.coord \in 0..Len(s.coords)
          /\ Len(s.coords) \in Nat
      BY Fields DEF CleanupOK
    <2>2. r = [s EXCEPT !.coords = [s.coords EXCEPT ![c] = v]]
      BY <1>2 DEF Leaves
    <2>3. ASSUME c \in 1..Len(s.coords)
          PROVE  /\ v \in CoordinationType /\ v.gen = s.coords[c].gen
                 /\ v.requested = s.coords[c].requested
      <3>1. s.coords[c] \in CoordinationType
        BY <2>1, <2>3
      <3>2. b \in Nat
        BY <3>1 DEF CoordinationType
      <3> HIDE DEF b
      <3> QED
        BY <3>1, <3>2 DEF CoordinationType
    <2> HIDE DEF v
    <2>4. StandsFor(v, s, c)
      BY <2>3 DEF StandsFor
    <2>5. Replaced(s, r, c, v, g, w)
      BY <2>2, <2>4, CoordinationKept
    <2> QED
      BY <2>1, <2>5 DEF Replaced
  <1> QED
    BY <1>1, <1>2

\* Those who wait for the coordination c are woken.
LEMMA WindowWakes ==
  ASSUME NEW s, NEW g \in Nat, NEW w \in Nat, CleanupOK(s, g, w),
         NEW c \in Nat,
         NEW r, r = [s EXCEPT !.coords[c].done = TRUE]
  PROVE  /\ CleanupOK(r, g, w) /\ OnlyCoords(s, r)
         /\ s.coord # 0 =>
              r.coords[s.coord].inflight = s.coords[s.coord].inflight
  <1> DEFINE v == [s.coords[c] EXCEPT !.done = TRUE]
  <1>1. s.coords \in Seq(CoordinationType) /\ s.coord \in 0..Len(s.coords)
        /\ Len(s.coords) \in Nat
    BY Fields DEF CleanupOK
  <1>2. r = [s EXCEPT !.coords = [s.coords EXCEPT ![c] = v]]
    OBVIOUS
  <1>3. ASSUME c \in 1..Len(s.coords)
        PROVE  /\ v \in CoordinationType /\ v.gen = s.coords[c].gen
               /\ v.requested = s.coords[c].requested
               /\ v.inflight = s.coords[c].inflight
    <2>1. s.coords[c] \in CoordinationType
      BY <1>1, <1>3
    <2> QED
      BY <2>1 DEF CoordinationType
  <1> HIDE DEF v
  <1>4. StandsFor(v, s, c)
    BY <1>3 DEF StandsFor
  <1>5. Replaced(s, r, c, v, g, w)
    BY <1>2, <1>4, CoordinationKept
  <1> QED
    BY <1>1, <1>3, <1>5 DEF Replaced

LEMMA StepCommitRegister ==
  ASSUME IInv, NEW t \in DOMAIN thr, CommitRegister(t)
  PROVE  IInv'
  <1> DEFINE me == thr[t]
             c  == me.coord
             g  == generation
             w  == worker
             s1 == IF Accepted(t) THEN Record(cl, "register", me.ok) ELSE cl
             s2 == IF /\ Accepted(t) /\ me.ok /\ c # 0 /\ cl.coord = c
                      /\ generation = me.gen /\ cl.coords[c].gen = me.gen
                   THEN Invalidate(s1, me.gen, c, generation) ELSE s1
             s3 == IF c = 0 THEN s2
                   ELSE [s2 EXCEPT !.coords[c].inflight =
                           IF @ > 0 THEN @ - 1 ELSE 0]
             r  == IF c # 0 /\ s3.coord = c THEN Reconcile(s3, generation)
                   ELSE Keep(s3)
             s4 == IF c # 0 /\ s3.coords[c].inflight = 0
                   THEN [r.cl EXCEPT !.coords[c].done = TRUE] ELSE r.cl
  <1>1. g \in Nat /\ w \in Nat /\ me.ok \in BOOLEAN /\ c \in Nat
        /\ Len(cl.ops) \in Nat
    BY Numbers, OwnLocal
  <1>2. CleanupOK(cl, g, w)
    BY DEF IInv
  <1>3. CleanupOK(s1, g, w) /\ s1.ops = cl.ops
    BY <1>1, <1>2, RecordOK
  <1> HIDE DEF s1
  <1>4. CleanupOK(s2, g, w) /\ s2.ops = cl.ops
    BY <1>1, <1>3, InvalidateOK
  <1> HIDE DEF s2
  <1>5. CleanupOK(s3, g, w) /\ Len(s3.ops) = Len(cl.ops)
    <2>1. s3 = Leaves(s2, c)
      BY DEF Leaves
    <2> HIDE DEF s3, c, g, w
    <2>2. CleanupOK(s3, g, w) /\ OnlyCoords(s2, s3)
      BY <1>1, <1>4, <2>1, RegisterLeaves
    <2> QED
      BY <1>4, <2>2 DEF OnlyCoords
  <1> HIDE DEF s3
  <1>6. Handed(s3, r, g, w)
    BY <1>1, <1>5, KeepHanded, ReconcileHanded
  <1>7. CleanupOK(r.cl, g, w) /\ Len(cl.ops) <= Len(r.cl.ops)
    BY <1>5, <1>6 DEF Handed
  <1> HIDE DEF r
  <1>8. CleanupOK(s4, g, w) /\ Len(s4.ops) = Len(r.cl.ops)
    BY <1>1, <1>7, WindowWakes, SMTT(30) DEF OnlyCoords
  <1> HIDE DEF s4
  <1>9. CleanupChange
    <2>1. cl' = s4
      BY DEF CommitRegister, s1, s2, s3, r, s4
    <2> QED
      BY <1>7, <1>8, <2>1 DEF CleanupChange
  <1>10. {"schedTail", "closeTail"} \subseteq PlainSteps
    BY DEF PlainSteps, Steps, SchedSites
  <1>11. Exit(t) \/ \E p \in {"schedTail", "closeTail"} : Goto(t, p)
    BY DEF CommitRegister
  <1>12. ThreadsOK(thr', spawned, DOMAIN ctx, Len(cl'.ops), generation, worker)
    BY <1>9, <1>10, <1>11, CleanupPlainExit, CleanupPlainMove
  <1>13. RestOK'
    <2>1. applied' \in {thr[t].seq, applied}
      BY DEF CommitRegister
    <2> QED
      BY <2>1, AppliedNat, CommitRest DEF CommitRegister
  <1> QED
    BY <1>9, <1>12, <1>13, CleanupStep DEF CommitRegister

LEMMA StepCommitPlain ==
  ASSUME IInv, NEW t \in DOMAIN thr, CommitRemove(t) \/ CommitRenewal(t)
  PROVE  IInv'
  <1> DEFINE R(k) == Record(cl, k, thr[t].ok)
             I    == Invalidate(R("renewal"), ctx[t].gen, 0, generation)
  <1>1. /\ generation \in Nat /\ worker \in Nat /\ thr[t].ok \in BOOLEAN
        /\ CleanupOK(cl, generation, worker) /\ Len(cl.ops) \in Nat
    BY Numbers, OwnLocal DEF IInv
  <1>2. \A k \in Rpcs : /\ CleanupOK(R(k), generation, worker)
                        /\ R(k).ops = cl.ops
    BY <1>1, RecordOK
  <1>3. {"remove", "renewal"} \subseteq Rpcs
    BY DEF Rpcs
  <1>4. cl' \in {cl, R("remove"), R("renewal"), I}
    BY DEF CommitRemove, CommitRenewal
  <1> HIDE DEF R
  <1>5. CleanupOK(I, generation, worker) /\ I.ops = cl.ops
    BY <1>1, <1>2, <1>3, InvalidateOK
  <1> HIDE DEF I
  <1>6. CleanupChange
    BY <1>1, <1>2, <1>3, <1>4, <1>5 DEF CleanupChange
  <1>7. {"sleep", "finish"} \subseteq PlainSteps
    BY DEF PlainSteps, Steps
  <1>8. Exit(t) \/ \E p \in {"sleep", "finish"} : Goto(t, p)
    BY DEF CommitRemove, CommitRenewal
  <1>9. ThreadsOK(thr', spawned, DOMAIN ctx, Len(cl'.ops), generation, worker)
    BY <1>6, <1>7, <1>8, CleanupPlainExit, CleanupPlainMove
  <1>10. applied' \in {thr[t].seq, applied}
    BY DEF CommitRemove, CommitRenewal
  <1>11. RestOK'
    BY <1>10, AppliedNat, CommitRest DEF CommitRemove, CommitRenewal
  <1> QED
    BY <1>6, <1>9, <1>11, CleanupStep DEF CommitRemove, CommitRenewal

\* The pending and the active operation change hands: r is s after that.
Claimed(s, r, p, g, w) ==
  /\ CleanupOK(r, g, w)
  /\ r.ops = s.ops /\ r.coords = s.coords /\ r.coord = s.coord
  /\ r.pending = p

LEMMA ClaimOK ==
  ASSUME NEW s, NEW g \in Nat, NEW w \in Nat, CleanupOK(s, g, w),
         NEW p \in {0, s.pending}, NEW a \in 0..Len(s.ops),
         NEW r, r = [s EXCEPT !.pending = p, !.active = a]
  PROVE  Claimed(s, r, p, g, w)
  <1>1. s \in CleanupState /\ Len(s.ops) \in Nat
    BY Fields DEF CleanupOK
  <1>2. p \in Ref /\ a \in Ref
    BY <1>1, Fields DEF Ref
  <1>3. /\ r \in CleanupState /\ r.pending = p /\ r.active = a
        /\ r.ops = s.ops /\ r.coords = s.coords /\ r.coord = s.coord
        /\ r.removed = s.removed
    BY <1>1, <1>2 DEF CleanupState
  <1>4. CleanupOK(r, g, w)
    BY <1>1, <1>3 DEF CleanupOK
  <1> QED
    BY <1>3, <1>4 DEF Claimed

\* The success of a removal is cached once the worker is gone.
LEMMA CachedOK ==
  ASSUME NEW s, NEW g \in Nat, CleanupOK(s, g, 0),
         NEW r, r = [s EXCEPT !.requested = g, !.removed = g]
  PROVE  /\ CleanupOK(r, g, 0)
         /\ r.ops = s.ops /\ r.coords = s.coords /\ r.coord = s.coord
         /\ r.pending = s.pending
  <1>1. s \in CleanupState /\ g \in Gen
    BY DEF CleanupOK, Gen
  <1>2. /\ r \in CleanupState /\ r.pending = s.pending /\ r.active = s.active
        /\ r.ops = s.ops /\ r.coords = s.coords /\ r.coord = s.coord
        /\ r.removed = g
    BY <1>1 DEF CleanupState
  <1> QED
    BY <1>2 DEF CleanupOK

\* A pending operation is dropped.
LEMMA CancelOK ==
  ASSUME NEW s, NEW g \in Nat, NEW w \in Nat, CleanupOK(s, g, w),
         NEW o \in 0..Len(s.ops)
  PROVE  LET r == Cancel(s, o)
         IN  /\ CleanupOK(r, g, w) /\ Len(r.ops) = Len(s.ops)
             /\ r.coord = s.coord
             /\ o = s.pending => r.pending = 0
  <1> DEFINE v == [s.ops[o] EXCEPT !.done = TRUE]
             q == [s EXCEPT !.ops = [s.ops EXCEPT ![o] = v]]
             r == [q EXCEPT !.pending = 0, !.active = q.active]
  <1>1. s \in CleanupState /\ Len(s.ops) \in Nat
    BY Fields DEF CleanupOK
  <1>2. CASE o = 0
    BY <1>2 DEF Cancel
  <1>3. CASE o # 0
    <2>1. o \in 1..Len(s.ops)
      BY <1>1, <1>3
    <2>2. s.ops[o] \in OperationType
      BY <1>1, <2>1, Fields
    <2>3. v \in OperationType /\ v.gen = s.ops[o].gen
      BY <2>2 DEF OperationType
    <2>4. Cancel(s, o) = r
      BY <1>1, <1>3 DEF Cancel, CleanupState
    <2> HIDE DEF v
    <2>5. Edited(s, q, g, w)
      BY <2>1, <2>3, OperationChange
    <2> HIDE DEF q
    <2>6. /\ CleanupOK(q, g, w) /\ Len(q.ops) = Len(s.ops)
          /\ q.coord = s.coord
      BY <2>5 DEF Edited
    <2>7. q.active \in 0..Len(q.ops)
      BY <2>6 DEF CleanupOK
    <2>8. Claimed(q, r, 0, g, w)
      <3> DEFINE p == 0
                 a == q.active
      <3>1. p \in {0, q.pending} /\ r = [q EXCEPT !.pending = p, !.active = a]
        OBVIOUS
      <3>2. a \in 0..Len(q.ops)
        BY <2>7
      <3> HIDE DEF p, a, r
      <3>3. Claimed(q, r, p, g, w)
        BY <2>6, <3>1, <3>2, ClaimOK
      <3> QED
        BY <3>3 DEF p
    <2> QED
      BY <2>4, <2>6, <2>8 DEF Claimed
  <1> QED
    BY <1>2, <1>3

\* The cleanup state when the removal of t has ended, before the window is
\* looked at again.
Completed(t) ==
  LET me  == thr[t]
      o   == me.ref
      acc == cl.active = o /\ Accepted(t)
      s1  == IF acc THEN Record(cl, "remove", me.ok) ELSE cl
      s2  == IF acc /\ me.ok THEN Close(s1, o) ELSE s1
      s3  == IF s2.active = o THEN [s2 EXCEPT !.active = 0] ELSE s2
  IN  Finish(s3, o, IF me.ok THEN "ok" ELSE "fail")

LEMMA CompletedOK ==
  ASSUME IInv, NEW t \in DOMAIN thr, CompleteRemove(t)
  PROVE  /\ CleanupOK(Completed(t), generation, worker)
         /\ Len(Completed(t).ops) = Len(cl.ops)
         /\ cl' = ReconcileAfter(Completed(t), cl.ops[thr[t].ref].gen,
                                 generation)
  <1> DEFINE me == thr[t]
             g  == generation
             w  == worker
             n  == Len(cl.ops)
             o  == me.ref
             og == cl.ops[o].gen
             acc == cl.active = o /\ Accepted(t)
             s1 == IF acc THEN Record(cl, "remove", me.ok) ELSE cl
             s  == [s1 EXCEPT !.requested = og, !.removed = og]
             sc == IF s.pending # 0 /\ s.ops[s.pending].gen = og
                   THEN Cancel(s, s.pending) ELSE s
             s2 == IF acc /\ me.ok THEN Close(s1, o) ELSE s1
             s3 == IF s2.active = o THEN [s2 EXCEPT !.active = 0] ELSE s2
             s4 == Finish(s3, o, IF me.ok THEN "ok" ELSE "fail")
             OK(x) == CleanupOK(x, g, w) /\ Len(x.ops) = n
  <1>1. /\ g \in Nat /\ w \in Nat /\ me.ok \in BOOLEAN /\ n \in Nat
        /\ OK(cl)
    BY Numbers, OwnLocal DEF IInv
  <1>2. o \in 1..n
    BY OwnLocal DEF CompleteRemove, LocalOK
  <1>3. OK(s1)
    <2>1. OK(Record(cl, "remove", me.ok))
      BY <1>1, RecordOK
    <2> QED
      BY <1>1, <2>1
  <1>4. /\ Completed(t) = s4
        /\ cl' = ReconcileAfter(s4, og, generation)
    BY DEF CompleteRemove, Completed
  <1> HIDE DEF s1
  <1>5. OK(s2)
    <2> HIDE DEF acc
    <2>0. s2 \in {s1, Close(s1, o)}
      OBVIOUS
    <2>1. CASE og = g /\ w = 0
      <3>1. OK(s)
        BY <1>1, <1>3, <2>1, CachedOK, ZenonT(60)
      <3> HIDE DEF s
      <3>2. OK(sc)
        <4>1. s.pending \in 0..Len(s.ops)
          BY <3>1 DEF CleanupOK
        <4>2. OK(Cancel(s, s.pending))
          BY <1>1, <3>1, <4>1, CancelOK
        <4> QED
          BY <3>1, <4>2
      <3>3. Close(s1, o) = sc
        BY <2>1 DEF Close, s
      <3> HIDE DEF sc, s2
      <3> QED
        BY <1>3, <2>0, <3>2, <3>3
    <2>2. CASE ~(og = g /\ w = 0)
      <3>1. Close(s1, o) = s1
        BY <2>2 DEF Close
      <3> HIDE DEF s2
      <3> QED
        BY <1>3, <2>0, <3>1
    <2> QED
      BY <2>1, <2>2
  <1> HIDE DEF s2
  <1>6. OK(s3)
    <2> DEFINE x == [s2 EXCEPT !.pending = s2.pending, !.active = 0]
    <2>1. OK(x)
      <3> DEFINE p == s2.pending
                 a == 0
      <3>1. /\ p \in {0, s2.pending} /\ a \in 0..Len(s2.ops)
            /\ x = [s2 EXCEPT !.pending = p, !.active = a]
        BY <1>1, <1>5
      <3> HIDE DEF p, a, x
      <3>2. Claimed(s2, x, p, g, w)
        BY <1>1, <1>5, <3>1, ClaimOK
      <3> QED
        BY <1>5, <3>2 DEF Claimed
    <2>2. [s2 EXCEPT !.active = 0] = x
      BY <1>5 DEF CleanupOK, CleanupState
    <2> HIDE DEF x
    <2> QED
      BY <1>5, <2>1, <2>2
  <1> HIDE DEF s3
  <1>7. OK(s4)
    <2> DEFINE res == IF me.ok THEN "ok" ELSE "fail"
    <2>1. res \in {"ok", "fail"}
      OBVIOUS
    <2> HIDE DEF res
    <2>2. Edited(s3, Finish(s3, o, res), g, w)
      BY <1>1, <1>2, <1>6, <2>1, FinishOK
    <2> QED
      BY <1>6, <2>2 DEF Edited, res
  <1> HIDE DEF s4
  <1> QED
    BY <1>4, <1>7

LEMMA StepCompleteRemove ==
  ASSUME IInv, NEW t \in DOMAIN thr, CompleteRemove(t)
  PROVE  IInv'
  <1>1. CleanupChange
    BY Numbers, CompletedOK, ReconcileAfterOK DEF CleanupChange
  <1>2. "sched" \in PlainSteps
    BY DEF PlainSteps, Steps, SchedSites
  <1>3. ThreadsOK(thr', spawned, DOMAIN ctx, Len(cl'.ops), generation, worker)
    BY <1>1, <1>2, CleanupPlainMove DEF CompleteRemove
  <1>4. applied' \in {thr[t].seq, applied}
    BY DEF CompleteRemove
  <1>5. RestOK'
    BY <1>4, AppliedNat, CommitRest DEF CompleteRemove
  <1> QED
    BY <1>1, <1>3, <1>5, CleanupStep DEF CompleteRemove

LEMMA StepTerminalOwn ==
  ASSUME IInv, NEW t \in DOMAIN thr, TerminalOwn(t)
  PROVE  IInv'
  <1> DEFINE g == generation
             w == worker
             n == Len(cl.ops) + 1
             q == Append(cl.ops, Operation(thr[t].gen))
             v == [thr[t] EXCEPT !.pc = "call", !.rpc = "cleanup", !.ref = n]
  <1>1. /\ g \in Nat /\ w \in Nat /\ cl \in CleanupState
        /\ Len(cl.ops) \in Nat /\ n \in Nat
        /\ CleanupOK(cl, g, w) /\ thr[t].gen \in Nat
    BY Numbers, OwnLocal DEF IInv
  <1>2. q \in Seq(OperationType) /\ Len(q) = n
    BY <1>1, Fields, AddOperation
  <1>3. cl' = [cl EXCEPT !.ops = q, !.active = n]
    BY DEF TerminalOwn
  <1>4. thr' = [thr EXCEPT ![t] = v]
    BY DEF TerminalOwn
  <1>5. LocalOK(v, DOMAIN ctx, n, g, w)
    <2>1. v \in LocalType
      BY <1>1, OwnLocal DEF LocalType, Steps, Rpcs, Ref
    <2>2. v.pc = "call" /\ v.ref = n
      BY OwnLocal DEF LocalType
    <2> HIDE DEF v
    <2> QED
      BY <1>1, <2>1, <2>2 DEF LocalOK
  <1>6. n \in Ref
    BY <1>1 DEF Ref
  <1>7. cl.pending = 0
    BY DEF TerminalOwn
  <1> HIDE DEF q, n, v
  <1>8. /\ cl' \in CleanupState /\ cl'.pending = 0 /\ cl'.active = n
        /\ cl'.ops = q /\ cl'.coords = cl.coords /\ cl'.coord = cl.coord
        /\ cl'.removed = cl.removed
    BY <1>1, <1>2, <1>3, <1>6, <1>7 DEF CleanupState
  <1>9. n = Len(cl.ops) + 1
    BY DEF n
  <1>10. CleanupOK(cl', g, w)
    BY <1>1, <1>2, <1>8, <1>9 DEF CleanupOK
  <1>11. CleanupChange
    BY <1>1, <1>2, <1>8, <1>9, <1>10 DEF CleanupChange
  <1>12. ThreadsOK(thr', spawned, DOMAIN ctx, Len(cl'.ops), g, w)
    BY <1>2, <1>4, <1>5, <1>8, <1>11, CleanupLocalMove
  <1>13. RestOK'
    BY UnmovedRest DEF TerminalOwn, Unmoved
  <1> QED
    BY <1>11, <1>12, <1>13, CleanupStep DEF TerminalOwn, Unmoved

LEMMA StepClaim ==
  ASSUME IInv, NEW t \in DOMAIN thr, Claim(t)
  PROVE  IInv'
  <1>1. RestOK'
    BY UnmovedRest DEF Claim, Unmoved
  <1>2. CASE UNCHANGED cl /\ Goto(t, "discard")
    <2>1. "discard" \in PlainSteps
      BY DEF PlainSteps, Steps
    <2>2. ThreadsOK(thr', spawned, DOMAIN ctx, Len(cl.ops), generation, worker)
      BY <1>2, <2>1, PlainMove
    <2> QED
      BY <1>2, <2>2, StepUnmoved DEF Claim
  <1>3. CASE ~(UNCHANGED cl /\ Goto(t, "discard"))
    <2> DEFINE g == generation
               w == worker
               p == 0
               a == thr[t].ref
               v == [thr[t] EXCEPT !.pc = "call", !.rpc = "cleanup"]
    <2>1. /\ cl' = [cl EXCEPT !.pending = p, !.active = a]
          /\ thr' = [thr EXCEPT ![t] = v]
      BY <1>3 DEF Claim
    <2>2. /\ g \in Nat /\ w \in Nat /\ CleanupOK(cl, g, w)
          /\ Len(cl.ops) \in Nat
      BY Numbers DEF IInv
    <2>3. a \in 1..Len(cl.ops)
      BY OwnLocal DEF Claim, At, LocalOK
    <2>4. a \in 0..Len(cl.ops) /\ p \in {0, cl.pending}
      BY <2>2, <2>3
    <2>5. LocalOK(v, DOMAIN ctx, Len(cl.ops), g, w)
      <3>1. v \in LocalType
        BY OwnLocal DEF LocalType, Steps, Rpcs
      <3>2. v.pc = "call" /\ v.ref = a
        BY OwnLocal DEF LocalType
      <3> HIDE DEF v
      <3> QED
        BY <2>3, <3>1, <3>2 DEF LocalOK
    <2> HIDE DEF p, a, v
    <2>6. Claimed(cl, cl', p, g, w)
      BY <2>1, <2>2, <2>4, ClaimOK
    <2>7. CleanupChange /\ Len(cl'.ops) = Len(cl.ops)
      BY <2>2, <2>6 DEF CleanupChange, Claimed
    <2>8. ThreadsOK(thr', spawned, DOMAIN ctx, Len(cl'.ops), g, w)
      BY <2>1, <2>5, <2>7, CleanupLocalMove
    <2> QED
      BY <1>1, <2>7, <2>8, CleanupStep DEF Claim, Unmoved
  <1> QED
    BY <1>2, <1>3

\* The actor of an operation is noted or cleared: r is s after that.
Noted(s, r, g, w) == CleanupOK(r, g, w) /\ Len(r.ops) = Len(s.ops)

LEMMA ThreadNoted ==
  ASSUME NEW s, NEW g \in Nat, NEW w \in Nat, CleanupOK(s, g, w),
         NEW o, NEW a, o \in 1..Len(s.ops) => a \in Nat,
         NEW r, r = [s EXCEPT !.ops[o].thread = a]
  PROVE  Noted(s, r, g, w)
  <1> DEFINE v == [s.ops[o] EXCEPT !.thread = a]
  <1>1. s \in CleanupState /\ s.ops \in Seq(OperationType)
    BY Fields DEF CleanupOK
  <1>2. r = [s EXCEPT !.ops = [s.ops EXCEPT ![o] = v]]
    OBVIOUS
  <1>3. CASE o \in 1..Len(s.ops)
    <2>1. s.ops[o] \in OperationType
      BY <1>1, <1>3
    <2>2. v \in OperationType /\ v.gen = s.ops[o].gen
      BY <1>3, <2>1 DEF OperationType
    <2> HIDE DEF v
    <2>3. Edited(s, r, g, w)
      BY <1>2, <1>3, <2>2, OperationChange
    <2> QED
      BY <2>3 DEF Edited, Noted
  <1>4. CASE o \notin 1..Len(s.ops)
    <2> HIDE DEF v
    <2>1. [s.ops EXCEPT ![o] = v] = s.ops
      BY <1>1, <1>4
    <2>2. [s EXCEPT !.ops = s.ops] = s
      BY <1>1 DEF CleanupState
    <2>3. r = s
      BY <1>2, <2>1, <2>2
    <2> QED
      BY <2>3 DEF Noted
  <1> QED
    BY <1>3, <1>4

LEMMA StepDiscard ==
  ASSUME IInv, NEW t \in DOMAIN thr, Discard(t)
  PROVE  IInv'
  <1> DEFINE g == generation
             w == worker
             o == thr[t].ref
             a == IF cl.ops[o].thread = t THEN 0 ELSE cl.ops[o].thread
  <1>1. /\ g \in Nat /\ w \in Nat /\ CleanupOK(cl, g, w)
        /\ Len(cl.ops) \in Nat /\ cl.ops \in Seq(OperationType)
    BY Numbers, Fields DEF IInv
  <1>2. o \in 1..Len(cl.ops) => a \in Nat
    <2>1. ASSUME o \in 1..Len(cl.ops)
          PROVE  cl.ops[o].thread \in Nat
      <3>1. cl.ops[o] \in OperationType
        BY <1>1, <2>1
      <3> QED
        BY <3>1 DEF OperationType
    <2> QED
      BY <2>1
  <1>3. cl' = [cl EXCEPT !.ops[o].thread = a]
    BY DEF Discard
  <1> HIDE DEF o, a
  <1>4. Noted(cl, cl', g, w)
    BY <1>1, <1>2, <1>3, ThreadNoted
  <1>5. CleanupChange
    BY <1>1, <1>4 DEF CleanupChange, Noted
  <1>6. "schedTail" \in PlainSteps
    BY DEF PlainSteps, Steps, SchedSites
  <1>7. ThreadsOK(thr', spawned, DOMAIN ctx, Len(cl'.ops), g, w)
    BY <1>5, <1>6, CleanupPlainMove DEF Discard
  <1>8. RestOK'
    BY DEF Discard, IInv, RestOK, logs, rpcs, bounds
  <1> QED
    BY <1>5, <1>7, <1>8, CleanupStep DEF Discard

LEMMA StepShutdownRequest ==
  ASSUME IInv, NEW t \in DOMAIN thr, ShutdownRequest(t)
  PROVE  IInv'
  <1> DEFINE g == generation
             x == RequestRemove(cl, g).cl
  <1>1. /\ g \in Nat /\ worker \in Nat /\ CleanupOK(cl, g, worker)
        /\ Len(cl.ops) \in Nat
    BY Numbers DEF IInv
  <1>2. CleanupChange
    <2>1. CASE cl' = cl
      BY <1>1, <2>1 DEF CleanupChange
    <2>2. CASE cl' # cl
      <3>1. g = thr[t].gen /\ cl' = x
        BY <2>2 DEF ShutdownRequest, Keep
      <3>2. worker = 0
        BY <3>1, OwnLocal DEF ShutdownRequest, At, LocalOK
      <3>3. CleanupOK(x, g, 0) /\ Len(cl.ops) <= Len(x.ops)
        BY <1>1, <3>2, RequestRemoveOK
      <3> HIDE DEF x
      <3> QED
        BY <3>1, <3>2, <3>3 DEF CleanupChange
    <2> QED
      BY <2>1, <2>2
  <1>3. {"schedShutdown", "closeTail"} \subseteq PlainSteps
    BY DEF PlainSteps, Steps, SchedSites
  <1>4. \E p \in {"schedShutdown", "closeTail"} : Goto(t, p)
    BY DEF ShutdownRequest
  <1>5. ThreadsOK(thr', spawned, DOMAIN ctx, Len(cl'.ops), g, worker)
    BY <1>2, <1>3, <1>4, CleanupPlainMove
  <1>6. RestOK'
    BY DEF ShutdownRequest, IInv, RestOK, logs, rpcs, bounds
  <1> QED
    BY <1>2, <1>5, <1>6, CleanupStep DEF ShutdownRequest

\* The element that was appended last is replaced.
LEMMA ReplaceLast ==
  ASSUME NEW S, NEW s \in Seq(S), NEW x \in S, NEW y \in S
  PROVE  [Append(s, x) EXCEPT ![Len(s) + 1] = y] = Append(s, y)
  <1> DEFINE n == Len(s) + 1
             a == Append(s, x)
             b == Append(s, y)
             e == [a EXCEPT ![n] = y]
  <1>1. /\ a \in Seq(S) /\ b \in Seq(S) /\ Len(a) = n /\ Len(b) = n
        /\ n \in Nat /\ n \in 1..n
    OBVIOUS
  <1>2. \A j \in 1..n : b[j] = IF j = n THEN y ELSE a[j]
    OBVIOUS
  <1> HIDE DEF n, a, b
  <1>3. /\ e \in Seq(S) /\ Len(e) = n
        /\ \A j \in 1..n : e[j] = IF j = n THEN y ELSE a[j]
    BY <1>1, SeqUpdate
  <1> HIDE DEF e
  <1>4. e = b
    BY <1>1, <1>2, <1>3, SeqEqual
  <1> QED
    BY <1>4 DEF e, a, b, n

\* A register joins the window or opens one; a closed one is left alone.
LEMMA CallRegisterCleanup ==
  ASSUME IInv, NEW c \in Callers, CallRegister(c)
  PROVE  CleanupOK(cl', generation, worker) /\ Len(cl'.ops) = Len(cl.ops)
  <1> DEFINE g == generation
             w == worker
             k == cl.coord
             n == Len(cl.coords) + 1
             new == [gen |-> g, inflight |-> 1, requested |-> FALSE,
                     done |-> FALSE]
             q == Append(cl.coords, new)
             v == [cl.coords[k] EXCEPT !.inflight = @ + 1, !.done = FALSE]
  <1>1. /\ g \in Nat /\ w \in Nat /\ cl \in CleanupState
        /\ CleanupOK(cl, g, w) /\ Len(cl.coords) \in Nat
        /\ cl.coords \in Seq(CoordinationType)
    BY Numbers, Fields DEF IInv
  <1>2. /\ k \in 0..Len(cl.coords)
        /\ k # 0 => cl.coords[k].gen = g /\ (cl.coords[k].requested => w = 0)
    BY <1>1 DEF CleanupOK
  <1>3. CASE k = 0
    <2> DEFINE old == Append(cl.coords, Coordination(g))
               upd == [old[n] EXCEPT !.inflight = @ + 1, !.done = FALSE]
    <2>1. /\ Coordination(g) \in CoordinationType
          /\ new \in CoordinationType /\ new.gen = g /\ ~new.requested
      BY <1>1 DEF Coordination, CoordinationType
    <2>2. old[n] = Coordination(g) /\ Len(old) = n
      BY <1>1, <2>1
    <2>3. upd = new
      <3>1. upd = [Coordination(g) EXCEPT !.inflight = 1, !.done = FALSE]
        <4>1. old[n].inflight + 1 = 1
          BY <2>2 DEF Coordination
        <4> HIDE DEF old
        <4> QED
          BY <2>2, <4>1
      <3> HIDE DEF upd
      <3> QED
        BY <3>1 DEF Coordination
    <2>4. [old EXCEPT ![n] = new] = q
      <3> DEFINE x == Coordination(g)
      <3>1. /\ x \in CoordinationType /\ n = Len(cl.coords) + 1
            /\ old = Append(cl.coords, x) /\ q = Append(cl.coords, new)
        BY <2>1
      <3> HIDE DEF new, x, n, old, q
      <3> QED
        <4>1. [Append(cl.coords, x) EXCEPT ![Len(cl.coords) + 1] = new]
                = Append(cl.coords, new)
          <5> DEFINE S == CoordinationType
                     e == cl.coords
          <5>1. e \in Seq(S) /\ x \in S /\ new \in S
            BY <1>1, <2>1, <3>1
          <5> HIDE DEF S, e
          <5>2. [Append(e, x) EXCEPT ![Len(e) + 1] = new] = Append(e, new)
            BY <5>1, ReplaceLast
          <5> QED
            BY <5>2 DEF e
        <4> QED
          BY <3>1, <4>1
    <2>5. cl' = [cl EXCEPT !.coord = n, !.coords = [old EXCEPT ![n] = upd]]
      <3>1. n # 0 /\ Len(old) = n
        BY <1>1, <2>2
      <3>2. Append(cl.coords, Coordination(generation)) = old
        OBVIOUS
      <3> HIDE DEF n, old, upd
      <3>3. cl' = [cl EXCEPT !.coord = n,
                             !.coords = [old EXCEPT ![n].inflight = @ + 1,
                                                    ![n].done = FALSE]]
        BY <1>3, <3>1, <3>2, Zenon DEF CallRegister
      <3>4. old \in Seq(CoordinationType) /\ n \in 1..Len(old)
        BY <1>1, <2>1, <2>2 DEF old, n
      <3>5. [old EXCEPT ![n].inflight = @ + 1, ![n].done = FALSE]
              = [old EXCEPT ![n] = upd]
        BY <3>4 DEF upd
      <3> QED
        BY <3>3, <3>5
    <2> HIDE DEF upd, old, new
    <2>6. cl' = [cl EXCEPT !.coord = n, !.coords = q]
      BY <2>3, <2>4, <2>5
    <2>7. /\ q \in Seq(CoordinationType) /\ Len(q) = n /\ q[n] = new
          /\ n \in Ref /\ n \in 0..n
      BY <1>1, <2>1 DEF Ref
    <2> HIDE DEF q, n
    <2>8. /\ cl' \in CleanupState /\ cl'.pending = cl.pending
          /\ cl'.active = cl.active /\ cl'.ops = cl.ops /\ cl'.coords = q
          /\ cl'.coord = n /\ cl'.removed = cl.removed
      BY <1>1, <2>6, <2>7 DEF CleanupState
    <2> QED
      BY <1>1, <2>1, <2>7, <2>8 DEF CleanupOK
  <1>4. CASE k # 0
    <2>1. k \in 1..Len(cl.coords)
      BY <1>1, <1>2, <1>4
    <2>2. cl.coords[k] \in CoordinationType
      BY <1>1, <2>1
    <2>3. CASE cl.coords[k].requested
      <3>1. cl' = [cl EXCEPT !.coord = cl.coord, !.coords = cl.coords]
        BY <1>2, <1>4, <2>3 DEF CallRegister
      <3>2. cl' = cl
        BY <1>1, <3>1 DEF CleanupState
      <3> QED
        BY <1>1, <3>2
    <2>4. CASE ~cl.coords[k].requested
      <3>1. /\ v \in CoordinationType /\ v.gen = cl.coords[k].gen
            /\ v.requested = cl.coords[k].requested
        <4> DEFINE z == cl.coords[k]
                   i == z.inflight + 1
        <4>1. z \in CoordinationType /\ i \in Nat
          BY <2>2 DEF CoordinationType
        <4>2. v = [z EXCEPT !.inflight = i, !.done = FALSE]
          OBVIOUS
        <4> HIDE DEF z, i, v
        <4>3. v \in CoordinationType /\ v.gen = z.gen /\ v.requested = z.requested
          BY <4>1, <4>2 DEF CoordinationType
        <4> QED
          BY <4>3 DEF z
      <3>2. cl' = [cl EXCEPT !.coord = k, !.coords = [cl.coords EXCEPT ![k] = v]]
        BY <1>2, <1>4, <2>1, <2>4, ZenonT(60) DEF CallRegister
      <3> HIDE DEF v
      <3>3. cl' = [cl EXCEPT !.coords = [cl.coords EXCEPT ![k] = v]]
        BY <1>1, <3>2 DEF CleanupState
      <3>4. Edited(cl, cl', g, w)
        <4> DEFINE c2 == cl.coord
        <4>1. /\ c2 \in 1..Len(cl.coords) /\ v.gen = cl.coords[c2].gen
              /\ v.requested = cl.coords[c2].requested
              /\ cl' = [cl EXCEPT !.coords = [cl.coords EXCEPT ![c2] = v]]
          BY <2>1, <3>1, <3>3
        <4> HIDE DEF c2
        <4> QED
          BY <1>1, <3>1, <4>1, CoordinationChange
      <3> QED
        BY <3>4 DEF Edited
    <2> QED
      BY <2>3, <2>4
  <1> QED
    BY <1>3, <1>4

LEMMA StepCallRegister ==
  ASSUME IInv, NEW c \in Callers, CallRegister(c)
  PROVE  IInv'
  <1>1. c \in DOMAIN thr /\ calls' \in Nat /\ UNCHANGED <<renewals, rpcs>>
    BY Invoked DEF CallRegister
  <1>2. /\ CleanupOK(cl', generation, worker) /\ Len(cl'.ops) = Len(cl.ops)
        /\ Len(cl.ops) \in Nat /\ generation \in Nat
    BY CallRegisterCleanup, Numbers
  <1>3. CleanupChange
    BY <1>2 DEF CleanupChange
  <1>4. PICK k \in {0, cl.coord, Len(cl.coords) + 1} :
          Go(c, [Idle EXCEPT !.pc = "call", !.job = "register", !.coord = k,
                             !.gen = generation, !.rpc = "register"])
    <2>1. /\ Len([cl.coords EXCEPT ![cl.coord].done = TRUE]) = Len(cl.coords)
          /\ Len(Append(cl.coords, Coordination(generation)))
               = Len(cl.coords) + 1
          /\ Len(Append([cl.coords EXCEPT ![cl.coord].done = TRUE],
                        Coordination(generation))) = Len(cl.coords) + 1
      BY Numbers, Fields DEF Coordination, CoordinationType
    <2> QED
      BY <2>1 DEF CallRegister
  <1> DEFINE v == [Idle EXCEPT !.pc = "call", !.job = "register", !.coord = k,
                               !.gen = generation, !.rpc = "register"]
  <1>5. k \in Ref
    BY Numbers, Fields DEF Ref
  <1>6. LocalOK(v, DOMAIN ctx, Len(cl'.ops), generation, worker)
    BY <1>2, <1>5
       DEF LocalOK, LocalType, Idle, Steps, Jobs, Rpcs, Ref, AllKinds
  <1>7. thr' = [thr EXCEPT ![c] = v]
    BY <1>4 DEF Go
  <1> HIDE DEF v
  <1>8. ThreadsOK(thr', spawned, DOMAIN ctx, Len(cl'.ops), generation, worker)
    BY <1>1, <1>3, <1>6, <1>7, CleanupLocalMove
  <1>9. RestOK'
    BY <1>1 DEF CallRegister, IInv, RestOK, logs, rpcs
  <1> QED
    BY <1>3, <1>8, <1>9, CleanupStep DEF CallRegister

\* One more thread is spawned.
LEMMA LifeGrows ==
  ASSUME NEW c, NEW g, NEW w, NEW p, NEW st, NEW n,
         LifeOK(c, g, w, p, st, n)
  PROVE  LifeOK(c, g, w, p, st, n + 1)
  <1>1. 1..n \subseteq 1..(n + 1) /\ n + 1 \in Nat
    BY DEF LifeOK
  <1> QED
    BY <1>1 DEF LifeOK

LEMMA StepSchedule ==
  ASSUME IInv, NEW t \in DOMAIN thr, Schedule(t)
  PROVE  IInv'
  <1> DEFINE p == thr[t].pc
             o == cl.pending
             a == spawned + 1
             g == generation
             w == worker
             D == DOMAIN ctx
             next == AfterSched(p)
             moved == [thr EXCEPT ![t].pc = next]
             dropped == [cl EXCEPT !.pending = 0]
             failed == Finish(dropped, o, "fail")
  <1>1. /\ g \in Nat /\ w \in Nat /\ CleanupOK(cl, g, w) /\ a \in Nat
        /\ Len(cl.ops) \in Nat /\ spawned \in Nat /\ cl \in CleanupState
    BY Numbers DEF IInv
  <1>2. next \in PlainSteps /\ AfterSpawnFailure(p) \in PlainSteps
    BY DEF AfterSched, AfterSpawnFailure, PlainSteps, Steps
  <1>3. CASE thr' = moved /\ UNCHANGED <<cl, actors, spawned, released>>
    <2> HIDE DEF next
    <2>1. Goto(t, next)
      BY <1>3 DEF Goto
    <2>2. ThreadsOK(thr', spawned, D, Len(cl.ops), g, w)
      BY <1>2, <2>1, PlainMove
    <2>3. RestOK'
      BY <1>3, UnmovedRest DEF Schedule, rpcs
    <2> QED
      BY <1>3, <2>2, <2>3, LocalStep DEF Schedule
  <1>4. CASE /\ Schedulable
             /\ cl' = [cl EXCEPT !.ops[o].thread = a]
             /\ actors' = actors \cup {a}
             /\ Spawn(moved, [Local("actor", "claim", cl.ops[o].gen)
                                EXCEPT !.ref = o])
             /\ UNCHANGED released
    <2> DEFINE v == [Local("actor", "claim", cl.ops[o].gen) EXCEPT !.ref = o]
               mine == [thr[t] EXCEPT !.pc = next]
    <2>1. o \in 1..Len(cl.ops)
      BY <1>1, <1>4 DEF Schedulable, CleanupOK
    <2>2. cl.ops[o].gen \in Nat
      <3>1. cl.ops[o] \in OperationType
        BY <1>1, <2>1, Fields
      <3> QED
        BY <3>1 DEF OperationType
    <2>3. CleanupOK(cl', g, w) /\ Len(cl'.ops) = Len(cl.ops)
      <3>1. /\ o \in 1..Len(cl.ops) => a \in Nat
            /\ cl' = [cl EXCEPT !.ops[o].thread = a]
        BY <1>1, <1>4
      <3> HIDE DEF o, a
      <3>2. Noted(cl, cl', g, w)
        BY <1>1, <3>1, ThreadNoted
      <3> QED
        BY <3>2 DEF Noted
    <2>4. LocalOK(v, D, Len(cl.ops), g, w)
      <3> DEFINE h == cl.ops[o].gen
      <3>1. h \in Nat /\ o \in Nat
        BY <1>1, <2>1, <2>2
      <3>2. v = [[Idle EXCEPT !.job = "actor", !.pc = "claim", !.gen = h]
                   EXCEPT !.ref = o]
        BY DEF Local
      <3> HIDE DEF h, o, v
      <3> QED
        BY <1>1, <2>1, <3>1, <3>2
           DEF LocalOK, LocalType, Idle, Steps, Jobs, Rpcs, Ref
    <2>5. ThreadsOK(moved, spawned, D, Len(cl.ops), g, w)
      <3>1. LocalOK(mine, D, Len(cl.ops), g, w)
        BY <1>2, OwnLocal, LocalGoes
      <3>2. moved = [thr EXCEPT ![t] = mine]
        OBVIOUS
      <3> HIDE DEF mine, moved
      <3> QED
        BY <3>1, <3>2, Numbers, ThreadGoes DEF ThreadsNow
    <2>6. thr' = Put(moved, spawned + 1, v) /\ spawned' = spawned + 1
      BY <1>4 DEF Spawn
    <2> HIDE DEF moved, v
    <2>7. ThreadsOK(thr', spawned', D, Len(cl'.ops), g, w)
      BY <1>1, <2>3, <2>4, <2>5, <2>6, ThreadSpawned
    <2>8. LifeOK(ctx, g, w, prepared, stopping, spawned')
      BY <2>6, LifeGrows DEF IInv
    <2>9. RestOK'
      <3>1. actors' \subseteq Nat
        BY <1>1, <1>4 DEF IInv, RestOK
      <3> QED
        BY <1>4, <3>1 DEF Schedule, IInv, RestOK, logs, rpcs, bounds
    <2> QED
      BY <2>3, <2>7, <2>8, <2>9 DEF Schedule, IInv, lifecycle
  <1>5. CASE /\ Schedulable
             /\ cl' = ReconcileAfter(failed, cl.ops[o].gen, generation)
             /\ released' = TRUE
             /\ Exit(t) \/ Goto(t, AfterSpawnFailure(p))
             /\ UNCHANGED <<actors, spawned>>
    <2>1. o \in 1..Len(cl.ops)
      BY <1>1, <1>5 DEF Schedulable, CleanupOK
    <2>2. CleanupOK(dropped, g, w) /\ dropped.ops = cl.ops
      <3> DEFINE z == 0
                 b == cl.active
      <3>1. /\ z \in {0, cl.pending} /\ b \in 0..Len(cl.ops)
            /\ dropped = [cl EXCEPT !.pending = z, !.active = b]
        BY <1>1 DEF CleanupOK, CleanupState
      <3> HIDE DEF z, b, dropped
      <3>2. Claimed(cl, dropped, z, g, w)
        BY <1>1, <3>1, ClaimOK
      <3> QED
        BY <3>2 DEF Claimed
    <2> HIDE DEF dropped
    <2>3. CleanupOK(failed, g, w) /\ Len(failed.ops) = Len(cl.ops)
      <3> DEFINE x == "fail"
      <3>1. o \in 1..Len(dropped.ops) /\ x \in {"ok", "fail"}
        BY <2>1, <2>2
      <3> HIDE DEF o, x
      <3>2. Edited(dropped, Finish(dropped, o, x), g, w)
        BY <1>1, <2>2, <3>1, FinishOK
      <3> QED
        BY <2>2, <3>2 DEF Edited, x
    <2> HIDE DEF failed
    <2>4. CleanupChange
      BY <1>1, <1>5, <2>3, ReconcileAfterOK DEF CleanupChange
    <2>5. ThreadsOK(thr', spawned, D, Len(cl'.ops), g, w)
      BY <1>2, <1>5, <2>4, CleanupPlainExit, CleanupPlainMove
    <2>6. RestOK'
      BY <1>5 DEF Schedule, IInv, RestOK, logs, rpcs, bounds
    <2> QED
      BY <1>5, <2>4, <2>5, <2>6, CleanupStep DEF Schedule
  <1> QED
    BY <1>3, <1>4, <1>5 DEF Schedule

-----------------------------------------------------------------------------
(* The steps that change the lifecycle.                                    *)

\* A context is edited: f2 is f after that.
ContextEdited(f, f2, D, p) ==
  /\ f2 \in [D -> ContextType]
  /\ \A q \in D : f2[q].gen = f[q].gen
  /\ \A q \in D : q # p => f2[q] = f[q]

LEMMA ContextChange ==
  ASSUME NEW D, NEW f \in [D -> ContextType], NEW p \in D,
         NEW v \in ContextType, v.gen = f[p].gen,
         NEW f2, f2 = [f EXCEPT ![p] = v]
  PROVE  ContextEdited(f, f2, D, p) /\ f2[p] = v
BY DEF ContextEdited

\* A context that is told to stop, and one that is let through besides.
LEMMA ContextStops ==
  ASSUME NEW D, NEW f \in [D -> ContextType], NEW p \in D,
         NEW f2, f2 \in {[f EXCEPT ![p].stop = TRUE],
                         [f EXCEPT ![p].stop = TRUE, ![p].open = TRUE]}
  PROVE  ContextEdited(f, f2, D, p)
  <1> DEFINE u == [f[p] EXCEPT !.stop = TRUE]
             v == [f[p] EXCEPT !.stop = TRUE, !.open = TRUE]
  <1>1. f[p] \in ContextType
    OBVIOUS
  <1>2. /\ u \in ContextType /\ v \in ContextType
        /\ u.gen = f[p].gen /\ v.gen = f[p].gen
    BY <1>1 DEF ContextType
  <1>3. [f EXCEPT ![p].stop = TRUE] = [f EXCEPT ![p] = u]
    OBVIOUS
  <1>4. [f EXCEPT ![p].stop = TRUE, ![p].open = TRUE] = [f EXCEPT ![p] = v]
    OBVIOUS
  <1> HIDE DEF u, v
  <1>5. CASE f2 = [f EXCEPT ![p] = u]
    BY <1>2, <1>5, ContextChange
  <1>6. CASE f2 = [f EXCEPT ![p] = v]
    BY <1>2, <1>6, ContextChange
  <1> QED
    BY <1>3, <1>4, <1>5, <1>6

\* A candidate that is cancelled: told to stop, let through, and no owner.
LEMMA ContextCancelled ==
  ASSUME NEW p \in DOMAIN ctx, ctx \in [DOMAIN ctx -> ContextType]
  PROVE  ContextEdited(ctx, Cancelled(p), DOMAIN ctx, p)
  <1> DEFINE o == [ctx[p] EXCEPT !.stop = TRUE, !.open = TRUE, !.owner = FALSE]
  <1>1. ctx[p] \in ContextType
    OBVIOUS
  <1>2. o \in ContextType /\ o.gen = ctx[p].gen
    BY <1>1 DEF ContextType
  <1>3. Cancelled(p) = [ctx EXCEPT ![p] = o]
    BY DEF Cancelled
  <1> HIDE DEF o
  <1> QED
    BY <1>2, <1>3, ContextChange

\* A worker that goes away, or a generation that begins with nothing pending
\* and no window, asks less of the cleanup state.
LEMMA WorkerGone ==
  ASSUME NEW s, NEW g \in Nat, NEW w \in Nat, CleanupOK(s, g, w)
  PROVE  CleanupOK(s, g, 0)
BY DEF CleanupOK

LEMMA NextGeneration ==
  ASSUME NEW s, NEW g \in Nat, NEW w \in Nat, CleanupOK(s, g, w),
         s.pending = 0, s.coord = 0, NEW u \in Nat
  PROVE  CleanupOK(s, g + 1, u)
  <1>1. s.removed \in Gen /\ s.removed <= g
    BY Fields DEF CleanupOK
  <1>2. s.removed <= g + 1 /\ s.removed # g + 1
    BY <1>1 DEF Gen, NoGen
  <1> QED
    BY <1>2 DEF CleanupOK

\* stop() and shutdown() leave no worker and no candidate.
LEMMA StopLocalOK ==
  ASSUME IInv, StopLocal
  PROVE  /\ LifeOK(ctx', generation, 0, 0, stopping', spawned)
         /\ DOMAIN ctx' = DOMAIN ctx
         /\ worker' = 0 /\ prepared' = 0 /\ generation' = generation
  <1> DEFINE D == DOMAIN ctx
             x == IF prepared = 0 THEN ctx ELSE Discarded(prepared)
             y == IF worker = 0 THEN x ELSE [x EXCEPT ![worker].stop = TRUE]
  <1>1. /\ ctx \in [D -> ContextType] /\ stopping \subseteq D
        /\ worker \in D \cup {0} /\ prepared \in D \cup {0}
        /\ D \subseteq 1..spawned /\ spawned \in Nat /\ generation \in Nat
    BY DEF IInv, LifeOK
  <1>2. x \in [D -> ContextType]
    <2>1. CASE prepared = 0
      BY <1>1, <2>1
    <2>2. CASE prepared # 0
      BY <1>1, <2>2, ContextStops DEF Discarded, ContextEdited
    <2> QED
      BY <2>1, <2>2
  <1>3. ctx' = y
    BY DEF StopLocal
  <1> HIDE DEF x
  <1>4. y \in [D -> ContextType]
    <2>1. CASE worker = 0
      BY <1>2, <2>1
    <2>2. CASE worker # 0
      BY <1>1, <1>2, <2>2, ContextStops DEF ContextEdited
    <2> QED
      BY <2>1, <2>2
  <1>5. stopping' \subseteq D
    BY <1>1 DEF StopLocal
  <1> HIDE DEF y
  <1> QED
    BY <1>1, <1>3, <1>4, <1>5 DEF StopLocal, LifeOK

\* A step of a stopping operation: the lifecycle stops, the cleanup state
\* keeps its shape without a worker, and the caller takes a new local state.
LEMMA StopStep ==
  ASSUME IInv, StopLocal, NEW c \in DOMAIN thr, NEW v,
         CleanupOK(cl', generation, 0), Len(cl.ops) <= Len(cl'.ops),
         LocalOK(v, DOMAIN ctx, Len(cl'.ops), generation, 0),
         thr' = [thr EXCEPT ![c] = v], spawned' = spawned, RestOK'
  PROVE  IInv'
  <1>1. /\ LifeOK(ctx', generation, 0, 0, stopping', spawned)
        /\ DOMAIN ctx' = DOMAIN ctx
        /\ worker' = 0 /\ prepared' = 0 /\ generation' = generation
    BY StopLocalOK
  <1>2. Grows(spawned, DOMAIN ctx, Len(cl.ops), generation, worker,
              spawned, DOMAIN ctx, Len(cl'.ops), generation, 0)
    <2>1. Len(cl'.ops) \in Nat
      BY Fields DEF CleanupOK
    <2> QED
      BY <2>1, Numbers DEF Grows
  <1>3. ThreadsOK(thr', spawned, DOMAIN ctx, Len(cl'.ops), generation, 0)
    BY <1>2, Numbers, ThreadGoes DEF ThreadsNow
  <1> QED
    BY <1>1, <1>3 DEF IInv

LEMMA StepCallStop ==
  ASSUME IInv, NEW c \in Callers, NEW k, CallStop(c, k)
  PROVE  IInv'
  <1> DEFINE r == RequestRemove(cl, generation)
  <1>1. /\ c \in DOMAIN thr /\ calls' \in Nat /\ UNCHANGED <<renewals, rpcs>>
        /\ k \in Jobs
    BY Invoked DEF CallStop
  <1>2. /\ generation \in Nat /\ CleanupOK(cl, generation, 0)
        /\ Len(cl.ops) \in Nat
    BY Numbers, WorkerGone DEF IInv
  <1>3. CleanupOK(cl', generation, 0) /\ Len(cl.ops) <= Len(cl'.ops)
    <2>1. cl' \in {cl, r.cl}
      BY DEF CallStop, Keep
    <2>2. CleanupOK(r.cl, generation, 0) /\ Len(cl.ops) <= Len(r.cl.ops)
      BY <1>2, RequestRemoveOK
    <2> HIDE DEF r
    <2> QED
      BY <1>2, <2>1, <2>2
  <1>4. PICK p \in {"schedStop", "closeTail"} : Go(c, Local(k, p, generation))
    BY DEF CallStop
  <1> DEFINE v == [Idle EXCEPT !.job = k, !.pc = p, !.gen = generation]
  <1>5. v \in LocalType
    BY <1>1, <1>2
       DEF Idle, LocalType, Steps, SchedSites, Rpcs, Ref
  <1>6. v.pc = p /\ v.rpc = "none" /\ v.job = k
    BY DEF Idle
  <1>7. k # "actor"
    BY DEF CallStop
  <1>8. thr' = [thr EXCEPT ![c] = v]
    BY <1>4 DEF Go, Local
  <1> HIDE DEF v
  <1>9. LocalOK(v, DOMAIN ctx, Len(cl'.ops), generation, 0)
    BY <1>5, <1>6, <1>7 DEF LocalOK
  <1>10. RestOK'
    <2>1. owed' \in BOOLEAN
      BY Zenon DEF CallStop, IInv, RestOK
    <2> QED
      BY <1>1, <2>1 DEF CallStop, IInv, RestOK, logs, rpcs
  <1> QED
    BY <1>1, <1>3, <1>8, <1>9, <1>10, StopStep DEF CallStop

LEMMA StepCallShutdown ==
  ASSUME IInv, NEW c \in Callers, NEW k, CallShutdown(c, k)
  PROVE  IInv'
  <1>1. /\ c \in DOMAIN thr /\ calls' \in Nat /\ UNCHANGED <<renewals, rpcs>>
        /\ k \in Jobs
    BY Invoked DEF CallShutdown
  <1>2. /\ generation \in Nat /\ CleanupOK(cl, generation, 0)
        /\ Len(cl.ops) \in Nat /\ Len(cl.coords) \in Nat
    BY Numbers, WorkerGone DEF IInv
  <1>3. CleanupOK(cl', generation, 0) /\ Len(cl.ops) <= Len(cl'.ops)
    <2>1. CASE cl' = cl
      BY <1>2, <2>1
    <2>2. CASE cl' # cl
      <3> DEFINE w == 0
                 d == Window
                 g == generation
                 v == [cl.coords[d] EXCEPT !.requested = TRUE]
      <3>1. d # 0 /\ cl' = [cl EXCEPT !.coords[d].requested = TRUE]
        BY <2>2 DEF CallShutdown
      <3>2. d \in 1..Len(cl.coords)
        BY <1>2, <3>1 DEF CleanupOK, Window
      <3>3. cl.coords[d] \in CoordinationType
        BY <3>2, Numbers, Fields
      <3>4. v \in CoordinationType /\ v.gen = cl.coords[d].gen
        BY <3>3 DEF CoordinationType
      <3>5. /\ cl' = [cl EXCEPT !.coords = [cl.coords EXCEPT ![d] = v]]
            /\ w = 0 \/ v.requested = cl.coords[d].requested
            /\ w \in Nat /\ g \in Nat /\ CleanupOK(cl, g, w)
        BY <1>2, <3>1
      <3> HIDE DEF d, v, w, g
      <3>6. Edited(cl, cl', g, w)
        BY <3>2, <3>4, <3>5, CoordinationChange
      <3> QED
        BY <1>2, <3>6 DEF Edited, w, g
    <2> QED
      BY <2>1, <2>2
  <1>4. PICK p \in {"request", "closeTail"} : Go(c, Local(k, p, generation))
    BY DEF CallShutdown
  <1> DEFINE v == [Idle EXCEPT !.job = k, !.pc = p, !.gen = generation]
  <1>5. v \in LocalType
    BY <1>1, <1>2
       DEF Idle, LocalType, Steps, SchedSites, Rpcs, Ref
  <1>6. v.pc = p /\ v.rpc = "none" /\ v.job = k /\ v.gen = generation
    BY DEF Idle
  <1>7. k # "actor"
    BY DEF CallShutdown
  <1>8. thr' = [thr EXCEPT ![c] = v]
    BY <1>4 DEF Go, Local
  <1> HIDE DEF v
  <1>9. LocalOK(v, DOMAIN ctx, Len(cl'.ops), generation, 0)
    BY <1>2, <1>5, <1>6, <1>7 DEF LocalOK
  <1>10. RestOK'
    <2>1. owed' \in BOOLEAN
      BY Zenon DEF CallShutdown, IInv, RestOK
    <2> QED
      BY <1>1, <2>1 DEF CallShutdown, IInv, RestOK, rpcs
  <1> QED
    BY <1>1, <1>3, <1>8, <1>9, <1>10, StopStep DEF CallShutdown

LEMMA StepCallStart ==
  ASSUME IInv, NEW c \in Callers, NEW k, CallStart(c, k)
  PROVE  IInv'
  <1> DEFINE t == spawned + 1
             D == DOMAIN ctx
             D2 == D \cup {t}
             n == Len(cl.ops)
             g == generation
             w == worker
  <1>1. /\ c \in DOMAIN thr /\ calls' \in Nat /\ UNCHANGED <<renewals, rpcs>>
        /\ k \in Jobs
    BY Invoked DEF CallStart
  <1>2. RestOK'
    BY <1>1 DEF CallStart, IInv, RestOK, logs, rpcs
  <1>3. /\ g \in Nat /\ spawned \in Nat /\ t \in Nat /\ n \in Nat
        /\ t \notin D /\ D \subseteq 1..spawned /\ t # 0
        /\ LifeOK(ctx, g, w, prepared, stopping, spawned)
    BY Numbers DEF IInv, LifeOK
  <1>4. CASE UNCHANGED <<prepared, ctx, thr, spawned>>
    BY <1>2, <1>4 DEF CallStart, IInv
  <1> DEFINE vc == [Idle EXCEPT !.pc = "prepared", !.job = k, !.ref = t]
             vw == [Idle EXCEPT !.job = "worker", !.pc = "gate", !.gen = g + 1]
             f  == [thr EXCEPT ![c] = vc]
  <1>5. CASE /\ ~(worker # 0 /\ generation = ctx[worker].gen) /\ prepared = 0
             /\ prepared' = t
             /\ ctx' = Put(ctx, t, Context(generation + 1))
             /\ Spawn(f, Local("worker", "gate", generation + 1))
    <2>1. worker = 0
      BY <1>5 DEF IInv, LifeOK
    <2>2. Context(g + 1) \in ContextType /\ Context(g + 1).gen = g + 1
          /\ ~Context(g + 1).stop /\ Context(g + 1).owner
      BY <1>3 DEF Context, ContextType, Ref
    <2>3. /\ ctx' \in [D2 -> ContextType] /\ DOMAIN ctx' = D2
          /\ ctx'[t].gen = g + 1 /\ ~ctx'[t].stop /\ ctx'[t].owner
      <3> HIDE DEF t
      <3>1. ctx \in [D -> ContextType]
        BY <1>3 DEF LifeOK
      <3> QED
        BY <1>5, <2>2, <3>1 DEF Put
    <2>4. LifeOK(ctx', g, w, t, stopping, t)
      <3>1. stopping \subseteq D /\ D2 \subseteq 1..t
        BY <1>3 DEF LifeOK
      <3> HIDE DEF t, D, D2
      <3>2. t \in D2 /\ stopping \subseteq D2
        BY <3>1 DEF D2
      <3> QED
        BY <1>3, <2>1, <2>3, <3>1, <3>2 DEF LifeOK
    <2>5. vc \in LocalType /\ vc.pc = "prepared" /\ vc.ref = t
          /\ vc.rpc = "none" /\ vc.job = k
      BY <1>1, <1>3 DEF Idle, LocalType, Steps, Rpcs, Ref
    <2>6. k # "actor"
      BY DEF CallStart
    <2>7. LocalOK(vc, D2, n, g, w)
      <3> HIDE DEF vc
      <3> QED
        BY <2>5, <2>6 DEF LocalOK
    <2>8. LocalOK(vw, D2, n, g, w)
      <3>1. vw \in LocalType /\ vw.pc = "gate" /\ vw.rpc = "none"
            /\ vw.job = "worker"
        <4> DEFINE h == g + 1
        <4>1. h \in Nat
          BY <1>3
        <4> HIDE DEF h
        <4>2. [Idle EXCEPT !.job = "worker", !.pc = "gate", !.gen = h]
                \in LocalType
          BY <4>1 DEF Idle, LocalType, Steps, Jobs, Rpcs, Ref
        <4>3. vw \in LocalType
          BY <4>2 DEF h
        <4> QED
          BY <4>3 DEF Idle
      <3> HIDE DEF vw
      <3> QED
        BY <3>1 DEF LocalOK
    <2>9. Grows(spawned, D, n, g, w, spawned, D2, n, g, w)
      BY <1>3 DEF Grows
    <2>10. thr' = Put(f, spawned + 1, vw) /\ spawned' = t
      BY <1>5 DEF Spawn, Local
    <2> HIDE DEF vc, vw
    <2>11. ThreadsOK(f, spawned, D2, n, g, w)
      BY <1>1, <2>7, <2>9, Numbers, ThreadGoes DEF ThreadsNow
    <2> HIDE DEF f
    <2>12. ThreadsOK(thr', t, D2, n, g, w)
      BY <1>3, <2>8, <2>10, <2>11, ThreadSpawned
    <2>13. /\ generation' = g /\ worker' = w /\ stopping' = stopping
           /\ cl' = cl /\ prepared' = t
      BY <1>5 DEF CallStart
    <2> HIDE DEF t, D2
    <2> QED
      BY <1>2, <2>3, <2>4, <2>10, <2>12, <2>13 DEF IInv
  <1> QED
    BY <1>4, <1>5 DEF CallStart, Started

LEMMA StepActivate ==
  ASSUME IInv, NEW t \in DOMAIN thr, Activate(t)
  PROVE  IInv'
  <1> DEFINE p == thr[t].ref
             g == generation
             D == DOMAIN ctx
             detached == Detach(cl)
             x == [ctx[p] EXCEPT !.wait = cl.active, !.open = TRUE]
  <1>1. /\ p \in D /\ p # 0 /\ ctx \in [D -> ContextType]
        /\ LifeOK(ctx, g, worker, prepared, stopping, spawned)
    <2>1. p \in D
      BY OwnLocal DEF Activate, At, LocalOK
    <2> QED
      BY <2>1 DEF IInv, LifeOK
  <1>2. /\ g \in Nat /\ worker \in Nat /\ CleanupOK(cl, g, worker)
        /\ cl \in CleanupState
        /\ Len(cl.ops) \in Nat /\ Len(cl.coords) \in Nat /\ spawned \in Nat
    BY Numbers DEF IInv
  <1>3. Exit(t) \/ Goto(t, "raised")
    BY DEF Activate
  <1>4. CASE prepared # p
    <2>1. Exit(t) /\ UNCHANGED <<lifecycle, cl, released, owed>>
      BY <1>4 DEF Activate
    <2>2. ThreadsOK(thr', spawned, D, Len(cl.ops), g, worker)
      BY <2>1, PlainExit
    <2> QED
      BY <2>1, <2>2, UnmovedRest, LocalStep DEF Activate, rpcs
  <1>5. CASE prepared = p
    <2>1. worker = 0 /\ ctx[p].gen = g + 1 /\ ~ctx[p].stop /\ ctx[p].owner
      BY <1>1, <1>5 DEF LifeOK
    <2>2. /\ stopping' = stopping
          /\ generation' = g + 1 /\ worker' = p /\ prepared' = 0
          /\ ctx' = [ctx EXCEPT ![p].wait = cl.active, ![p].open = TRUE]
          /\ cl' = Cancel(Detach(cl), cl.pending)
          /\ owed' = FALSE /\ released' = FALSE /\ Exit(t)
          /\ UNCHANGED <<actors, logs, net, rpcSeq, applied, remote, spawned,
                         bounds>>
      BY <1>5, <2>1 DEF Activate
    <2>3. x \in ContextType /\ x.gen = g + 1 /\ ~x.stop
      <3>1. ctx[p] \in ContextType
        BY <1>1
      <3>2. cl.active \in Ref
        BY <1>2, Fields DEF Ref
      <3> QED
        BY <2>1, <3>1, <3>2 DEF ContextType
    <2>4. ctx' = [ctx EXCEPT ![p] = x]
      BY <1>1, <2>2
    <2> HIDE DEF x
    <2>5. ctx' \in [D -> ContextType] /\ ctx'[p] = x
      BY <1>1, <2>3, <2>4
    <2>6. LifeOK(ctx', g + 1, p, 0, stopping, spawned)
      <3> HIDE DEF p
      <3>1. /\ D \subseteq 1..spawned /\ stopping \subseteq D /\ spawned \in Nat
            /\ g + 1 \in Nat
        BY <1>1 DEF LifeOK
      <3>2. DOMAIN ctx' = D
        BY <2>5
      <3> HIDE DEF D, g
      <3> QED
        BY <1>1, <2>3, <2>5, <3>1, <3>2 DEF LifeOK
    <2>7. /\ CleanupOK(detached, g, worker) /\ detached.coord = 0
          /\ detached.pending = cl.pending
          /\ Len(detached.ops) = Len(cl.ops)
      <3>1. CASE cl.coord = 0
        BY <1>2, <3>1 DEF Detach
      <3>2. CASE cl.coord # 0
        <4> DEFINE c == cl.coord
                   w == worker
                   v == [cl.coords[c] EXCEPT !.done = TRUE]
                   q == [cl EXCEPT !.coords = [cl.coords EXCEPT ![c] = v]]
                   r == [q EXCEPT !.coord = 0]
        <4>1. c \in 1..Len(cl.coords)
          BY <1>2, <3>2 DEF CleanupOK
        <4>2. cl.coords[c] \in CoordinationType
          BY <1>2, <4>1, Fields
        <4>3. /\ v \in CoordinationType /\ v.gen = cl.coords[c].gen
              /\ v.requested = cl.coords[c].requested
          BY <4>2 DEF CoordinationType
        <4>4. detached = r
          BY <3>2 DEF Detach
        <4> HIDE DEF v, w, c, g
        <4>5. Edited(cl, q, g, w)
          BY <1>2, <4>1, <4>3, CoordinationChange DEF w
        <4> HIDE DEF q
        <4>6. CleanupOK(q, g, w) /\ q.pending = cl.pending
              /\ Len(q.ops) = Len(cl.ops)
          BY <4>5 DEF Edited
        <4>7. /\ CleanupOK(r, g, w) /\ r.ops = q.ops /\ r.coord = 0
              /\ r.pending = q.pending
          BY <1>2, <4>6, WindowDetached DEF w
        <4> HIDE DEF r, detached
        <4> QED
          BY <4>4, <4>6, <4>7 DEF w
      <3> QED
        BY <3>1, <3>2
    <2> HIDE DEF detached
    <2>8. /\ CleanupOK(cl', g, worker) /\ Len(cl'.ops) = Len(cl.ops)
          /\ cl'.coord = 0 /\ cl'.pending = 0
      <3> DEFINE o == cl.pending
                 w == worker
      <3>1. o \in 0..Len(detached.ops) /\ o = detached.pending
        BY <2>7 DEF CleanupOK
      <3> HIDE DEF o, g, w
      <3>2. /\ CleanupOK(Cancel(detached, o), g, w)
            /\ Len(Cancel(detached, o).ops) = Len(detached.ops)
            /\ Cancel(detached, o).coord = detached.coord
            /\ Cancel(detached, o).pending = 0
        BY <1>2, <2>7, <3>1, CancelOK DEF w
      <3> QED
        BY <2>2, <2>7, <3>2 DEF o, w, detached
    <2>9. CleanupOK(cl', g + 1, p)
      <3>1. p \in Nat
        BY OwnLocal
      <3> HIDE DEF p, g
      <3> QED
        BY <1>2, <2>8, <3>1, NextGeneration
    <2>10. ThreadsOK(thr', spawned, D, Len(cl'.ops), g + 1, p)
      <3>1. Grows(spawned, D, Len(cl.ops), g, worker,
                  spawned, D, Len(cl'.ops), g + 1, p)
        BY <1>2, <2>8 DEF Grows
      <3> HIDE DEF D, g, p
      <3> QED
        BY <2>2, <3>1, Numbers, ThreadExits DEF ThreadsNow, Exit, D, g
    <2>11. RestOK'
      BY <2>2 DEF IInv, RestOK, logs, rpcs, bounds
    <2> HIDE DEF p, g
    <2> QED
      BY <2>2, <2>5, <2>6, <2>9, <2>10, <2>11 DEF IInv
  <1> QED
    BY <1>4, <1>5

LEMMA StepCancelPrepared ==
  ASSUME IInv, NEW t \in DOMAIN thr, CancelPrepared(t)
  PROVE  IInv'
  <1> DEFINE p == thr[t].ref
             D == DOMAIN ctx
  <1>1. RestOK'
    BY UnmovedRest DEF CancelPrepared
  <1>2. ThreadsOK(thr', spawned, D, Len(cl.ops), generation, worker)
    BY PlainExit DEF CancelPrepared
  <1>3. CASE prepared # p
    BY <1>1, <1>2, <1>3, LocalStep DEF CancelPrepared, lifecycle
  <1>4. CASE prepared = p
    <2>1. /\ prepared' = 0 /\ ctx' = Cancelled(p)
          /\ UNCHANGED <<generation, worker, stopping, cl, spawned>>
      BY <1>4 DEF CancelPrepared
    <2>2. /\ LifeOK(ctx, generation, worker, p, stopping, spawned)
          /\ p \in D /\ ctx \in [D -> ContextType] /\ p # 0
      <3>1. p \in D
        BY OwnLocal DEF CancelPrepared, At, LocalOK
      <3> QED
        BY <1>4, <3>1 DEF IInv, LifeOK
    <2>3. ContextEdited(ctx, ctx', D, p)
      BY <2>1, <2>2, ContextCancelled
    <2>4. DOMAIN ctx' = D
      BY <2>3 DEF ContextEdited
    <2>5. LifeOK(ctx', generation, worker, 0, stopping, spawned)
      <3> HIDE DEF p
      <3> QED
        BY <2>2, <2>3, <2>4 DEF LifeOK, ContextEdited
    <2> QED
      BY <1>1, <1>2, <2>1, <2>4, <2>5 DEF IInv
  <1> QED
    BY <1>3, <1>4

LEMMA StepFinishWorker ==
  ASSUME IInv, NEW t \in DOMAIN thr, FinishWorker(t)
  PROVE  IInv'
  <1> DEFINE D == DOMAIN ctx
             g == generation
             w == IF worker = t THEN 0 ELSE worker
             o == cl.pending
             v == [thr[t] EXCEPT !.pc = "call", !.rpc = "cleanup", !.ref = o]
  <1>1. /\ generation' = g /\ prepared' = prepared /\ ctx' = ctx
        /\ spawned' = spawned /\ worker' = w /\ stopping' = stopping \ {t}
    BY DEF FinishWorker
  <1>2. /\ g \in Nat /\ worker \in Nat /\ w \in Nat /\ CleanupOK(cl, g, worker)
        /\ Len(cl.ops) \in Nat
    BY Numbers DEF IInv
  <1>3. LifeOK(ctx, g, w, prepared, stopping \ {t}, spawned)
    BY DEF IInv, LifeOK
  <1>4. CleanupOK(cl, g, w)
    BY <1>2, WorkerGone
  <1>5. RestOK'
    BY UnmovedRest DEF FinishWorker
  <1>6. Grows(spawned, D, Len(cl.ops), g, worker,
              spawned, D, Len(cl.ops), g, w)
    BY <1>2, Numbers DEF Grows
  <1> HIDE DEF w
  <1>7. CASE Goto(t, "schedTail") /\ UNCHANGED cl
    <2> DEFINE u == [thr[t] EXCEPT !.pc = "schedTail"]
    <2>1. "schedTail" \in PlainSteps
      BY DEF PlainSteps, Steps, SchedSites
    <2>2. LocalOK(u, D, Len(cl.ops), g, w)
      <3>1. LocalOK(thr[t], D, Len(cl.ops), g, w)
        BY <1>6, OwnLocal, LocalStable
      <3> QED
        BY <2>1, <3>1, LocalGoes
    <2>3. thr' = [thr EXCEPT ![t] = u]
      BY <1>7 DEF Goto
    <2> HIDE DEF u
    <2>4. ThreadsOK(thr', spawned, D, Len(cl.ops), g, w)
      BY <1>6, <2>2, <2>3, Numbers, ThreadGoes DEF ThreadsNow
    <2> QED
      BY <1>1, <1>3, <1>4, <1>5, <1>7, <2>4 DEF IInv
  <1>8. CASE /\ o # 0
             /\ cl' = [cl EXCEPT !.pending = 0, !.active = o]
             /\ thr' = [thr EXCEPT ![t] = v]
    <2>1. o \in 1..Len(cl.ops)
      BY <1>2, <1>8 DEF CleanupOK
    <2>2. LocalOK(v, D, Len(cl.ops), g, w)
      <3>1. o \in Ref
        BY <1>2, <2>1 DEF Ref
      <3>2. v \in LocalType
        BY <3>1, OwnLocal DEF LocalType, Steps, Rpcs
      <3>3. v.pc = "call" /\ v.ref = o
        BY OwnLocal DEF LocalType
      <3> HIDE DEF v, o
      <3> QED
        BY <2>1, <3>2, <3>3 DEF LocalOK
    <2>3. CleanupOK(cl', g, w) /\ Len(cl'.ops) = Len(cl.ops)
      <3> DEFINE z == 0
      <3>1. /\ z \in {0, cl.pending} /\ o \in 0..Len(cl.ops)
            /\ cl' = [cl EXCEPT !.pending = z, !.active = o]
        BY <1>2, <1>8, <2>1
      <3> HIDE DEF z, o
      <3>2. Claimed(cl, cl', z, g, w)
        BY <1>2, <1>4, <3>1, ClaimOK
      <3> QED
        BY <3>2 DEF Claimed
    <2> HIDE DEF v
    <2>4. ThreadsOK(thr', spawned, D, Len(cl.ops), g, w)
      BY <1>6, <1>8, <2>2, Numbers, ThreadGoes DEF ThreadsNow
    <2> QED
      BY <1>1, <1>3, <1>5, <2>3, <2>4 DEF IInv
  <1> QED
    BY <1>7, <1>8 DEF FinishWorker, Mine

-----------------------------------------------------------------------------
(* The invariant.                                                          *)

LEMMA InitInvariant == Init => IInv
  <1> SUFFICES ASSUME Init
               PROVE  IInv
    OBVIOUS
  <1>1. LifeOK(ctx, generation, worker, prepared, stopping, spawned)
    BY DEF Init, LifeOK
  <1>2. CleanupOK(cl, generation, worker)
    BY DEF Init, CleanupOK, CleanupState, Ref, Gen, NoGen
  <1>3. ThreadsOK(thr, spawned, DOMAIN ctx, Len(cl.ops), generation, worker)
    BY DEF Init, ThreadsOK, LocalOK, LocalType, Idle, Steps, Jobs, Rpcs, Ref
  <1>4. RestOK
    BY DEF Init, RestOK
  <1> QED
    BY <1>1, <1>2, <1>3, <1>4 DEF IInv

LEMMA NextInvariant == IInv /\ [Next]_vars => IInv'
  <1> SUFFICES ASSUME IInv, [Next]_vars
               PROVE  IInv'
    OBVIOUS
  <1>1. CASE UNCHANGED vars
    BY <1>1 DEF vars, lifecycle, logs, rpcs, bounds, IInv, RestOK
  <1>2. ASSUME NEW c \in Callers, Call(c)
        PROVE  IInv'
    BY <1>2, StepCallRegister, StepCallRemove, StepCallStart, StepCallStop,
       StepCallShutdown DEF Call
  <1>3. ASSUME NEW t \in DOMAIN thr, Step(t)
        PROVE  IInv'
    BY <1>3, StepRpcBegin, StepRpcEnd, StepCommitRegister, StepCommitPlain,
       StepCompleteRemove, StepTerminal, StepTerminalOwn, StepActivate,
       StepCancelPrepared, StepShutdownRequest, StepSchedule,
       StepMaybeCloseLogs, StepWorker, StepFinishWorker, StepClaim, StepDiscard
       DEF Step
  <1>4. ASSUME NEW t \in DOMAIN thr, Tick(t)
        PROVE  IInv'
    BY <1>4, StepWorker
  <1> QED
    BY <1>1, <1>2, <1>3, <1>4 DEF Next, Rest

LEMMA Invariant == Spec => []IInv
BY InitInvariant, NextInvariant, PTL DEF Spec

-----------------------------------------------------------------------------
(* The results.                                                            *)

\* In every state every variable of _RegistryProcessState has its type, and
\* every operation, coordination and context it or a thread names exists.
THEOREM TypeCorrect == Spec => []TypeOK
  <1>1. IInv => TypeOK
    BY PartsMakeInvariant DEF LifecycleInv
  <1> QED
    BY <1>1, Invariant, PTL

\* A live worker belongs to the newest generation, a candidate to the next,
\* and a pending removal to a current lifecycle that has ended: activation,
\* stop() and the scheduler never leave two lifecycles alive.
THEOREM OneLifecycle == Spec => []LifecycleOwnership
  <1>1. IInv => LifecycleOwnership
    BY PartsMakeInvariant DEF LifecycleInv
  <1> QED
    BY <1>1, Invariant, PTL

\* The internal errors of _activate_prepared_start are unreachable.
THEOREM ActivationNeverFails == Spec => []NeverRaised
  <1>1. IInv => NeverRaised
    BY PartsMakeInvariant DEF LifecycleInv
  <1> QED
    BY <1>1, Invariant, PTL

\* While a worker renews, remove() is never answered from the cached success
\* of an earlier removal.
THEOREM NoStaleAnswer == Spec => []NoCachedRemovalWhileLive
  <1>1. IInv => NoCachedRemovalWhileLive
    BY PartsMakeInvariant DEF LifecycleInv
  <1> QED
    BY <1>1, Invariant, PTL

\* Their conjunction with the ownership of the coordination window.
THEOREM LifecycleSafe == Spec => []LifecycleInv
BY Invariant, PartsMakeInvariant, PTL

=============================================================================
