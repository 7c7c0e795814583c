-------------------------- MODULE DeregisterProofs --------------------------
(***************************************************************************)
(* What the cleanup of Registry achieves, for any number of callers,       *)
(* calls, renewals and faults: once everything has come to rest after a    *)
(* cleanup was asked for, the Admin server does not list the executor,     *)
(* whatever overlapped it.                                                 *)
(*                                                                         *)
(* CallsInv is the bookkeeping: the calls that were sent are numbered, and *)
(* a window counts the registers in flight.  CleanupInv says of every      *)
(* listing that the library answers for what is still to come for it: a    *)
(* removal, the completion of a register, or a cleanup that is possible    *)
(* and that, once asked for, waits for a register or a shutdown.           *)
(*                                                                         *)
(* The next part is about the manual API before the first lifecycle: what  *)
(* the registered flag says of the Admin server while no call fails.       *)
(*                                                                         *)
(* The last part is the refinement: every step of the registry is a step   *)
(* of RegistryContract or is not seen by it, and what follows from that.   *)
(* It stands on the invariants above, and on WireInv, which says whose     *)
(* call is under way.                                                      *)
(***************************************************************************)
EXTENDS RemovalProofs, FiniteSetTheorems

-----------------------------------------------------------------------------
(* The invariants.                                                         *)

\* A register call that is under way, and those of the coordination k.
Registering(v) == v.rpc = "register" /\ v.pc \in AdminSteps

InWindow(k) == {t \in DOMAIN thr : Registering(thr[t]) /\ thr[t].coord = k}

\* What is known of the coordination that a register has joined.
JoinOK(v) == /\ v.coord \in 0..Len(cl.coords)
             /\ v.coord # 0 => cl.coords[v.coord].gen = v.gen

CountOK ==
  /\ \A k \in 1..Len(cl.coords) :
       /\ IsFiniteSet(InWindow(k))
       /\ cl.coords[k].inflight = Cardinality(InWindow(k))
  /\ \A t \in DOMAIN thr : Registering(thr[t]) => JoinOK(thr[t])

\* The calls that were sent have numbers of their own; the one that is under
\* way holds network_lock and has the last number.
Sent(v) == v.pc \in {"rpc", "commit"}

SentOK ==
  /\ \A t \in DOMAIN thr : Sent(thr[t]) => thr[t].seq \in 1..rpcSeq
  /\ \A t, u \in DOMAIN thr :
       Sent(thr[t]) /\ Sent(thr[u]) /\ t # u => thr[t].seq # thr[u].seq
  /\ \A t \in DOMAIN thr : thr[t].pc = "rpc" => net = t /\ thr[t].seq = rpcSeq
  /\ applied <= rpcSeq

\* A removal outside of the terminal protocol is one of a lifecycle.
OneShotOK(v) == v.rpc = "remove" => /\ v.gen <= generation
                                    /\ v.pc \in AdminSteps => generation > 0

CallsInv == CountOK /\ SentOK /\ \A t \in DOMAIN thr : OneShotOK(thr[t])

\* The removal of a live generation was not asked for, and what a cleanup that
\* was asked for waits for is the window.
AskedOK ==
  /\ cl.requested <= generation
  /\ worker # 0 => cl.requested # generation /\ ~owed /\ generation > 0
  /\ owed /\ cl.coord # 0 => cl.coords[cl.coord].requested

\* No removal takes effect while a renewal is under way.
Renews(v) == v.rpc = "renewal" /\ v.pc = "rpc"

RenewalFirst == \A t, w \in DOMAIN thr :
  Removing(t) /\ Renews(thr[w]) => thr[t].pc = "call"

\* The executor is listed or may be, and the library has to answer for it.
Listing == remote \/ \E w \in DOMAIN thr : Renews(thr[w])
Liable  == ~released /\ Listing

\* The register v has listed the executor and is about to say so to its window.
Arriving(v) == /\ v.rpc = "register" /\ v.pc = "commit" /\ v.ok
               /\ v.coord # 0 /\ v.coord = cl.coord

\* It will reopen the cleanup.
ArrivalReopens ==
  Liable /\ (\E t \in DOMAIN thr : Arriving(thr[t])) => ~Spent

\* The removal of the thread t was accepted by the Admin server.
Succeeded(t) == /\ thr[t].rpc = "cleanup" /\ thr[t].pc = "commit" /\ thr[t].ok
                /\ cl.ops[thr[t].ref].gen = generation

\* What has listed the executor after a removal completes after it.
ListedAfter == \A t \in DOMAIN thr :
  Succeeded(t) /\ remote /\ ~released =>
    \/ applied > thr[t].seq
    \/ \E u \in DOMAIN thr : Arriving(thr[u]) /\ thr[u].seq > thr[t].seq

\* A cleanup of generation g is possible in the cleanup state s.
OpenAt(s, g) == s.removed # g /\ s.requested # g /\ (g > 0 \/ s.registered)

InflightAt(s) == s.coord # 0 /\ s.coords[s.coord].inflight > 0

Requesting == \E t \in DOMAIN thr : /\ thr[t].pc = "request"
                                    /\ thr[t].gen = generation

\* What is still to come for a listing.
ToCome ==
  \/ cl.pending # 0
  \/ \E t \in DOMAIN thr : thr[t].rpc = "cleanup" /\ thr[t].pc \in {"call", "rpc"}
  \/ \E t \in DOMAIN thr : Arriving(thr[t])
  \/ OpenAt(cl, generation) /\ (owed => InflightAt(cl) \/ Requesting)

CleanupInv == /\ AskedOK /\ RenewalFirst
              /\ ArrivalReopens /\ ListedAfter
              /\ Liable => ToCome

-----------------------------------------------------------------------------
(* What the helpers do to the cleanup.                                     *)

\* c is s with a removal of generation g asked for, or not.
Asks(s, c, g) ==
  /\ c.registered = s.registered /\ c.removed = s.removed
  /\ c.active = s.active
  /\ s.pending # 0 => c.pending # 0
  /\ c.requested = s.requested \/ (c.requested = g /\ c.pending # 0)
  /\ Len(s.ops) <= Len(c.ops)
  /\ \A o \in 1..Len(s.ops) : c.ops[o].gen = s.ops[o].gen

\* The counts of the coordinations are the same.
SameCounts(s, c) ==
  /\ Len(c.coords) = Len(s.coords)
  /\ \A k \in 1..Len(s.coords) : /\ c.coords[k].inflight = s.coords[k].inflight
                                 /\ c.coords[k].gen = s.coords[k].gen

LEMMA EnsurePendingAsks ==
  ASSUME NEW s, NEW g \in Nat, CleanupOK(s, g, 0),
         NEW r, r = EnsurePending(s, g)
  PROVE  /\ Asks(s, r.cl, g)
         /\ r.cl.coord = s.coord /\ r.cl.coords = s.coords
         /\ OpenAt(s, g) => r.cl.pending # 0
         /\ r = [cl |-> r.cl, op |-> r.op]
  <1> DEFINE q     == Append(s.ops, Operation(g))
             n     == Len(s.ops) + 1
             new   == [s EXCEPT !.requested = g, !.ops = q, !.pending = n]
             again == [s EXCEPT !.requested = g]
  <1>1. s \in CleanupState /\ n \in Nat /\ n # 0 /\ Len(s.ops) \in Nat
    BY Fields DEF CleanupOK
  <1>2. s.pending # 0 => s.ops[s.pending].gen = g
    BY DEF CleanupOK
  <1>3. \/ r = Keep(s) /\ (OpenAt(s, g) => s.pending # 0)
        \/ r = [cl |-> again, op |-> s.pending] /\ s.pending # 0
        \/ r = [cl |-> new, op |-> n]
    BY <1>1, <1>2 DEF EnsurePending, OpenAt
  <1>4. /\ new.pending = n /\ new.ops = q /\ new.requested = g
        /\ new.active = s.active /\ new.removed = s.removed
        /\ new.coord = s.coord /\ new.coords = s.coords
        /\ new.registered = s.registered
    BY <1>1 DEF CleanupState
  <1>5. /\ again.pending = s.pending /\ again.ops = s.ops
        /\ again.active = s.active /\ again.removed = s.removed
        /\ again.coord = s.coord /\ again.coords = s.coords
        /\ again.requested = g /\ again.registered = s.registered
    BY <1>1 DEF CleanupState
  <1>6. Len(q) = n /\ \A o \in 1..Len(s.ops) : q[o] = s.ops[o]
    BY <1>1, Fields, AddOperation
  <1> HIDE DEF new, again, q
  <1>7. CASE r = Keep(s) /\ (OpenAt(s, g) => s.pending # 0)
    BY <1>1, <1>7 DEF Keep, Asks
  <1>8. CASE r = [cl |-> again, op |-> s.pending] /\ s.pending # 0
    BY <1>1, <1>5, <1>8 DEF Asks
  <1>9. CASE r = [cl |-> new, op |-> n]
    BY <1>1, <1>4, <1>6, <1>9 DEF Asks
  <1> QED
    BY <1>3, <1>7, <1>8, <1>9

\* A window that is looked at again: it stays as long as registers are in
\* flight, and a cleanup that waits for it is asked for when none is left.
LEMMA ReconcileAsks ==
  ASSUME NEW s, NEW g \in Nat, NEW w \in Nat, CleanupOK(s, g, w),
         s.coord # 0, NEW c, c = Reconcile(s, g).cl
  PROVE  /\ Asks(s, c, g) /\ c.coords = s.coords
         /\ c.coord = s.coord \/ (c.coord = 0 /\ ~InflightAt(s))
         /\ InflightAt(s) => c.requested = s.requested
         /\ c.requested # s.requested => w = 0
         /\ s.coords[s.coord].requested /\ OpenAt(s, g) /\ ~InflightAt(s)
              => c.pending # 0
  <1> DEFINE k == s.coords[s.coord]
             due == /\ k.requested /\ k.inflight = 0
                    /\ g > 0 \/ s.registered
                    /\ s.removed # g
             e == IF due THEN EnsurePending(s, g) ELSE Keep(s)
             gone == [e.cl EXCEPT !.coord = 0]
  <1>1. /\ k.gen = g /\ (k.requested => w = 0) /\ k.inflight \in Nat
        /\ s \in CleanupState /\ Len(s.ops) \in Nat
    <2>1. s \in CleanupState /\ s.coord \in 1..Len(s.coords)
      BY Fields DEF CleanupOK
    <2>2. k \in CoordinationType
      BY <2>1, Fields
    <2> QED
      BY <2>1, <2>2, Fields DEF CleanupOK, CoordinationType
  <1>2. /\ Asks(s, e.cl, g) /\ e.cl.coord = s.coord /\ e.cl.coords = s.coords
        /\ due /\ OpenAt(s, g) => e.cl.pending # 0
        /\ ~due => e.cl = s
        /\ e = [cl |-> e.cl, op |-> e.op] /\ e.cl \in CleanupState
    <2>1. CASE due
      <3>1. CleanupOK(s, g, 0)
        BY <1>1, <2>1
      <3>2. e = EnsurePending(s, g)
        BY <2>1
      <3>3. CleanupOK(e.cl, g, 0)
        BY <3>1, <3>2, EnsurePendingHanded DEF Handed
      <3> HIDE DEF e, k
      <3> QED
        BY <2>1, <3>1, <3>2, <3>3, EnsurePendingAsks DEF CleanupOK
    <2>2. CASE ~due
      BY <1>1, <2>2 DEF Keep, Asks
    <2> QED
      BY <2>1, <2>2
  <1>3. InflightAt(s) <=> k.inflight # 0
    BY <1>1 DEF InflightAt
  <1>4. (c = gone /\ k.inflight = 0) \/ c = e.cl
    BY <1>1, <1>2 DEF Reconcile
  <1> HIDE DEF e
  <1>5. /\ gone.registered = e.cl.registered /\ gone.removed = e.cl.removed
        /\ gone.active = e.cl.active /\ gone.pending = e.cl.pending
        /\ gone.requested = e.cl.requested /\ gone.ops = e.cl.ops
        /\ gone.coords = e.cl.coords /\ gone.coord = 0
    BY <1>2 DEF CleanupState
  <1> HIDE DEF gone
  <1>6. /\ Asks(s, c, g) /\ c.coords = s.coords
        /\ c.pending = e.cl.pending /\ c.requested = e.cl.requested
        /\ c.coord = s.coord \/ (c.coord = 0 /\ k.inflight = 0)
    BY <1>2, <1>4, <1>5 DEF Asks
  <1>7. k.requested /\ OpenAt(s, g) /\ k.inflight = 0 => due
    BY DEF OpenAt
  <1>8. due => k.requested /\ k.inflight = 0
    OBVIOUS
  <1> HIDE DEF due, k
  <1> QED
    BY <1>1, <1>2, <1>3, <1>6, <1>7, <1>8 DEF k

-----------------------------------------------------------------------------
(* The threads.                                                            *)

\* The steps that the bookkeeping looks at, and those the cleanup looks at.
Counted(v) == Sent(v) \/ Registering(v)

Loud(v) == \/ v.pc \in {"rpc", "commit", "request"}
           \/ v.pc = "call" /\ v.rpc \in {"register", "cleanup"}

NothingNew == \A u \in DOMAIN thr' :
  Loud(thr'[u]) => u \in DOMAIN thr /\ thr'[u] = thr[u]

\* The thread u is something that is still to come.
Vital(u) == \/ Arriving(thr[u])
            \/ thr[u].rpc = "cleanup" /\ thr[u].pc \in {"call", "rpc"}
            \/ thr[u].pc = "request" /\ thr[u].gen = generation

LEMMA CountedIsLoud ==
  \A v : (Counted(v) => Loud(v)) /\ (Registering(v) => Counted(v))
BY DEF Counted, Loud, Sent, Registering, AdminSteps

\* The registers under way are the same, and so are the windows.
LEMMA WindowsKept ==
  ASSUME IInv, CountOK, SameCounts(cl, cl'),
         \A u \in DOMAIN thr' : Registering(thr'[u]) =>
           /\ u \in DOMAIN thr /\ Registering(thr[u])
           /\ thr'[u].coord = thr[u].coord /\ thr'[u].gen = thr[u].gen,
         \A u \in DOMAIN thr : Registering(thr[u]) =>
           /\ u \in DOMAIN thr' /\ Registering(thr'[u])
           /\ thr'[u].coord = thr[u].coord
  PROVE  CountOK'
  <1>1. \A k : InWindow(k)' = InWindow(k)
    BY DEF InWindow, Registering
  <1>2. \A k \in 1..Len(cl'.coords) :
          /\ IsFiniteSet(InWindow(k)')
          /\ cl'.coords[k].inflight = Cardinality(InWindow(k)')
    BY <1>1 DEF CountOK, SameCounts
  <1>3. ASSUME NEW u \in DOMAIN thr', Registering(thr'[u])
        PROVE  JoinOK(thr[u])'
    <2>1. /\ u \in DOMAIN thr /\ thr'[u].coord = thr[u].coord
          /\ thr'[u].gen = thr[u].gen
      BY <1>3
    <2>2. JoinOK(thr[u])
      BY <1>3 DEF CountOK
    <2>3. Len(cl.coords) \in Nat
      BY Numbers
    <2> QED
      BY <2>1, <2>2, <2>3 DEF JoinOK, SameCounts
  <1> QED
    BY <1>2, <1>3 DEF CountOK, Registering

\* The calls that are under way stay as they are, but for some that end.
LEMMA CallsQuiet ==
  ASSUME IInv, CallsInv, SameCounts(cl, cl'),
         UNCHANGED <<net, rpcSeq>>, applied' <= rpcSeq,
         \A u \in DOMAIN thr' :
           Counted(thr'[u]) => u \in DOMAIN thr /\ thr'[u] = thr[u],
         \A u \in DOMAIN thr :
           Registering(thr[u]) => u \in DOMAIN thr' /\ thr'[u] = thr[u],
         \A u \in DOMAIN thr' : OneShotOK(thr[u])'
  PROVE  CallsInv'
  <1>1. CountOK'
    BY WindowsKept, CountedIsLoud DEF CallsInv
  <1>2. SentOK'
    BY DEF CallsInv, SentOK, Counted, Sent
  <1> QED
    BY <1>1, <1>2 DEF CallsInv

\* What has listed the executor after a removal still completes after it, or
\* has completed.
LEMMA ListedKept ==
  ASSUME IInv, ListedAfter, generation' = generation, remote' => remote,
         ~released' => ~released, applied' \in Nat, applied <= applied',
         \A o \in 1..Len(cl.ops) : cl'.ops[o].gen = cl.ops[o].gen,
         \A v \in DOMAIN thr' :
           thr'[v].rpc = "cleanup" /\ thr'[v].pc = "commit" =>
             v \in DOMAIN thr /\ thr'[v] = thr[v],
         \A u \in DOMAIN thr : Arriving(thr[u]) =>
           \/ u \in DOMAIN thr' /\ thr'[u] = thr[u] /\ Arriving(thr[u])'
           \/ applied' = thr[u].seq
  PROVE  ListedAfter'
  <1> SUFFICES ASSUME NEW t \in DOMAIN thr', Succeeded(t)', remote', ~released'
               PROVE  \/ applied' > thr'[t].seq
                      \/ \E u \in DOMAIN thr' : /\ Arriving(thr[u])'
                                                /\ thr'[u].seq > thr'[t].seq
    BY DEF ListedAfter
  <1>1. t \in DOMAIN thr /\ thr'[t] = thr[t] /\ thr[t].rpc = "cleanup"
    BY DEF Succeeded
  <1>2. thr[t].ref \in 1..Len(cl.ops) /\ thr[t].seq \in Nat /\ applied \in Nat
    BY <1>1, OwnLocal, Numbers DEF LocalOK
  <1>3. Succeeded(t)
    BY <1>1, <1>2 DEF Succeeded
  <1>4. \/ applied > thr[t].seq
        \/ \E u \in DOMAIN thr : Arriving(thr[u]) /\ thr[u].seq > thr[t].seq
    BY <1>1, <1>3 DEF ListedAfter
  <1>5. CASE applied > thr[t].seq
    BY <1>1, <1>2, <1>5
  <1>6. ASSUME NEW u \in DOMAIN thr, Arriving(thr[u]), thr[u].seq > thr[t].seq
        PROVE  \/ applied' > thr'[t].seq
               \/ \E x \in DOMAIN thr' : /\ Arriving(thr[x])'
                                         /\ thr'[x].seq > thr'[t].seq
    BY <1>1, <1>6
  <1> QED
    BY <1>4, <1>5, <1>6

\* Nothing that the cleanup looks at changes, but for what ends.
LEMMA CleanupQuiet ==
  ASSUME IInv, CleanupInv, NothingNew,
         UNCHANGED <<generation, remote, released>>, owed' => owed,
         worker' \in {worker, 0}, applied' \in Nat, applied <= applied',
         cl.pending # 0 => cl'.pending # 0,
         cl'.requested = cl.requested, cl'.removed = cl.removed,
         cl'.coord = cl.coord,
         cl.coord # 0 =>
           /\ cl'.coords[cl.coord].requested = cl.coords[cl.coord].requested
           /\ cl'.coords[cl.coord].inflight = cl.coords[cl.coord].inflight,
         \/ cl'.registered = cl.registered
         \/ cl'.registered
         \/ generation > 0,
         \A o \in 1..Len(cl.ops) : cl'.ops[o].gen = cl.ops[o].gen,
         \A u \in DOMAIN thr :
           Vital(u) => \/ u \in DOMAIN thr' /\ thr'[u] = thr[u]
                       \/ thr[u].pc = "request" /\ ~owed'
  PROVE  CleanupInv'
  <1>1. AskedOK'
    BY DEF CleanupInv, AskedOK
  <1>2. RenewalFirst'
    BY DEF CleanupInv, RenewalFirst, Removing, Renews, NothingNew, Loud
  <1>3. Liable' => Liable
    BY DEF Liable, Listing, Renews, NothingNew, Loud
  <1>4. (Spent' => Spent) /\ (OpenAt(cl, generation) => OpenAt(cl, generation)')
        /\ (InflightAt(cl) => InflightAt(cl)')
    BY DEF Spent, OpenAt, InflightAt
  <1>5. /\ \A u \in DOMAIN thr' : Arriving(thr[u])' =>
             u \in DOMAIN thr /\ Arriving(thr[u]) /\ thr'[u] = thr[u]
        /\ \A u \in DOMAIN thr : Arriving(thr[u]) =>
             u \in DOMAIN thr' /\ Arriving(thr[u])' /\ thr'[u] = thr[u]
    BY DEF Arriving, NothingNew, Loud, Vital
  <1>6. ArrivalReopens'
    BY <1>3, <1>4, <1>5 DEF CleanupInv, ArrivalReopens
  <1>7. ListedAfter'
    BY <1>5, ListedKept DEF CleanupInv, NothingNew, Loud
  <1>8. ToCome => ToCome'
    <2>1. Requesting /\ owed' => Requesting'
      BY DEF Requesting, Vital
    <2>2. (\E u \in DOMAIN thr : Arriving(thr[u]))
            => (\E u \in DOMAIN thr : Arriving(thr[u]))'
      BY <1>5
    <2>3. (\E u \in DOMAIN thr : thr[u].rpc = "cleanup" /\ thr[u].pc \in {"call", "rpc"})
            => (\E u \in DOMAIN thr : thr[u].rpc = "cleanup" /\ thr[u].pc \in {"call", "rpc"})'
      BY DEF Vital
    <2> QED
      BY <1>4, <2>1, <2>2, <2>3 DEF ToCome
  <1> QED
    BY <1>1, <1>2, <1>3, <1>6, <1>7, <1>8 DEF CleanupInv

\* The invariant of this module, next to those it stands on.
DeregisterInv == CallsInv /\ CleanupInv

\* A step that neither the bookkeeping nor the cleanup looks at.
LEMMA CalmStep ==
  ASSUME IInv, DeregisterInv, NothingNew,
         \A u \in DOMAIN thr :
           Loud(thr[u]) => u \in DOMAIN thr' /\ thr'[u] = thr[u],
         \A u \in DOMAIN thr' : OneShotOK(thr[u])',
         UNCHANGED <<generation, rpcs, owed>>, worker' \in {worker, 0},
         cl'.requested = cl.requested, cl'.removed = cl.removed,
         cl'.registered = cl.registered, cl'.pending = cl.pending,
         cl'.coord = cl.coord, cl'.coords = cl.coords,
         \A o \in 1..Len(cl.ops) : cl'.ops[o].gen = cl.ops[o].gen
  PROVE  DeregisterInv'
  <1>1. SameCounts(cl, cl')
    BY DEF SameCounts
  <1>2. /\ UNCHANGED <<net, rpcSeq, remote, released>> /\ applied' = applied
        /\ applied \in Nat
    BY Numbers DEF rpcs
  <1>3. applied' <= rpcSeq
    BY <1>2 DEF DeregisterInv, CallsInv, SentOK
  <1>4. CallsInv'
    BY <1>1, <1>2, <1>3, CallsQuiet, CountedIsLoud DEF DeregisterInv, NothingNew
  <1>5. \A u \in DOMAIN thr : Vital(u) => u \in DOMAIN thr' /\ thr'[u] = thr[u]
    BY DEF Vital, Loud, Arriving
  <1>6. CleanupInv'
    BY <1>2, <1>5, CleanupQuiet DEF DeregisterInv
  <1> QED
    BY <1>4, <1>6 DEF DeregisterInv

\* The others keep what is known of their one-shot removals.
LEMMA OneShotMove ==
  ASSUME CallsInv, NEW t, OnlyMoves(t), generation' = generation,
         Stays(t) => OneShotOK(thr[t])'
  PROVE  \A u \in DOMAIN thr' : OneShotOK(thr[u])'
BY DEF CallsInv, OnlyMoves, Stays, OneShotOK

\* Such a step of the thread t.
LEMMA CalmMove ==
  ASSUME IInv, DeregisterInv, NEW t \in DOMAIN thr, OnlyMoves(t),
         ~Loud(thr[t]), Stays(t) => ~Loud(thr'[t]) /\ OneShotOK(thr[t])',
         UNCHANGED <<generation, rpcs, owed>>, worker' \in {worker, 0},
         cl'.requested = cl.requested, cl'.removed = cl.removed,
         cl'.registered = cl.registered, cl'.pending = cl.pending,
         cl'.coord = cl.coord, cl'.coords = cl.coords,
         \A o \in 1..Len(cl.ops) : cl'.ops[o].gen = cl.ops[o].gen
  PROVE  DeregisterInv'
  <1>1. NothingNew
    BY DEF NothingNew, OnlyMoves, Stays
  <1>2. \A u \in DOMAIN thr : Loud(thr[u]) => u \in DOMAIN thr' /\ thr'[u] = thr[u]
    BY DEF OnlyMoves
  <1>3. \A u \in DOMAIN thr' : OneShotOK(thr[u])'
    BY OneShotMove DEF DeregisterInv
  <1> QED
    BY <1>1, <1>2, <1>3, CalmStep

-----------------------------------------------------------------------------
(* The steps that neither looks at.                                        *)

\* Nothing changes but threads, contexts and what names them.
Calm == /\ UNCHANGED <<generation, rpcs, owed>> /\ worker' \in {worker, 0}
        /\ cl'.requested = cl.requested /\ cl'.removed = cl.removed
        /\ cl'.registered = cl.registered /\ cl'.pending = cl.pending
        /\ cl'.coord = cl.coord /\ cl'.coords = cl.coords
        /\ \A o \in 1..Len(cl.ops) : cl'.ops[o].gen = cl.ops[o].gen

LoudSteps == {"call", "rpc", "commit", "request"}

LEMMA CalmGoto ==
  ASSUME IInv, DeregisterInv, Calm, NEW t \in DOMAIN thr, ~Loud(thr[t]),
         NEW p, p \notin LoudSteps, Goto(t, p)
  PROVE  DeregisterInv'
  <1>1. /\ OnlyMoves(t) /\ Stays(t) /\ thr'[t].pc = p
        /\ thr'[t].rpc = thr[t].rpc /\ thr'[t].gen = thr[t].gen
    BY GotoMoves
  <1>2. ~Loud(thr'[t])
    BY <1>1 DEF Loud, LoudSteps
  <1>3. OneShotOK(thr[t])'
    BY <1>1 DEF OneShotOK, DeregisterInv, CallsInv, Calm, LoudSteps, AdminSteps
  <1> QED
    BY <1>1, <1>2, <1>3, CalmMove DEF Calm

LEMMA CalmExit ==
  ASSUME IInv, DeregisterInv, Calm, NEW t \in DOMAIN thr, ~Loud(thr[t]), Exit(t)
  PROVE  DeregisterInv'
  <1>1. /\ OnlyMoves(t)
        /\ Stays(t) => /\ thr'[t].pc = "idle" /\ thr'[t].job = "none"
                       /\ thr'[t].rpc = "none"
    BY ExitMoves
  <1>2. Stays(t) => ~Loud(thr'[t]) /\ OneShotOK(thr[t])'
    BY <1>1 DEF Loud, OneShotOK
  <1> QED
    BY <1>1, <1>2, CalmMove DEF Calm

LEMMA UnmovedCalm == Unmoved /\ UNCHANGED cl => Calm
BY DEF Unmoved, Calm, lifecycle

\* A one-shot removal outside of the terminal protocol is one of a lifecycle.
LEMMA OneShotGen ==
  ASSUME IInv, DeregisterInv, NEW t \in DOMAIN thr,
         thr[t].rpc = "remove", ~InScope(t)
  PROVE  generation > 0
  <1>1. thr[t].gen <= generation /\ thr[t].gen \in Nat /\ generation \in Nat
    BY Numbers, OwnLocal DEF DeregisterInv, CallsInv, OneShotOK
  <1>2. worker # 0 => generation > 0
    BY DEF DeregisterInv, CleanupInv, AskedOK
  <1> QED
    BY <1>1, <1>2 DEF InScope

LEMMA DeregisterTerminal ==
  ASSUME IInv, RemovalInv, DeregisterInv, NEW t \in DOMAIN thr,
         \/ TerminalOneShot(t) \/ TerminalRegisters(t) \/ TerminalCached(t)
         \/ TerminalActive(t) \/ TerminalPending(t)
         \/ AwaitRegisters(t) \/ AwaitRemove(t)
  PROVE  DeregisterInv'
  <1>1. /\ thr[t].pc \in {"terminal", "awaitRegisters", "awaitActive",
                          "awaitPending"}
        /\ Unmoved /\ UNCHANGED cl
    BY DEF TerminalOneShot, TerminalRegisters, TerminalCached, TerminalActive,
           TerminalPending, Unsettled, AwaitRegisters, AwaitRemove, At
  <1>2. Calm
    BY <1>1, UnmovedCalm
  <1>3. thr[t].rpc = "remove"
    BY <1>1, TerminalCaller DEF TerminalSteps
  <1>4. ~Loud(thr[t])
    BY <1>1 DEF Loud
  <1>5. thr[t].gen <= generation
    BY <1>3 DEF DeregisterInv, CallsInv, OneShotOK
  <1>6. CASE Exit(t)
    BY <1>2, <1>4, <1>6, CalmExit
  <1>7. CASE Goto(t, "terminal")
    BY <1>2, <1>4, <1>7, CalmGoto DEF LoudSteps
  <1>8. CASE TerminalOneShot(t)
    <2>1. /\ OnlyMoves(t) /\ Stays(t) /\ thr'[t].pc = "call"
          /\ thr'[t].rpc = "remove" /\ thr'[t].gen = thr[t].gen
      BY <1>3, <1>8, GotoMoves DEF TerminalOneShot
    <2>2. generation > 0
      BY <1>3, <1>8, OneShotGen DEF TerminalOneShot
    <2>3. ~Loud(thr'[t]) /\ OneShotOK(thr[t])'
      BY <1>2, <1>5, <2>1, <2>2 DEF Loud, OneShotOK, Calm
    <2> QED
      BY <1>2, <1>4, <2>1, <2>3, CalmMove DEF Calm
  <1>9. ASSUME NEW u, thr' = [thr EXCEPT ![t] = u],
               u.pc \in {"awaitRegisters", "awaitActive", "awaitPending",
                         "schedWait"},
               u.gen = thr[t].gen
        PROVE  DeregisterInv'
    <2>1. OnlyMoves(t) /\ Stays(t) /\ thr'[t] = u
      BY <1>9, GoMoves
    <2>2. ~Loud(thr'[t]) /\ OneShotOK(thr[t])'
      BY <1>2, <1>5, <1>9, <2>1 DEF Loud, OneShotOK, Calm, AdminSteps
    <2> QED
      BY <1>2, <1>4, <2>1, <2>2, CalmMove DEF Calm
  <1>10. CASE TerminalRegisters(t)
    <2> DEFINE u == [thr[t] EXCEPT !.pc = "awaitRegisters", !.coord = cl.coord]
    <2>1. thr' = [thr EXCEPT ![t] = u]
      BY <1>10 DEF TerminalRegisters
    <2>2. u.pc = "awaitRegisters" /\ u.gen = thr[t].gen
      BY OwnLocal DEF LocalType
    <2> QED
      BY <1>9, <2>1, <2>2
  <1>11. CASE TerminalActive(t) \/ TerminalPending(t)
    <2>1. PICK p \in {"awaitActive", "awaitPending", "schedWait"},
               o \in {cl.active, cl.pending} :
            thr' = [thr EXCEPT ![t].pc = p, ![t].ref = o]
      BY <1>11 DEF TerminalActive, TerminalPending
    <2> DEFINE u == [thr[t] EXCEPT !.pc = p, !.ref = o]
    <2>2. thr' = [thr EXCEPT ![t] = u]
      BY <2>1
    <2>3. u.pc = p /\ u.gen = thr[t].gen
      BY OwnLocal DEF LocalType
    <2> QED
      BY <1>9, <2>2, <2>3
  <1> QED
    BY <1>6, <1>7, <1>8, <1>10, <1>11
       DEF TerminalCached, AwaitRegisters, AwaitRemove

LEMMA DeregisterWorker ==
  ASSUME IInv, RemovalInv, DeregisterInv, NEW t \in DOMAIN thr,
         Gate(t) \/ AwaitOlder(t) \/ WorkerQuit(t) \/ Tick(t)
  PROVE  DeregisterInv'
  <1>1. Calm
    BY UnmovedCalm
       DEF Gate, AwaitOlder, WorkerQuit, Tick, Unmoved, Calm, lifecycle
  <1>2. /\ thr[t].pc \in {"gate", "awaitOlder", "sleep", "call"}
        /\ thr[t].pc = "call" => thr[t].rpc = "renewal"
    BY DEF Gate, AwaitOlder, WorkerQuit, Tick, At
  <1>3. ~Loud(thr[t])
    BY <1>2 DEF Loud
  <1>4. CASE Exit(t)
    BY <1>1, <1>3, <1>4, CalmExit
  <1>5. CASE Goto(t, "finish")
    BY <1>1, <1>3, <1>5, CalmGoto DEF LoudSteps
  <1>6. CASE Goto(t, "call") /\ thr[t].pc \in LoopSteps
    <2>1. thr[t].rpc = "renewal"
      BY <1>6, WorkerThread
    <2>2. /\ OnlyMoves(t) /\ Stays(t) /\ thr'[t].pc = "call"
          /\ thr'[t].rpc = "renewal"
      BY <1>6, <2>1, GotoMoves
    <2>3. ~Loud(thr'[t]) /\ OneShotOK(thr[t])'
      BY <2>2 DEF Loud, OneShotOK
    <2> QED
      BY <1>1, <1>3, <2>2, <2>3, CalmMove DEF Calm
  <1>7. CASE Gate(t) /\ Committed(t)
    <2>1. PICK p \in {"call", "awaitOlder", "finish"} :
            thr' = [thr EXCEPT ![t].rpc = "renewal", ![t].pc = p]
      BY <1>7 DEF Gate
    <2> DEFINE u == [thr[t] EXCEPT !.rpc = "renewal", !.pc = p]
    <2>2. u.rpc = "renewal" /\ u.pc = p
      BY OwnLocal DEF LocalType
    <2>3. OnlyMoves(t) /\ Stays(t) /\ thr'[t] = u
      BY <2>1, GoMoves
    <2>4. ~Loud(thr'[t]) /\ OneShotOK(thr[t])'
      BY <2>2, <2>3 DEF Loud, OneShotOK
    <2> QED
      BY <1>1, <1>3, <2>3, <2>4, CalmMove DEF Calm
  <1> QED
    BY <1>4, <1>5, <1>6, <1>7
       DEF Gate, AwaitOlder, WorkerQuit, Tick, At, LoopSteps

LEMMA DeregisterMaybeCloseLogs ==
  ASSUME IInv, DeregisterInv, NEW t \in DOMAIN thr, MaybeCloseLogs(t)
  PROVE  DeregisterInv'
  <1>1. Calm
    BY DEF MaybeCloseLogs, Calm, lifecycle
  <1>2. ~Loud(thr[t])
    BY DEF MaybeCloseLogs, Loud
  <1>3. Exit(t) \/ \E p \in {"close", "closeTail", "discard"} : Goto(t, p)
    BY DEF MaybeCloseLogs, AfterExecute
  <1> QED
    BY <1>1, <1>2, <1>3, CalmExit, CalmGoto DEF LoudSteps

LEMMA DeregisterCancelPrepared ==
  ASSUME IInv, DeregisterInv, NEW t \in DOMAIN thr, CancelPrepared(t)
  PROVE  DeregisterInv'
  <1>1. Calm
    BY DEF CancelPrepared, Calm
  <1>2. ~Loud(thr[t]) /\ Exit(t)
    BY DEF CancelPrepared, At, Loud
  <1> QED
    BY <1>1, <1>2, CalmExit

\* The links between an operation and its actor are not looked at.
LEMMA NotedCalm ==
  ASSUME IInv, NEW o \in 1..Len(cl.ops), NEW a \in Nat,
         cl' = [cl EXCEPT !.ops[o].thread = a],
         UNCHANGED <<lifecycle, rpcs, owed>>
  PROVE  Calm
  <1>1. cl \in CleanupState
    BY Numbers
  <1>2. cl'.registered = cl.registered
    BY <1>1 DEF CleanupState
  <1> QED
    BY <1>1, <1>2, NotedFields DEF Calm, lifecycle

LEMMA DeregisterDiscard ==
  ASSUME IInv, RemovalInv, DeregisterInv, NEW t \in DOMAIN thr, Discard(t)
  PROVE  DeregisterInv'
  <1> DEFINE o == thr[t].ref
             a == IF cl.ops[o].thread = t THEN 0 ELSE cl.ops[o].thread
  <1>1. thr[t].pc = "discard" /\ Goto(t, "schedTail")
    BY DEF Discard, At
  <1>2. thr[t].job = "actor"
    BY <1>1 DEF RemovalInv, Shapes, Shape, WorkerShape, CallerShape,
                LoopSteps, AdminSteps, TailSteps
  <1>3. o \in 1..Len(cl.ops)
    BY <1>2, OwnLocal DEF LocalOK
  <1>4. cl.ops[o].thread \in Nat
    <2>1. cl.ops[o] \in OperationType
      BY <1>3, Numbers, Fields
    <2> QED
      BY <2>1 DEF OperationType
  <1>5. a \in Nat /\ cl' = [cl EXCEPT !.ops[o].thread = a]
    BY <1>4 DEF Discard
  <1>6. Calm
    BY <1>3, <1>5, NotedCalm DEF Discard
  <1> QED
    BY <1>1, <1>6, CalmGoto DEF Loud, LoudSteps

LEMMA DeregisterCallRemove ==
  ASSUME IInv, DeregisterInv, NEW c \in Callers, CallRemove(c)
  PROVE  DeregisterInv'
  <1>1. c \in DOMAIN thr /\ thr[c].pc = "idle" /\ UNCHANGED rpcs
    BY Invoked DEF CallRemove, Invoke
  <1>2. Calm
    BY <1>1 DEF CallRemove, Calm, lifecycle
  <1> DEFINE u == [Idle EXCEPT !.pc = IF worker = 0 THEN "terminal" ELSE "call",
                               !.job = "remove", !.gen = generation,
                               !.rpc = "remove"]
  <1>3. /\ u.pc = IF worker = 0 THEN "terminal" ELSE "call"
        /\ u.rpc = "remove" /\ u.gen = generation
    BY DEF Idle
  <1>4. OnlyMoves(c) /\ Stays(c) /\ thr'[c] = u
    BY <1>1, GoMoves DEF CallRemove, Go
  <1> HIDE DEF u
  <1>5. worker # 0 => generation > 0
    BY DEF DeregisterInv, CleanupInv, AskedOK
  <1>6. ~Loud(thr'[c]) /\ OneShotOK(thr[c])'
    BY <1>2, <1>3, <1>4, <1>5, Numbers DEF Loud, OneShotOK, AdminSteps, Calm
  <1> QED
    BY <1>1, <1>2, <1>4, <1>6, CalmMove DEF Calm, Loud

\* A thread that was just spawned, next to one that moves on.
LEMMA CalmSpawn ==
  ASSUME IInv, DeregisterInv, Calm, NEW t \in DOMAIN thr, NEW u, NEW v,
         Spawn([thr EXCEPT ![t] = u], v),
         ~Loud(thr[t]), ~Loud(u), ~Loud(v), v.rpc # "remove",
         u.rpc = "remove" => u.gen <= generation /\ u.pc \notin AdminSteps
  PROVE  DeregisterInv'
  <1>1. SpawnedBy(t, u, spawned + 1, v)
    BY SpawnMoves
  <1>2. NothingNew
    BY <1>1 DEF NothingNew, SpawnedBy
  <1>3. \A x \in DOMAIN thr : Loud(thr[x]) => x \in DOMAIN thr' /\ thr'[x] = thr[x]
    BY <1>1 DEF SpawnedBy
  <1>4. \A x \in DOMAIN thr' : OneShotOK(thr[x])'
    BY <1>1 DEF SpawnedBy, OneShotOK, DeregisterInv, CallsInv, Calm
  <1> QED
    BY <1>2, <1>3, <1>4, CalmStep DEF Calm

LEMMA DeregisterCallStart ==
  ASSUME IInv, DeregisterInv, NEW c \in Callers, NEW k, CallStart(c, k)
  PROVE  DeregisterInv'
  <1>1. c \in DOMAIN thr /\ thr[c].pc = "idle" /\ UNCHANGED rpcs
    BY Invoked DEF CallStart, Invoke
  <1>2. Calm
    BY <1>1 DEF CallStart, Calm
  <1>3. CASE UNCHANGED thr
    <2>1. \A u \in DOMAIN thr' : OneShotOK(thr[u])'
      BY <1>2, <1>3 DEF DeregisterInv, CallsInv, OneShotOK, Calm
    <2> QED
      BY <1>2, <1>3, <2>1, CalmStep DEF NothingNew, Calm
  <1>4. CASE Spawn([thr EXCEPT ![c] = [Idle EXCEPT !.pc = "prepared",
                                       !.job = k, !.ref = spawned + 1]],
                   Local("worker", "gate", generation + 1))
    <2> DEFINE u == [Idle EXCEPT !.pc = "prepared", !.job = k,
                                 !.ref = spawned + 1]
               v == Local("worker", "gate", generation + 1)
    <2>1. /\ u.pc = "prepared" /\ u.rpc = "none"
          /\ v.pc = "gate" /\ v.rpc = "none"
      BY DEF Local, Idle
    <2> HIDE DEF u, v
    <2>2. ~Loud(u) /\ ~Loud(v) /\ ~Loud(thr[c])
      BY <1>1, <2>1 DEF Loud
    <2>3. Spawn([thr EXCEPT ![c] = u], v)
      BY <1>4 DEF u, v
    <2> QED
      BY <1>1, <1>2, <2>1, <2>2, <2>3, CalmSpawn
  <1> QED
    BY <1>3, <1>4 DEF CallStart

-----------------------------------------------------------------------------
(* The completion of a one-shot removal and of a renewal.                  *)

\* The seq of a call that was sent is not from the future.
LEMMA CommitApplies ==
  ASSUME IInv, CallsInv, NEW t \in DOMAIN thr, thr[t].pc = "commit",
         applied' = applied \/ (Accepted(t) /\ applied' = thr[t].seq)
  PROVE  applied' \in Nat /\ applied <= applied' /\ applied' <= rpcSeq
BY Numbers, OwnLocal DEF CallsInv, SentOK, Sent, Accepted

\* A completion that leaves the cleanup responsibility as it is.
LEMMA QuietCommit ==
  ASSUME IInv, DeregisterInv, NEW t \in DOMAIN thr,
         thr[t].pc = "commit", thr[t].rpc \notin {"register", "cleanup"},
         OnlyMoves(t),
         Stays(t) => ~Loud(thr'[t]) /\ OneShotOK(thr[t])',
         applied' = applied \/ (Accepted(t) /\ applied' = thr[t].seq),
         cl' = cl \/ \E kind \in {"remove", "renewal"} : cl' = Record(cl, kind, thr[t].ok),
         cl'.registered = cl.registered \/ cl'.registered \/ generation > 0,
         UNCHANGED <<generation, worker, net, rpcSeq, remote, released, owed>>
  PROVE  DeregisterInv'
  <1>1. /\ cl'.ops = cl.ops /\ cl'.coords = cl.coords /\ cl'.coord = cl.coord
        /\ cl'.pending = cl.pending
        /\ cl'.removed = cl.removed /\ cl'.requested = cl.requested
    BY Numbers, OwnLocal, RecordSame
  <1>2. applied' \in Nat /\ applied <= applied' /\ applied' <= rpcSeq
    BY CommitApplies DEF DeregisterInv
  <1>3. NothingNew
    BY DEF NothingNew, OnlyMoves, Stays
  <1>4. ~Registering(thr[t]) /\ ~Vital(t)
    BY DEF Registering, Vital, Arriving
  <1>5. \A u \in DOMAIN thr' : OneShotOK(thr[u])'
    BY OneShotMove DEF DeregisterInv
  <1>6. CallsInv'
    <2>1. SameCounts(cl, cl')
      BY <1>1 DEF SameCounts
    <2>2. \A u \in DOMAIN thr : Registering(thr[u]) =>
            u \in DOMAIN thr' /\ thr'[u] = thr[u]
      BY <1>4 DEF OnlyMoves
    <2> QED
      BY <1>2, <1>3, <1>5, <2>1, <2>2, CallsQuiet, CountedIsLoud
         DEF DeregisterInv, NothingNew
  <1>7. CleanupInv'
    <2>1. \A u \in DOMAIN thr : Vital(u) => u \in DOMAIN thr' /\ thr'[u] = thr[u]
      BY <1>4 DEF OnlyMoves
    <2> QED
      BY <1>1, <1>2, <1>3, <2>1, CleanupQuiet DEF DeregisterInv
  <1> QED
    BY <1>6, <1>7 DEF DeregisterInv

LEMMA DeregisterCommitRemove ==
  ASSUME IInv, DeregisterInv, NEW t \in DOMAIN thr, CommitRemove(t)
  PROVE  DeregisterInv'
  <1>1. thr[t].pc = "commit" /\ thr[t].rpc = "remove" /\ Exit(t)
    BY DEF CommitRemove, At
  <1>2. generation > 0
    BY <1>1 DEF DeregisterInv, CallsInv, OneShotOK, AdminSteps
  <1>3. /\ OnlyMoves(t)
        /\ Stays(t) => thr'[t].pc = "idle" /\ thr'[t].rpc = "none"
    BY <1>1, ExitMoves
  <1>4. Stays(t) => ~Loud(thr'[t]) /\ OneShotOK(thr[t])'
    BY <1>3 DEF Loud, OneShotOK
  <1> QED
    BY <1>1, <1>2, <1>3, <1>4, QuietCommit DEF CommitRemove, lifecycle

\* A renewal that counts is one of a live lifecycle, whose cleanup nobody
\* asked for.
LEMMA DeregisterCommitRenewal ==
  ASSUME IInv, DeregisterInv, NEW t \in DOMAIN thr, CommitRenewal(t)
  PROVE  DeregisterInv'
  <1> DEFINE s1 == Record(cl, "renewal", thr[t].ok)
  <1>1. thr[t].pc = "commit" /\ thr[t].rpc = "renewal"
    BY DEF CommitRenewal, At
  <1>2. s1.removed = cl.removed
    BY Numbers, OwnLocal, RecordSame
  <1>3. cl' = cl \/ (cl' = s1 /\ generation > 0)
    <2>1. IsCurrent(t) => worker # 0
      BY ThreadNames DEF IsCurrent
    <2>2. IsCurrent(t) => cl.removed # generation /\ generation > 0
      BY <2>1 DEF IInv, CleanupOK, DeregisterInv, CleanupInv, AskedOK
    <2> HIDE DEF s1
    <2>3. IsCurrent(t) => Invalidate(s1, ctx[t].gen, 0, generation) = s1
      BY <1>2, <2>2 DEF Invalidate
    <2> QED
      BY <2>2, <2>3 DEF CommitRenewal, s1
  <1>4. PICK p \in {"sleep", "finish"} : Goto(t, p)
    BY DEF CommitRenewal
  <1>5. /\ OnlyMoves(t) /\ Stays(t) /\ thr'[t].pc = p
        /\ thr'[t].rpc = "renewal"
    BY <1>1, <1>4, GotoMoves
  <1>6. ~Loud(thr'[t]) /\ OneShotOK(thr[t])'
    BY <1>5 DEF Loud, OneShotOK
  <1>7. applied' = applied \/ (Accepted(t) /\ applied' = thr[t].seq)
    BY DEF CommitRenewal
  <1>8. UNCHANGED <<generation, worker, net, rpcSeq, remote, released, owed>>
    BY DEF CommitRenewal, lifecycle
  <1> QED
    BY <1>1, <1>3, <1>5, <1>6, <1>7, <1>8, QuietCommit

-----------------------------------------------------------------------------
(* A cleanup is asked for.                                                 *)

\* c is the state s after a request for the cleanup of generation g.
RequestedOf(s, c, g) ==
  /\ Asks(s, c, g) /\ SameCounts(s, c)
  /\ c.coord = s.coord \/ (c.coord = 0 /\ ~InflightAt(s))
  /\ OpenAt(s, g) => c.pending # 0 \/ (OpenAt(c, g) /\ InflightAt(c))
  /\ s.coord # 0 => c.coords[s.coord].requested
  /\ c.pending = 0 /\ InflightAt(s) => c.requested = s.requested

\* A window that a cleanup closes.
LEMMA ClosedWindow ==
  ASSUME NEW s, NEW g \in Nat, CleanupOK(s, g, 0), s.coord # 0,
         NEW c, c = [s EXCEPT !.coords[s.coord].requested = TRUE]
  PROVE  /\ CleanupOK(c, g, 0)
         /\ c.coord = s.coord /\ c.removed = s.removed
         /\ c.requested = s.requested /\ c.registered = s.registered
         /\ c.pending = s.pending /\ c.active = s.active /\ c.ops = s.ops
         /\ SameCounts(s, c) /\ c.coords[s.coord].requested
  <1> DEFINE k == s.coord
             v == [s.coords[k] EXCEPT !.requested = TRUE]
             q == [s.coords EXCEPT ![k] = v]
  <1>1. /\ s \in CleanupState /\ k \in 1..Len(s.coords)
        /\ s.coords \in Seq(CoordinationType) /\ s.coords[k].gen = g
        /\ Len(s.coords) \in Nat
    BY Fields DEF CleanupOK
  <1>2. s.coords[k] \in CoordinationType
    BY <1>1
  <1>3. /\ v \in CoordinationType /\ v.requested /\ v.gen = g
        /\ v.inflight = s.coords[k].inflight
    BY <1>1, <1>2 DEF CoordinationType
  <1>4. c = [s EXCEPT !.coords = q]
    OBVIOUS
  <1> HIDE DEF v
  <1>5. /\ q \in Seq(CoordinationType) /\ Len(q) = Len(s.coords)
        /\ \A j \in 1..Len(s.coords) : q[j] = IF j = k THEN v ELSE s.coords[j]
    BY <1>1, <1>3, SeqUpdate
  <1> HIDE DEF q, k
  <1>6. /\ c \in CleanupState /\ c.coords = q
        /\ c.coord = s.coord /\ c.removed = s.removed
        /\ c.requested = s.requested /\ c.registered = s.registered
        /\ c.pending = s.pending /\ c.active = s.active /\ c.ops = s.ops
    BY <1>1, <1>4, <1>5 DEF CleanupState
  <1>7. SameCounts(s, c) /\ c.coords[k].requested
    BY <1>1, <1>3, <1>5, <1>6 DEF SameCounts
  <1>8. CleanupOK(c, g, 0)
    BY <1>1, <1>3, <1>5, <1>6 DEF CleanupOK, k
  <1> QED
    BY <1>6, <1>7, <1>8 DEF k

LEMMA AsksTwice ==
  \A a, b, c, g : Asks(a, b, g) /\ Asks(b, c, g) => Asks(a, c, g)
BY DEF Asks

LEMMA RequestRemoveAsks ==
  ASSUME NEW s, NEW g \in Nat, CleanupOK(s, g, 0),
         NEW c, c = RequestRemove(s, g).cl
  PROVE  RequestedOf(s, c, g)
  <1> DEFINE fallback(q) == IF q.removed = g \/ (g = 0 /\ ~q.registered)
                            THEN Keep(q) ELSE EnsurePending(q, g)
             closed == [s EXCEPT !.coords[s.coord].requested = TRUE]
             e == Reconcile(closed, g)
  <1>1. s \in CleanupState /\ Len(s.ops) \in Nat
    BY Fields DEF CleanupOK
  <1>2. ASSUME NEW q, CleanupOK(q, g, 0)
        PROVE  /\ Asks(q, fallback(q).cl, g)
               /\ fallback(q).cl.coord = q.coord
               /\ fallback(q).cl.coords = q.coords
               /\ OpenAt(q, g) => fallback(q).cl.pending # 0
    <2>1. CASE fallback(q) = Keep(q) /\ ~OpenAt(q, g)
      <3>1. Len(q.ops) \in Nat
        BY <1>2, Fields DEF CleanupOK
      <3> QED
        BY <2>1, <3>1 DEF Keep, Asks
    <2>2. CASE fallback(q) = EnsurePending(q, g)
      BY <1>2, <2>2, EnsurePendingAsks
    <2> QED
      BY <2>1, <2>2 DEF OpenAt
  <1>3. CASE s.coord = 0
    <2>1. c = fallback(s).cl
      BY <1>3 DEF RequestRemove
    <2> HIDE DEF fallback
    <2> QED
      BY <1>2, <1>3, <2>1 DEF RequestedOf, SameCounts, InflightAt
  <1>4. CASE s.coord # 0
    <2>1. /\ s.coords[s.coord].gen = g /\ s.coord \in 1..Len(s.coords)
          /\ Len(s.coords) \in Nat
      BY <1>4, <1>1, Fields DEF CleanupOK
    <2>2. \/ c = e.cl
          \/ c = fallback(e.cl).cl /\ ~(s.coords[s.coord].inflight > 0)
      <3>1. s.coords[s.coord] \in CoordinationType
        BY <1>1, <2>1, Fields
      <3>2. s.coords[s.coord].inflight \in Nat
        BY <3>1 DEF CoordinationType
      <3> HIDE DEF e, fallback
      <3> QED
        BY <1>4, <2>1, <3>2 DEF RequestRemove, e, fallback
    <2> DEFINE d == e.cl
    <2>3. /\ CleanupOK(closed, g, 0) /\ closed.coord = s.coord
          /\ Asks(s, closed, g) /\ SameCounts(s, closed)
          /\ OpenAt(closed, g) <=> OpenAt(s, g)
          /\ InflightAt(closed) <=> InflightAt(s)
          /\ closed.coords[s.coord].requested
          /\ closed.requested = s.requested
      <3>1. /\ CleanupOK(closed, g, 0)
            /\ closed.coord = s.coord /\ closed.removed = s.removed
            /\ closed.requested = s.requested
            /\ closed.registered = s.registered
            /\ closed.pending = s.pending /\ closed.active = s.active
            /\ closed.ops = s.ops
            /\ SameCounts(s, closed) /\ closed.coords[s.coord].requested
        BY <1>4, ClosedWindow
      <3> HIDE DEF closed
      <3> QED
        BY <1>1, <2>1, <3>1 DEF Asks, OpenAt, InflightAt, SameCounts
    <2> HIDE DEF closed
    <2>4. /\ Asks(closed, d, g) /\ d.coords = closed.coords
          /\ d.coord = closed.coord \/ (d.coord = 0 /\ ~InflightAt(closed))
          /\ InflightAt(closed) => d.requested = closed.requested
          /\ OpenAt(closed, g) /\ ~InflightAt(closed) => d.pending # 0
      BY <1>4, <2>3, ReconcileAsks
    <2>5. CleanupOK(d, g, 0)
      BY <1>4, <2>3, ReconcileHanded DEF Handed
    <2> HIDE DEF e
    <2>6. Asks(s, d, g) /\ SameCounts(s, d)
      BY <2>3, <2>4, AsksTwice DEF SameCounts
    <2>7. CASE c = d
      <3>1. OpenAt(s, g) /\ InflightAt(s) => OpenAt(d, g) /\ InflightAt(d)
        BY <2>3, <2>4 DEF OpenAt, Asks, InflightAt
      <3> QED
        BY <2>3, <2>4, <2>6, <2>7, <3>1 DEF RequestedOf
    <2>8. CASE c = fallback(d).cl /\ ~(s.coords[s.coord].inflight > 0)
      <3>1. /\ Asks(d, c, g) /\ c.coord = d.coord /\ c.coords = d.coords
        BY <1>2, <2>5, <2>8
      <3>2. Asks(s, c, g) /\ SameCounts(s, c)
        BY <2>6, <3>1, AsksTwice DEF SameCounts
      <3>3. ~InflightAt(s)
        BY <2>8 DEF InflightAt
      <3>4. OpenAt(s, g) => c.pending # 0
        BY <2>3, <2>4, <3>1, <3>3 DEF Asks
      <3> HIDE DEF fallback, d
      <3> QED
        BY <2>3, <2>4, <3>1, <3>2, <3>3, <3>4 DEF RequestedOf
    <2> QED
      BY <2>1, <2>2, <2>7, <2>8
  <1> QED
    BY <1>3, <1>4

\* A register that is about to complete is in flight.
LEMMA ArrivingInflight ==
  ASSUME IInv, CountOK, NEW u \in DOMAIN thr, Arriving(thr[u])
  PROVE  InflightAt(cl)
  <1> DEFINE k == cl.coord
             W == InWindow(k)
  <1>1. k \in 1..Len(cl.coords)
    BY Numbers, OwnLocal DEF IInv, CleanupOK, Arriving
  <1>2. u \in W
    BY DEF InWindow, Registering, Arriving, AdminSteps
  <1>3. IsFiniteSet(W) /\ cl.coords[k].inflight = Cardinality(W)
    BY <1>1 DEF CountOK
  <1> HIDE DEF W
  <1>4. Cardinality(W) \in Nat /\ Cardinality(W) # 0
    BY <1>2, <1>3, FS_CardinalityType, FS_EmptySet
  <1> QED
    BY <1>1, <1>3, <1>4 DEF InflightAt

\* A thread asks for the cleanup of the current generation, whose worker is
\* gone.
LEMMA RequestStep ==
  ASSUME IInv, DeregisterInv, NEW t \in DOMAIN thr, OnlyMoves(t), Stays(t),
         ~Loud(thr[t]) \/ thr[t].pc = "request",
         ~Loud(thr'[t]), OneShotOK(thr[t])',
         RequestedOf(cl, cl', generation), worker' = 0,
         UNCHANGED <<generation, rpcs>>
  PROVE  DeregisterInv'
  <1> DEFINE s == cl
             c == cl'
  <1>1. /\ UNCHANGED <<net, rpcSeq, applied, remote, released>>
        /\ generation \in Nat /\ cl \in CleanupState
        /\ cl.requested <= generation
    BY Numbers DEF rpcs, DeregisterInv, CleanupInv, AskedOK
  <1>2. NothingNew
    BY DEF NothingNew, OnlyMoves, Stays
  <1>3. \A u \in DOMAIN thr :
          u # t => u \in DOMAIN thr' /\ thr'[u] = thr[u]
    BY DEF OnlyMoves
  <1>4. ~Counted(thr[t]) /\ ~Arriving(thr[t])
        /\ ~(thr[t].rpc = "cleanup" /\ thr[t].pc \in {"call", "rpc"})
    BY DEF Loud, Counted, Sent, Registering, Arriving, AdminSteps
  <1>5. CallsInv'
    <2>1. \A u \in DOMAIN thr' : OneShotOK(thr[u])'
      BY OneShotMove DEF DeregisterInv
    <2>2. applied' <= rpcSeq
      BY <1>1 DEF DeregisterInv, CallsInv, SentOK
    <2> QED
      BY <1>1, <1>2, <1>3, <1>4, <2>1, <2>2, CallsQuiet, CountedIsLoud
         DEF DeregisterInv, NothingNew, RequestedOf
  <1>6. \A u \in DOMAIN thr' : Loud(thr'[u]) =>
          u \in DOMAIN thr /\ u # t /\ thr'[u] = thr[u]
    BY <1>2 DEF NothingNew
  <1>7. \A u \in DOMAIN thr : Arriving(thr[u]) =>
          /\ u \in DOMAIN thr' /\ thr'[u] = thr[u]
          /\ Arriving(thr[u])' /\ cl'.coord = cl.coord
    <2> SUFFICES ASSUME NEW u \in DOMAIN thr, Arriving(thr[u])
                 PROVE  /\ u \in DOMAIN thr' /\ thr'[u] = thr[u]
                        /\ Arriving(thr[u])' /\ cl'.coord = cl.coord
      OBVIOUS
    <2>1. InflightAt(cl)
      BY ArrivingInflight DEF DeregisterInv, CallsInv
    <2> QED
      BY <1>3, <1>4, <2>1 DEF Arriving, RequestedOf
  <1>8. \A u \in DOMAIN thr' : Arriving(thr[u])' =>
          /\ u \in DOMAIN thr /\ thr'[u] = thr[u] /\ Arriving(thr[u])
          /\ cl'.coord = cl.coord /\ cl.coord # 0
    BY <1>6 DEF Arriving, RequestedOf, Loud
  <1>9. AskedOK'
    BY <1>1 DEF AskedOK, RequestedOf, Asks
  <1>10. RenewalFirst'
    BY <1>6 DEF DeregisterInv, CleanupInv, RenewalFirst, Removing, Renews, Loud
  <1>11. Liable' => Liable
    BY <1>1, <1>6 DEF Liable, Listing, Renews, Loud
  <1>12. ArrivalReopens'
    BY <1>8 DEF ArrivalReopens, Spent, RequestedOf
  <1>13. ListedAfter'
    <2>1. applied' \in Nat /\ applied <= applied'
      BY <1>1, Numbers
    <2>2. \A o \in 1..Len(cl.ops) : cl'.ops[o].gen = cl.ops[o].gen
      BY DEF RequestedOf, Asks
    <2> QED
      BY <1>1, <1>6, <1>7, <2>1, <2>2, ListedKept
         DEF DeregisterInv, CleanupInv, Loud
  <1>14. ToCome => ToCome'
    <2>1. CASE cl.pending # 0
      BY <2>1 DEF ToCome, RequestedOf, Asks
    <2>2. CASE \E u \in DOMAIN thr :
                 thr[u].rpc = "cleanup" /\ thr[u].pc \in {"call", "rpc"}
      BY <1>3, <1>4, <2>2 DEF ToCome
    <2>3. CASE \E u \in DOMAIN thr : Arriving(thr[u])
      BY <1>7, <2>3 DEF ToCome
    <2>4. CASE OpenAt(cl, generation)
      BY <2>4 DEF ToCome, RequestedOf, OpenAt, InflightAt
    <2> QED
      BY <2>1, <2>2, <2>3, <2>4 DEF ToCome
  <1>15. CleanupInv'
    BY <1>9, <1>10, <1>11, <1>12, <1>13, <1>14
       DEF CleanupInv, DeregisterInv
  <1> QED
    BY <1>5, <1>15 DEF DeregisterInv

LEMMA DeregisterCallStop ==
  ASSUME IInv, DeregisterInv, NEW c \in Callers, NEW k, CallStop(c, k)
  PROVE  DeregisterInv'
  <1>1. /\ c \in DOMAIN thr /\ thr[c].pc = "idle" /\ UNCHANGED rpcs
        /\ UNCHANGED generation /\ worker' = 0
    BY Invoked DEF CallStop, Invoke, StopLocal
  <1>2. PICK p \in {"schedStop", "closeTail"} : Go(c, Local(k, p, generation))
    BY DEF CallStop
  <1> DEFINE u == Local(k, p, generation)
  <1>3. u.pc = p /\ u.rpc = "none"
    BY DEF Local, Idle
  <1>4. OnlyMoves(c) /\ Stays(c) /\ thr'[c] = u
    BY <1>1, <1>2, GoMoves DEF Go
  <1> HIDE DEF u
  <1>5. ~Loud(thr[c]) /\ ~Loud(thr'[c]) /\ OneShotOK(thr[c])'
    BY <1>1, <1>3, <1>4 DEF Loud, OneShotOK
  <1>6. CASE k = "stopRemove"
    <2>1. CleanupOK(cl, generation, 0)
      BY DEF IInv, CleanupOK
    <2>2. RequestedOf(cl, cl', generation)
      BY <1>6, <2>1, Numbers, RequestRemoveAsks DEF CallStop
    <2> QED
      BY <1>1, <1>4, <1>5, <2>2, RequestStep
  <1>7. CASE k # "stopRemove"
    <2>1. cl' = cl
      BY <1>7 DEF CallStop, Keep
    <2>2. owed' = owed
      BY <1>7, Numbers DEF CallStop, IInv, RestOK
    <2>3. Calm
      BY <1>1, <2>1, <2>2 DEF Calm
    <2> QED
      BY <1>1, <1>4, <1>5, <2>3, CalmMove DEF Calm
  <1> QED
    BY <1>6, <1>7

LEMMA DeregisterShutdownRequest ==
  ASSUME IInv, RemovalInv, DeregisterInv, NEW t \in DOMAIN thr,
         ShutdownRequest(t)
  PROVE  DeregisterInv'
  <1>1. /\ thr[t].pc = "request"
        /\ UNCHANGED <<generation, worker, rpcs>>
    BY DEF ShutdownRequest, At, lifecycle
  <1>2. PICK p \in {"schedShutdown", "closeTail"} : Goto(t, p)
    BY DEF ShutdownRequest
  <1>3. /\ OnlyMoves(t) /\ Stays(t) /\ thr'[t].pc = p
        /\ thr'[t].rpc = thr[t].rpc /\ thr'[t].gen = thr[t].gen
    BY <1>2, GotoMoves
  <1>4. ~Loud(thr'[t]) /\ OneShotOK(thr[t])'
    BY <1>1, <1>3
       DEF Loud, OneShotOK, DeregisterInv, CallsInv, AdminSteps
  <1>5. CASE generation = thr[t].gen /\ cl' = RequestRemove(cl, generation).cl
    <2>1. worker = 0
      BY <1>1, <1>5, OwnLocal DEF LocalOK
    <2>2. CleanupOK(cl, generation, 0)
      BY DEF IInv, CleanupOK
    <2>3. RequestedOf(cl, cl', generation)
      BY <1>5, <2>2, Numbers, RequestRemoveAsks
    <2> QED
      BY <1>1, <1>3, <1>4, <2>1, <2>3, RequestStep
  <1>6. CASE /\ cl' = cl
             /\ (owed' = owed /\ generation # thr[t].gen) \/ ~owed'
    <2>1. /\ UNCHANGED <<net, rpcSeq, applied, remote, released>>
          /\ applied \in Nat
      BY <1>1, Numbers DEF rpcs
    <2>2. NothingNew
      BY <1>3, <1>4 DEF NothingNew, OnlyMoves, Stays
    <2>3. \A u \in DOMAIN thr :
            u # t => u \in DOMAIN thr' /\ thr'[u] = thr[u]
      BY <1>3 DEF OnlyMoves
    <2>4. ~Counted(thr[t]) /\ ~Arriving(thr[t])
          /\ ~(thr[t].rpc = "cleanup" /\ thr[t].pc \in {"call", "rpc"})
      BY <1>1 DEF Counted, Sent, Registering, Arriving, AdminSteps
    <2>5. CallsInv'
      <3>1. \A u \in DOMAIN thr' : OneShotOK(thr[u])'
        BY <1>1, <1>3, <1>4, OneShotMove DEF DeregisterInv
      <3>2. applied' <= rpcSeq
        BY <2>1 DEF DeregisterInv, CallsInv, SentOK
      <3>3. SameCounts(cl, cl')
        BY <1>6 DEF SameCounts
      <3> QED
        BY <1>1, <2>1, <2>2, <2>3, <2>4, <3>1, <3>2, <3>3, CallsQuiet,
           CountedIsLoud
           DEF DeregisterInv, NothingNew
    <2>6. ~Vital(t) \/ ~owed'
      BY <1>1, <1>6, <2>4 DEF Vital
    <2>7. CleanupInv'
      BY <1>1, <1>6, <2>1, <2>2, <2>3, <2>6, CleanupQuiet DEF DeregisterInv
    <2> QED
      BY <2>5, <2>7 DEF DeregisterInv
  <1> QED
    BY <1>5, <1>6, Numbers DEF ShutdownRequest, Keep, IInv, RestOK

-----------------------------------------------------------------------------
(* The scheduler.                                                          *)

\* c is the state s after its window was looked at again in generation g,
\* with worker w.
SettledOf(s, c, g, w) ==
  /\ Asks(s, c, g) /\ c.coords = s.coords
  /\ c.coord = s.coord \/ (c.coord = 0 /\ ~InflightAt(s))
  /\ c.requested # s.requested => w = 0 /\ ~InflightAt(s)

LEMMA ReconcileAfterAsks ==
  ASSUME NEW s, NEW g \in Nat, NEW w \in Nat, CleanupOK(s, g, w),
         NEW og, NEW c, c = ReconcileAfter(s, og, g)
  PROVE  SettledOf(s, c, g, w)
  <1>1. Len(s.ops) \in Nat
    BY Fields DEF CleanupOK
  <1>2. CASE c = s
    BY <1>1, <1>2 DEF SettledOf, Asks
  <1>3. CASE s.coord # 0 /\ c = Reconcile(s, g).cl
    BY <1>3, ReconcileAsks DEF SettledOf
  <1> QED
    BY <1>2, <1>3 DEF ReconcileAfter

\* Once the library is released it owes nothing.
LEMMA ReleasedStep ==
  ASSUME CallsInv', AskedOK', RenewalFirst', released'
  PROVE  DeregisterInv'
BY DEF DeregisterInv, CleanupInv, ArrivalReopens, ListedAfter, Liable

\* The threads that look at the state while a removal begins or ends.
LEMMA RenewalsQuiet ==
  ASSUME RenewalFirst, NothingNew
  PROVE  RenewalFirst'
BY DEF RenewalFirst, NothingNew, Removing, Renews, Loud

\* The bookkeeping when t moves on and was in no call.
LEMMA CallsMove ==
  ASSUME IInv, CallsInv, NEW t, OnlyMoves(t),
         t \in DOMAIN thr => ~Registering(thr[t]),
         Stays(t) => ~Counted(thr'[t]) /\ OneShotOK(thr[t])',
         SameCounts(cl, cl'), UNCHANGED <<generation, net, rpcSeq>>,
         applied' <= rpcSeq
  PROVE  CallsInv'
  <1>1. \A u \in DOMAIN thr' : OneShotOK(thr[u])'
    BY OneShotMove
  <1>2. \A u \in DOMAIN thr' :
          Counted(thr'[u]) => u \in DOMAIN thr /\ thr'[u] = thr[u]
    BY DEF OnlyMoves, Stays
  <1>3. \A u \in DOMAIN thr :
          Registering(thr[u]) => u \in DOMAIN thr' /\ thr'[u] = thr[u]
    BY DEF OnlyMoves
  <1> QED
    BY <1>1, <1>2, <1>3, CallsQuiet

\* What a thread at the scheduler does next is of no account here.
LEMMA SchedCalm ==
  ASSUME IInv, RemovalInv, DeregisterInv, NEW t \in DOMAIN thr,
         thr[t].pc \in SchedSites, NEW q,
         \/ q = AfterSched(thr[t].pc)
         \/ q = AfterSpawnFailure(thr[t].pc)
  PROVE  ~Loud(thr[t]) /\ q \notin LoudSteps /\ q \notin AdminSteps
  <1>1. q \in {"close", "awaitPending", "closeTail", "recheck", "recheckTail"}
    BY DEF AfterSched, AfterSpawnFailure, SchedSites
  <1> QED
    BY <1>1 DEF Loud, LoudSteps, AdminSteps, SchedSites

\* The pending removal that fails because its actor does not start.
LEMMA FailedFields ==
  ASSUME IInv, NEW o, o = cl.pending, o # 0,
         NEW f, f = Finish([cl EXCEPT !.pending = 0], o, "fail")
  PROVE  /\ CleanupOK(f, generation, worker)
         /\ f.requested = cl.requested
         /\ f.coord = cl.coord /\ f.coords = cl.coords
  <1> DEFINE s == [cl EXCEPT !.pending = 0]
             x == "fail"
  <1>1. /\ generation \in Nat /\ worker \in Nat /\ o \in 1..Len(cl.ops)
        /\ CleanupOK(cl, generation, worker)
    BY Numbers DEF IInv, CleanupOK
  <1>2. /\ CleanupOK(s, generation, worker) /\ s.ops = cl.ops
        /\ s.requested = cl.requested
        /\ s.coord = cl.coord /\ s.coords = cl.coords
    BY <1>1, PendingDropped
  <1>3. s \in CleanupState
    BY <1>2 DEF CleanupOK
  <1> HIDE DEF s
  <1>4. x \in {"ok", "fail"} /\ f = Finish(s, o, x) /\ o \in 1..Len(s.ops)
    BY <1>1, <1>2 DEF s
  <1> HIDE DEF x
  <1>5. CleanupOK(f, generation, worker)
    <2>1. Edited(s, Finish(s, o, x), generation, worker)
      BY <1>1, <1>2, <1>4, FinishOK
    <2> QED
      BY <1>4, <2>1 DEF Edited
  <1> QED
    BY <1>2, <1>3, <1>4, <1>5, FinishFields

LEMMA DeregisterScheduleFails ==
  ASSUME IInv, RemovalInv, DeregisterInv, NEW t \in DOMAIN thr,
         thr[t].pc \in SchedSites, NEW o, o = cl.pending, Schedulable,
         cl' = ReconcileAfter(Finish([cl EXCEPT !.pending = 0], o, "fail"),
                              cl.ops[o].gen, generation),
         IF Raises(thr[t].pc) THEN Exit(t)
                              ELSE Goto(t, AfterSpawnFailure(thr[t].pc)),
         released' = TRUE,
         UNCHANGED <<lifecycle, net, rpcSeq, applied, owed>>
  PROVE  DeregisterInv'
  <1> DEFINE f == Finish([cl EXCEPT !.pending = 0], o, "fail")
  <1>1. o # 0 /\ worker = 0
    BY DEF Schedulable, IInv, CleanupOK
  <1>2. /\ CleanupOK(f, generation, worker)
        /\ f.requested = cl.requested
        /\ f.coord = cl.coord /\ f.coords = cl.coords
    BY <1>1, FailedFields
  <1>3. cl' = ReconcileAfter(f, cl.ops[o].gen, generation)
    OBVIOUS
  <1> HIDE DEF f
  <1>4. SettledOf(f, cl', generation, worker)
    BY <1>2, <1>3, Numbers, ReconcileAfterAsks
  <1>5. /\ OnlyMoves(t) /\ ~Loud(thr[t])
        /\ Stays(t) => ~Loud(thr'[t]) /\ OneShotOK(thr[t])'
    <2>1. CASE Exit(t)
      BY <2>1, ExitMoves, SchedCalm DEF Loud, OneShotOK
    <2>2. CASE Goto(t, AfterSpawnFailure(thr[t].pc))
      <3>1. /\ OnlyMoves(t) /\ thr'[t].pc = AfterSpawnFailure(thr[t].pc)
            /\ thr'[t].rpc = thr[t].rpc /\ thr'[t].gen = thr[t].gen
        BY <2>2, GotoMoves
      <3>2. /\ ~Loud(thr[t]) /\ thr'[t].pc \notin LoudSteps
            /\ thr'[t].pc \notin AdminSteps
        BY <3>1, SchedCalm
      <3> QED
        BY <3>1, <3>2
           DEF Loud, LoudSteps, OneShotOK, DeregisterInv, CallsInv, lifecycle
    <2> QED
      BY <2>1, <2>2
  <1>6. CallsInv'
    <2>1. SameCounts(cl, cl')
      BY <1>2, <1>4 DEF SettledOf, SameCounts
    <2>2. applied' <= rpcSeq
      BY DEF DeregisterInv, CallsInv, SentOK
    <2> QED
      BY <1>5, <2>1, <2>2, CountedIsLoud, CallsMove
         DEF DeregisterInv, lifecycle
  <1>7. AskedOK'
    <2>1. /\ cl'.requested \in {cl.requested, generation}
          /\ cl'.coords = cl.coords /\ cl'.coord \in {cl.coord, 0}
      BY <1>2, <1>4 DEF SettledOf, Asks
    <2>2. UNCHANGED <<generation, worker, owed>> /\ generation \in Nat
      BY Numbers DEF lifecycle
    <2> QED
      BY <1>1, <2>1, <2>2 DEF DeregisterInv, CleanupInv, AskedOK
  <1>8. RenewalFirst'
    <2>1. NothingNew
      BY <1>5 DEF NothingNew, OnlyMoves, Stays
    <2> QED
      BY <2>1, RenewalsQuiet DEF DeregisterInv, CleanupInv
  <1> QED
    BY <1>6, <1>7, <1>8, ReleasedStep

LEMMA DeregisterSchedule ==
  ASSUME IInv, RemovalInv, DeregisterInv, NEW t \in DOMAIN thr, Schedule(t)
  PROVE  DeregisterInv'
  <1> DEFINE p == thr[t].pc
             o == cl.pending
  <1>1. /\ p \in SchedSites
        /\ UNCHANGED <<lifecycle, net, rpcSeq, applied, remote, owed>>
    BY DEF Schedule
  <1>2. /\ ~Loud(thr[t])
        /\ AfterSched(p) \notin LoudSteps /\ AfterSched(p) \notin AdminSteps
    BY <1>1, SchedCalm
  <1>3. CASE Goto(t, AfterSched(p)) /\ UNCHANGED <<cl, released>>
    <2>1. Calm
      BY <1>1, <1>3 DEF Calm, lifecycle, rpcs
    <2> HIDE DEF p
    <2> QED
      BY <1>2, <1>3, <2>1, CalmGoto
  <1>4. CASE /\ Schedulable /\ cl' = [cl EXCEPT !.ops[o].thread = spawned + 1]
             /\ Spawn([thr EXCEPT ![t].pc = AfterSched(p)],
                      [Local("actor", "claim", cl.ops[o].gen) EXCEPT !.ref = o])
             /\ UNCHANGED released
    <2> DEFINE u == [thr[t] EXCEPT !.pc = AfterSched(p)]
               v == [Local("actor", "claim", cl.ops[o].gen) EXCEPT !.ref = o]
    <2>1. v.pc = "claim" /\ v.rpc = "none"
      BY DEF Local, Idle
    <2>2. /\ u.pc = AfterSched(p) /\ u.rpc = thr[t].rpc /\ u.gen = thr[t].gen
      BY OwnLocal DEF LocalType
    <2>3. Spawn([thr EXCEPT ![t] = u], v)
      BY <1>4
    <2>4. o \in 1..Len(cl.ops) /\ spawned + 1 \in Nat
      BY <1>4, Numbers DEF Schedulable, IInv, CleanupOK
    <2>5. Calm
      BY <1>1, <1>4, <2>4, NotedCalm DEF rpcs
    <2> HIDE DEF u, v
    <2>6. ~Loud(u) /\ ~Loud(v)
      BY <1>2, <2>1, <2>2 DEF Loud, LoudSteps
    <2>7. u.rpc = "remove" => u.gen <= generation /\ u.pc \notin AdminSteps
      BY <1>2, <2>2 DEF DeregisterInv, CallsInv, OneShotOK
    <2> QED
      BY <1>2, <2>1, <2>3, <2>5, <2>6, <2>7, CalmSpawn
  <1>5. CASE /\ Schedulable
             /\ cl' = ReconcileAfter(Finish([cl EXCEPT !.pending = 0], o, "fail"),
                                     cl.ops[o].gen, generation)
             /\ released' = TRUE
             /\ IF Raises(p) THEN Exit(t) ELSE Goto(t, AfterSpawnFailure(p))
    BY <1>1, <1>5, DeregisterScheduleFails
  <1> QED
    BY <1>3, <1>4, <1>5 DEF Schedule, Goto

-----------------------------------------------------------------------------
(* A removal begins.                                                       *)

\* The thread t, which was in no call, is about to make that of a removal.
LEMMA RemovalStarts ==
  ASSUME IInv, DeregisterInv, NEW t \in DOMAIN thr, ~Loud(thr[t]),
         OnlyMoves(t), Stays(t), thr'[t].pc = "call", thr'[t].rpc = "cleanup",
         UNCHANGED <<generation, rpcs, owed>>, worker' \in {worker, 0},
         cl'.requested = cl.requested, cl'.removed = cl.removed,
         cl'.coord = cl.coord, cl'.coords = cl.coords,
         \A o \in 1..Len(cl.ops) : cl'.ops[o].gen = cl.ops[o].gen
  PROVE  DeregisterInv'
  <1>1. /\ UNCHANGED <<net, rpcSeq, applied, remote, released>>
    BY DEF rpcs
  <1>2. ~Registering(thr[t]) /\ ~Counted(thr'[t]) /\ OneShotOK(thr[t])'
    BY DEF Loud, Registering, Counted, Sent, AdminSteps, OneShotOK
  <1>3. CallsInv'
    <2>1. SameCounts(cl, cl')
      BY DEF SameCounts
    <2>2. applied' <= rpcSeq
      BY <1>1 DEF DeregisterInv, CallsInv, SentOK
    <2> QED
      BY <1>1, <1>2, <2>1, <2>2, CallsMove DEF DeregisterInv
  <1>4. \A u \in DOMAIN thr' : u # t => u \in DOMAIN thr /\ thr'[u] = thr[u]
    BY DEF OnlyMoves
  <1>5. \A u \in DOMAIN thr : u # t => u \in DOMAIN thr' /\ thr'[u] = thr[u]
    BY DEF OnlyMoves
  <1>6. AskedOK'
    BY DEF DeregisterInv, CleanupInv, AskedOK
  <1>7. RenewalFirst'
    BY <1>4 DEF DeregisterInv, CleanupInv, RenewalFirst, Removing, Renews
  <1>8. Liable' => Liable
    BY <1>1, <1>4 DEF Liable, Listing, Renews
  <1>9. ArrivalReopens'
    <2>1. \A u \in DOMAIN thr' : Arriving(thr[u])' =>
            u \in DOMAIN thr /\ Arriving(thr[u])
      BY <1>4 DEF Arriving
    <2>2. Spent' => Spent
      BY DEF Spent
    <2> QED
      BY <1>8, <2>1, <2>2 DEF DeregisterInv, CleanupInv, ArrivalReopens
  <1>10. ListedAfter'
    <2>1. applied' \in Nat /\ applied <= applied'
      BY <1>1, Numbers
    <2>2. \A u \in DOMAIN thr : Arriving(thr[u]) =>
            u \in DOMAIN thr' /\ thr'[u] = thr[u] /\ Arriving(thr[u])'
      BY <1>5 DEF Arriving, Loud
    <2> QED
      BY <1>1, <1>4, <2>1, <2>2, ListedKept DEF DeregisterInv, CleanupInv
  <1>11. ToCome'
    BY DEF ToCome, Stays
  <1> QED
    BY <1>3, <1>6, <1>7, <1>9, <1>10, <1>11 DEF DeregisterInv, CleanupInv

LEMMA DeregisterClaim ==
  ASSUME IInv, RemovalInv, DeregisterInv, NEW t \in DOMAIN thr, Claim(t)
  PROVE  DeregisterInv'
  <1> DEFINE u == [thr[t] EXCEPT !.pc = "call", !.rpc = "cleanup"]
             c == [cl EXCEPT !.pending = 0, !.active = thr[t].ref]
  <1>1. thr[t].pc = "claim" /\ UNCHANGED <<lifecycle, rpcs, owed>>
    BY DEF Claim, At, Unmoved
  <1>2. ~Loud(thr[t])
    BY <1>1 DEF Loud
  <1>3. CASE cl' = c /\ thr' = [thr EXCEPT ![t] = u]
    <2>1. u.pc = "call" /\ u.rpc = "cleanup"
      BY OwnLocal DEF LocalType
    <2>2. /\ c.requested = cl.requested /\ c.removed = cl.removed
          /\ c.coord = cl.coord /\ c.coords = cl.coords /\ c.ops = cl.ops
      BY Numbers DEF CleanupState
    <2> HIDE DEF c, u
    <2>3. OnlyMoves(t) /\ Stays(t) /\ thr'[t] = u
      BY <1>3, GoMoves
    <2> QED
      BY <1>1, <1>2, <1>3, <2>1, <2>2, <2>3, RemovalStarts DEF lifecycle
  <1>4. CASE Goto(t, "discard") /\ UNCHANGED cl
    <2>1. Calm
      BY <1>1, <1>4 DEF Calm, lifecycle
    <2> QED
      BY <1>2, <1>4, <2>1, CalmGoto DEF LoudSteps
  <1> QED
    BY <1>3, <1>4 DEF Claim

LEMMA DeregisterFinishWorker ==
  ASSUME IInv, RemovalInv, DeregisterInv, NEW t \in DOMAIN thr,
         FinishWorker(t)
  PROVE  DeregisterInv'
  <1> DEFINE u == [thr[t] EXCEPT !.pc = "call", !.rpc = "cleanup",
                                 !.ref = cl.pending]
             c == [cl EXCEPT !.pending = 0, !.active = cl.pending]
  <1>1. /\ thr[t].pc = "finish" /\ worker' \in {worker, 0}
        /\ UNCHANGED <<generation, rpcs, owed>>
    BY DEF FinishWorker, At
  <1>2. ~Loud(thr[t])
    BY <1>1 DEF Loud
  <1>3. CASE cl' = c /\ thr' = [thr EXCEPT ![t] = u]
    <2>1. u.pc = "call" /\ u.rpc = "cleanup"
      BY OwnLocal DEF LocalType
    <2>2. /\ c.requested = cl.requested /\ c.removed = cl.removed
          /\ c.coord = cl.coord /\ c.coords = cl.coords /\ c.ops = cl.ops
      BY Numbers DEF CleanupState
    <2> HIDE DEF c, u
    <2>3. OnlyMoves(t) /\ Stays(t) /\ thr'[t] = u
      BY <1>3, GoMoves
    <2> QED
      BY <1>1, <1>2, <1>3, <2>1, <2>2, <2>3, RemovalStarts
  <1>4. CASE Goto(t, "schedTail") /\ UNCHANGED cl
    <2>1. Calm
      BY <1>1, <1>4 DEF Calm
    <2> QED
      BY <1>2, <1>4, <2>1, CalmGoto DEF LoudSteps
  <1> QED
    BY <1>3, <1>4 DEF FinishWorker

LEMMA DeregisterTerminalOwn ==
  ASSUME IInv, RemovalInv, DeregisterInv, NEW t \in DOMAIN thr,
         TerminalOwn(t)
  PROVE  DeregisterInv'
  <1> DEFINE n == Len(cl.ops) + 1
             q == Append(cl.ops, Operation(thr[t].gen))
             u == [thr[t] EXCEPT !.pc = "call", !.rpc = "cleanup", !.ref = n]
             c == [cl EXCEPT !.ops = q, !.active = n]
  <1>1. /\ thr[t].pc = "terminal"
        /\ UNCHANGED <<lifecycle, rpcs, owed>>
        /\ cl' = c /\ thr' = [thr EXCEPT ![t] = u]
    BY DEF TerminalOwn, Unsettled, At, Unmoved
  <1>2. ~Loud(thr[t])
    BY <1>1 DEF Loud
  <1>3. u.pc = "call" /\ u.rpc = "cleanup"
    BY OwnLocal DEF LocalType
  <1>4. \A o \in 1..Len(cl.ops) : q[o] = cl.ops[o]
    <2>1. cl.ops \in Seq(OperationType) /\ thr[t].gen \in Nat
      BY Numbers, Fields, OwnLocal
    <2> QED
      BY <2>1, AddOperation
  <1> HIDE DEF q
  <1>5. /\ c.requested = cl.requested /\ c.removed = cl.removed
        /\ c.coord = cl.coord /\ c.coords = cl.coords /\ c.ops = q
    BY Numbers DEF CleanupState
  <1> HIDE DEF c, u
  <1>6. OnlyMoves(t) /\ Stays(t) /\ thr'[t] = u
    BY <1>1, GoMoves
  <1> QED
    BY <1>1, <1>2, <1>3, <1>4, <1>5, <1>6, RemovalStarts DEF lifecycle

-----------------------------------------------------------------------------
(* An Admin call begins and ends.                                          *)

\* The call under way is that of the thread that holds network_lock.
LEMMA OneCall ==
  ASSUME CallsInv
  PROVE  \A u \in DOMAIN thr : thr[u].pc = "rpc" => net = u
BY DEF CallsInv, SentOK

LEMMA CallsRpcBegin ==
  ASSUME IInv, CallsInv, NEW t \in DOMAIN thr, RpcBegin(t)
  PROVE  CallsInv'
  <1> DEFINE v == [thr[t] EXCEPT !.pc = "rpc", !.seq = rpcSeq + 1]
  <1>1. /\ thr[t].pc = "call" /\ net = 0 /\ net' = t /\ rpcSeq' = rpcSeq + 1
        /\ thr' = [thr EXCEPT ![t] = v]
        /\ UNCHANGED <<cl, applied, generation>>
    BY DEF RpcBegin, At, lifecycle
  <1>2. /\ v.pc = "rpc" /\ v.seq = rpcSeq + 1 /\ v.rpc = thr[t].rpc
        /\ v.coord = thr[t].coord /\ v.gen = thr[t].gen
    BY OwnLocal DEF LocalType
  <1> HIDE DEF v
  <1>3. OnlyMoves(t) /\ Stays(t) /\ thr'[t] = v
    BY <1>1, GoMoves
  <1>4. CountOK'
    <2>1. SameCounts(cl, cl')
      BY <1>1 DEF SameCounts
    <2> QED
      BY <1>1, <1>2, <1>3, <2>1, WindowsKept
         DEF CallsInv, OnlyMoves, Stays, Registering, AdminSteps
  <1>5. SentOK'
    <2>1. rpcSeq \in Nat /\ applied \in Nat /\ 0 \notin DOMAIN thr
      BY Numbers, ThreadNames
    <2>2. \A u \in DOMAIN thr' : u # t => u \in DOMAIN thr /\ thr'[u] = thr[u]
      BY <1>3 DEF OnlyMoves
    <2>3. \A u \in DOMAIN thr : Sent(thr[u]) => /\ thr[u].seq \in 1..rpcSeq
                                                /\ thr[u].pc # "rpc"
      BY <1>1, <2>1 DEF CallsInv, SentOK
    <2>4. \A u \in DOMAIN thr' : u # t /\ Sent(thr'[u]) =>
            thr'[u].seq \in 1..rpcSeq /\ thr'[u].pc # "rpc"
      BY <2>2, <2>3
    <2>5. applied <= rpcSeq
      BY DEF CallsInv, SentOK
    <2>6. \A u, w \in DOMAIN thr' :
            Sent(thr'[u]) /\ Sent(thr'[w]) /\ u # w => thr'[u].seq # thr'[w].seq
      <3>1. \A u, w \in DOMAIN thr' :
              Sent(thr'[u]) /\ Sent(thr'[w]) /\ u # w /\ u # t /\ w # t
                => thr'[u].seq # thr'[w].seq
        BY <2>2 DEF CallsInv, SentOK
      <3> QED
        BY <1>2, <1>3, <2>1, <2>4, <3>1
    <2> QED
      BY <1>1, <1>2, <1>3, <2>1, <2>4, <2>5, <2>6 DEF SentOK, Sent
  <1>6. OneShotOK(thr[t])'
    BY <1>1, <1>2, <1>3 DEF CallsInv, OneShotOK, AdminSteps
  <1> QED
    BY <1>1, <1>3, <1>4, <1>5, <1>6, OneShotMove DEF CallsInv

LEMMA DeregisterRpcBegin ==
  ASSUME IInv, RemovalInv, DeregisterInv, NEW t \in DOMAIN thr, RpcBegin(t)
  PROVE  DeregisterInv'
  <1> DEFINE v == [thr[t] EXCEPT !.pc = "rpc", !.seq = rpcSeq + 1]
  <1>1. /\ thr[t].pc = "call" /\ net = 0
        /\ thr' = [thr EXCEPT ![t] = v]
        /\ UNCHANGED <<cl, applied, generation, worker, remote, released, owed>>
    BY DEF RpcBegin, At, lifecycle
  <1>2. v.pc = "rpc" /\ v.rpc = thr[t].rpc
    BY OwnLocal DEF LocalType
  <1> HIDE DEF v
  <1>3. OnlyMoves(t) /\ Stays(t) /\ thr'[t] = v
    BY <1>1, GoMoves
  <1>4. /\ \A u \in DOMAIN thr' : u # t => u \in DOMAIN thr /\ thr'[u] = thr[u]
        /\ \A u \in DOMAIN thr : u # t => u \in DOMAIN thr' /\ thr'[u] = thr[u]
    BY <1>3 DEF OnlyMoves
  <1>5. /\ \A u \in DOMAIN thr : Arriving(thr[u]) =>
             u \in DOMAIN thr' /\ thr'[u] = thr[u] /\ Arriving(thr[u])'
        /\ \A u \in DOMAIN thr' : Arriving(thr[u])' =>
             u \in DOMAIN thr /\ Arriving(thr[u])
    BY <1>1, <1>2, <1>3, <1>4 DEF Arriving
  <1>6. \A u \in DOMAIN thr : thr[u].pc # "rpc"
    BY <1>1, OneCall, ThreadNames DEF DeregisterInv
  <1>7. thr[t].rpc = "renewal" => /\ worker = t /\ worker # 0
                                  /\ cl.requested # generation
                                  /\ ~owed /\ OpenAt(cl, generation)
    <2>1. ASSUME thr[t].rpc = "renewal" PROVE worker = t /\ worker # 0
      BY <2>1, ThreadNames DEF RpcBegin, IsCurrent
    <2> QED
      BY <2>1 DEF IInv, CleanupOK, DeregisterInv, CleanupInv, AskedOK, OpenAt
  <1>8. CallsInv'
    BY CallsRpcBegin DEF DeregisterInv
  <1>9. AskedOK'
    BY <1>1 DEF DeregisterInv, CleanupInv, AskedOK
  <1>10. RenewalFirst'
    <2> SUFFICES ASSUME NEW x \in DOMAIN thr', NEW w \in DOMAIN thr',
                        Removing(x)', Renews(thr'[w])
                 PROVE  FALSE
      BY DEF RenewalFirst, Renews
    <2>1. w = t /\ thr[t].rpc = "renewal" /\ x # t
      BY <1>2, <1>3, <1>4, <1>6 DEF Renews, Removing
    <2>2. x \in DOMAIN thr /\ Removing(x)
      BY <1>4, <2>1 DEF Removing
    <2>3. cl.active # 0
      BY <2>2, OwnLocal DEF RemovalInv, RemovingOK, LocalOK, Removing
    <2> QED
      BY <1>1, <1>7, <2>1, <2>3 DEF RemovalInv, WaitOK
  <1>11. Liable' => Liable \/ thr[t].rpc = "renewal"
    BY <1>1, <1>2, <1>3, <1>4 DEF Liable, Listing, Renews
  <1>12. ArrivalReopens'
    <2>1. thr[t].rpc = "renewal" => ~Spent
      BY <1>7 DEF Spent
    <2>2. Spent' => Spent
      BY <1>1 DEF Spent
    <2> QED
      BY <1>5, <1>11, <2>1, <2>2
         DEF DeregisterInv, CleanupInv, ArrivalReopens
  <1>13. ListedAfter'
    <2>1. applied' \in Nat /\ applied <= applied'
      BY <1>1, Numbers
    <2>2. \A u \in DOMAIN thr' :
            thr'[u].rpc = "cleanup" /\ thr'[u].pc = "commit" =>
              u \in DOMAIN thr /\ thr'[u] = thr[u]
      BY <1>2, <1>3, <1>4
    <2> QED
      BY <1>1, <1>5, <2>1, <2>2, ListedKept DEF DeregisterInv, CleanupInv
  <1>14. ToCome => ToCome'
    <2>1. (\E u \in DOMAIN thr : Arriving(thr[u]))
            => (\E u \in DOMAIN thr : Arriving(thr[u]))'
      BY <1>5
    <2>2. (\E u \in DOMAIN thr : thr[u].rpc = "cleanup" /\ thr[u].pc \in {"call", "rpc"})
            => (\E u \in DOMAIN thr : thr[u].rpc = "cleanup" /\ thr[u].pc \in {"call", "rpc"})'
      BY <1>2, <1>3, <1>4 DEF Stays
    <2>3. Requesting => Requesting'
      BY <1>1, <1>4 DEF Requesting
    <2> QED
      BY <1>1, <2>1, <2>2, <2>3 DEF ToCome, InflightAt, OpenAt
  <1>15. thr[t].rpc = "renewal" => ToCome'
    BY <1>1, <1>7 DEF ToCome, OpenAt
  <1> QED
    BY <1>8, <1>9, <1>10, <1>11, <1>12, <1>13, <1>14, <1>15
       DEF DeregisterInv, CleanupInv

LEMMA CallsRpcEnd ==
  ASSUME IInv, CallsInv, NEW t \in DOMAIN thr, thr[t].pc = "rpc",
         NEW v, thr' = [thr EXCEPT ![t] = v], v.pc = "commit",
         v.rpc = thr[t].rpc, v.coord = thr[t].coord, v.gen = thr[t].gen,
         v.seq = thr[t].seq, UNCHANGED <<cl, generation, rpcSeq, applied>>
  PROVE  CallsInv'
  <1>1. OnlyMoves(t) /\ Stays(t) /\ thr'[t] = v
    BY GoMoves
  <1>2. CountOK'
    <2>1. SameCounts(cl, cl')
      BY DEF SameCounts
    <2> QED
      BY <1>1, <2>1, WindowsKept
         DEF CallsInv, OnlyMoves, Stays, Registering, AdminSteps
  <1>3. SentOK'
    <2>1. \A u \in DOMAIN thr' : /\ u \in DOMAIN thr
                                 /\ Sent(thr'[u]) <=> Sent(thr[u])
                                 /\ thr'[u].seq = thr[u].seq
                                 /\ thr'[u].pc # "rpc"
      BY <1>1, OneCall DEF OnlyMoves, Sent
    <2> QED
      BY <2>1 DEF CallsInv, SentOK
  <1>4. OneShotOK(thr[t])'
    BY <1>1 DEF CallsInv, OneShotOK, AdminSteps
  <1> QED
    BY <1>1, <1>2, <1>3, <1>4, OneShotMove DEF CallsInv

LEMMA DeregisterRpcEnd ==
  ASSUME IInv, RemovalInv, DeregisterInv, NEW t \in DOMAIN thr, RpcEnd(t)
  PROVE  DeregisterInv'
  <1>1. /\ thr[t].pc = "rpc"
        /\ UNCHANGED <<cl, generation, worker, rpcSeq, applied, owed>>
    BY DEF RpcEnd, At, lifecycle
  <1>2. PICK o \in Outcomes :
          /\ remote' = IF o.effect THEN thr[t].rpc \in {"register", "renewal"}
                       ELSE remote
          /\ released' = (Forsaken(t, o) \/ (released /\ ~Removed(t, o)))
          /\ thr' = [thr EXCEPT ![t].pc = "commit", ![t].ok = o.ok]
    BY DEF RpcEnd
  <1> DEFINE v == [thr[t] EXCEPT !.pc = "commit", !.ok = o.ok]
             kind == thr[t].rpc
  <1>3. /\ v.pc = "commit" /\ v.ok = o.ok /\ v.rpc = kind
        /\ v.coord = thr[t].coord /\ v.gen = thr[t].gen /\ v.seq = thr[t].seq
        /\ v.ref = thr[t].ref
    BY OwnLocal DEF LocalType
  <1>4. thr' = [thr EXCEPT ![t] = v]
    BY <1>2
  <1> HIDE DEF v
  <1>5. OnlyMoves(t) /\ Stays(t) /\ thr'[t] = v
    BY <1>4, GoMoves
  <1>6. CallsInv'
    BY <1>1, <1>3, <1>4, CallsRpcEnd DEF DeregisterInv
  <1>7. /\ \A u \in DOMAIN thr' : u # t => u \in DOMAIN thr /\ thr'[u] = thr[u]
        /\ \A u \in DOMAIN thr : u # t => u \in DOMAIN thr' /\ thr'[u] = thr[u]
    BY <1>5 DEF OnlyMoves
  <1>8. AskedOK'
    BY <1>1 DEF DeregisterInv, CleanupInv, AskedOK
  <1>9. \A u \in DOMAIN thr' : ~Renews(thr'[u])
    BY <1>1, <1>3, <1>5, <1>7, OneCall DEF DeregisterInv, Renews
  <1>10. RenewalFirst'
    BY <1>9 DEF RenewalFirst, Renews
  <1>11. /\ \A u \in DOMAIN thr : Arriving(thr[u]) =>
              u \in DOMAIN thr' /\ thr'[u] = thr[u] /\ Arriving(thr[u])'
         /\ \A u \in DOMAIN thr' : u # t /\ Arriving(thr[u])' =>
              u \in DOMAIN thr /\ Arriving(thr[u])
    BY <1>1, <1>7 DEF Arriving
  <1>12. o.ok => o.effect
    BY DEF Outcomes
  <1>13. CASE released'
    BY <1>6, <1>8, <1>10, <1>13, ReleasedStep
  <1>14. CASE ~released' /\ ~remote'
    <2>1. ~Liable'
      BY <1>9, <1>14 DEF Liable, Listing
    <2> QED
      BY <1>6, <1>8, <1>10, <1>14, <2>1
         DEF DeregisterInv, CleanupInv, ArrivalReopens, ListedAfter
  \* From here on the call has not released the library, nor removed anything.
  <1>15. ASSUME ~released', remote'
         PROVE  ~released /\ ~Forsaken(t, o)
    BY <1>2, <1>15 DEF Removed
  <1>16. CASE ~released' /\ remote' /\ kind = "register" /\ o.effect
    <2>1. /\ o.ok /\ thr[t].coord # 0 /\ thr[t].coord = cl.coord /\ ~Spent
      BY <1>15, <1>16 DEF Forsaken
    <2>2. Arriving(thr[t])'
      BY <1>1, <1>3, <1>5, <1>16, <2>1 DEF Arriving
    <2>3. ArrivalReopens'
      BY <1>1, <2>1 DEF ArrivalReopens, Spent
    <2>4. ListedAfter'
      <3> SUFFICES ASSUME NEW x \in DOMAIN thr', Succeeded(x)'
                   PROVE  thr'[t].seq > thr'[x].seq
        BY <1>5, <2>2 DEF ListedAfter, Stays
      <3>1. x # t /\ x \in DOMAIN thr /\ thr'[x] = thr[x] /\ Sent(thr[x])
        BY <1>3, <1>5, <1>7, <1>16 DEF Succeeded, Sent
      <3>2. /\ thr[x].seq \in 1..rpcSeq /\ rpcSeq \in Nat
            /\ thr[t].seq = rpcSeq /\ thr[x].seq # thr[t].seq
        BY <1>1, <3>1, Numbers DEF DeregisterInv, CallsInv, SentOK, Sent
      <3> QED
        BY <1>3, <1>5, <3>1, <3>2
    <2>5. ToCome'
      BY <1>5, <2>2 DEF ToCome, Stays
    <2> QED
      BY <1>6, <1>8, <1>10, <2>3, <2>4, <2>5 DEF DeregisterInv, CleanupInv
  <1>17. CASE ~released' /\ remote' /\ ~(kind = "register" /\ o.effect)
    <2>1. kind # "cleanup"
      BY <1>2, <1>15, <1>17 DEF Forsaken
    <2>2. Liable
      BY <1>1, <1>2, <1>15, <1>17 DEF Liable, Listing, Renews
    <2>3. ~Arriving(thr[t])'
      BY <1>3, <1>5, <1>12, <1>17 DEF Arriving
    <2>4. ArrivalReopens'
      BY <1>1, <1>11, <2>2, <2>3
         DEF DeregisterInv, CleanupInv, ArrivalReopens, Spent
    <2>5. ListedAfter'
      <3>1. CASE kind = "renewal"
        <4> SUFFICES ASSUME NEW x \in DOMAIN thr', Succeeded(x)' PROVE FALSE
          BY DEF ListedAfter
        <4>1. x \in DOMAIN thr /\ Removing(x) /\ thr[x].pc = "commit"
          BY <1>3, <1>5, <1>7, <3>1 DEF Succeeded, Removing
        <4>2. Renews(thr[t])
          BY <1>1, <3>1 DEF Renews
        <4> QED
          BY <4>1, <4>2 DEF DeregisterInv, CleanupInv, RenewalFirst
      <3>2. CASE kind # "renewal"
        <4>1. remote
          BY <1>2, <1>17, <3>2
        <4>2. applied' \in Nat /\ applied <= applied'
          BY <1>1, Numbers
        <4>3. \A u \in DOMAIN thr' :
                thr'[u].rpc = "cleanup" /\ thr'[u].pc = "commit" =>
                  u \in DOMAIN thr /\ thr'[u] = thr[u]
          BY <1>3, <1>5, <1>7, <2>1
        <4> QED
          BY <1>1, <1>11, <1>15, <1>17, <4>1, <4>2, <4>3, ListedKept
             DEF DeregisterInv, CleanupInv
      <3> QED
        BY <3>1, <3>2
    <2>6. ToCome'
      <3>1. ToCome
        BY <2>2 DEF DeregisterInv, CleanupInv
      <3>2. CASE \E u \in DOMAIN thr : Arriving(thr[u])
        BY <1>11, <3>2 DEF ToCome
      <3>3. CASE \E u \in DOMAIN thr :
                   thr[u].rpc = "cleanup" /\ thr[u].pc \in {"call", "rpc"}
        BY <1>7, <2>1, <3>3 DEF ToCome
      <3>4. Requesting => Requesting'
        BY <1>1, <1>7 DEF Requesting
      <3> QED
        BY <1>1, <3>1, <3>2, <3>3, <3>4 DEF ToCome, OpenAt, InflightAt
    <2> QED
      BY <1>6, <1>8, <1>10, <2>4, <2>5, <2>6 DEF DeregisterInv, CleanupInv
  <1> QED
    BY <1>13, <1>14, <1>16, <1>17

-----------------------------------------------------------------------------
(* The completion of a removal.                                            *)

\* The cleanup state s after the removal of the thread t has ended, before the
\* window is looked at again: the removal counts, or it does not.
Closes(t, s) ==
  /\ Accepted(t) /\ thr[t].ok /\ cl.ops[thr[t].ref].gen = generation
  /\ worker = 0 /\ s.removed = generation /\ s.requested = generation

Ends(t, s) ==
  /\ s.removed = cl.removed /\ s.requested = cl.requested
  /\ s.pending = cl.pending
  /\ s.registered = cl.registered \/ generation > 0

LEMMA CloseEnds ==
  ASSUME IInv, NEW s \in CleanupState, s.ops = cl.ops,
         s.pending = cl.pending, NEW o \in 1..Len(cl.ops), NEW r, r = Close(s, o)
  PROVE  /\ \/ r = s /\ ~(cl.ops[o].gen = generation /\ worker = 0)
            \/ /\ cl.ops[o].gen = generation /\ worker = 0
               /\ r.removed = generation /\ r.requested = generation
         /\ r \in CleanupState /\ Len(r.ops) = Len(cl.ops)
         /\ \A j \in 1..Len(cl.ops) : r.ops[j].gen = cl.ops[j].gen
  <1> DEFINE og == cl.ops[o].gen
             s1 == [s EXCEPT !.requested = og, !.removed = og]
  <1>1. CASE generation # og \/ worker # 0
    BY <1>1 DEF Close
  <1>2. CASE ~(generation # og \/ worker # 0)
    <2>1. og \in Gen /\ og = generation /\ worker = 0
      BY <1>2, Numbers DEF Gen
    <2> HIDE DEF og
    <2>2. /\ s1 \in CleanupState /\ s1.ops = s.ops /\ s1.pending = s.pending
          /\ s1.requested = generation /\ s1.removed = generation
      BY <2>1 DEF CleanupState
    <2>3. r = IF s1.pending # 0 /\ s1.ops[s1.pending].gen = og
              THEN Cancel(s1, s1.pending) ELSE s1
      BY <1>2 DEF Close, og
    <2> HIDE DEF s1
    <2>4. s1.pending \in 0..Len(s1.ops)
      BY <2>2 DEF IInv, CleanupOK
    <2>5. r = s1 \/ r = Cancel(s1, s1.pending)
      BY <2>3
    <2> QED
      BY <2>1, <2>2, <2>4, <2>5, CancelFields DEF og, SameThreads
  <1> QED
    BY <1>1, <1>2

LEMMA CompletedEnds ==
  ASSUME IInv, RemovalInv, NEW t \in DOMAIN thr, CompleteRemove(t),
         NEW s, s = Completed(t)
  PROVE  /\ Closes(t, s) \/ Ends(t, s)
         /\ \A j \in 1..Len(cl.ops) : s.ops[j].gen = cl.ops[j].gen
  <1> DEFINE me  == thr[t]
             o   == me.ref
             n   == Len(cl.ops)
             acc == cl.active = o /\ Accepted(t)
             s1  == IF acc THEN Record(cl, "remove", me.ok) ELSE cl
             s2  == IF acc /\ me.ok THEN Close(s1, o) ELSE s1
             s3  == IF s2.active = o THEN [s2 EXCEPT !.active = 0] ELSE s2
             x   == IF me.ok THEN "ok" ELSE "fail"
  <1>1. /\ cl \in CleanupState /\ me.ok \in BOOLEAN /\ generation \in Nat
        /\ n \in Nat /\ o \in 1..n
    BY Numbers, OwnLocal DEF CompleteRemove, LocalOK
  <1>2. cl.active = o /\ o # 0
    <2>1. Removing(t)
      BY DEF Removing, CompleteRemove, At
    <2> QED
      BY <1>1, <2>1 DEF RemovalInv, RemovingOK
  \* Its generation is not newer than the current one, and it is older than a
  \* live worker.
  <1>3. /\ cl.ops[o].gen <= generation /\ cl.ops[o].gen \in Nat
        /\ generation = 0 => cl.ops[o].gen = generation /\ worker = 0
    <2>1. cl.ops[o] \in OperationType
      BY <1>1, Fields
    <2>2. cl.ops[o].gen \in Nat
      BY <2>1 DEF OperationType
    <2>3. cl.ops[o].gen <= generation
      BY <1>2 DEF RemovalInv, ActiveOK
    <2>4. worker # 0 => cl.ops[o].gen < generation
      BY <1>2 DEF RemovalInv, WaitOK
    <2> QED
      BY <1>1, <2>2, <2>3, <2>4
  <1>4. s = Finish(s3, o, x)
    BY DEF Completed
  <1>5. /\ s1 \in CleanupState /\ s1.ops = cl.ops /\ s1.pending = cl.pending
        /\ s1.removed = cl.removed /\ s1.requested = cl.requested
        /\ s1.registered = cl.registered \/ (acc /\ me.ok)
    <2>1. me.ok = FALSE => Record(cl, "remove", me.ok).registered = cl.registered
      BY <1>1 DEF Record, CleanupState
    <2> QED
      BY <1>1, <2>1, RecordSame
  <1> HIDE DEF s1
  <1>6. /\ s2 \in CleanupState /\ Len(s2.ops) = n
        /\ \A j \in 1..n : s2.ops[j].gen = cl.ops[j].gen
        /\ \/ /\ acc /\ me.ok /\ cl.ops[o].gen = generation /\ worker = 0
              /\ s2.removed = generation /\ s2.requested = generation
           \/ s2 = s1 /\ ~(acc /\ me.ok /\ cl.ops[o].gen = generation /\ worker = 0)
    <2>1. CASE acc /\ me.ok
      <3>1. s2 = Close(s1, o)
        BY <2>1
      <3> HIDE DEF s2, acc
      <3> QED
        BY <1>1, <1>5, <2>1, <3>1, CloseEnds
    <2>2. CASE ~(acc /\ me.ok)
      BY <1>5, <2>2
    <2> QED
      BY <2>1, <2>2
  <1> HIDE DEF s2
  <1>7. /\ s3 \in CleanupState /\ s3.ops = s2.ops
        /\ s3.pending = s2.pending /\ s3.removed = s2.removed
        /\ s3.requested = s2.requested /\ s3.registered = s2.registered
    BY <1>6 DEF CleanupState, Ref
  <1> HIDE DEF s3
  <1>8. o \in 1..Len(s3.ops) /\ Len(s3.ops) = n
    BY <1>1, <1>6, <1>7
  <1>9. /\ s.removed = s3.removed /\ s.requested = s3.requested
        /\ s.pending = s3.pending /\ s.registered = s3.registered
        /\ \A j \in 1..Len(s3.ops) : s.ops[j].gen = s3.ops[j].gen
    <2>1. x \in {"ok", "fail"}
      OBVIOUS
    <2> HIDE DEF x, o, n, acc
    <2>2. s.registered = s3.registered
      BY <1>4, <1>7 DEF Finish, CleanupState
    <2> QED
      BY <1>4, <1>7, <1>8, <2>1, <2>2, FinishFields
  <1>10. Closes(t, s) \/ Ends(t, s)
    BY <1>1, <1>2, <1>3, <1>5, <1>6, <1>7, <1>9 DEF Closes, Ends
  <1> QED
    BY <1>6, <1>7, <1>8, <1>9, <1>10

\* A success that counts leaves nothing to be removed, or the register that
\* follows will reopen the cleanup; any other end leaves what is to come as it
\* is.
LEMMA DeregisterCompleteRemove ==
  ASSUME IInv, RemovalInv, DeregisterInv, NEW t \in DOMAIN thr,
         CompleteRemove(t)
  PROVE  DeregisterInv'
  <1> DEFINE s == Completed(t)
             g == generation
  <1>1. /\ thr[t].pc = "commit" /\ thr[t].rpc = "cleanup" /\ Goto(t, "sched")
        /\ UNCHANGED <<generation, worker, net, rpcSeq, remote, released, owed>>
        /\ applied' = applied \/ (Accepted(t) /\ applied' = thr[t].seq)
    BY DEF CompleteRemove, At, lifecycle
  <1>2. /\ CleanupOK(s, g, worker) /\ Len(s.ops) = Len(cl.ops)
        /\ cl' = ReconcileAfter(s, cl.ops[thr[t].ref].gen, g)
    BY CompletedOK
  <1>3. s.coord = cl.coord /\ s.coords = cl.coords
    BY CompletedFields
  <1>4. /\ Closes(t, s) \/ Ends(t, s)
        /\ \A j \in 1..Len(cl.ops) : s.ops[j].gen = cl.ops[j].gen
    BY CompletedEnds
  <1>5. g \in Nat /\ worker \in Nat /\ cl.requested <= g
    BY Numbers DEF DeregisterInv, CleanupInv, AskedOK
  <1> HIDE DEF s
  <1>6. SettledOf(s, cl', g, worker)
    BY <1>2, <1>5, ReconcileAfterAsks
  <1>7. /\ OnlyMoves(t) /\ Stays(t) /\ thr'[t].pc = "sched"
        /\ thr'[t].rpc = "cleanup" /\ thr'[t].gen = thr[t].gen
    BY <1>1, GotoMoves
  <1>8. applied' \in Nat /\ applied <= applied' /\ applied' <= rpcSeq
    BY <1>1, CommitApplies DEF DeregisterInv
  <1>9. /\ \A u \in DOMAIN thr' : u # t => u \in DOMAIN thr /\ thr'[u] = thr[u]
        /\ \A u \in DOMAIN thr : u # t => u \in DOMAIN thr' /\ thr'[u] = thr[u]
    BY <1>7 DEF OnlyMoves
  <1>10. CallsInv'
    <2>1. SameCounts(cl, cl')
      BY <1>3, <1>6 DEF SettledOf, SameCounts
    <2>2. ~Registering(thr[t]) /\ ~Counted(thr'[t]) /\ OneShotOK(thr[t])'
      BY <1>1, <1>7
         DEF Registering, Counted, Sent, AdminSteps, OneShotOK
    <2> QED
      BY <1>1, <1>7, <1>8, <2>1, <2>2, CallsMove DEF DeregisterInv
  <1>11. Removing(t) /\ \A u \in DOMAIN thr : Removing(u) => u = t
    BY <1>1 DEF RemovalInv, RemovingOK, Removing
  <1>12. \A u \in DOMAIN thr' : ~Removing(u)'
    BY <1>7, <1>9, <1>11 DEF Removing
  <1>13. AskedOK'
    <2>1. /\ cl'.requested \in {s.requested, g}
          /\ worker # 0 => cl'.requested = s.requested
          /\ cl'.coords = cl.coords /\ cl'.coord \in {cl.coord, 0}
      BY <1>3, <1>6 DEF SettledOf, Asks
    <2>2. s.requested \in {cl.requested, g}
          /\ (worker # 0 => s.requested = cl.requested)
      BY <1>4 DEF Closes, Ends
    <2> QED
      BY <1>1, <1>5, <2>1, <2>2 DEF DeregisterInv, CleanupInv, AskedOK
  <1>14. RenewalFirst' /\ ListedAfter'
    BY <1>12 DEF RenewalFirst, ListedAfter, Succeeded, Removing
  <1>15. Liable' => Liable
    BY <1>1, <1>7, <1>9 DEF Liable, Listing, Renews
  <1>16. InflightAt(s) <=> InflightAt(cl)
    BY <1>3 DEF InflightAt
  <1>17. \A u \in DOMAIN thr : Arriving(thr[u]) =>
           /\ u \in DOMAIN thr' /\ thr'[u] = thr[u]
           /\ Arriving(thr[u])' /\ InflightAt(cl)
    <2> SUFFICES ASSUME NEW u \in DOMAIN thr, Arriving(thr[u])
                 PROVE  /\ u \in DOMAIN thr' /\ thr'[u] = thr[u]
                        /\ Arriving(thr[u])' /\ InflightAt(cl)
      OBVIOUS
    <2>1. InflightAt(cl)
      BY ArrivingInflight DEF DeregisterInv, CallsInv
    <2>2. u # t
      BY <1>1 DEF Arriving
    <2> QED
      BY <1>3, <1>6, <1>9, <1>16, <2>1, <2>2 DEF Arriving, SettledOf
  <1>18. \A u \in DOMAIN thr' : Arriving(thr[u])' =>
           /\ u \in DOMAIN thr /\ thr'[u] = thr[u] /\ Arriving(thr[u])
           /\ cl'.coord = cl.coord /\ cl.coord # 0
    BY <1>3, <1>6, <1>7, <1>9 DEF Arriving, SettledOf
  <1>19. ArrivalReopens'
    <2> SUFFICES ASSUME Liable', NEW u \in DOMAIN thr', Arriving(thr[u])'
                 PROVE  ~Spent'
      BY DEF ArrivalReopens
    <2>1. /\ u \in DOMAIN thr /\ Arriving(thr[u]) /\ InflightAt(s)
          /\ cl'.coord = cl.coord
      BY <1>16, <1>17, <1>18
    <2>2. ~Spent
      BY <1>15, <2>1 DEF DeregisterInv, CleanupInv, ArrivalReopens
    <2>3. /\ cl'.requested = s.requested /\ cl'.removed = s.removed
          /\ cl'.coords = cl.coords
      BY <1>3, <1>6, <2>1 DEF SettledOf, Asks
    <2> QED
      BY <1>1, <1>4, <2>1, <2>2, <2>3 DEF Spent, Closes, Ends
  <1>20. ASSUME NEW u \in DOMAIN thr, Arriving(thr[u]) PROVE ToCome'
    BY <1>17, <1>20 DEF ToCome
  <1>21. ASSUME Liable, Closes(t, s) PROVE ToCome'
    <2>1. Succeeded(t) /\ thr[t].seq > applied
      BY <1>1, <1>21 DEF Closes, Succeeded, Accepted
    <2>2. remote /\ ~released
      <3>1. \A w \in DOMAIN thr : ~Renews(thr[w])
        BY <1>1, <1>11 DEF DeregisterInv, CleanupInv, RenewalFirst
      <3> QED
        BY <1>21, <3>1 DEF Liable, Listing
    <2>3. thr[t].seq \in Nat /\ applied \in Nat
      BY Numbers, OwnLocal
    <2>4. PICK u \in DOMAIN thr : Arriving(thr[u])
      BY <2>1, <2>2, <2>3 DEF DeregisterInv, CleanupInv, ListedAfter
    <2> QED
      BY <1>20, <2>4
  <1>22. ASSUME Liable, Ends(t, s) PROVE ToCome'
    <2>1. ToCome
      BY <1>22 DEF DeregisterInv, CleanupInv
    <2>2. CASE cl.pending # 0
      BY <1>6, <1>22, <2>2 DEF ToCome, Ends, SettledOf, Asks
    <2>3. CASE \E u \in DOMAIN thr :
                 thr[u].rpc = "cleanup" /\ thr[u].pc \in {"call", "rpc"}
      BY <1>1, <1>11, <2>3 DEF Removing
    <2>4. CASE \E u \in DOMAIN thr : Arriving(thr[u])
      BY <1>20, <2>4
    <2>5. CASE OpenAt(cl, g) /\ (owed => InflightAt(cl) \/ Requesting)
      <3>1. OpenAt(s, g)
        BY <1>22, <2>5 DEF Ends, OpenAt
      <3>2. cl'.pending # 0 \/ OpenAt(cl', g)
        BY <1>6, <3>1 DEF SettledOf, Asks, OpenAt
      <3>3. InflightAt(cl) => InflightAt(cl')
        BY <1>3, <1>6, <1>16 DEF SettledOf, InflightAt
      <3>4. Requesting => Requesting'
        BY <1>1, <1>9 DEF Requesting
      <3> QED
        BY <1>1, <2>5, <3>2, <3>3, <3>4 DEF ToCome, OpenAt, InflightAt
    <2> QED
      BY <2>1, <2>2, <2>3, <2>4, <2>5 DEF ToCome
  <1> QED
    BY <1>4, <1>10, <1>13, <1>14, <1>15, <1>19, <1>21, <1>22
       DEF DeregisterInv, CleanupInv

-----------------------------------------------------------------------------
(* A register completes.                                                   *)

\* The coordinations are the same but for who is in flight.
SameWindows(s, r) ==
  /\ Len(r.coords) = Len(s.coords)
  /\ \A j \in 1..Len(s.coords) :
       /\ r.coords[j].gen = s.coords[j].gen
       /\ r.coords[j].requested = s.coords[j].requested

\* v stands for the coordination c of s.
WithWindow(s, c, v) == [s EXCEPT !.coords = [s.coords EXCEPT ![c] = v]]

\* v may stand for the coordination c of s.
MayStand(s, c, v) ==
  /\ v \in CoordinationType
  /\ v.gen = s.coords[c].gen /\ v.requested = s.coords[c].requested

\* r is s with v for its coordination c.
WindowStands(s, r, c, v, g, w) ==
  /\ CleanupOK(r, g, w) /\ OnlyCoords(s, r) /\ SameWindows(s, r)
  /\ \A j \in 1..Len(s.coords) :
       r.coords[j] = IF j = c THEN v ELSE s.coords[j]

\* r is s with one register less in flight in the window c.
OneLess(s, r, c, g, w) ==
  /\ CleanupOK(r, g, w) /\ OnlyCoords(s, r) /\ SameWindows(s, r)
  /\ r.coords[c].inflight = s.coords[c].inflight - 1
  /\ \A j \in 1..Len(s.coords) : j # c =>
       r.coords[j].inflight = s.coords[j].inflight

\* One coordination is replaced by another of its generation.
LEMMA WindowReplaced ==
  ASSUME NEW s, NEW g \in Nat, NEW w \in Nat, CleanupOK(s, g, w),
         NEW c \in 1..Len(s.coords), NEW v, MayStand(s, c, v),
         NEW r, r = WithWindow(s, c, v)
  PROVE  WindowStands(s, r, c, v, g, w)
  <1> DEFINE k == [s.coords EXCEPT ![c] = v]
  <1>1. /\ s \in CleanupState /\ s.coords \in Seq(CoordinationType)
        /\ Len(s.coords) \in Nat
    BY Fields DEF CleanupOK
  <1>2. /\ k \in Seq(CoordinationType) /\ Len(k) = Len(s.coords)
        /\ \A j \in 1..Len(s.coords) : k[j] = IF j = c THEN v ELSE s.coords[j]
    BY <1>1, SeqUpdate DEF MayStand
  <1>3. Edited(s, r, g, w)
    BY CoordinationChange DEF WithWindow, MayStand
  <1> HIDE DEF k
  <1>4. r.coords = k /\ OnlyCoords(s, r)
    BY <1>1, <1>2 DEF OnlyCoords, CleanupState, WithWindow, k
  <1> QED
    BY <1>2, <1>3, <1>4 DEF Edited, SameWindows, WindowStands, MayStand

\* A register leaves its window: one less is in flight there.
LEMMA LeftCounts ==
  ASSUME NEW s, NEW g \in Nat, NEW w \in Nat, CleanupOK(s, g, w),
         NEW c \in 1..Len(s.coords), s.coords[c].inflight > 0,
         NEW r, r = Leaves(s, c)
  PROVE  OneLess(s, r, c, g, w)
  <1> DEFINE b == IF s.coords[c].inflight > 0
                  THEN s.coords[c].inflight - 1 ELSE 0
             v == [s.coords[c] EXCEPT !.inflight = b]
  <1>1. s.coords \in Seq(CoordinationType) /\ Len(s.coords) \in Nat
    BY Fields DEF CleanupOK
  <1>2. s.coords[c] \in CoordinationType
    BY <1>1
  <1>3. MayStand(s, c, v) /\ v.inflight = s.coords[c].inflight - 1
    BY <1>2 DEF CoordinationType, MayStand
  <1>4. r = WithWindow(s, c, v)
    <2>1. c # 0
      BY <1>1
    <2> QED
      BY <2>1 DEF Leaves, WithWindow
  <1> HIDE DEF v
  <1>5. WindowStands(s, r, c, v, g, w)
    BY <1>3, <1>4, WindowReplaced
  <1> QED
    BY <1>3, <1>5 DEF WindowStands, OneLess

\* Those who wait for a window are woken.
LEMMA WokenCounts ==
  ASSUME NEW s, NEW g \in Nat, NEW w \in Nat, CleanupOK(s, g, w),
         NEW c \in 1..Len(s.coords),
         NEW r, r = [s EXCEPT !.coords[c].done = TRUE]
  PROVE  /\ CleanupOK(r, g, w) /\ OnlyCoords(s, r)
         /\ SameWindows(s, r) /\ SameCounts(s, r)
  <1> DEFINE v == [s.coords[c] EXCEPT !.done = TRUE]
  <1>1. s.coords \in Seq(CoordinationType) /\ Len(s.coords) \in Nat
    BY Fields DEF CleanupOK
  <1>2. s.coords[c] \in CoordinationType
    BY <1>1
  <1>3. MayStand(s, c, v) /\ v.inflight = s.coords[c].inflight
    BY <1>2 DEF CoordinationType, MayStand
  <1>4. r = WithWindow(s, c, v)
    BY <1>1 DEF WithWindow
  <1> HIDE DEF v
  <1>5. WindowStands(s, r, c, v, g, w)
    BY <1>3, <1>4, WindowReplaced
  <1> QED
    BY <1>3, <1>5 DEF SameCounts, SameWindows, WindowStands, MayStand

\* The register t, which joined the window of the generation, is accepted and
\* reopens the cleanup.
Reopens(t) ==
  /\ Accepted(t) /\ thr[t].ok
  /\ thr[t].coord # 0 /\ cl.coord = thr[t].coord
  /\ \/ cl.removed = generation
     \/ cl.coords[cl.coord].requested
     \/ generation = 0

\* The cleanup state a after the register t was recorded and left its window.
LeftBy(t, a) ==
  /\ CleanupOK(a, generation, worker)
  /\ a.coord = cl.coord /\ a.pending = cl.pending /\ a.active = cl.active
  /\ a.ops = cl.ops /\ SameWindows(cl, a)
  /\ \A j \in 1..Len(cl.coords) :
       a.coords[j].inflight =
         IF j = thr[t].coord THEN cl.coords[j].inflight - 1
                             ELSE cl.coords[j].inflight
  /\ a.registered = cl.registered \/ (Accepted(t) /\ thr[t].ok)
  /\ a.registered \/ ~(Accepted(t) /\ thr[t].ok)
  /\ \/ ~Reopens(t) /\ a.removed = cl.removed /\ a.requested = cl.requested
     \/ Reopens(t) /\ a.removed = NoGen /\ a.requested = NoGen

\* The cleanup state b after the window of a was looked at again.
LookedAt(a, b) ==
  /\ Asks(a, b, generation) /\ SameCounts(a, b) /\ SameWindows(a, b)
  /\ b.coord = a.coord \/ (b.coord = 0 /\ ~InflightAt(a))
  /\ InflightAt(a) => b.requested = a.requested
  /\ b.requested # a.requested => worker = 0
  /\ a.coords[a.coord].requested /\ OpenAt(a, generation) /\ ~InflightAt(a)
       => b.pending # 0

LEMMA RecordedRegister ==
  ASSUME NEW s \in CleanupState
  PROVE  /\ Record(s, "register", TRUE).registered = TRUE
         /\ Record(s, "register", FALSE).registered = s.registered
  <1>1. Record(s, "register", TRUE) = [s EXCEPT !.registered = TRUE]
    BY Zenon DEF Record
  <1>2. Record(s, "register", FALSE) = [s EXCEPT !.registered = s.registered]
    BY Zenon DEF Record
  <1> QED
    BY <1>1, <1>2 DEF CleanupState

\* What the record of the register t leaves alone.
LEMMA RegisterRecorded ==
  ASSUME IInv, NEW t \in DOMAIN thr, NEW s,
         s = IF Accepted(t) THEN Record(cl, "register", thr[t].ok) ELSE cl
  PROVE  /\ CleanupOK(s, generation, worker)
         /\ s.ops = cl.ops /\ s.coords = cl.coords /\ s.coord = cl.coord
         /\ s.active = cl.active /\ s.pending = cl.pending
         /\ s.removed = cl.removed /\ s.requested = cl.requested
         /\ s.registered = (IF Accepted(t) /\ thr[t].ok THEN TRUE
                                                      ELSE cl.registered)
  <1>1. /\ generation \in Nat /\ worker \in Nat /\ thr[t].ok \in BOOLEAN
        /\ CleanupOK(cl, generation, worker) /\ cl \in CleanupState
    BY Numbers, OwnLocal DEF IInv
  <1>2. CASE Accepted(t)
    <2> DEFINE ok == thr[t].ok
    <2>1. s = Record(cl, "register", ok)
      BY <1>2
    <2> HIDE DEF ok
    <2>2. ok \in BOOLEAN
      BY <1>1 DEF ok
    <2>3. CleanupOK(s, generation, worker)
      BY <1>1, <2>1, <2>2, RecordOK
    <2>4. /\ s.ops = cl.ops /\ s.coords = cl.coords /\ s.coord = cl.coord
          /\ s.active = cl.active /\ s.pending = cl.pending
          /\ s.removed = cl.removed /\ s.requested = cl.requested
      BY <1>1, <2>1, <2>2, RecordSame
    <2>5. s.registered = (IF ok THEN TRUE ELSE cl.registered)
      <3>1. CASE ok = TRUE
        BY <1>1, <2>1, <3>1, RecordedRegister
      <3>2. CASE ok = FALSE
        BY <1>1, <2>1, <3>2, RecordedRegister
      <3> QED
        BY <2>2, <3>1, <3>2
    <2> QED
      BY <1>2, <2>3, <2>4, <2>5 DEF ok
  <1>3. CASE ~Accepted(t)
    BY <1>1, <1>3
  <1> QED
    BY <1>2, <1>3

\* The register t, its record and its window.
LEMMA RegisterLeft ==
  ASSUME IInv, CountOK, NEW t \in DOMAIN thr, CommitRegister(t),
         thr[t].coord # 0
  PROVE  \E a : /\ LeftBy(t, a)
                /\ \/ cl.coord = thr[t].coord /\ LookedAt(a, cl')
                   \/ /\ cl.coord # thr[t].coord
                      /\ OnlyCoords(a, cl')
                      /\ SameCounts(a, cl') /\ SameWindows(a, cl')
  <1> DEFINE c  == thr[t].coord
             g  == generation
             w  == worker
             ok == thr[t].ok
             s1 == IF Accepted(t) THEN Record(cl, "register", ok) ELSE cl
             s2 == IF /\ Accepted(t) /\ ok /\ c # 0 /\ cl.coord = c
                      /\ generation = thr[t].gen
                      /\ cl.coords[c].gen = thr[t].gen
                   THEN Invalidate(s1, thr[t].gen, c, generation) ELSE s1
             a  == IF c = 0 THEN s2
                   ELSE [s2 EXCEPT !.coords[c].inflight =
                           IF @ > 0 THEN @ - 1 ELSE 0]
             r  == IF c # 0 /\ a.coord = c THEN Reconcile(a, generation)
                   ELSE Keep(a)
             b  == IF c # 0 /\ a.coords[c].inflight = 0
                   THEN [r.cl EXCEPT !.coords[c].done = TRUE] ELSE r.cl
  <1>1. /\ g \in Nat /\ w \in Nat /\ ok \in BOOLEAN
        /\ CleanupOK(cl, g, w) /\ cl \in CleanupState
        /\ thr[t].pc = "commit" /\ thr[t].rpc = "register"
    BY Numbers, OwnLocal DEF IInv, CommitRegister, At
  <1>2. cl' = b
    BY DEF CommitRegister
  <1>3. /\ c \in 1..Len(cl.coords) /\ cl.coords[c].gen = thr[t].gen
        /\ cl.coords[c].inflight > 0
        /\ cl.coord = c => thr[t].gen = g
    <2>1. Registering(thr[t]) /\ Len(cl.coords) \in Nat
      BY <1>1, Numbers DEF Registering, AdminSteps
    <2>2. c \in 1..Len(cl.coords) /\ cl.coords[c].gen = thr[t].gen
      BY <2>1 DEF CountOK, JoinOK
    <2>3. t \in InWindow(c)
      BY <2>1 DEF InWindow
    <2>4. IsFiniteSet(InWindow(c))
          /\ cl.coords[c].inflight = Cardinality(InWindow(c))
      BY <2>2 DEF CountOK
    <2>5. Cardinality(InWindow(c)) \in Nat /\ Cardinality(InWindow(c)) # 0
      BY <2>3, <2>4, FS_CardinalityType, FS_EmptySet
    <2> QED
      BY <1>1, <2>2, <2>4, <2>5 DEF CleanupOK
  <1>4. /\ CleanupOK(s1, g, w)
        /\ s1.ops = cl.ops /\ s1.coords = cl.coords /\ s1.coord = cl.coord
        /\ s1.active = cl.active /\ s1.pending = cl.pending
        /\ s1.removed = cl.removed /\ s1.requested = cl.requested
        /\ s1.registered = (IF Accepted(t) /\ ok THEN TRUE ELSE cl.registered)
    BY RegisterRecorded
  <1> HIDE DEF s1
  <1>5. s2 = IF Reopens(t)
             THEN [s1 EXCEPT !.removed = NoGen, !.requested = NoGen] ELSE s1
    BY <1>1, <1>3, <1>4 DEF Invalidate, Reopens
  <1>6. /\ CleanupOK(s2, g, w)
        /\ s2.ops = cl.ops /\ s2.coords = cl.coords /\ s2.coord = cl.coord
        /\ s2.active = cl.active /\ s2.pending = cl.pending
        /\ s2.registered = s1.registered
        /\ \/ ~Reopens(t) /\ s2.removed = cl.removed
                          /\ s2.requested = cl.requested
           \/ Reopens(t) /\ s2.removed = NoGen /\ s2.requested = NoGen
    <2>1. s1 \in CleanupState
      BY <1>4 DEF CleanupOK
    <2>2. CleanupOK(s2, g, w)
      BY <1>1, <1>4, InvalidateOK
    <2> HIDE DEF s2
    <2>3. NoGen \in Gen
      BY DEF Gen
    <2> QED
      BY <1>4, <1>5, <2>1, <2>2, <2>3 DEF CleanupState
  <1> HIDE DEF s2
  <1>7. /\ CleanupOK(a, g, w) /\ OnlyCoords(s2, a) /\ SameWindows(s2, a)
        /\ a.coords[c].inflight = cl.coords[c].inflight - 1
        /\ \A j \in 1..Len(cl.coords) : j # c =>
              a.coords[j].inflight = cl.coords[j].inflight
    <2>1. a = Leaves(s2, c)
      BY DEF Leaves
    <2> HIDE DEF a, c, g, w
    <2>2. c \in 1..Len(s2.coords) /\ s2.coords[c].inflight > 0
      BY <1>3, <1>6
    <2>3. OneLess(s2, a, c, g, w)
      BY <1>1, <1>6, <2>1, <2>2, LeftCounts
    <2> QED
      BY <1>6, <2>3 DEF OneLess
  <1> HIDE DEF a
  <1>8. LeftBy(t, a)
    BY <1>3, <1>4, <1>6, <1>7 DEF LeftBy, OnlyCoords, SameWindows
  <1>9. c \in 1..Len(a.coords) /\ a.coord = cl.coord
    BY <1>3, <1>6, <1>7 DEF SameWindows, OnlyCoords
  <1>10. /\ CleanupOK(r.cl, g, w) /\ r.cl.coords = a.coords
         /\ cl.coord # c => r.cl = a
         /\ cl.coord = c => LookedAt(a, r.cl)
    <2>1. CASE cl.coord = c
      <3>1. r = Reconcile(a, g)
        BY <1>9, <2>1
      <3>2. CleanupOK(r.cl, g, w) /\ r.cl.coords = a.coords
        BY <1>1, <1>7, <1>9, <2>1, <3>1, ReconcileHanded DEF Handed
      <3>3. a.coord # 0
        BY <1>9, <2>1
      <3> HIDE DEF r
      <3>4. /\ Asks(a, r.cl, g)
            /\ r.cl.coord = a.coord \/ (r.cl.coord = 0 /\ ~InflightAt(a))
            /\ InflightAt(a) => r.cl.requested = a.requested
            /\ r.cl.requested # a.requested => w = 0
            /\ a.coords[a.coord].requested /\ OpenAt(a, g) /\ ~InflightAt(a)
                 => r.cl.pending # 0
        BY <1>1, <1>7, <3>1, <3>3, ReconcileAsks
      <3> QED
        BY <2>1, <3>2, <3>4 DEF LookedAt, SameCounts, SameWindows
    <2>2. CASE cl.coord # c
      BY <1>7, <1>9, <2>2 DEF Keep
    <2> QED
      BY <2>1, <2>2
  <1> HIDE DEF r
  <1>11. /\ OnlyCoords(r.cl, b) /\ SameCounts(r.cl, b) /\ SameWindows(r.cl, b)
    <2>1. CASE b = r.cl
      BY <2>1 DEF OnlyCoords, SameCounts, SameWindows
    <2>2. CASE b = [r.cl EXCEPT !.coords[c].done = TRUE]
      <3>1. c \in 1..Len(r.cl.coords)
        BY <1>9, <1>10
      <3> HIDE DEF b
      <3> QED
        BY <1>1, <1>10, <2>2, <3>1, WokenCounts
    <2> QED
      BY <2>1, <2>2
  <1> HIDE DEF b
  <1>12. CASE cl.coord # c
    BY <1>2, <1>8, <1>10, <1>11, <1>12
  <1>13. CASE cl.coord = c
    <2>1. LookedAt(a, b)
      <3>1. LookedAt(a, r.cl)
        BY <1>10, <1>13
      <3>2. Asks(a, b, g)
        BY <1>11, <3>1 DEF LookedAt, Asks, OnlyCoords
      <3>3. SameCounts(a, b) /\ SameWindows(a, b)
        BY <1>11, <3>1 DEF LookedAt, SameCounts, SameWindows
      <3> QED
        BY <1>11, <3>1, <3>2, <3>3 DEF LookedAt, OnlyCoords
    <2> QED
      BY <1>2, <1>8, <1>13, <2>1
  <1> QED
    BY <1>12, <1>13

LEMMA RegisterLooks ==
  ASSUME IInv, CountOK, NEW t \in DOMAIN thr, CommitRegister(t)
  PROVE  \E a : /\ LeftBy(t, a)
                /\ SameCounts(a, cl') /\ SameWindows(a, cl')
                /\ \/ /\ thr[t].coord # 0 /\ cl.coord = thr[t].coord
                      /\ LookedAt(a, cl')
                   \/ /\ thr[t].coord = 0 \/ cl.coord # thr[t].coord
                      /\ OnlyCoords(a, cl')
  <1>1. CASE thr[t].coord # 0
    BY <1>1, RegisterLeft DEF LookedAt
  <1>2. CASE thr[t].coord = 0
    <2> DEFINE ok == thr[t].ok
               s1 == IF Accepted(t) THEN Record(cl, "register", ok) ELSE cl
    <2>1. /\ generation \in Nat /\ worker \in Nat /\ ok \in BOOLEAN
          /\ CleanupOK(cl, generation, worker) /\ cl \in CleanupState
          /\ Len(cl.coords) \in Nat
      BY Numbers, OwnLocal DEF IInv
    <2>2. cl' = s1
      BY <1>2 DEF CommitRegister, Keep
    <2>3. /\ CleanupOK(s1, generation, worker)
          /\ s1.ops = cl.ops /\ s1.coords = cl.coords /\ s1.coord = cl.coord
          /\ s1.active = cl.active /\ s1.pending = cl.pending
          /\ s1.removed = cl.removed /\ s1.requested = cl.requested
          /\ s1.registered = (IF Accepted(t) /\ ok THEN TRUE ELSE cl.registered)
      BY RegisterRecorded
    <2> HIDE DEF s1
    <2>4. ~Reopens(t) /\ \A j \in 1..Len(cl.coords) : j # thr[t].coord
      BY <1>2, <2>1 DEF Reopens
    <2>5. LeftBy(t, s1)
      BY <2>3, <2>4 DEF LeftBy, SameWindows
    <2> QED
      BY <1>2, <2>2, <2>5 DEF SameCounts, SameWindows, OnlyCoords
  <1> QED
    BY <1>1, <1>2

\* A window counts those who are left in it.
LEMMA CountLeaves ==
  ASSUME IInv, CountOK, NEW t \in DOMAIN thr, Registering(thr[t]),
         OnlyMoves(t), Stays(t) => ~Registering(thr'[t]),
         SameWindows(cl, cl'),
         \A j \in 1..Len(cl.coords) :
           cl'.coords[j].inflight =
             IF j = thr[t].coord THEN cl.coords[j].inflight - 1
                                 ELSE cl.coords[j].inflight
  PROVE  CountOK'
  <1>1. \A k : InWindow(k)' = InWindow(k) \ {t}
    BY DEF InWindow, Registering, OnlyMoves, Stays
  <1>2. ASSUME NEW k \in 1..Len(cl'.coords)
        PROVE  /\ IsFiniteSet(InWindow(k)')
               /\ cl'.coords[k].inflight = Cardinality(InWindow(k)')
    <2> DEFINE W == InWindow(k)
    <2>1. /\ IsFiniteSet(W) /\ cl.coords[k].inflight = Cardinality(W)
          /\ k \in 1..Len(cl.coords)
      BY <1>2 DEF CountOK, SameWindows
    <2>2. t \in W <=> thr[t].coord = k
      BY DEF InWindow
    <2> HIDE DEF W
    <2>3. /\ IsFiniteSet(W \ {t})
          /\ Cardinality(W \ {t}) = IF t \in W THEN Cardinality(W) - 1
                                               ELSE Cardinality(W)
      BY <2>1, FS_RemoveElement
    <2>4. InWindow(k)' = W \ {t}
      BY <1>1 DEF W
    <2>5. cl'.coords[k].inflight = IF thr[t].coord = k
                                   THEN cl.coords[k].inflight - 1
                                   ELSE cl.coords[k].inflight
      BY <2>1
    <2> QED
      BY <2>1, <2>2, <2>3, <2>4, <2>5
  <1>3. ASSUME NEW u \in DOMAIN thr', Registering(thr'[u])
        PROVE  JoinOK(thr[u])'
    <2>1. u \in DOMAIN thr /\ thr'[u] = thr[u]
      BY <1>3 DEF OnlyMoves, Stays
    <2>2. JoinOK(thr[u])
      BY <1>3, <2>1 DEF CountOK
    <2>3. Len(cl.coords) \in Nat
      BY Numbers
    <2> QED
      BY <2>1, <2>2, <2>3 DEF JoinOK, SameWindows
  <1> QED
    BY <1>2, <1>3 DEF CountOK, Registering

\* Those who are left in the window keep it open.
LEMMA OthersInflight ==
  ASSUME CountOK', NEW k \in 1..Len(cl'.coords),
         NEW u \in DOMAIN thr', Arriving(thr'[u]) \/ Registering(thr'[u]),
         thr'[u].coord = k
  PROVE  cl'.coords[k].inflight > 0
  <1>1. u \in InWindow(k)'
    BY DEF InWindow, Registering, Arriving, AdminSteps
  <1>2. IsFiniteSet(InWindow(k)')
        /\ cl'.coords[k].inflight = Cardinality(InWindow(k)')
    BY DEF CountOK
  <1>3. Cardinality(InWindow(k)') \in Nat /\ Cardinality(InWindow(k)') # 0
    BY <1>1, <1>2, FS_CardinalityType, FS_EmptySet
  <1> QED
    BY <1>2, <1>3

\* The register t of the current window was accepted: what it listed is the
\* cleanup's again.
LEMMA RegisterCounts ==
  ASSUME IInv, DeregisterInv, CountOK', NothingNew,
         NEW t \in DOMAIN thr, thr[t].pc = "commit", thr[t].rpc = "register",
         thr[t].coord # 0, cl.coord = thr[t].coord, Accepted(t),
         OnlyMoves(t), Stays(t) => ~Loud(thr'[t]),
         AskedOK', RenewalFirst', applied' = thr[t].seq,
         UNCHANGED <<generation, worker, remote, released, owed>>,
         NEW a, LeftBy(t, a), LookedAt(a, cl')
  PROVE  CleanupInv'
  <1> DEFINE g == generation
             c == thr[t].coord
  <1>1. /\ g \in Nat /\ c \in 1..Len(cl.coords)
        /\ Len(cl.coords) \in Nat /\ thr[t].seq \in Nat /\ applied \in Nat
    BY Numbers, OwnLocal DEF IInv, CleanupOK
  <1>2. \A u \in DOMAIN thr : u # t => u \in DOMAIN thr' /\ thr'[u] = thr[u]
    BY DEF OnlyMoves
  <1>3. ASSUME NEW u \in DOMAIN thr, u # t, Arriving(thr[u])
        PROVE  /\ InflightAt(a) /\ cl'.coord = cl.coord
               /\ u \in DOMAIN thr' /\ thr'[u] = thr[u] /\ Arriving(thr[u])'
    <2>1. u \in DOMAIN thr' /\ thr'[u] = thr[u]
      BY <1>2, <1>3
    <2>2. /\ c \in 1..Len(cl'.coords) /\ thr'[u].coord = c
          /\ Arriving(thr[u]) /\ cl'.coords[c].inflight = a.coords[c].inflight
      BY <1>1, <1>3, <2>1 DEF LeftBy, LookedAt, SameWindows, SameCounts, Arriving
    <2>3. Registering(thr'[u])
      BY <1>3, <2>1 DEF Arriving, Registering, AdminSteps
    <2>4. cl'.coords[c].inflight > 0
      BY <2>1, <2>2, <2>3, OthersInflight
    <2>5. InflightAt(a)
      BY <2>2, <2>4 DEF InflightAt, LeftBy
    <2>6. cl'.coord = cl.coord
      BY <2>5 DEF LookedAt, LeftBy
    <2> QED
      BY <1>3, <2>1, <2>5, <2>6 DEF Arriving
  <1>4. ASSUME NEW u \in DOMAIN thr', Arriving(thr[u])'
        PROVE  u \in DOMAIN thr /\ u # t /\ Arriving(thr[u])
    <2>1. Loud(thr'[u])
      BY <1>4 DEF Arriving, Loud
    <2>2. u \in DOMAIN thr /\ u # t /\ thr'[u] = thr[u]
      BY <2>1 DEF NothingNew, Stays
    <2>3. cl'.coord = cl.coord
      BY <1>4 DEF Arriving, LookedAt, LeftBy
    <2> QED
      BY <1>4, <2>2, <2>3 DEF Arriving
  <1>5. Liable' => Liable
    BY DEF Liable, Listing, Renews, NothingNew, Loud
  <1>6. NoGen # g
    BY <1>1 DEF NoGen
  <1>7. ArrivalReopens'
    <2> SUFFICES ASSUME Liable', NEW u \in DOMAIN thr', Arriving(thr[u])'
                 PROVE  ~Spent'
      BY DEF ArrivalReopens
    <2>1. u \in DOMAIN thr /\ u # t /\ Arriving(thr[u])
      BY <1>4
    <2>2. InflightAt(a) /\ cl'.coord = cl.coord
      BY <1>3, <2>1
    <2>3. ~Spent
      BY <1>5, <2>1 DEF DeregisterInv, CleanupInv, ArrivalReopens
    <2>4. /\ cl'.requested = a.requested /\ cl'.removed = a.removed
          /\ cl'.coords[c].requested = cl.coords[c].requested
      BY <1>1, <2>2 DEF LookedAt, Asks, SameWindows, LeftBy
    <2> QED
      BY <1>6, <2>2, <2>3, <2>4 DEF Spent, LeftBy
  <1>8. ListedAfter'
    <2>1. applied' \in Nat /\ applied <= applied'
      BY <1>1 DEF Accepted
    <2>2. \A o \in 1..Len(cl.ops) : cl'.ops[o].gen = cl.ops[o].gen
      BY DEF LookedAt, Asks, LeftBy
    <2>3. \A u \in DOMAIN thr : Arriving(thr[u]) =>
            \/ u \in DOMAIN thr' /\ thr'[u] = thr[u] /\ Arriving(thr[u])'
            \/ applied' = thr[u].seq
      BY <1>3
    <2>4. \A v \in DOMAIN thr' :
            thr'[v].rpc = "cleanup" /\ thr'[v].pc = "commit" =>
              v \in DOMAIN thr /\ thr'[v] = thr[v]
      BY DEF NothingNew, Loud
    <2> QED
      BY <2>1, <2>2, <2>3, <2>4, ListedKept DEF DeregisterInv, CleanupInv
  <1>9. ASSUME OpenAt(a, g) PROVE ToCome'
    <2>1. owed => a.coords[a.coord].requested
      BY <1>1 DEF DeregisterInv, CleanupInv, AskedOK, LeftBy, SameWindows
    <2>2. CASE InflightAt(a)
      <3>1. OpenAt(cl', g)
        BY <1>9, <2>2 DEF LookedAt, Asks, OpenAt
      <3>2. InflightAt(cl')
        BY <1>1, <2>2 DEF LookedAt, InflightAt, SameCounts, LeftBy, SameWindows
      <3> QED
        BY <3>1, <3>2 DEF ToCome, OpenAt, InflightAt
    <2>3. CASE ~InflightAt(a)
      <3>1. owed => cl'.pending # 0
        BY <1>9, <2>1, <2>3 DEF LookedAt
      <3>2. cl'.pending # 0 \/ OpenAt(cl', g)
        BY <1>9 DEF LookedAt, Asks, OpenAt
      <3> QED
        BY <3>1, <3>2 DEF ToCome, OpenAt
    <2> QED
      BY <2>2, <2>3
  <1>10. ASSUME Liable PROVE ToCome'
    <2>1. ToCome
      BY <1>10 DEF DeregisterInv, CleanupInv
    <2>2. CASE cl.pending # 0
      BY <2>2 DEF ToCome, LookedAt, Asks, LeftBy
    <2>3. CASE \E u \in DOMAIN thr :
                 thr[u].rpc = "cleanup" /\ thr[u].pc \in {"call", "rpc"}
      BY <1>2, <2>3 DEF ToCome
    <2>4. CASE \E u \in DOMAIN thr : u # t /\ Arriving(thr[u])
      BY <1>3, <2>4 DEF ToCome
    <2>5. CASE thr[t].ok
      <3>1. ~Spent
        BY <1>10, <2>5 DEF DeregisterInv, CleanupInv, ArrivalReopens, Arriving
      <3>2. OpenAt(a, g)
        BY <1>1, <1>6, <2>5, <3>1 DEF OpenAt, LeftBy, Reopens, Spent
      <3> QED
        BY <1>9, <3>2
    <2>6. CASE ~thr[t].ok /\ OpenAt(cl, g)
      <3>1. OpenAt(a, g)
        BY <2>6 DEF OpenAt, LeftBy, Reopens
      <3> QED
        BY <1>9, <3>1
    <2> QED
      BY <2>1, <2>2, <2>3, <2>4, <2>5, <2>6 DEF ToCome, Arriving
  <1> QED
    BY <1>5, <1>7, <1>8, <1>10 DEF CleanupInv

LEMMA DeregisterCommitRegister ==
  ASSUME IInv, DeregisterInv, NEW t \in DOMAIN thr, CommitRegister(t)
  PROVE  DeregisterInv'
  <1> DEFINE g == generation
             c == thr[t].coord
  <1>1. /\ thr[t].pc = "commit" /\ thr[t].rpc = "register"
        /\ UNCHANGED <<generation, worker, net, rpcSeq, remote, owed>>
        /\ released' = (released \/ ~Accepted(t))
        /\ applied' = IF Accepted(t) THEN thr[t].seq ELSE applied
        /\ Exit(t) \/ \E p \in {"schedTail", "closeTail"} : Goto(t, p)
    BY DEF CommitRegister, At, lifecycle
  <1>2. PICK a : /\ LeftBy(t, a)
                 /\ SameCounts(a, cl') /\ SameWindows(a, cl')
                 /\ \/ c # 0 /\ cl.coord = c /\ LookedAt(a, cl')
                    \/ (c = 0 \/ cl.coord # c) /\ OnlyCoords(a, cl')
    BY RegisterLooks DEF DeregisterInv, CallsInv
  <1>3. /\ OnlyMoves(t)
        /\ Stays(t) => /\ thr'[t].pc \in {"idle", "schedTail", "closeTail"}
                       /\ thr'[t].rpc \in {"none", "register"}
    BY <1>1, ExitMoves, GotoMoves
  <1>4. Stays(t) => ~Loud(thr'[t]) /\ OneShotOK(thr[t])'
    BY <1>3 DEF Loud, OneShotOK
  <1>5. NothingNew
    BY <1>3, <1>4 DEF NothingNew, OnlyMoves, Stays
  <1>6. applied' \in Nat /\ applied <= applied' /\ applied' <= rpcSeq
    BY <1>1, CommitApplies DEF DeregisterInv
  <1>7. SameWindows(cl, cl') /\ Len(cl.coords) \in Nat
    BY <1>2, Numbers DEF LeftBy, SameWindows
  <1>8. CountOK'
    <2>1. Registering(thr[t])
      BY <1>1 DEF Registering, AdminSteps
    <2>2. \A j \in 1..Len(cl.coords) :
           cl'.coords[j].inflight =
             IF j = thr[t].coord THEN cl.coords[j].inflight - 1
                                 ELSE cl.coords[j].inflight
      BY <1>2 DEF LeftBy, SameWindows, SameCounts
    <2>3. Stays(t) => ~Registering(thr'[t])
      BY <1>4, CountedIsLoud
    <2> QED
      BY <1>3, <1>7, <2>1, <2>2, <2>3, CountLeaves DEF DeregisterInv, CallsInv
  <1>9. CallsInv'
    <2>1. \A u \in DOMAIN thr' : OneShotOK(thr[u])'
      BY <1>1, <1>3, <1>4, OneShotMove DEF DeregisterInv
    <2>2. \A u \in DOMAIN thr' :
            Counted(thr'[u]) => u \in DOMAIN thr /\ thr'[u] = thr[u]
      BY <1>5, CountedIsLoud DEF NothingNew
    <2>3. SentOK'
      BY <1>1, <1>6, <2>2 DEF DeregisterInv, CallsInv, SentOK, Counted, Sent
    <2> QED
      BY <1>8, <2>1, <2>3 DEF CallsInv
  <1>10. g \in Nat /\ NoGen # g /\ NoGen <= g /\ cl.coord \in 0..Len(cl.coords)
    BY Numbers DEF NoGen, IInv, CleanupOK
  <1>11. AskedOK'
    <2>1. /\ a.requested \in {cl.requested, NoGen}
          /\ cl'.requested \in {a.requested, g}
          /\ worker # 0 => cl'.requested = a.requested
          /\ cl'.coord \in {cl.coord, 0}
      BY <1>2 DEF LeftBy, LookedAt, Asks, OnlyCoords
    <2>2. cl.coord # 0 =>
            cl'.coords[cl.coord].requested = cl.coords[cl.coord].requested
      BY <1>7, <1>10 DEF SameWindows
    <2> QED
      BY <1>1, <1>10, <2>1, <2>2 DEF DeregisterInv, CleanupInv, AskedOK
  <1>12. RenewalFirst'
    BY <1>5, RenewalsQuiet DEF DeregisterInv, CleanupInv
  <1>13. CASE ~Accepted(t)
    BY <1>1, <1>9, <1>11, <1>12, <1>13, ReleasedStep
  <1>14. CASE Accepted(t) /\ c # 0 /\ cl.coord = c
    <2>1. LookedAt(a, cl')
      BY <1>2, <1>14
    <2>2. released' = released
      BY <1>1, <1>14 DEF IInv, RestOK
    <2>3. CleanupInv'
      BY <1>1, <1>2, <1>3, <1>4, <1>5, <1>8, <1>11, <1>12, <1>14, <2>1, <2>2,
         RegisterCounts
    <2> QED
      BY <1>9, <2>3 DEF DeregisterInv
  <1>15. CASE Accepted(t) /\ (c = 0 \/ cl.coord # c)
    <2>1. released' = released
      BY <1>1, <1>15 DEF IInv, RestOK
    <2>2. /\ cl'.ops = cl.ops /\ cl'.pending = cl.pending
          /\ cl'.coord = cl.coord
          /\ cl'.requested = cl.requested /\ cl'.removed = cl.removed
          /\ cl'.registered = cl.registered \/ cl'.registered
      BY <1>2, <1>15 DEF LeftBy, OnlyCoords, Reopens
    <2>3. cl.coord # 0 =>
            /\ cl'.coords[cl.coord].requested = cl.coords[cl.coord].requested
            /\ cl'.coords[cl.coord].inflight = cl.coords[cl.coord].inflight
      BY <1>2, <1>7, <1>10, <1>15 DEF LeftBy, SameWindows, SameCounts
    <2>4. \A u \in DOMAIN thr : Vital(u) => u \in DOMAIN thr' /\ thr'[u] = thr[u]
      BY <1>1, <1>3, <1>15 DEF Vital, Arriving, OnlyMoves
    <2>5. CleanupInv'
      BY <1>1, <1>5, <1>6, <2>1, <2>2, <2>3, <2>4, CleanupQuiet
         DEF DeregisterInv
    <2> QED
      BY <1>9, <2>5 DEF DeregisterInv
  <1> QED
    BY <1>13, <1>14, <1>15

-----------------------------------------------------------------------------
(* A register begins.                                                      *)

\* The window k of the state r is the one that s has, and is joined by one
\* register; 0 is none.
JoinedBy(s, r, k, g) ==
  /\ k \in 0..Len(r.coords)
  /\ Len(r.coords) = IF s.coord = 0 THEN Len(s.coords) + 1 ELSE Len(s.coords)
  /\ \A j \in 1..Len(s.coords) :
       /\ r.coords[j].gen = s.coords[j].gen
       /\ r.coords[j].requested = s.coords[j].requested
       /\ r.coords[j].inflight = IF j = k THEN s.coords[j].inflight + 1
                                          ELSE s.coords[j].inflight
  /\ s.coord = 0 => k = Len(r.coords) /\ r.coords[k].inflight = 1
  /\ k # 0 => r.coords[k].gen = g
  /\ r.coord = IF s.coord = 0 THEN k ELSE s.coord

\* One more register is in flight in the window k of the sequence q.
WithRegister(q, k) == [q EXCEPT ![k].inflight = @ + 1, ![k].done = FALSE]

LEMMA RegisterAdded ==
  ASSUME NEW q \in Seq(CoordinationType), NEW k \in 1..Len(q),
         NEW r, r = WithRegister(q, k)
  PROVE  /\ Len(r) = Len(q)
         /\ r[k].inflight = q[k].inflight + 1
         /\ r[k].gen = q[k].gen /\ r[k].requested = q[k].requested
         /\ \A j \in 1..Len(q) : j # k => r[j] = q[j]
  <1> DEFINE v == [q[k] EXCEPT !.inflight = @ + 1, !.done = FALSE]
  <1>1. q[k] \in CoordinationType
    OBVIOUS
  <1>2. /\ v \in CoordinationType /\ v.inflight = q[k].inflight + 1
        /\ v.gen = q[k].gen /\ v.requested = q[k].requested
    <2> DEFINE z == q[k]
               i == z.inflight + 1
    <2>1. z \in CoordinationType /\ i \in Nat
      BY <1>1 DEF CoordinationType
    <2>2. v = [z EXCEPT !.inflight = i, !.done = FALSE]
      OBVIOUS
    <2> HIDE DEF z, i, v
    <2>3. /\ v \in CoordinationType /\ v.inflight = i
          /\ v.gen = z.gen /\ v.requested = z.requested
      BY <2>1, <2>2 DEF CoordinationType
    <2> QED
      BY <2>3 DEF z, i
  <1>3. r = [q EXCEPT ![k] = v]
    BY DEF WithRegister
  <1> HIDE DEF v
  <1>4. /\ Len(r) = Len(q)
        /\ \A j \in 1..Len(q) : r[j] = IF j = k THEN v ELSE q[j]
    BY <1>2, <1>3, SeqUpdate
  <1> QED
    BY <1>2, <1>4

LEMMA CallRegisterJoins ==
  ASSUME IInv, NEW c \in Callers, CallRegister(c)
  PROVE  /\ cl'.ops = cl.ops /\ cl'.pending = cl.pending
         /\ cl'.removed = cl.removed /\ cl'.requested = cl.requested
         /\ cl'.registered = cl.registered
         /\ \E u : /\ thr' = [thr EXCEPT ![c] = u]
                   /\ u.pc = "call" /\ u.rpc = "register"
                   /\ u.gen = generation
                   /\ JoinedBy(cl, cl', u.coord, generation)
  <1> DEFINE stale == cl.coord # 0 /\ cl.coords[cl.coord].gen # generation
             open  == cl.coord = 0 \/ stale
             coords1 == IF stale THEN [cl.coords EXCEPT ![cl.coord].done = TRUE]
                        ELSE cl.coords
             coords2 == IF open THEN Append(coords1, Coordination(generation))
                        ELSE coords1
             k == IF open THEN Len(coords2)
                  ELSE IF cl.coords[cl.coord].requested THEN 0 ELSE cl.coord
             coords3 == IF k = 0 THEN coords2
                        ELSE [coords2 EXCEPT ![k].inflight = @ + 1,
                                             ![k].done = FALSE]
             u == [Idle EXCEPT !.pc = "call", !.job = "register", !.coord = k,
                               !.gen = generation, !.rpc = "register"]
             n == Len(cl.coords)
             q == Append(cl.coords, Coordination(generation))
  <1>1. cl' = [cl EXCEPT !.coord = IF k = 0 THEN @ ELSE k, !.coords = coords3]
    BY DEF CallRegister
  <1>2. /\ cl \in CleanupState /\ n \in Nat /\ generation \in Nat
        /\ cl.coords \in Seq(CoordinationType)
        /\ cl.coord \in 0..n
        /\ cl.coord # 0 => cl.coords[cl.coord].gen = generation
    BY Numbers, Fields DEF IInv, CleanupOK
  <1>3. ~stale
    BY <1>2
  <1>4. /\ cl'.ops = cl.ops /\ cl'.pending = cl.pending
        /\ cl'.removed = cl.removed /\ cl'.requested = cl.requested
        /\ cl'.registered = cl.registered
        /\ cl'.coord = (IF k = 0 THEN cl.coord ELSE k) /\ cl'.coords = coords3
    <2> HIDE DEF k, coords3
    <2> QED
      BY <1>1, <1>2 DEF CleanupState
  <1>5. thr' = [thr EXCEPT ![c] = u]
    BY DEF CallRegister, Go
  <1>6. u.pc = "call" /\ u.rpc = "register" /\ u.gen = generation /\ u.coord = k
    BY DEF Idle
  <1>7. /\ Coordination(generation) \in CoordinationType
        /\ Coordination(generation).inflight = 0
        /\ Coordination(generation).gen = generation
    BY <1>2 DEF Coordination, CoordinationType
  <1>8. /\ q \in Seq(CoordinationType) /\ Len(q) = n + 1
        /\ q[n + 1] = Coordination(generation)
        /\ \A j \in 1..n : q[j] = cl.coords[j]
    BY <1>2, <1>7
  <1>9. ASSUME NEW p \in Seq(CoordinationType), k \in 1..Len(p), coords2 = p
        PROVE  /\ Len(coords3) = Len(p)
               /\ coords3[k].inflight = p[k].inflight + 1
               /\ coords3[k].gen = p[k].gen
               /\ coords3[k].requested = p[k].requested
               /\ \A j \in 1..Len(p) : j # k => coords3[j] = p[j]
    <2>1. coords3 = WithRegister(p, k)
      <3>1. k # 0
        BY <1>9
      <3> HIDE DEF k, coords2
      <3> QED
        BY <1>9, <3>1 DEF WithRegister
    <2> HIDE DEF k, coords3
    <2> QED
      BY <1>9, <2>1, RegisterAdded
  <1>10. JoinedBy(cl, cl', k, generation)
    <2>1. CASE k = 0
      <3>1. cl.coord # 0
        BY <1>2, <1>3, <1>8, <2>1
      <3>2. coords2 = cl.coords
        BY <1>3, <3>1
      <3>3. coords3 = cl.coords
        <4> HIDE DEF coords2, k
        <4> QED
          BY <2>1, <3>2
      <3> HIDE DEF coords3, k
      <3> QED
        BY <1>2, <1>4, <2>1, <3>1, <3>3 DEF JoinedBy
    <2>2. CASE cl.coord = 0
      <3>1. coords2 = q /\ k = n + 1
        BY <1>3, <1>8, <2>2
      <3> HIDE DEF coords3, coords2, k, q
      <3>2. /\ Len(coords3) = n + 1
            /\ coords3[k].inflight = 1 /\ coords3[k].gen = generation
            /\ \A j \in 1..n : coords3[j] = cl.coords[j]
        BY <1>2, <1>7, <1>8, <1>9, <3>1
      <3> QED
        BY <1>2, <1>4, <2>2, <3>1, <3>2 DEF JoinedBy
    <2>3. CASE cl.coord # 0 /\ k # 0
      <3>1. coords2 = cl.coords /\ k = cl.coord
        BY <1>3, <2>3
      <3> HIDE DEF coords3, coords2, k
      <3>2. /\ Len(coords3) = n
            /\ coords3[k].inflight = cl.coords[k].inflight + 1
            /\ coords3[k].gen = cl.coords[k].gen
            /\ coords3[k].requested = cl.coords[k].requested
            /\ \A j \in 1..n : j # k => coords3[j] = cl.coords[j]
        BY <1>2, <1>9, <2>3, <3>1
      <3> QED
        BY <1>2, <1>4, <2>3, <3>1, <3>2 DEF JoinedBy
    <2> QED
      BY <2>1, <2>2, <2>3
  <1> HIDE DEF u, k, coords3
  <1> QED
    BY <1>4, <1>5, <1>6, <1>10

\* A window counts the register that has joined it.
LEMMA CountJoins ==
  ASSUME IInv, CountOK, NEW c \in DOMAIN thr, ~Registering(thr[c]),
         NEW u, Registering(u), u.gen = generation,
         thr' = [thr EXCEPT ![c] = u],
         JoinedBy(cl, cl', u.coord, generation)
  PROVE  CountOK'
  <1> DEFINE n == Len(cl.coords)
  <1>1. n \in Nat
    BY Numbers
  <1>2. \A k : InWindow(k)' = IF k = u.coord THEN InWindow(k) \cup {c}
                                             ELSE InWindow(k)
    BY DEF InWindow, Registering
  <1>3. \A k : c \notin InWindow(k)
    BY DEF InWindow
  <1>4. ASSUME NEW k \in 1..n
        PROVE  /\ IsFiniteSet(InWindow(k)')
               /\ cl'.coords[k].inflight = Cardinality(InWindow(k)')
    <2> DEFINE W == InWindow(k)
    <2>1. IsFiniteSet(W) /\ cl.coords[k].inflight = Cardinality(W)
      BY DEF CountOK
    <2>2. c \notin W
      BY <1>3
    <2>3. InWindow(k)' = IF k = u.coord THEN W \cup {c} ELSE W
      BY <1>2
    <2>4. cl'.coords[k].inflight = IF k = u.coord
                                   THEN cl.coords[k].inflight + 1
                                   ELSE cl.coords[k].inflight
      BY DEF JoinedBy
    <2> HIDE DEF W
    <2>5. IsFiniteSet(W \cup {c})
          /\ Cardinality(W \cup {c}) = Cardinality(W) + 1
      BY <2>1, <2>2, FS_AddElement
    <2> QED
      BY <2>1, <2>3, <2>4, <2>5
  <1>5. ASSUME NEW k \in 1..Len(cl'.coords), k \notin 1..n
        PROVE  /\ IsFiniteSet(InWindow(k)')
               /\ cl'.coords[k].inflight = Cardinality(InWindow(k)')
    <2>1. k = n + 1 /\ u.coord = k /\ cl'.coords[k].inflight = 1
      BY <1>1, <1>5 DEF JoinedBy
    <2>2. InWindow(k) = {}
      BY <1>1, <2>1 DEF InWindow, CountOK, JoinOK
    <2>3. InWindow(k)' = {c}
      BY <1>2, <2>1, <2>2
    <2> QED
      BY <2>1, <2>3, FS_Singleton
  <1>6. ASSUME NEW x \in DOMAIN thr', Registering(thr'[x])
        PROVE  JoinOK(thr[x])'
    <2>1. CASE x = c
      <3>1. thr'[x] = u
        BY <2>1
      <3> QED
        BY <3>1 DEF JoinOK, JoinedBy
    <2>2. CASE x # c
      <3>1. x \in DOMAIN thr /\ thr'[x] = thr[x]
        BY <2>2
      <3>2. JoinOK(thr[x])
        BY <1>6, <3>1 DEF CountOK
      <3> QED
        BY <1>1, <3>1, <3>2 DEF JoinOK, JoinedBy
    <2> QED
      BY <2>1, <2>2
  <1> QED
    BY <1>4, <1>5, <1>6 DEF CountOK, Registering

LEMMA DeregisterCallRegister ==
  ASSUME IInv, DeregisterInv, NEW c \in Callers, CallRegister(c)
  PROVE  DeregisterInv'
  <1>1. /\ c \in DOMAIN thr /\ thr[c].pc = "idle" /\ ~owed'
        /\ UNCHANGED <<generation, worker, net, rpcSeq, applied, remote,
                       released>>
    BY Invoked DEF CallRegister, Invoke, rpcs, lifecycle
  <1>2. /\ cl'.ops = cl.ops /\ cl'.pending = cl.pending
        /\ cl'.removed = cl.removed /\ cl'.requested = cl.requested
        /\ cl'.registered = cl.registered
    BY CallRegisterJoins
  <1>3. PICK u : /\ thr' = [thr EXCEPT ![c] = u]
                 /\ u.pc = "call" /\ u.rpc = "register"
                 /\ u.gen = generation
                 /\ JoinedBy(cl, cl', u.coord, generation)
    BY CallRegisterJoins
  <1>4. /\ \A x \in DOMAIN thr : x # c => x \in DOMAIN thr' /\ thr'[x] = thr[x]
        /\ \A x \in DOMAIN thr' : x # c => x \in DOMAIN thr /\ thr'[x] = thr[x]
        /\ thr'[c] = u /\ c \in DOMAIN thr'
    BY <1>1, <1>3
  <1>5. CallsInv'
    <2>1. ~Registering(thr[c]) /\ Registering(u)
      BY <1>1, <1>3 DEF Registering, AdminSteps
    <2>2. CountOK'
      BY <1>1, <1>3, <2>1, CountJoins DEF DeregisterInv, CallsInv
    <2>3. \A x \in DOMAIN thr' : OneShotOK(thr[x])'
      BY <1>1, <1>3, <1>4 DEF DeregisterInv, CallsInv, OneShotOK
    <2>4. \A x \in DOMAIN thr' :
            Sent(thr'[x]) => x \in DOMAIN thr /\ thr'[x] = thr[x]
      BY <1>3, <1>4 DEF Sent
    <2>5. SentOK'
      BY <1>1, <2>4 DEF DeregisterInv, CallsInv, SentOK, Sent
    <2> QED
      BY <2>2, <2>3, <2>5 DEF CallsInv
  <1>6. AskedOK'
    BY <1>1, <1>2 DEF DeregisterInv, CleanupInv, AskedOK
  <1>7. \A x \in DOMAIN thr' : Sent(thr'[x]) \/ thr'[x].rpc = "cleanup" =>
          x \in DOMAIN thr /\ thr'[x] = thr[x]
    BY <1>3, <1>4 DEF Sent
  <1>8. RenewalFirst'
    BY <1>7 DEF DeregisterInv, CleanupInv, RenewalFirst, Removing, Renews, Sent
  <1>9. Liable' => Liable
    BY <1>1, <1>7 DEF Liable, Listing, Renews, Sent
  <1>10. cl.coord # 0 =>
           /\ cl'.coord = cl.coord
           /\ cl'.coords[cl.coord].requested = cl.coords[cl.coord].requested
    BY <1>3, Numbers DEF JoinedBy, IInv, CleanupOK
  <1>11. /\ \A x \in DOMAIN thr' : Arriving(thr[x])' =>
              x \in DOMAIN thr /\ thr'[x] = thr[x] /\ Arriving(thr[x])
         /\ \A x \in DOMAIN thr : Arriving(thr[x]) =>
              x \in DOMAIN thr' /\ thr'[x] = thr[x] /\ Arriving(thr[x])'
    <2>1. ASSUME NEW x \in DOMAIN thr', Arriving(thr[x])'
          PROVE  x \in DOMAIN thr /\ thr'[x] = thr[x] /\ Arriving(thr[x])
      <3>1. x \in DOMAIN thr /\ thr'[x] = thr[x] /\ Registering(thr[x])
        BY <1>7, <2>1 DEF Arriving, Sent, Registering, AdminSteps
      <3>2. thr[x].coord \in 0..Len(cl.coords) /\ Len(cl.coords) \in Nat
        BY <3>1, Numbers DEF DeregisterInv, CallsInv, CountOK, JoinOK
      <3>3. cl.coord # 0
        BY <1>3, <2>1, <3>1, <3>2 DEF Arriving, JoinedBy
      <3> QED
        BY <1>10, <2>1, <3>1, <3>3 DEF Arriving
    <2>2. ASSUME NEW x \in DOMAIN thr, Arriving(thr[x])
          PROVE  x \in DOMAIN thr' /\ thr'[x] = thr[x] /\ Arriving(thr[x])'
      BY <1>1, <1>4, <1>10, <2>2 DEF Arriving
    <2> QED
      BY <2>1, <2>2
  <1>12. ArrivalReopens'
    BY <1>1, <1>2, <1>9, <1>10, <1>11
       DEF DeregisterInv, CleanupInv, ArrivalReopens, Spent, Arriving
  <1>13. ListedAfter'
    <2>1. applied' \in Nat /\ applied <= applied'
      BY <1>1, Numbers
    <2> QED
      BY <1>1, <1>2, <1>7, <1>11, <2>1, ListedKept DEF DeregisterInv, CleanupInv
  <1>14. ToCome => ToCome'
    <2>1. CASE \E x \in DOMAIN thr :
                 thr[x].rpc = "cleanup" /\ thr[x].pc \in {"call", "rpc"}
      BY <1>1, <1>4, <2>1 DEF ToCome
    <2>2. CASE \E x \in DOMAIN thr : Arriving(thr[x])
      BY <1>11, <2>2 DEF ToCome
    <2>3. CASE cl.pending # 0 \/ OpenAt(cl, generation)
      BY <1>1, <1>2, <2>3 DEF ToCome, OpenAt
    <2> QED
      BY <2>1, <2>2, <2>3 DEF ToCome
  <1> QED
    BY <1>5, <1>6, <1>8, <1>9, <1>12, <1>13, <1>14
       DEF DeregisterInv, CleanupInv

-----------------------------------------------------------------------------
(* A shutdown begins, and a new lifecycle.                                 *)

\* What the first half of a shutdown does to the cleanup state: it closes the
\* window when it deregisters.
LEMMA ShutdownCloses ==
  ASSUME IInv, NEW c \in Callers, NEW k, CallShutdown(c, k)
  PROVE  /\ cl'.coord = cl.coord /\ cl'.removed = cl.removed
         /\ cl'.requested = cl.requested /\ cl'.registered = cl.registered
         /\ cl'.pending = cl.pending /\ cl'.ops = cl.ops
         /\ SameCounts(cl, cl')
         /\ cl.coord # 0 =>
              /\ cl.coords[cl.coord].requested
                   => cl'.coords[cl.coord].requested
              /\ k = "deregister" => cl'.coords[cl.coord].requested
  <1>1. Window = cl.coord /\ generation \in Nat
    BY Numbers DEF Window, IInv, CleanupOK
  <1>2. CASE k = "deregister" /\ cl.coord # 0
    <2>1. cl' = [cl EXCEPT !.coords[cl.coord].requested = TRUE]
      BY <1>1, <1>2 DEF CallShutdown
    <2>2. CleanupOK(cl, generation, 0)
      BY DEF IInv, CleanupOK
    <2> QED
      BY <1>1, <1>2, <2>1, <2>2, ClosedWindow
  <1>3. CASE ~(k = "deregister" /\ cl.coord # 0)
    <2>1. cl' = cl
      BY <1>1, <1>3 DEF CallShutdown
    <2> QED
      BY <1>3, <2>1 DEF SameCounts
  <1> QED
    BY <1>2, <1>3

\* What a shutdown owes it will ask for.
LEMMA DeregisterCallShutdown ==
  ASSUME IInv, DeregisterInv, NEW c \in Callers, NEW k, CallShutdown(c, k)
  PROVE  DeregisterInv'
  <1> DEFINE due == k = "deregister" /\ CleanupDue
             p == IF due THEN "request" ELSE "closeTail"
             v == Local(k, p, generation)
  <1>1. /\ c \in DOMAIN thr /\ thr[c].pc = "idle" /\ worker' = 0
        /\ UNCHANGED <<generation, net, rpcSeq, applied, remote, released>>
        /\ owed' = (owed \/ due) /\ thr' = [thr EXCEPT ![c] = v]
    BY Invoked DEF CallShutdown, Invoke, StopLocal, rpcs, Go
  <1>2. v.pc = p /\ v.rpc = "none" /\ v.gen = generation
    BY DEF Local, Idle
  <1> HIDE DEF v
  <1>3. /\ cl'.coord = cl.coord /\ cl'.removed = cl.removed
        /\ cl'.requested = cl.requested /\ cl'.registered = cl.registered
        /\ cl'.pending = cl.pending /\ cl'.ops = cl.ops
        /\ SameCounts(cl, cl')
        /\ cl.coord # 0 =>
             /\ cl.coords[cl.coord].requested
                  => cl'.coords[cl.coord].requested
             /\ k = "deregister" => cl'.coords[cl.coord].requested
    BY ShutdownCloses
  <1>4. /\ OnlyMoves(c) /\ Stays(c) /\ thr'[c] = v
        /\ \A u \in DOMAIN thr : u # c => u \in DOMAIN thr' /\ thr'[u] = thr[u]
        /\ \A u \in DOMAIN thr' : u # c => u \in DOMAIN thr /\ thr'[u] = thr[u]
    BY <1>1, GoMoves DEF OnlyMoves
  <1>5. CallsInv'
    <2>1. ~Registering(thr[c]) /\ ~Counted(thr'[c]) /\ OneShotOK(thr[c])'
      BY <1>1, <1>2, <1>4
         DEF Registering, Counted, Sent, AdminSteps, OneShotOK
    <2>2. applied' <= rpcSeq
      BY <1>1 DEF DeregisterInv, CallsInv, SentOK
    <2> QED
      BY <1>1, <1>3, <1>4, <2>1, <2>2, CallsMove DEF DeregisterInv
  <1>6. AskedOK'
    BY <1>1, <1>3 DEF DeregisterInv, CleanupInv, AskedOK
  <1>7. \A u \in DOMAIN thr' : Sent(thr'[u]) \/ thr'[u].rpc = "cleanup" =>
          u \in DOMAIN thr /\ thr'[u] = thr[u]
    BY <1>2, <1>4 DEF Sent
  <1>8. RenewalFirst'
    BY <1>7 DEF DeregisterInv, CleanupInv, RenewalFirst, Removing, Renews, Sent
  <1>9. Liable' => Liable
    BY <1>1, <1>7 DEF Liable, Listing, Renews, Sent
  <1>10. /\ \A u \in DOMAIN thr' : Arriving(thr[u])' =>
              u \in DOMAIN thr /\ thr'[u] = thr[u] /\ Arriving(thr[u])
         /\ \A u \in DOMAIN thr : Arriving(thr[u]) =>
              u \in DOMAIN thr' /\ thr'[u] = thr[u] /\ Arriving(thr[u])'
    BY <1>1, <1>3, <1>4, <1>7 DEF Arriving, Sent
  <1>11. ArrivalReopens'
    <2>1. Spent' => Spent
      BY <1>1, <1>3 DEF Spent
    <2> QED
      BY <1>9, <1>10, <2>1 DEF DeregisterInv, CleanupInv, ArrivalReopens
  <1>12. ListedAfter'
    <2>1. applied' \in Nat /\ applied <= applied'
      BY <1>1, Numbers
    <2> QED
      BY <1>1, <1>3, <1>7, <1>10, <2>1, ListedKept DEF DeregisterInv, CleanupInv
  <1>13. ToCome => ToCome'
    <2>1. CASE \E x \in DOMAIN thr :
                 thr[x].rpc = "cleanup" /\ thr[x].pc \in {"call", "rpc"}
      BY <1>1, <1>4, <2>1 DEF ToCome
    <2>2. CASE \E x \in DOMAIN thr : Arriving(thr[x])
      BY <1>10, <2>2 DEF ToCome
    <2>3. CASE cl.pending # 0
      BY <1>3, <2>3 DEF ToCome
    <2>4. CASE /\ OpenAt(cl, generation)
               /\ owed => InflightAt(cl) \/ Requesting
      <3>1. OpenAt(cl', generation)
        BY <1>3, <2>4 DEF OpenAt
      <3>2. InflightAt(cl) => InflightAt(cl')
        BY <1>3, Numbers DEF InflightAt, SameCounts, IInv, CleanupOK
      <3>3. Requesting => Requesting'
        BY <1>1, <1>4 DEF Requesting
      <3>4. due => Requesting'
        BY <1>1, <1>2, <1>4 DEF Requesting, Stays
      <3> HIDE DEF due
      <3> QED
        BY <1>1, <2>4, <3>1, <3>2, <3>3, <3>4 DEF ToCome, OpenAt, InflightAt
    <2> QED
      BY <2>1, <2>2, <2>3, <2>4 DEF ToCome
  <1> QED
    BY <1>5, <1>6, <1>8, <1>9, <1>11, <1>12, <1>13
       DEF DeregisterInv, CleanupInv

\* The window of the generation before is detached, with those in it.
LEMMA DetachCounts ==
  ASSUME IInv, NEW s, s = Detach(cl)
  PROVE  /\ s \in CleanupState /\ s.ops = cl.ops /\ s.coord = 0
         /\ s.active = cl.active /\ s.pending = cl.pending
         /\ s.removed = cl.removed /\ s.requested = cl.requested
         /\ SameCounts(cl, s)
  <1>1. cl \in CleanupState
    BY Numbers
  <1>2. CASE cl.coord = 0
    BY <1>1, <1>2 DEF Detach, SameCounts
  <1>3. CASE cl.coord # 0
    <2> DEFINE v == [cl.coords[cl.coord] EXCEPT !.done = TRUE]
               q == [cl.coords EXCEPT ![cl.coord] = v]
    <2>1. /\ cl.coord \in 1..Len(cl.coords)
          /\ cl.coords \in Seq(CoordinationType)
      BY <1>3, Numbers, Fields DEF IInv, CleanupOK
    <2>2. cl.coords[cl.coord] \in CoordinationType
      BY <2>1
    <2>3. /\ v \in CoordinationType /\ v.gen = cl.coords[cl.coord].gen
          /\ v.inflight = cl.coords[cl.coord].inflight
      BY <2>2 DEF CoordinationType
    <2>4. s = [cl EXCEPT !.coords = q, !.coord = 0]
      BY <1>3 DEF Detach
    <2> HIDE DEF v
    <2>5. /\ q \in Seq(CoordinationType) /\ Len(q) = Len(cl.coords)
          /\ \A j \in 1..Len(cl.coords) :
               q[j] = IF j = cl.coord THEN v ELSE cl.coords[j]
      BY <2>1, <2>3, SeqUpdate
    <2> HIDE DEF q
    <2>6. /\ s \in CleanupState /\ s.ops = cl.ops /\ s.coord = 0
          /\ s.active = cl.active /\ s.pending = cl.pending
          /\ s.removed = cl.removed /\ s.requested = cl.requested
          /\ s.coords = q
      <3>1. q \in Seq(CoordinationType) /\ 0 \in Ref
        BY <2>5 DEF Ref
      <3> HIDE DEF Ref
      <3> QED
        BY <1>1, <2>4, <3>1 DEF CleanupState
    <2>7. SameCounts(cl, s)
      <3>1. \A j \in 1..Len(cl.coords) : /\ q[j].inflight = cl.coords[j].inflight
                                         /\ q[j].gen = cl.coords[j].gen
        BY <2>3, <2>5
      <3> QED
        BY <2>5, <2>6, <3>1 DEF SameCounts
    <2> QED
      BY <2>6, <2>7
  <1> QED
    BY <1>2, <1>3

\* A new lifecycle starts with its cleanup possible and not asked for.
LEMMA DeregisterActivate ==
  ASSUME IInv, RemovalInv, DeregisterInv, NEW t \in DOMAIN thr, Activate(t)
  PROVE  DeregisterInv'
  <1> DEFINE p == thr[t].ref
             g == generation
             s == Detach(cl)
  <1>1. /\ thr[t].pc = "prepared" /\ p \in DOMAIN ctx
        /\ UNCHANGED <<net, rpcSeq, applied, remote>>
    BY OwnLocal DEF Activate, At, LocalOK
  <1>2. ~Loud(thr[t])
    BY <1>1 DEF Loud
  <1>3. CASE prepared # p
    <2>1. Exit(t) /\ UNCHANGED <<lifecycle, cl, released, owed>>
      BY <1>3 DEF Activate
    <2>2. Calm
      BY <1>1, <2>1 DEF Calm, lifecycle, rpcs
    <2> QED
      BY <1>2, <2>1, <2>2, CalmExit
  <1>4. CASE prepared = p
    <2>1. p # 0 /\ worker = 0 /\ ctx[p].gen = g + 1 /\ g \in Nat /\ ctx[p].owner
      <3>1. LifeOK(ctx, g, worker, p, stopping, spawned)
        BY <1>4 DEF IInv
      <3>2. p # 0
        BY <1>1, <3>1 DEF LifeOK
      <3> QED
        BY <3>1, <3>2 DEF LifeOK
    <2>2. /\ generation' = g + 1 /\ worker' = p
          /\ cl' = Cancel(s, cl.pending)
          /\ ~owed' /\ ~released' /\ Exit(t)
      BY <1>4, <2>1 DEF Activate
    <2>3. /\ cl.pending \in 0..Len(cl.ops) /\ Len(cl.ops) \in Nat
          /\ cl.removed <= g /\ cl.requested <= g
          /\ cl.removed \in Gen /\ cl.requested \in Gen
      BY Numbers, Fields
         DEF IInv, CleanupOK, DeregisterInv, CleanupInv, AskedOK
    <2>4. /\ s \in CleanupState /\ s.ops = cl.ops /\ s.coord = 0
          /\ s.active = cl.active /\ s.pending = cl.pending
          /\ s.removed = cl.removed /\ s.requested = cl.requested
          /\ SameCounts(cl, s)
      BY DetachCounts
    <2> HIDE DEF s
    <2>5. /\ cl'.coord = 0 /\ cl'.removed = cl.removed
          /\ cl'.requested = cl.requested /\ SameCounts(cl, cl')
          /\ \A j \in 1..Len(cl.ops) : cl'.ops[j].gen = cl.ops[j].gen
      BY <2>2, <2>3, <2>4, CancelFields DEF SameCounts
    <2>6. /\ OnlyMoves(t)
          /\ Stays(t) => thr'[t].pc = "idle" /\ thr'[t].rpc = "none"
      BY <2>2, ExitMoves
    <2>7. NothingNew
      BY <2>6 DEF NothingNew, OnlyMoves, Stays, Loud
    <2>8. CallsInv'
      <3>1. \A u \in DOMAIN thr' : Counted(thr'[u]) =>
              u \in DOMAIN thr /\ thr'[u] = thr[u]
        BY <2>7, CountedIsLoud DEF NothingNew
      <3>2. \A u \in DOMAIN thr : Registering(thr[u]) =>
              u \in DOMAIN thr' /\ thr'[u] = thr[u]
        BY <1>1, <2>6 DEF Registering, AdminSteps, OnlyMoves
      <3>3. \A u \in DOMAIN thr' : OneShotOK(thr[u])'
        <4>1. ASSUME NEW u \in DOMAIN thr', thr'[u].rpc = "remove"
              PROVE  OneShotOK(thr[u])'
          <5>1. u \in DOMAIN thr /\ thr'[u] = thr[u]
            BY <2>6, <4>1 DEF OnlyMoves, Stays
          <5>2. thr[u].gen <= g /\ thr[u].gen \in Nat
            BY <4>1, <5>1, OwnLocal DEF DeregisterInv, CallsInv, OneShotOK
          <5> QED
            BY <2>1, <2>2, <5>1, <5>2 DEF OneShotOK
        <4> QED
          BY <4>1 DEF OneShotOK
      <3>4. applied' <= rpcSeq
        BY <1>1 DEF DeregisterInv, CallsInv, SentOK
      <3> QED
        BY <1>1, <2>5, <3>1, <3>2, <3>3, <3>4, CallsQuiet DEF DeregisterInv
    <2>9. AskedOK'
      <3>1. cl.requested # g + 1 /\ cl.requested <= g + 1 /\ g + 1 > 0
        BY <2>1, <2>3 DEF Gen, NoGen
      <3> QED
        BY <2>2, <2>5, <3>1 DEF AskedOK
    <2>10. RenewalFirst'
      BY <2>7, RenewalsQuiet DEF DeregisterInv, CleanupInv
    <2>11. ArrivalReopens'
      BY <2>5 DEF ArrivalReopens, Arriving
    <2>12. ListedAfter'
      <3>1. ASSUME NEW u \in DOMAIN thr', Succeeded(u)' PROVE FALSE
        <4>1. u \in DOMAIN thr /\ thr'[u] = thr[u]
          BY <2>7, <3>1 DEF NothingNew, Loud, Succeeded
        <4>2. Removing(u)
          BY <3>1, <4>1 DEF Succeeded, Removing
        <4>3. cl.active = thr[u].ref /\ thr[u].ref \in 1..Len(cl.ops)
          BY <4>1, <4>2, OwnLocal
             DEF RemovalInv, RemovingOK, Removing, LocalOK
        <4>4. cl.ops[cl.active] \in OperationType
          BY <4>3, Numbers, Fields
        <4>5. cl.ops[cl.active].gen <= g /\ cl.ops[cl.active].gen \in Nat
          BY <2>3, <4>3, <4>4 DEF RemovalInv, ActiveOK, OperationType
        <4> QED
          BY <2>1, <2>2, <2>5, <3>1, <4>1, <4>3, <4>5 DEF Succeeded
      <3> QED
        BY <3>1 DEF ListedAfter
    <2>13. ToCome'
      BY <2>1, <2>2, <2>3, <2>5 DEF ToCome, OpenAt, Gen
    <2> QED
      BY <2>8, <2>9, <2>10, <2>11, <2>12, <2>13 DEF DeregisterInv, CleanupInv
  <1> QED
    BY <1>3, <1>4

-----------------------------------------------------------------------------
(* The invariant.                                                          *)

LEMMA InitDeregister == Init => DeregisterInv
  <1> SUFFICES ASSUME Init
               PROVE  DeregisterInv
    OBVIOUS
  <1>1. \A t \in DOMAIN thr : thr[t].pc = "idle" /\ thr[t].rpc = "none"
    BY DEF Init, Idle
  <1>2. Len(cl.coords) = 0
    BY DEF Init
  <1>3. CallsInv
    BY <1>1, <1>2
       DEF Init, CallsInv, CountOK, SentOK, Registering, AdminSteps, Sent,
           OneShotOK
  <1>4. AskedOK
    BY DEF Init, AskedOK, NoGen
  <1>5. RenewalFirst /\ ListedAfter
    BY <1>1 DEF RenewalFirst, ListedAfter, Succeeded, Removing
  <1>6. ~Liable
    BY <1>1 DEF Init, Liable, Listing, Renews
  <1> QED
    BY <1>3, <1>4, <1>5, <1>6 DEF DeregisterInv, CleanupInv, ArrivalReopens

LEMMA NextDeregister ==
  IInv /\ RemovalInv /\ DeregisterInv /\ [Next]_vars => DeregisterInv'
  <1> SUFFICES ASSUME IInv, RemovalInv, DeregisterInv, [Next]_vars
               PROVE  DeregisterInv'
    OBVIOUS
  <1>1. CASE UNCHANGED vars
    <2>1. Calm
      BY <1>1 DEF vars, Calm, lifecycle
    <2>2. thr' = thr /\ NothingNew
      BY <1>1 DEF vars, NothingNew
    <2>3. \A u \in DOMAIN thr' : OneShotOK(thr[u])'
      BY <2>1, <2>2 DEF DeregisterInv, CallsInv, OneShotOK, Calm
    <2> QED
      BY <2>1, <2>2, <2>3, CalmStep DEF Calm
  <1>2. ASSUME NEW c \in Callers, Call(c)
        PROVE  DeregisterInv'
    BY <1>2, DeregisterCallRegister, DeregisterCallRemove, DeregisterCallStart,
       DeregisterCallStop, DeregisterCallShutdown DEF Call
  <1>3. ASSUME NEW t \in DOMAIN thr, Step(t)
        PROVE  DeregisterInv'
    BY <1>3, DeregisterRpcBegin, DeregisterRpcEnd, DeregisterCommitRegister,
       DeregisterCommitRemove, DeregisterCommitRenewal,
       DeregisterCompleteRemove, DeregisterTerminal, DeregisterTerminalOwn,
       DeregisterActivate, DeregisterCancelPrepared, DeregisterShutdownRequest,
       DeregisterSchedule, DeregisterMaybeCloseLogs, DeregisterWorker,
       DeregisterFinishWorker, DeregisterClaim, DeregisterDiscard
       DEF Step
  <1>4. ASSUME NEW t \in DOMAIN thr, Tick(t)
        PROVE  DeregisterInv'
    BY <1>4, DeregisterWorker
  <1> QED
    BY <1>1, <1>2, <1>3, <1>4 DEF Next, Rest

LEMMA DeregisterInvariant == Spec => [](IInv /\ RemovalInv /\ DeregisterInv)
  <1>1. Init => IInv /\ RemovalInv /\ DeregisterInv
    BY InitInvariant, InitRemoval, InitDeregister
  <1>2. IInv /\ RemovalInv /\ DeregisterInv /\ [Next]_vars
          => (IInv /\ RemovalInv /\ DeregisterInv)'
    BY NextInvariant, NextRemoval, NextDeregister
  <1> QED
    BY <1>1, <1>2, PTL DEF Spec

-----------------------------------------------------------------------------
(* The results.                                                            *)

\* When everything has come to rest, nothing is to come that only a thread can
\* bring.
LEMMA NothingToCome ==
  ASSUME IInv, RemovalInv, DeregisterInv, Settled, owed
  PROVE  ~ToCome
  <1>1. \A t \in DOMAIN thr : /\ thr[t].pc \in {"idle", "sleep"}
                              /\ thr[t].pc = "sleep" => worker = t
    BY DEF Settled
  <1>2. cl.active = 0
    BY <1>1 DEF RemovalInv, RemovingOK, Removing
  <1>3. ASSUME cl.pending # 0 PROVE FALSE
    <2>1. worker = 0
      BY <1>3 DEF IInv, CleanupOK
    <2>2. \A t \in DOMAIN thr : thr[t].pc = "idle"
      BY <1>1, <2>1, ThreadNames
    <2>3. \A w \in stopping : w \in DOMAIN thr /\ InLoop(thr[w])
      BY DEF RemovalInv, WorkersOK
    <2>4. stopping = {}
      BY <2>2, <2>3 DEF InLoop, LoopSteps, AdminSteps
    <2>5. cl.pending \in 1..Len(cl.ops)
      BY <1>3, Numbers DEF IInv, CleanupOK
    <2>6. cl.ops[cl.pending].thread \in actors
      BY <1>2, <1>3, <2>2, <2>4
         DEF RemovalInv, PendingHasOwner, SchedSites
    <2>7. PICK t \in DOMAIN thr : thr[t].job = "actor"
      BY <2>6 DEF RemovalInv, ActorsOK, Acting
    <2>8. thr[t].pc # "idle"
      BY <2>7 DEF RemovalInv, Shapes, Shape, WorkerShape, ActorShape,
                  CallerShape, AdminSteps, TailSteps, LoopSteps
    <2> QED
      BY <2>2, <2>8
  <1>4. \A t \in DOMAIN thr : ~Arriving(thr[t])
    BY <1>1 DEF Arriving
  <1>5. ~Requesting
    BY <1>1 DEF Requesting
  <1>6. ~InflightAt(cl)
    <2> SUFFICES ASSUME cl.coord # 0
                 PROVE  ~(cl.coords[cl.coord].inflight > 0)
      BY DEF InflightAt
    <2>1. cl.coord \in 1..Len(cl.coords)
      BY Numbers DEF IInv, CleanupOK
    <2>2. InWindow(cl.coord) = {}
      BY <1>1 DEF InWindow, Registering, AdminSteps
    <2>3. cl.coords[cl.coord].inflight = Cardinality(InWindow(cl.coord))
      BY <2>1 DEF DeregisterInv, CallsInv, CountOK
    <2> QED
      BY <2>2, <2>3, FS_EmptySet
  <1> QED
    BY <1>1, <1>3, <1>4, <1>5, <1>6 DEF ToCome

\* Deregistration works: once everything has come to rest after stop() with
\* remove_registry or shutdown() with deregister asked for the cleanup, the
\* Admin server does not list the executor, whatever registers, renewals,
\* removals and restarts overlapped it, unless the library is released.
THEOREM CleanupWorks == Spec => []CleanupIsEffective
  <1>1. IInv /\ RemovalInv /\ DeregisterInv => CleanupIsEffective
    <2> SUFFICES ASSUME IInv, RemovalInv, DeregisterInv,
                        Settled, owed, ~released, remote
                 PROVE  FALSE
      BY DEF CleanupIsEffective
    <2>1. Liable
      BY DEF Liable, Listing
    <2> QED
      BY <2>1, NothingToCome DEF DeregisterInv, CleanupInv
  <1> QED
    BY <1>1, DeregisterInvariant, PTL

-----------------------------------------------------------------------------
(* What the snapshot says.                                                 *)

\* The number of the last Admin call that has ended.
LastEnded == IF net = 0 THEN rpcSeq ELSE rpcSeq - 1

\* The last call that has ended still has to say what it did.
Reports(t) == /\ thr[t].pc = "commit" /\ thr[t].seq = LastEnded
              /\ remote <=> thr[t].rpc = "register"

\* Before the first lifecycle the registered flag says what the last call did,
\* or this call is about to be completed.
SnapshotInv ==
  generation = 0 =>
    /\ stopping = {}
    /\ net # 0 => net \in DOMAIN thr /\ thr[net].pc = "rpc"
    /\ \A t \in DOMAIN thr :
         thr[t].pc = "commit" => thr[t].ok /\ thr[t].seq <= LastEnded
    /\ \/ applied = LastEnded /\ (cl.registered <=> remote)
       \/ applied < LastEnded /\ \E t \in DOMAIN thr : Reports(t)

\* The calls that were sent are the same.
SameSent ==
  /\ \A u \in DOMAIN thr' :
       Sent(thr'[u]) => u \in DOMAIN thr /\ thr'[u] = thr[u]
  /\ \A u \in DOMAIN thr :
       Sent(thr[u]) => u \in DOMAIN thr' /\ thr'[u] = thr[u]

\* A step that the snapshot does not look at.
Unseen == /\ SameSent /\ UNCHANGED <<generation, net, rpcSeq, applied, remote>>
          /\ cl'.registered = cl.registered
          /\ stopping' \subseteq stopping \cup ({worker} \ {0})

LEMMA SnapshotUnseen ==
  ASSUME DeregisterInv, SnapshotInv, Unseen
  PROVE  SnapshotInv'
  <1> SUFFICES ASSUME generation = 0
               PROVE  SnapshotInv'
    BY DEF SnapshotInv, Unseen
  <1>1. stopping' = {}
    BY DEF SnapshotInv, Unseen, DeregisterInv, CleanupInv, AskedOK
  <1>2. LastEnded' = LastEnded
    BY DEF LastEnded, Unseen
  <1>3. net' # 0 => net' \in DOMAIN thr' /\ thr'[net'].pc = "rpc"
    BY DEF SnapshotInv, Unseen, SameSent, Sent
  <1>4. \A u \in DOMAIN thr' :
          thr'[u].pc = "commit" => thr'[u].ok /\ thr'[u].seq <= LastEnded'
    BY <1>2 DEF SnapshotInv, Unseen, SameSent, Sent
  <1>5. ASSUME NEW u \in DOMAIN thr, Reports(u)
        PROVE  u \in DOMAIN thr' /\ Reports(u)'
    BY <1>2, <1>5 DEF Unseen, SameSent, Sent, Reports
  <1>6. \/ applied' = LastEnded' /\ (cl'.registered <=> remote')
        \/ applied' < LastEnded' /\ \E u \in DOMAIN thr' : Reports(u)'
    BY <1>2, <1>5 DEF SnapshotInv, Unseen
  <1> QED
    BY <1>1, <1>3, <1>4, <1>6 DEF SnapshotInv

\* Such a step of one thread, next to one that is spawned.
LEMMA MoveSent ==
  ASSUME NEW t \in DOMAIN thr, OnlyMoves(t), ~Sent(thr[t]),
         Stays(t) => ~Sent(thr'[t])
  PROVE  SameSent
BY DEF SameSent, OnlyMoves, Stays

LEMMA GotoSent ==
  ASSUME IInv, NEW t \in DOMAIN thr, ~Sent(thr[t]), NEW p, Goto(t, p),
         p \notin {"rpc", "commit"}
  PROVE  SameSent
BY GotoMoves, MoveSent DEF Sent

LEMMA ExitSent ==
  ASSUME NEW t \in DOMAIN thr, ~Sent(thr[t]), Exit(t)
  PROVE  SameSent
BY ExitMoves, MoveSent DEF Sent

LEMMA PutSent ==
  ASSUME NEW t \in DOMAIN thr, ~Sent(thr[t]), NEW u,
         thr' = [thr EXCEPT ![t] = u], ~Sent(u)
  PROVE  SameSent
BY GoMoves, MoveSent

LEMMA SpawnSent ==
  ASSUME IInv, NEW t \in DOMAIN thr, NEW u, NEW v,
         Spawn([thr EXCEPT ![t] = u], v), ~Sent(thr[t]), ~Sent(u), ~Sent(v)
  PROVE  SameSent
BY SpawnMoves DEF SpawnedBy, SameSent

-----------------------------------------------------------------------------
(* The steps that the snapshot does not look at.                           *)

LEMMA UnseenTerminal ==
  ASSUME IInv, NEW t \in DOMAIN thr,
         \/ TerminalOneShot(t) \/ TerminalRegisters(t) \/ TerminalCached(t)
         \/ TerminalActive(t) \/ TerminalPending(t) \/ TerminalOwn(t)
         \/ AwaitRegisters(t) \/ AwaitRemove(t)
  PROVE  Unseen
  <1>1. ~Sent(thr[t]) /\ Unmoved
    BY DEF TerminalOneShot, TerminalRegisters, TerminalCached, TerminalActive,
           TerminalPending, TerminalOwn, Unsettled, AwaitRegisters, AwaitRemove,
           At, Sent
  <1>2. cl'.registered = cl.registered
    <2>1. cl \in CleanupState
      BY Numbers
    <2>2. CASE TerminalOwn(t)
      BY <2>1, <2>2 DEF TerminalOwn, CleanupState
    <2> QED
      BY <2>2 DEF TerminalOneShot, TerminalRegisters, TerminalCached,
                  TerminalActive, TerminalPending, AwaitRegisters, AwaitRemove
  <1>3. SameSent
    <2>1. CASE Exit(t) \/ \E p \in {"call", "terminal"} : Goto(t, p)
      BY <1>1, <2>1, GotoSent, ExitSent
    <2>2. ASSUME NEW u, thr' = [thr EXCEPT ![t] = u],
                 u.pc \in {"awaitRegisters", "awaitActive", "awaitPending",
                           "schedWait", "call"}
          PROVE  SameSent
      BY <1>1, <2>2, PutSent DEF Sent
    <2>3. CASE TerminalRegisters(t)
      <3> DEFINE u == [thr[t] EXCEPT !.pc = "awaitRegisters", !.coord = cl.coord]
      <3>1. thr' = [thr EXCEPT ![t] = u]
        BY <2>3 DEF TerminalRegisters
      <3>2. u.pc = "awaitRegisters"
        BY OwnLocal DEF LocalType
      <3> QED
        BY <2>2, <3>1, <3>2
    <2>4. CASE TerminalActive(t) \/ TerminalPending(t)
      <3>1. PICK p \in {"awaitActive", "awaitPending", "schedWait"},
                 o \in {cl.active, cl.pending} :
              thr' = [thr EXCEPT ![t].pc = p, ![t].ref = o]
        BY <2>4 DEF TerminalActive, TerminalPending
      <3> DEFINE u == [thr[t] EXCEPT !.pc = p, !.ref = o]
      <3>2. thr' = [thr EXCEPT ![t] = u]
        BY <3>1
      <3>3. u.pc = p
        BY OwnLocal DEF LocalType
      <3> QED
        BY <2>2, <3>2, <3>3
    <2>5. CASE TerminalOwn(t)
      <3> DEFINE u == [thr[t] EXCEPT !.pc = "call", !.rpc = "cleanup",
                                     !.ref = Len(cl.ops) + 1]
      <3>1. thr' = [thr EXCEPT ![t] = u]
        BY <2>5 DEF TerminalOwn
      <3>2. u.pc = "call"
        BY OwnLocal DEF LocalType
      <3> QED
        BY <2>2, <3>1, <3>2
    <2> QED
      BY <2>1, <2>3, <2>4, <2>5
         DEF TerminalOneShot, TerminalCached, AwaitRegisters, AwaitRemove
  <1> QED
    BY <1>1, <1>2, <1>3 DEF Unseen, Unmoved, lifecycle, rpcs

LEMMA UnseenWorker ==
  ASSUME IInv, NEW t \in DOMAIN thr,
         \/ Gate(t) \/ AwaitOlder(t) \/ WorkerQuit(t) \/ Tick(t)
         \/ FinishWorker(t)
  PROVE  Unseen
  <1>1. ~Sent(thr[t])
    BY DEF Gate, AwaitOlder, WorkerQuit, Tick, FinishWorker, At, Sent
  <1>2. cl'.registered = cl.registered
    <2>1. cl \in CleanupState
      BY Numbers
    <2>2. CASE FinishWorker(t)
      BY <2>1, <2>2 DEF FinishWorker, CleanupState
    <2> QED
      BY <2>2 DEF Gate, AwaitOlder, WorkerQuit, Tick
  <1>3. SameSent
    <2>1. CASE Exit(t) \/ \E p \in {"call", "finish", "schedTail"} : Goto(t, p)
      BY <1>1, <2>1, GotoSent, ExitSent
    <2>2. CASE Gate(t) /\ Committed(t)
      <3>1. PICK p \in {"call", "awaitOlder", "finish"} :
              thr' = [thr EXCEPT ![t].rpc = "renewal", ![t].pc = p]
        BY <2>2 DEF Gate
      <3> DEFINE u == [thr[t] EXCEPT !.rpc = "renewal", !.pc = p]
      <3>2. thr' = [thr EXCEPT ![t] = u] /\ u.pc = p
        BY <3>1, OwnLocal DEF LocalType
      <3> QED
        BY <1>1, <3>2, PutSent DEF Sent
    <2>3. CASE FinishWorker(t) /\ Mine(t)
      <3> DEFINE u == [thr[t] EXCEPT !.pc = "call", !.rpc = "cleanup",
                                     !.ref = cl.pending]
      <3>1. thr' = [thr EXCEPT ![t] = u] /\ u.pc = "call"
        BY <2>3, OwnLocal DEF FinishWorker, LocalType
      <3> QED
        BY <1>1, <3>1, PutSent DEF Sent
    <2> QED
      BY <2>1, <2>2, <2>3 DEF Gate, AwaitOlder, WorkerQuit, Tick, FinishWorker
  <1> QED
    BY <1>1, <1>2, <1>3
       DEF Gate, AwaitOlder, WorkerQuit, Tick, FinishWorker, Unseen, Unmoved,
           lifecycle, rpcs

LEMMA UnseenActor ==
  ASSUME IInv, NEW t \in DOMAIN thr, Claim(t) \/ Discard(t)
  PROVE  Unseen
  <1>1. ~Sent(thr[t]) /\ cl \in CleanupState
    BY Numbers DEF Claim, Discard, At, Sent
  <1>2. cl'.registered = cl.registered
    BY <1>1 DEF Claim, Discard, CleanupState
  <1>3. SameSent
    <2>1. CASE \E p \in {"discard", "schedTail"} : Goto(t, p)
      BY <1>1, <2>1, GotoSent
    <2>2. CASE thr' = [thr EXCEPT ![t].pc = "call", ![t].rpc = "cleanup"]
      <3> DEFINE u == [thr[t] EXCEPT !.pc = "call", !.rpc = "cleanup"]
      <3>1. thr' = [thr EXCEPT ![t] = u] /\ u.pc = "call"
        BY <2>2, OwnLocal DEF LocalType
      <3> QED
        BY <1>1, <3>1, PutSent DEF Sent
    <2> QED
      BY <2>1, <2>2 DEF Claim, Discard
  <1> QED
    BY <1>2, <1>3 DEF Claim, Discard, Unseen, Unmoved, lifecycle, rpcs

LEMMA UnseenTail ==
  ASSUME IInv, NEW t \in DOMAIN thr, MaybeCloseLogs(t) \/ CancelPrepared(t)
  PROVE  Unseen
  <1>1. ~Sent(thr[t])
    BY DEF MaybeCloseLogs, CancelPrepared, At, Sent
  <1>2. Exit(t) \/ \E p \in {"close", "closeTail", "discard"} : Goto(t, p)
    BY DEF MaybeCloseLogs, AfterExecute, CancelPrepared
  <1>3. SameSent
    BY <1>1, <1>2, GotoSent, ExitSent
  <1> QED
    BY <1>3 DEF MaybeCloseLogs, CancelPrepared, Unseen, lifecycle, rpcs

LEMMA UnseenCall ==
  ASSUME IInv, NEW c \in Callers, Call(c)
  PROVE  Unseen
  <1>1. ASSUME NEW k, Invoke(c, k)
        PROVE  c \in DOMAIN thr /\ ~Sent(thr[c]) /\ UNCHANGED rpcs
    BY <1>1, Invoked DEF Invoke, Sent
  <1>2. ASSUME NEW u, Go(c, u), u.pc \notin {"rpc", "commit"},
               NEW k, Invoke(c, k)
        PROVE  SameSent
    BY <1>1, <1>2, PutSent DEF Go, Sent
  <1>3. CASE CallRegister(c)
    <2>1. PICK u : thr' = [thr EXCEPT ![c] = u] /\ u.pc = "call"
      BY <1>3, CallRegisterJoins
    <2>2. cl'.registered = cl.registered
      BY <1>3, CallRegisterJoins
    <2> QED
      BY <1>1, <1>2, <1>3, <2>1, <2>2
         DEF CallRegister, Go, Unseen, lifecycle, rpcs
  <1>4. CASE CallRemove(c)
    <2> DEFINE u == [Idle EXCEPT !.pc = IF worker = 0 THEN "terminal" ELSE "call",
                                 !.job = "remove", !.gen = generation,
                                 !.rpc = "remove"]
    <2>1. u.pc \in {"terminal", "call"} /\ Go(c, u)
      BY <1>4 DEF CallRemove, Idle
    <2> HIDE DEF u
    <2>2. SameSent
      BY <1>2, <1>4, <2>1 DEF CallRemove
    <2> QED
      BY <1>1, <1>4, <2>2 DEF CallRemove, Unseen, lifecycle, rpcs
  <1>5. ASSUME NEW k \in Kinds, CallStart(c, k)
        PROVE  Unseen
    <2>1. CASE Spawn([thr EXCEPT ![c] = [Idle EXCEPT !.pc = "prepared",
                                         !.job = k, !.ref = spawned + 1]],
                     Local("worker", "gate", generation + 1))
      <3> DEFINE u == [Idle EXCEPT !.pc = "prepared", !.job = k,
                                   !.ref = spawned + 1]
                 v == Local("worker", "gate", generation + 1)
      <3>1. u.pc = "prepared" /\ v.pc = "gate"
        BY DEF Local, Idle
      <3> HIDE DEF u, v
      <3>2. Spawn([thr EXCEPT ![c] = u], v)
        BY <2>1 DEF u, v
      <3> QED
        BY <1>1, <1>5, <3>1, <3>2, SpawnSent DEF CallStart, Unseen, rpcs, Sent
    <2>2. CASE UNCHANGED thr
      <3>1. SameSent
        BY <2>2 DEF SameSent
      <3> QED
        BY <1>1, <1>5, <3>1 DEF CallStart, Unseen, rpcs
    <2> QED
      BY <1>5, <2>1, <2>2 DEF CallStart
  <1>6. ASSUME NEW k, NEW p, p \notin {"rpc", "commit"},
               Go(c, Local(k, p, generation)), Invoke(c, k), StopLocal,
               cl'.registered = cl.registered
        PROVE  Unseen
    <2> DEFINE u == Local(k, p, generation)
    <2>1. u.pc = p /\ Go(c, u)
      BY <1>6 DEF Local, Idle
    <2> HIDE DEF u
    <2>2. SameSent
      BY <1>2, <1>6, <2>1
    <2> QED
      BY <1>1, <1>6, <2>2 DEF StopLocal, Unseen, rpcs
  <1>7. ASSUME NEW k \in Kinds, CallStop(c, k)
        PROVE  Unseen
    <2>1. PICK p \in {"schedStop", "closeTail"} : Go(c, Local(k, p, generation))
      BY <1>7 DEF CallStop
    <2>2. CleanupOK(cl, generation, 0)
      BY <1>7 DEF IInv, CleanupOK
    <2>3. cl'.registered = cl.registered
      BY <1>7, <2>2, Numbers, RequestRemoveAsks
         DEF CallStop, Keep, RequestedOf, Asks
    <2> QED
      BY <1>6, <1>7, <2>1, <2>3 DEF CallStop
  <1>8. ASSUME NEW k \in Kinds, CallShutdown(c, k)
        PROVE  Unseen
    <2>1. PICK p \in {"request", "closeTail"} : Go(c, Local(k, p, generation))
      BY <1>8 DEF CallShutdown
    <2> QED
      BY <1>6, <1>8, <2>1, ShutdownCloses DEF CallShutdown
  <1> QED
    BY <1>3, <1>4, <1>5, <1>7, <1>8 DEF Call

LEMMA UnseenShutdownRequest ==
  ASSUME IInv, NEW t \in DOMAIN thr, ShutdownRequest(t)
  PROVE  Unseen
  <1>1. ~Sent(thr[t])
    BY DEF ShutdownRequest, At, Sent
  <1>2. \E p \in {"schedShutdown", "closeTail"} : Goto(t, p)
    BY DEF ShutdownRequest
  <1>3. SameSent
    BY <1>1, <1>2, GotoSent
  <1>4. CASE generation = thr[t].gen /\ cl' = RequestRemove(cl, generation).cl
    <2>1. CleanupOK(cl, generation, 0)
      BY <1>4, OwnLocal DEF IInv, CleanupOK, LocalOK, ShutdownRequest, At
    <2>2. cl'.registered = cl.registered
      BY <1>4, <2>1, Numbers, RequestRemoveAsks DEF RequestedOf, Asks
    <2> QED
      BY <1>3, <2>2 DEF ShutdownRequest, Unseen, lifecycle, rpcs
  <1>5. CASE cl' = cl
    BY <1>3, <1>5 DEF ShutdownRequest, Unseen, lifecycle, rpcs
  <1> QED
    BY <1>4, <1>5 DEF ShutdownRequest, Keep

\* An operation that ends leaves the registered flag alone.
LEMMA FinishSame ==
  \A s \in CleanupState : \A o, r : Finish(s, o, r).registered = s.registered
BY DEF Finish, CleanupState

LEMMA UnseenSchedule ==
  ASSUME IInv, RemovalInv, DeregisterInv, NEW t \in DOMAIN thr, Schedule(t)
  PROVE  Unseen
  <1> DEFINE p == thr[t].pc
             o == cl.pending
  <1>1. /\ p \in SchedSites
        /\ UNCHANGED <<lifecycle, net, rpcSeq, applied, remote>>
        /\ cl \in CleanupState
    BY Numbers DEF Schedule
  <1>2. ASSUME NEW q, q = AfterSched(p) \/ q = AfterSpawnFailure(p)
        PROVE  ~Sent(thr[t]) /\ q \notin {"rpc", "commit"}
    BY <1>1, <1>2, SchedCalm DEF LoudSteps, Loud, Sent
  <1>3. CASE Goto(t, AfterSched(p)) /\ UNCHANGED cl
    <2> DEFINE q == AfterSched(p)
    <2>1. ~Sent(thr[t]) /\ q \notin {"rpc", "commit"}
      BY <1>2
    <2> HIDE DEF q, p
    <2>2. SameSent
      BY <1>3, <2>1, GotoSent DEF q
    <2> QED
      BY <1>1, <1>3, <2>2 DEF Unseen, lifecycle
  <1>4. CASE /\ cl' = [cl EXCEPT !.ops[o].thread = spawned + 1]
             /\ Spawn([thr EXCEPT ![t].pc = AfterSched(p)],
                      [Local("actor", "claim", cl.ops[o].gen) EXCEPT !.ref = o])
    <2> DEFINE q == AfterSched(p)
               u == [thr[t] EXCEPT !.pc = q]
               v == [Local("actor", "claim", cl.ops[o].gen) EXCEPT !.ref = o]
    <2>1. ~Sent(thr[t]) /\ q \notin {"rpc", "commit"}
      BY <1>2
    <2> HIDE DEF q, p
    <2>2. u.pc = q /\ v.pc = "claim"
      BY OwnLocal DEF Local, Idle, LocalType
    <2>3. Spawn([thr EXCEPT ![t] = u], v)
      BY <1>4 DEF q
    <2>4. cl'.registered = cl.registered
      BY <1>1, <1>4 DEF CleanupState
    <2> HIDE DEF u, v
    <2>5. SameSent
      BY <2>1, <2>2, <2>3, SpawnSent DEF Sent
    <2> QED
      BY <1>1, <2>4, <2>5 DEF Unseen, lifecycle
  <1>5. CASE /\ Schedulable
             /\ cl' = ReconcileAfter(Finish([cl EXCEPT !.pending = 0], o, "fail"),
                                     cl.ops[o].gen, generation)
             /\ IF Raises(p) THEN Exit(t) ELSE Goto(t, AfterSpawnFailure(p))
    <2> DEFINE q == AfterSpawnFailure(p)
               d == [cl EXCEPT !.pending = 0]
               f == Finish(d, o, "fail")
    <2>1. ~Sent(thr[t]) /\ q \notin {"rpc", "commit"}
      BY <1>2
    <2> HIDE DEF q
    <2>2. Exit(t) \/ Goto(t, q)
      BY <1>5 DEF q
    <2>3. SameSent
      BY <2>1, <2>2, ExitSent, GotoSent
    <2>4. d \in CleanupState /\ d.registered = cl.registered
      <3>1. 0 \in Ref
        BY DEF Ref
      <3> HIDE DEF Ref
      <3> QED
        BY <1>1, <3>1 DEF CleanupState
    <2>5. CleanupOK(f, generation, worker)
      BY <1>5, FailedFields DEF Schedulable
    <2> HIDE DEF d
    <2>6. f.registered = cl.registered
      BY <2>4, FinishSame
    <2> HIDE DEF f
    <2>7. cl' = ReconcileAfter(f, cl.ops[o].gen, generation)
      BY <1>5 DEF f, d
    <2>8. SettledOf(f, cl', generation, worker)
      BY <2>5, <2>7, Numbers, ReconcileAfterAsks
    <2> QED
      BY <1>1, <2>3, <2>6, <2>8 DEF SettledOf, Asks, Unseen, lifecycle
  <1> QED
    BY <1>3, <1>4, <1>5 DEF Schedule, Goto

-----------------------------------------------------------------------------
(* The Admin calls.                                                        *)

\* Before the first lifecycle nobody renews.
LEMMA NoRenewal ==
  ASSUME IInv, RemovalInv, DeregisterInv, SnapshotInv, generation = 0,
         NEW t \in DOMAIN thr, thr[t].pc \in AdminSteps
  PROVE  thr[t].rpc # "renewal"
  <1> SUFFICES ASSUME thr[t].rpc = "renewal"
               PROVE  FALSE
    OBVIOUS
  <1>1. thr[t].job = "worker" /\ thr[t].pc # "gate"
    BY DEF RemovalInv, Shapes, Shape, ActorShape, CallerShape, AdminSteps
  <1>2. t \in stopping \/ t = worker
    BY <1>1 DEF RemovalInv, WorkersOK, InLoop
  <1>3. stopping = {} /\ worker = 0
    BY DEF SnapshotInv, DeregisterInv, CleanupInv, AskedOK
  <1> QED
    BY <1>2, <1>3, ThreadNames

LEMMA SnapshotRpcBegin ==
  ASSUME IInv, SnapshotInv, NEW t \in DOMAIN thr, RpcBegin(t)
  PROVE  SnapshotInv'
  <1> DEFINE v == [thr[t] EXCEPT !.pc = "rpc", !.seq = rpcSeq + 1]
  <1>1. /\ thr[t].pc = "call" /\ net = 0 /\ net' = t /\ rpcSeq' = rpcSeq + 1
        /\ thr' = [thr EXCEPT ![t] = v]
        /\ UNCHANGED <<cl, applied, remote, generation, stopping>>
        /\ t # 0 /\ rpcSeq \in Nat
    BY Numbers, ThreadNames DEF RpcBegin, At, lifecycle
  <1>2. v.pc = "rpc"
    BY OwnLocal DEF LocalType
  <1> HIDE DEF v
  <1>3. OnlyMoves(t) /\ Stays(t) /\ thr'[t] = v
    BY <1>1, GoMoves
  <1>4. LastEnded' = LastEnded
    BY <1>1 DEF LastEnded
  <1>5. \A u \in DOMAIN thr' :
          thr'[u].pc = "commit" => u \in DOMAIN thr /\ thr'[u] = thr[u]
    BY <1>2, <1>3 DEF OnlyMoves
  <1>6. ASSUME NEW u \in DOMAIN thr, Reports(u)
        PROVE  u \in DOMAIN thr' /\ Reports(u)'
    BY <1>1, <1>3, <1>4, <1>6 DEF OnlyMoves, Reports
  <1> QED
    BY <1>1, <1>2, <1>3, <1>4, <1>5, <1>6 DEF SnapshotInv, Stays

\* No call fails.
LEMMA SnapshotRpcEnd ==
  ASSUME IInv, RemovalInv, DeregisterInv, SnapshotInv,
         Faults \cap {"call", "lost"} = {}, NEW t \in DOMAIN thr, RpcEnd(t)
  PROVE  SnapshotInv'
  <1> SUFFICES ASSUME generation = 0
               PROVE  SnapshotInv'
    BY DEF RpcEnd, SnapshotInv, lifecycle
  <1>1. PICK o \in Outcomes :
          /\ remote' = IF o.effect THEN thr[t].rpc \in {"register", "renewal"}
                       ELSE remote
          /\ thr' = [thr EXCEPT ![t].pc = "commit", ![t].ok = o.ok]
    BY DEF RpcEnd
  <1>2. o.ok = TRUE /\ o.effect = TRUE
    BY DEF Outcomes
  <1> DEFINE v == [thr[t] EXCEPT !.pc = "commit", !.ok = o.ok]
  <1>3. /\ thr[t].pc = "rpc" /\ net' = 0
        /\ thr' = [thr EXCEPT ![t] = v]
        /\ UNCHANGED <<cl, applied, rpcSeq, generation, stopping>>
        /\ rpcSeq \in Nat /\ applied \in Nat
    BY <1>1, Numbers DEF RpcEnd, At, lifecycle
  <1>4. net = t /\ net # 0 /\ thr[t].seq = rpcSeq
    BY <1>3, ThreadNames DEF DeregisterInv, CallsInv, SentOK
  <1>5. v.pc = "commit" /\ v.ok = TRUE /\ v.seq = rpcSeq /\ v.rpc = thr[t].rpc
    BY <1>2, <1>4, OwnLocal DEF LocalType
  <1> HIDE DEF v
  <1>6. OnlyMoves(t) /\ Stays(t) /\ thr'[t] = v
    BY <1>3, GoMoves
  <1>7. LastEnded' = rpcSeq /\ LastEnded = rpcSeq - 1
    BY <1>3, <1>4 DEF LastEnded
  <1>8. remote' <=> thr[t].rpc = "register"
    <2>1. thr[t].rpc # "renewal"
      BY <1>3, NoRenewal DEF AdminSteps
    <2> QED
      BY <1>1, <1>2, <2>1
  <1>9. \A u \in DOMAIN thr' : thr'[u].pc = "commit" =>
          thr'[u].ok /\ thr'[u].seq <= LastEnded'
    <2>1. \A u \in DOMAIN thr' : u # t /\ thr'[u].pc = "commit" =>
            thr'[u].ok /\ thr'[u].seq \in Nat /\ thr'[u].seq <= rpcSeq - 1
      BY <1>6, <1>7, OwnLocal DEF SnapshotInv, OnlyMoves
    <2> QED
      BY <1>3, <1>5, <1>6, <1>7, <2>1
  <1>10. t \in DOMAIN thr' /\ Reports(t)'
    BY <1>5, <1>6, <1>7, <1>8 DEF Reports, Stays
  <1>11. applied' < LastEnded'
    BY <1>3, <1>7 DEF SnapshotInv
  <1> QED
    BY <1>3, <1>9, <1>10, <1>11 DEF SnapshotInv

\* A completion that says what the call did, unless a newer one has.
LEMMA SnapshotCommit ==
  ASSUME IInv, DeregisterInv, SnapshotInv, generation = 0,
         NEW t \in DOMAIN thr, thr[t].pc = "commit", OnlyMoves(t),
         Stays(t) => ~Sent(thr'[t]),
         UNCHANGED <<stopping, net, rpcSeq, remote>>,
         applied' = IF Accepted(t) THEN thr[t].seq ELSE applied,
         Accepted(t) => (cl'.registered <=> thr[t].rpc = "register"),
         ~Accepted(t) => cl'.registered = cl.registered
  PROVE  SnapshotInv'
  <1>1. /\ LastEnded' = LastEnded /\ LastEnded \in Int
        /\ applied \in Nat /\ thr[t].seq \in Nat
        /\ thr[t].seq <= LastEnded
    BY Numbers, OwnLocal DEF LastEnded, SnapshotInv
  <1>2. /\ net' # 0 => net' \in DOMAIN thr' /\ thr'[net'].pc = "rpc"
        /\ \A u \in DOMAIN thr' : thr'[u].pc = "commit" =>
             thr'[u].ok /\ thr'[u].seq <= LastEnded'
    BY <1>1 DEF SnapshotInv, OnlyMoves, Stays, Sent
  <1>3. CASE applied = LastEnded /\ (cl.registered <=> remote)
    <2>1. ~Accepted(t)
      BY <1>1, <1>3 DEF Accepted
    <2> QED
      BY <1>1, <1>2, <1>3, <2>1 DEF SnapshotInv
  <1>4. ASSUME applied < LastEnded, NEW u \in DOMAIN thr, Reports(u)
        PROVE  SnapshotInv'
    <2>1. CASE u = t
      <3>1. Accepted(t) /\ applied' = LastEnded'
        BY <1>1, <1>4, <2>1 DEF Accepted, Reports
      <3>2. cl'.registered <=> remote'
        BY <1>4, <2>1, <3>1 DEF Reports
      <3> QED
        BY <1>2, <3>1, <3>2 DEF SnapshotInv
    <2>2. CASE u # t
      <3>1. u \in DOMAIN thr' /\ Reports(u)'
        BY <1>1, <1>4, <2>2 DEF Reports, OnlyMoves
      <3>2. thr[t].seq # thr[u].seq /\ thr[u].seq = LastEnded
        BY <1>4, <2>2 DEF Reports, DeregisterInv, CallsInv, SentOK, Sent
      <3>3. applied' < LastEnded'
        BY <1>1, <1>4, <3>2
      <3> QED
        BY <1>2, <3>1, <3>3 DEF SnapshotInv
    <2> QED
      BY <2>1, <2>2
  <1> QED
    BY <1>3, <1>4 DEF SnapshotInv

LEMMA SnapshotCommitRegister ==
  ASSUME IInv, DeregisterInv, SnapshotInv, NEW t \in DOMAIN thr,
         CommitRegister(t)
  PROVE  SnapshotInv'
  <1> SUFFICES ASSUME generation = 0
               PROVE  SnapshotInv'
    BY DEF CommitRegister, SnapshotInv, lifecycle
  <1>1. /\ thr[t].pc = "commit" /\ thr[t].rpc = "register"
        /\ UNCHANGED <<stopping, net, rpcSeq, remote>>
        /\ applied' = IF Accepted(t) THEN thr[t].seq ELSE applied
        /\ Exit(t) \/ \E p \in {"schedTail", "closeTail"} : Goto(t, p)
    BY DEF CommitRegister, At, lifecycle
  <1>2. OnlyMoves(t) /\ (Stays(t) => ~Sent(thr'[t]))
    BY <1>1, ExitMoves, GotoMoves DEF Sent
  <1>3. PICK a : LeftBy(t, a) /\ (LookedAt(a, cl') \/ OnlyCoords(a, cl'))
    BY RegisterLooks DEF DeregisterInv, CallsInv
  <1>4. cl'.registered = a.registered
    BY <1>3 DEF LookedAt, Asks, OnlyCoords
  <1>5. thr[t].ok
    BY <1>1 DEF SnapshotInv
  <1>6. /\ Accepted(t) => cl'.registered
        /\ ~Accepted(t) => cl'.registered = cl.registered
    BY <1>3, <1>4, <1>5 DEF LeftBy
  <1> QED
    BY <1>1, <1>2, <1>6, SnapshotCommit

\* The success of a removal clears the registered flag, if it counts.
LEMMA CompletedFlag ==
  ASSUME IInv, RemovalInv, NEW t \in DOMAIN thr, CompleteRemove(t),
         thr[t].ok = TRUE, NEW s, s = Completed(t)
  PROVE  /\ Accepted(t) => s.registered = FALSE
         /\ ~Accepted(t) => s.registered = cl.registered
  <1> DEFINE me  == thr[t]
             o   == me.ref
             s1  == IF Accepted(t) THEN Record(cl, "remove", TRUE) ELSE cl
             s2  == IF Accepted(t) THEN Close(s1, o) ELSE s1
             s3  == IF s2.active = o THEN [s2 EXCEPT !.active = 0] ELSE s2
  <1>1. cl \in CleanupState /\ o \in 1..Len(cl.ops)
    BY Numbers, OwnLocal DEF CompleteRemove, LocalOK
  <1>2. cl.active = o
    <2>1. Removing(t)
      BY DEF Removing, CompleteRemove, At
    <2> QED
      BY <2>1 DEF RemovalInv, RemovingOK
  <1>3. s = Finish(s3, o, "ok")
    BY <1>2 DEF Completed
  <1>4. /\ s1 \in CleanupState /\ s1.ops = cl.ops /\ s1.pending = cl.pending
        /\ Accepted(t) => s1.registered = FALSE
        /\ ~Accepted(t) => s1.registered = cl.registered
    BY <1>1, RecordSame DEF Record, CleanupState
  <1> HIDE DEF s1
  <1>5. s2 \in CleanupState /\ s2.registered = s1.registered
    <2>1. CASE Accepted(t)
      <3>1. s2 = Close(s1, o)
        BY <2>1
      <3> HIDE DEF s2
      <3>2. s2 \in CleanupState
        BY <1>1, <1>4, <3>1, CloseEnds
      <3>3. s2.registered = s1.registered
        BY <1>4, <3>1 DEF Close, Cancel, CleanupState
      <3> QED
        BY <3>2, <3>3
    <2>2. CASE ~Accepted(t)
      BY <1>4, <2>2
    <2> QED
      BY <2>1, <2>2
  <1> HIDE DEF s2
  <1>6. s3 \in CleanupState /\ s3.registered = s2.registered
    <2>1. 0 \in Ref
      BY DEF Ref
    <2> HIDE DEF Ref
    <2> QED
      BY <1>5, <2>1 DEF CleanupState
  <1> HIDE DEF s3
  <1> QED
    BY <1>3, <1>4, <1>5, <1>6, FinishSame

LEMMA SnapshotCompleteRemove ==
  ASSUME IInv, RemovalInv, DeregisterInv, SnapshotInv, NEW t \in DOMAIN thr,
         CompleteRemove(t)
  PROVE  SnapshotInv'
  <1> SUFFICES ASSUME generation = 0
               PROVE  SnapshotInv'
    BY DEF CompleteRemove, SnapshotInv, lifecycle
  <1> DEFINE s == Completed(t)
  <1>1. /\ thr[t].pc = "commit" /\ thr[t].rpc = "cleanup" /\ Goto(t, "sched")
        /\ UNCHANGED <<stopping, net, rpcSeq, remote>>
    BY DEF CompleteRemove, At, lifecycle
  <1>2. applied' = IF Accepted(t) THEN thr[t].seq ELSE applied
    <2>1. cl.active = thr[t].ref
      BY <1>1 DEF RemovalInv, RemovingOK, Removing
    <2> QED
      BY <2>1 DEF CompleteRemove
  <1>3. OnlyMoves(t) /\ (Stays(t) => ~Sent(thr'[t]))
    BY <1>1, GotoMoves DEF Sent
  <1>4. thr[t].ok = TRUE
    BY <1>1, OwnLocal DEF SnapshotInv
  <1>5. /\ Accepted(t) => s.registered = FALSE
        /\ ~Accepted(t) => s.registered = cl.registered
    BY <1>4, CompletedFlag
  <1>6. /\ CleanupOK(s, generation, worker)
        /\ cl' = ReconcileAfter(s, cl.ops[thr[t].ref].gen, generation)
    BY CompletedOK
  <1> HIDE DEF s
  <1>7. cl'.registered = s.registered
    <2>1. generation \in Nat /\ worker \in Nat
      BY Numbers
    <2>2. SettledOf(s, cl', generation, worker)
      BY <1>6, <2>1, ReconcileAfterAsks
    <2> QED
      BY <2>2 DEF SettledOf, Asks
  <1> QED
    BY <1>1, <1>2, <1>3, <1>5, <1>7, SnapshotCommit

-----------------------------------------------------------------------------
(* The invariant and the result.                                           *)

LEMMA SnapshotActivate ==
  ASSUME IInv, DeregisterInv, SnapshotInv, NEW t \in DOMAIN thr, Activate(t)
  PROVE  SnapshotInv'
  <1>1. ~Sent(thr[t])
    BY DEF Activate, At, Sent
  <1>2. CASE generation' = ctx[thr[t].ref].gen /\ generation' = generation + 1
    BY <1>2, Numbers DEF SnapshotInv
  <1>3. CASE /\ Exit(t) \/ Goto(t, "raised")
             /\ UNCHANGED <<lifecycle, cl>>
    <2>1. SameSent
      BY <1>1, <1>3, ExitSent, GotoSent
    <2>2. Unseen
      BY <1>3, <2>1 DEF Activate, Unseen, lifecycle
    <2> QED
      BY <2>2, SnapshotUnseen
  <1> QED
    BY <1>2, <1>3 DEF Activate

LEMMA InitSnapshot == Init => SnapshotInv
BY DEF Init, SnapshotInv, LastEnded, Idle

LEMMA NextSnapshot ==
  ASSUME Faults \cap {"call", "lost"} = {}
  PROVE  IInv /\ RemovalInv /\ DeregisterInv /\ SnapshotInv /\ [Next]_vars
           => SnapshotInv'
  <1> SUFFICES ASSUME IInv, RemovalInv, DeregisterInv, SnapshotInv, [Next]_vars
               PROVE  SnapshotInv'
    OBVIOUS
  <1>1. CASE UNCHANGED vars
    <2>1. Unseen
      BY <1>1 DEF vars, lifecycle, rpcs, Unseen, SameSent
    <2> QED
      BY <2>1, SnapshotUnseen
  <1>2. ASSUME NEW c \in Callers, Call(c)
        PROVE  SnapshotInv'
    BY <1>2, UnseenCall, SnapshotUnseen
  <1>3. ASSUME NEW t \in DOMAIN thr, Step(t)
        PROVE  SnapshotInv'
    <2>1. CASE CommitRemove(t) \/ CommitRenewal(t)
      <3>1. generation # 0
        BY <2>1, NoRenewal
           DEF CommitRemove, CommitRenewal, At, AdminSteps, DeregisterInv,
               CallsInv, OneShotOK
      <3> QED
        BY <2>1, <3>1
           DEF CommitRemove, CommitRenewal, lifecycle, SnapshotInv
    <2> QED
      BY <1>3, <2>1, SnapshotRpcBegin, SnapshotRpcEnd, SnapshotCommitRegister,
         SnapshotCompleteRemove, SnapshotActivate, SnapshotUnseen,
         UnseenTerminal, UnseenWorker, UnseenActor, UnseenTail,
         UnseenShutdownRequest, UnseenSchedule DEF Step
  <1>4. ASSUME NEW t \in DOMAIN thr, Tick(t)
        PROVE  SnapshotInv'
    BY <1>4, UnseenWorker, SnapshotUnseen
  <1> QED
    BY <1>1, <1>2, <1>3, <1>4 DEF Next, Rest

\* The snapshot is faithful: while no call of the Admin server fails, and as
\* long as no lifecycle was started, the registered flag says whether the
\* server lists the executor, once the calls under way are completed, in
\* whatever order the completions take the state lock.
THEOREM SnapshotSpeaksTruth ==
  ASSUME Faults \cap {"call", "lost"} = {}
  PROVE  Spec => []SnapshotIsFaithful
<1>1. IInv /\ SnapshotInv => SnapshotIsFaithful
  <2> SUFFICES ASSUME IInv, SnapshotInv, generation = 0,
                      \A t \in DOMAIN thr : thr[t].pc \notin {"rpc", "commit"}
               PROVE  cl.registered = remote
    BY DEF SnapshotIsFaithful
  <2>1. cl.registered <=> remote
    BY DEF SnapshotInv, Reports
  <2>2. cl.registered \in BOOLEAN /\ remote \in BOOLEAN
    BY Numbers, Fields DEF IInv, RestOK
  <2> QED
    BY <2>1, <2>2
<1>2. Init => IInv /\ RemovalInv /\ DeregisterInv /\ SnapshotInv
  BY InitInvariant, InitRemoval, InitDeregister, InitSnapshot
<1>3. IInv /\ RemovalInv /\ DeregisterInv /\ SnapshotInv /\ [Next]_vars
        => (IInv /\ RemovalInv /\ DeregisterInv /\ SnapshotInv)'
  BY NextInvariant, NextRemoval, NextDeregister, NextSnapshot
<1> QED
  BY <1>1, <1>2, <1>3, PTL DEF Spec

-----------------------------------------------------------------------------
(* What the registry promises: the invariant it stands on.                 *)

\* The thread that holds network_lock waits for an answer, and every call has
\* a kind.
Named(v) == v.pc \in AdminSteps => v.rpc # "none"

WireInv ==
  /\ net # 0 => net \in DOMAIN thr /\ thr[net].pc = "rpc"
  /\ \A t \in DOMAIN thr : Named(thr[t])

\* The spawned threads have the kinds that their shapes allow.
LEMMA NamesKept ==
  ASSUME WireInv, Shapes', NEW t, OnlyMoves(t),
         Stays(t) /\ t \in Callers => Named(thr'[t])
  PROVE  \A u \in DOMAIN thr' : Named(thr'[u])
  <1>1. ASSUME NEW u \in DOMAIN thr', u \notin Callers
        PROVE  Named(thr'[u])
    BY <1>1 DEF Shapes, Shape, WorkerShape, ActorShape, Named
  <1>2. ASSUME NEW u \in DOMAIN thr', u # t
        PROVE  Named(thr'[u])
    BY <1>2 DEF WireInv, OnlyMoves
  <1> QED
    BY <1>1, <1>2 DEF Stays

LEMMA SpawnNames ==
  ASSUME WireInv, Shapes', NEW t, NEW u, NEW a, NEW v, SpawnedBy(t, u, a, v),
         a \notin Callers, Named(u)
  PROVE  \A x \in DOMAIN thr' : Named(thr'[x])
  <1>1. ASSUME NEW x \in DOMAIN thr', x \notin Callers
        PROVE  Named(thr'[x])
    BY <1>1 DEF Shapes, Shape, WorkerShape, ActorShape, Named
  <1>2. ASSUME NEW x \in DOMAIN thr', x \in Callers
        PROVE  Named(thr'[x])
    BY <1>2 DEF WireInv, SpawnedBy
  <1> QED
    BY <1>1, <1>2

\* The holder of network_lock stays where it is.
LEMMA HolderKept ==
  ASSUME WireInv, SameSent, net' = net
  PROVE  net' # 0 => net' \in DOMAIN thr' /\ thr'[net'].pc = "rpc"
BY DEF WireInv, SameSent, Sent

-----------------------------------------------------------------------------
(* What the contract sees of a state.                                      *)

\* No cleanup is seen while no removal is active.
LEMMA NothingActive ==
  IInv /\ RemovalInv /\ cl.active = 0 => ActiveCleanup = Contract!NoCleanup
BY NoRemover DEF ActiveCleanup, Answered, Contract!NoCleanup, NoGen

LEMMA SomethingActive ==
  ASSUME IInv, cl.active # 0
  PROVE  /\ ActiveCleanup.gen = cl.ops[cl.active].gen
         /\ ActiveCleanup # Contract!NoCleanup
  <1>1. cl.active \in 1..Len(cl.ops) /\ cl.ops \in Seq(OperationType)
    BY Numbers, Fields DEF IInv, CleanupOK
  <1>2. cl.ops[cl.active].gen \in Nat
    <2>1. cl.ops[cl.active] \in OperationType
      BY <1>1, ElementOfSeq
    <2> QED
      BY <2>1 DEF OperationType
  <1> QED
    BY <1>2 DEF ActiveCleanup, Contract!NoCleanup

\* The answer of the thread that performs the active removal.
LEMMA AnswerOf ==
  ASSUME IInv, RemovalInv, NEW t \in DOMAIN thr, Removing(t)
  PROVE  /\ cl.active # 0 /\ cl.active = thr[t].ref
         /\ ActiveCleanup = [gen    |-> cl.ops[cl.active].gen,
                             answer |-> IF thr[t].pc # "commit" THEN "none"
                                        ELSE IF thr[t].ok THEN "ok" ELSE "fail"]
  <1>1. cl.active # 0 /\ cl.active = thr[t].ref
    BY OwnLocal DEF RemovalInv, RemovingOK, Removing, LocalOK
  <1>2. \A u \in DOMAIN thr : Removing(u) => u = t
    BY DEF RemovalInv, RemovingOK
  <1>3. thr[t].ok \in BOOLEAN
    BY OwnLocal
  <1>4. \A b \in BOOLEAN : Answered(b) <=> thr[t].pc = "commit" /\ thr[t].ok = b
    BY <1>2 DEF Answered
  <1>5. /\ Answered(TRUE) <=> thr[t].pc = "commit" /\ thr[t].ok = TRUE
        /\ Answered(FALSE) <=> thr[t].pc = "commit" /\ thr[t].ok = FALSE
    BY <1>4
  <1> QED
    BY <1>1, <1>3, <1>5 DEF ActiveCleanup

LEMMA HolderIs ==
  ASSUME WireInv, CallsInv
  PROVE  /\ net = 0 => AdminCallNow = "none"
         /\ \A t \in DOMAIN thr : thr[t].pc = "rpc" =>
              net = t /\ (t # 0 => AdminCallNow = thr[t].rpc)
BY OneCall DEF AdminCallNow

\* A committed worker that is not off has a thread.
LEMMA PhaseMove ==
  ASSUME RemovalInv, NEW t, OnlyMoves(t), worker' = worker,
         t = worker /\ worker # 0 =>
           (thr'[t].pc \in {"gate", "awaitOlder"}
              <=> thr[t].pc \in {"gate", "awaitOlder"})
  PROVE  Phase' = Phase
  <1>1. worker # 0 => worker \in DOMAIN thr
    BY DEF RemovalInv, WorkersOK
  <1> QED
    BY <1>1 DEF Phase, OnlyMoves

\* The calls under way are the same.
LEMMA SentSame ==
  ASSUME SameSent
  PROVE  \A ok : Answered(ok)' = Answered(ok)
BY DEF SameSent, Sent, Answered, Removing

LEMMA SentView ==
  ASSUME WireInv, Unseen
  PROVE  /\ AdminCallNow' = AdminCallNow /\ remote' = remote
         /\ generation' = generation
         /\ \A ok : Answered(ok)' = Answered(ok)
BY SentSame DEF WireInv, Unseen, SameSent, Sent, AdminCallNow

\* No removal begins or ends.
SameActive == /\ cl'.active = cl.active
              /\ cl.active # 0 => cl'.ops[cl.active].gen = cl.ops[cl.active].gen

LEMMA CleanupView ==
  ASSUME SameActive, \A ok : Answered(ok)' = Answered(ok)
  PROVE  ActiveCleanup' = ActiveCleanup
BY DEF SameActive, ActiveCleanup

\* Nothing of it is seen.
LEMMA Hidden ==
  ASSUME WireInv, Unseen, SameActive, Phase' = Phase,
         cl'.removed = cl.removed, logsClosed' = logsClosed
  PROVE  UNCHANGED Contract!vars
BY SentView, CleanupView DEF Contract!vars

-----------------------------------------------------------------------------
(* The steps that the contract does not see.                               *)

\* The others go on, the thread t moves within its loop or outside of it.
LEMMA HiddenMove ==
  ASSUME RemovalInv, WireInv, NEW t, OnlyMoves(t), Unseen, SameActive,
         worker' = worker,
         t = worker /\ worker # 0 =>
           (thr'[t].pc \in {"gate", "awaitOlder"}
              <=> thr[t].pc \in {"gate", "awaitOlder"}),
         cl'.removed = cl.removed, logsClosed' = logsClosed
  PROVE  UNCHANGED Contract!vars
BY PhaseMove, Hidden

\* A terminal removal looks or waits.
LEMMA HiddenTerminal ==
  ASSUME IInv, RemovalInv, WireInv, NEW t \in DOMAIN thr,
         \/ TerminalOneShot(t) \/ TerminalRegisters(t) \/ TerminalCached(t)
         \/ TerminalActive(t) \/ TerminalPending(t)
         \/ AwaitRegisters(t) \/ AwaitRemove(t)
  PROVE  UNCHANGED Contract!vars
  <1>1. Unseen /\ Unmoved /\ UNCHANGED cl
    BY UnseenTerminal
       DEF TerminalOneShot, TerminalRegisters, TerminalCached, TerminalActive,
           TerminalPending, AwaitRegisters, AwaitRemove
  <1>2. thr[t].pc \in TerminalSteps
    BY DEF TerminalOneShot, TerminalRegisters, TerminalCached, TerminalActive,
           TerminalPending, Unsettled, AwaitRegisters, AwaitRemove, At,
           TerminalSteps
  <1>3. t # worker
    BY <1>2, TerminalCaller, ThreadNames
  <1>4. OnlyMoves(t)
    BY ExitMoves, GotoMoves, GoMoves
       DEF TerminalOneShot, TerminalRegisters, TerminalCached, TerminalActive,
           TerminalPending, AwaitRegisters, AwaitRemove, OnlyMoves
  <1> QED
    BY <1>1, <1>3, <1>4, HiddenMove DEF Unmoved, lifecycle, logs, SameActive

\* A worker goes on in its loop.
LEMMA HiddenWorker ==
  ASSUME IInv, RemovalInv, WireInv, NEW t \in DOMAIN thr,
         WorkerQuit(t) \/ Tick(t)
  PROVE  UNCHANGED Contract!vars
  <1>1. Unseen /\ UNCHANGED <<worker, cl, logsClosed>>
    BY UnseenWorker DEF WorkerQuit, Tick, Unmoved, lifecycle, logs
  <1>2. /\ thr[t].pc \in {"call", "sleep"}
        /\ \E p \in {"call", "finish"} : Goto(t, p)
    BY DEF WorkerQuit, Tick, At
  <1>3. OnlyMoves(t) /\ thr'[t].pc \in {"call", "finish"}
    BY <1>2, GotoMoves
  <1> QED
    BY <1>1, <1>2, <1>3, HiddenMove DEF SameActive

LEMMA HiddenDiscard ==
  ASSUME IInv, RemovalInv, WireInv, NEW t \in DOMAIN thr, Discard(t)
  PROVE  UNCHANGED Contract!vars
  <1> DEFINE o == thr[t].ref
             a == IF cl.ops[o].thread = t THEN 0 ELSE cl.ops[o].thread
  <1>1. Unseen /\ UNCHANGED <<worker, logsClosed>>
    BY UnseenActor DEF Discard, lifecycle, logs
  <1>2. /\ thr[t].pc = "discard" /\ Goto(t, "schedTail")
        /\ cl' = [cl EXCEPT !.ops[o].thread = a]
    BY DEF Discard, At
  <1>3. o \in 1..Len(cl.ops)
    BY <1>2, OwnLocal DEF RemovalInv, Shapes, Shape, WorkerShape, CallerShape,
                          LoopSteps, AdminSteps, TailSteps, LocalOK
  <1>4. a \in Nat
    <2>1. cl.ops \in Seq(OperationType)
      BY Numbers, Fields
    <2>2. cl.ops[o] \in OperationType
      BY <1>3, <2>1, ElementOfSeq
    <2> QED
      BY <2>2 DEF OperationType
  <1> HIDE DEF o, a
  <1>5. SameActive /\ cl'.removed = cl.removed
    <2>1. cl \in CleanupState /\ cl.active \in 0..Len(cl.ops)
      BY Numbers DEF IInv, CleanupOK
    <2> QED
      BY <1>2, <1>3, <1>4, <2>1, NotedFields DEF SameActive
  <1>6. OnlyMoves(t) /\ thr'[t].pc = "schedTail"
    BY <1>2, GotoMoves
  <1> QED
    BY <1>1, <1>2, <1>5, <1>6, HiddenMove

\* The candidate is not the committed worker.
LEMMA HiddenCancel ==
  ASSUME IInv, RemovalInv, WireInv, NEW t \in DOMAIN thr, CancelPrepared(t)
  PROVE  UNCHANGED Contract!vars
  <1>1. Unseen /\ UNCHANGED <<worker, cl, logsClosed>> /\ OnlyMoves(t)
    BY UnseenTail, ExitMoves DEF CancelPrepared, lifecycle, logs
  <1>2. t = worker => worker = 0
    BY DEF RemovalInv, WorkersOK, CancelPrepared, At, InLoop, LoopSteps,
           AdminSteps
  <1> QED
    BY <1>1, <1>2, HiddenMove DEF SameActive

\* A pending removal is added to the others.
LEMMA AskedView ==
  ASSUME IInv, NEW g, Asks(cl, cl', g)
  PROVE  SameActive /\ cl'.removed = cl.removed
BY Numbers DEF Asks, SameActive, IInv, CleanupOK

LEMMA HiddenShutdownRequest ==
  ASSUME IInv, RemovalInv, WireInv, NEW t \in DOMAIN thr, ShutdownRequest(t)
  PROVE  UNCHANGED Contract!vars
  <1>1. Unseen /\ UNCHANGED <<worker, logsClosed>>
    BY UnseenShutdownRequest DEF ShutdownRequest, lifecycle, logs
  <1>2. PICK p \in {"schedShutdown", "closeTail"} : Goto(t, p)
    BY DEF ShutdownRequest
  <1>3. thr[t].pc = "request" /\ OnlyMoves(t) /\ thr'[t].pc = p
    BY <1>2, GotoMoves DEF ShutdownRequest, At
  <1>4. SameActive /\ cl'.removed = cl.removed
    <2>1. CASE generation = thr[t].gen /\ cl' = RequestRemove(cl, generation).cl
      <3>1. CleanupOK(cl, generation, 0)
        BY <1>3, <2>1, OwnLocal DEF IInv, CleanupOK, LocalOK
      <3>2. RequestedOf(cl, cl', generation)
        BY <2>1, <3>1, Numbers, RequestRemoveAsks
      <3> QED
        BY <3>2, AskedView DEF RequestedOf
    <2>2. CASE cl' = cl
      BY <2>2 DEF SameActive
    <2> QED
      BY <2>1, <2>2 DEF ShutdownRequest, Keep
  <1> QED
    BY <1>1, <1>3, <1>4, HiddenMove

\* A thread is spawned that is no committed worker.
LEMMA PhaseSpawn ==
  ASSUME RemovalInv, NEW t, NEW u, NEW a, NEW v, SpawnedBy(t, u, a, v),
         worker' = worker, t = worker => worker = 0, a # worker
  PROVE  Phase' = Phase
  <1>1. worker # 0 => worker \in DOMAIN thr
    BY DEF RemovalInv, WorkersOK
  <1> QED
    BY <1>1 DEF Phase, SpawnedBy

LEMMA HiddenSchedule ==
  ASSUME IInv, RemovalInv, DeregisterInv, WireInv, NEW t \in DOMAIN thr,
         Schedule(t)
  PROVE  UNCHANGED Contract!vars
  <1> DEFINE p == thr[t].pc
             o == cl.pending
  <1>1. /\ Unseen /\ UNCHANGED <<worker, logsClosed>> /\ p \in SchedSites
        /\ cl \in CleanupState
    BY UnseenSchedule, Numbers DEF Schedule, lifecycle, logs
  <1>2. t # worker
    BY <1>1, SchedThread
  <1>3. CASE Goto(t, AfterSched(p)) /\ UNCHANGED cl
    <2>1. OnlyMoves(t)
      BY <1>3, GotoMoves
    <2> QED
      BY <1>1, <1>2, <1>3, <2>1, HiddenMove DEF SameActive
  <1>4. CASE /\ Schedulable
             /\ cl' = [cl EXCEPT !.ops[o].thread = spawned + 1]
             /\ Spawn([thr EXCEPT ![t].pc = AfterSched(p)],
                      [Local("actor", "claim", cl.ops[o].gen) EXCEPT !.ref = o])
    <2> DEFINE u == [thr[t] EXCEPT !.pc = AfterSched(p)]
               v == [Local("actor", "claim", cl.ops[o].gen) EXCEPT !.ref = o]
    <2>1. Spawn([thr EXCEPT ![t] = u], v)
      BY <1>4
    <2> HIDE DEF u, v
    <2>2. SpawnedBy(t, u, spawned + 1, v)
      BY <2>1, SpawnMoves
    <2>3. Phase' = Phase
      BY <1>1, <1>2, <2>2, PhaseSpawn, ThreadNames
    <2>4. /\ o \in 1..Len(cl.ops) /\ spawned + 1 \in Nat
          /\ cl.active \in 0..Len(cl.ops)
      BY <1>4, Numbers DEF Schedulable, IInv, CleanupOK
    <2> HIDE DEF o
    <2>5. SameActive /\ cl'.removed = cl.removed
      BY <1>1, <1>4, <2>4, NotedFields DEF SameActive
    <2> QED
      BY <1>1, <2>3, <2>5, Hidden
  <1>5. CASE /\ Schedulable
             /\ cl' = ReconcileAfter(Finish([cl EXCEPT !.pending = 0], o, "fail"),
                                     cl.ops[o].gen, generation)
             /\ IF Raises(p) THEN Exit(t) ELSE Goto(t, AfterSpawnFailure(p))
    <2> DEFINE d == [cl EXCEPT !.pending = 0]
               f == Finish(d, o, "fail")
    <2>1. OnlyMoves(t)
      BY <1>5, ExitMoves, GotoMoves
    <2>2. CleanupOK(f, generation, worker) /\ o \in 1..Len(cl.ops)
      <3>1. o # 0
        BY <1>5 DEF Schedulable
      <3>2. CleanupOK(f, generation, worker)
        BY <3>1, FailedFields
      <3> QED
        BY <3>1, <3>2, Numbers DEF IInv, CleanupOK
    <2>3. /\ d \in CleanupState /\ d.ops = cl.ops /\ d.active = cl.active
          /\ d.removed = cl.removed
      <3>1. 0 \in Ref
        BY DEF Ref
      <3> HIDE DEF Ref
      <3> QED
        BY <1>1, <3>1 DEF CleanupState
    <2> HIDE DEF d
    <2>4. /\ f.active = cl.active /\ f.removed = cl.removed
          /\ \A j \in 1..Len(cl.ops) : f.ops[j].gen = cl.ops[j].gen
          /\ Len(f.ops) = Len(cl.ops)
      BY <2>2, <2>3, FinishFields DEF SameThreads
    <2> HIDE DEF f
    <2>5. cl' = ReconcileAfter(f, cl.ops[o].gen, generation)
      BY <1>5 DEF f, d
    <2>6. SettledOf(f, cl', generation, worker)
      BY <2>2, <2>5, Numbers, ReconcileAfterAsks
    <2>7. SameActive /\ cl'.removed = cl.removed
      <3>1. cl.active \in 0..Len(cl.ops) /\ Len(cl.ops) \in Nat
        BY Numbers DEF IInv, CleanupOK
      <3>2. /\ cl'.active = f.active /\ cl'.removed = f.removed
            /\ \A j \in 1..Len(f.ops) : cl'.ops[j].gen = f.ops[j].gen
        BY <2>6 DEF SettledOf, Asks
      <3> QED
        BY <2>4, <3>1, <3>2 DEF SameActive
    <2> QED
      BY <1>1, <1>2, <2>1, <2>7, HiddenMove
  <1> QED
    BY <1>3, <1>4, <1>5 DEF Schedule, Goto

\* Operations that do not stop the lifecycle.
LEMMA HiddenCall ==
  ASSUME IInv, RemovalInv, WireInv, NEW c \in Callers,
         CallRegister(c) \/ CallRemove(c) \/ \E k \in Kinds : CallStart(c, k)
  PROVE  UNCHANGED Contract!vars
  <1>1. Unseen /\ UNCHANGED <<worker, logsClosed>>
    BY UnseenCall DEF Call, CallRegister, CallRemove, CallStart, lifecycle, logs
  <1>2. c \in DOMAIN thr /\ c # worker
    BY ThreadNames DEF IInv, ThreadsOK
  <1>3. CASE CallRegister(c)
    <2>1. /\ OnlyMoves(c) /\ cl'.ops = cl.ops /\ cl'.removed = cl.removed
          /\ \E u : JoinedBy(cl, cl', u.coord, generation)
      BY <1>2, <1>3, CallRegisterJoins, GoMoves
    <2>2. cl'.active = cl.active
      <3>1. cl \in CleanupState
        BY Numbers
      <3> QED
        BY <1>3, <3>1 DEF CallRegister, CleanupState
    <2> QED
      BY <1>1, <1>2, <2>1, <2>2, HiddenMove DEF SameActive
  <1>4. CASE CallRemove(c)
    <2>1. OnlyMoves(c) /\ UNCHANGED cl
      BY <1>2, <1>4, GoMoves DEF CallRemove, Go, OnlyMoves
    <2> QED
      BY <1>1, <1>2, <2>1, HiddenMove DEF SameActive
  <1>5. ASSUME NEW k \in Kinds, CallStart(c, k)
        PROVE  UNCHANGED Contract!vars
    <2> DEFINE u == [Idle EXCEPT !.pc = "prepared", !.job = k,
                                 !.ref = spawned + 1]
               v == Local("worker", "gate", generation + 1)
    <2>1. SameActive /\ cl'.removed = cl.removed
      BY <1>5 DEF CallStart, SameActive
    <2>2. UNCHANGED thr \/ Spawn([thr EXCEPT ![c] = u], v)
      BY <1>5 DEF CallStart
    <2> HIDE DEF u, v
    <2>3. CASE UNCHANGED thr
      BY <1>1, <1>2, <2>1, <2>3, HiddenMove DEF OnlyMoves
    <2>4. CASE Spawn([thr EXCEPT ![c] = u], v)
      <3>1. SpawnedBy(c, u, spawned + 1, v)
        BY <1>2, <2>4, SpawnMoves
      <3>2. Phase' = Phase
        BY <1>1, <1>2, <3>1, PhaseSpawn, ThreadNames
      <3> QED
        BY <1>1, <2>1, <3>2, Hidden
    <2> QED
      BY <2>2, <2>3, <2>4
  <1> QED
    BY <1>3, <1>4, <1>5

-----------------------------------------------------------------------------
(* Lifecycles.                                                             *)

Seen == [Contract!Next]_(Contract!vars)

\* The committed lifecycle ends, or there was none.
LEMMA StopSeen ==
  ASSUME WireInv, Unseen, SameActive, worker' = 0,
         cl'.removed = cl.removed, logsClosed' = logsClosed
  PROVE  Seen
  <1>1. /\ Phase' = "off"
        /\ UNCHANGED <<generation, ActiveCleanup, cl.removed, AdminCallNow,
                       remote, logsClosed>>
    BY SentView, CleanupView DEF Phase
  <1>2. CASE Phase = "off"
    BY <1>1, <1>2 DEF Seen, Contract!vars
  <1>3. CASE Phase # "off"
    BY <1>1, <1>3 DEF Seen, Contract!Next, Contract!Stop
  <1> QED
    BY <1>2, <1>3

LEMMA SeenCallStop ==
  ASSUME IInv, RemovalInv, WireInv, NEW c \in Callers, NEW k \in Kinds,
         CallStop(c, k) \/ CallShutdown(c, k)
  PROVE  Seen
  <1>1. Unseen /\ worker' = 0 /\ logsClosed' = logsClosed
    BY UnseenCall DEF Call, CallStop, CallShutdown, StopLocal, logs
  <1>2. CASE CallStop(c, k)
    <2>1. CleanupOK(cl, generation, 0)
      BY DEF IInv, CleanupOK
    <2>2. SameActive /\ cl'.removed = cl.removed
      <3>1. CASE cl' = RequestRemove(cl, generation).cl
        <4>1. RequestedOf(cl, cl', generation)
          BY <2>1, <3>1, Numbers, RequestRemoveAsks
        <4> QED
          BY <4>1, AskedView DEF RequestedOf
      <3>2. CASE cl' = cl
        BY <3>2 DEF SameActive
      <3> QED
        BY <1>2, <3>1, <3>2 DEF CallStop, Keep
    <2> QED
      BY <1>1, <2>2, StopSeen
  <1>3. CASE CallShutdown(c, k)
    <2>1. cl'.ops = cl.ops /\ cl'.removed = cl.removed
      BY <1>3, ShutdownCloses
    <2>2. cl'.active = cl.active
      <3>1. cl \in CleanupState
        BY Numbers
      <3> QED
        BY <1>3, <3>1 DEF CallShutdown, CleanupState
    <2> QED
      BY <1>1, <2>1, <2>2, StopSeen DEF SameActive
  <1> QED
    BY <1>2, <1>3

LEMMA SeenActivate ==
  ASSUME IInv, RemovalInv, DeregisterInv, WireInv, NEW t \in DOMAIN thr,
         Activate(t)
  PROVE  Seen
  <1> DEFINE p == thr[t].ref
  <1>1. ~Sent(thr[t]) /\ thr[t].pc = "prepared"
    BY DEF Activate, At, Sent
  <1>2. t # worker /\ t # prepared
    BY <1>1, ThreadNames
       DEF RemovalInv, WorkersOK, InLoop, LoopSteps, AdminSteps
  <1>3. p \in DOMAIN ctx /\ p # 0
    <2>1. p \in DOMAIN ctx
      BY <1>1, OwnLocal DEF LocalOK
    <2>2. DOMAIN ctx \subseteq 1..spawned /\ spawned \in Nat
      BY DEF IInv, LifeOK
    <2> QED
      BY <2>1, <2>2
  <1>4. CASE prepared # p
    <2>1. Exit(t) /\ UNCHANGED <<lifecycle, cl>>
      BY <1>4 DEF Activate
    <2>2. SameSent /\ OnlyMoves(t)
      BY <1>1, <2>1, ExitSent, ExitMoves
    <2>3. Unseen
      BY <2>1, <2>2 DEF Activate, Unseen, lifecycle
    <2>4. UNCHANGED Contract!vars
      BY <1>2, <2>1, <2>2, <2>3, HiddenMove
         DEF Activate, lifecycle, logs, SameActive
    <2> QED
      BY <2>4 DEF Seen
  <1>5. CASE prepared = p
    <2>1. worker = 0 /\ ctx[p].gen = generation + 1 /\ ctx[p].owner
      BY <1>3, <1>5 DEF IInv, LifeOK
    <2>2. /\ generation' = generation + 1 /\ worker' = p
          /\ cl' = Cancel(Detach(cl), cl.pending)
          /\ Exit(t) /\ UNCHANGED <<net, remote, logsClosed>>
      BY <1>5, <2>1 DEF Activate, logs
    <2>3. SameSent /\ OnlyMoves(t)
      BY <1>1, <2>2, ExitSent, ExitMoves
    <2>4. Phase = "off" /\ Phase' = "starting"
      <3>1. p \in DOMAIN thr /\ thr[p].pc = "gate"
        BY <1>3, <1>5 DEF RemovalInv, WorkersOK
      <3>2. thr'[p].pc = "gate"
        BY <1>2, <1>5, <2>3, <3>1 DEF OnlyMoves
      <3> QED
        BY <1>3, <2>1, <2>2, <3>2 DEF Phase
    <2>5. SameActive /\ cl'.removed = cl.removed
      <3> DEFINE s == Detach(cl)
      <3>1. /\ s \in CleanupState /\ s.ops = cl.ops
            /\ s.active = cl.active /\ s.removed = cl.removed
        BY DetachCounts
      <3>2. cl.pending \in 0..Len(cl.ops) /\ cl.active \in 0..Len(cl.ops)
        BY DEF IInv, CleanupOK
      <3>3. Len(cl.ops) \in Nat
        BY Numbers
      <3> HIDE DEF s
      <3>4. cl' = Cancel(s, cl.pending)
        BY <2>2 DEF s
      <3> QED
        BY <3>1, <3>2, <3>3, <3>4, CancelFields DEF SameActive
    <2>6. AdminCallNow' = AdminCallNow
      BY <2>2, <2>3 DEF WireInv, SameSent, Sent, AdminCallNow
    <2>7. ActiveCleanup' = ActiveCleanup
      BY <2>3, <2>5, SentSame, CleanupView
    <2>8. Contract!Start
      BY <2>2, <2>4, <2>5, <2>6, <2>7 DEF Contract!Start
    <2> QED
      BY <2>8 DEF Seen, Contract!Next
  <1> QED
    BY <1>4, <1>5

\* The first renewal is due: nothing else is to be seen.
LEMMA OpenSeen ==
  ASSUME IInv, RemovalInv, WireInv, Unseen, UNCHANGED <<worker, cl, logsClosed>>,
         cl.active = 0, Phase = "starting", Phase' = "renewing"
  PROVE  Seen
  <1>1. UNCHANGED <<ActiveCleanup, AdminCallNow, remote, generation>>
    BY SentView, CleanupView DEF SameActive
  <1>2. Contract!Open
    BY <1>1, NothingActive DEF Contract!Open
  <1> QED
    BY <1>2 DEF Seen, Contract!Next

\* A worker that waits for nothing begins to renew; the active removal is the
\* one it waits for.
LEMMA SeenBegins ==
  ASSUME IInv, RemovalInv, WireInv, NEW t \in DOMAIN thr,
         Gate(t) \/ AwaitOlder(t)
  PROVE  Seen
  <1>1. Unseen /\ UNCHANGED <<worker, cl, logsClosed>>
    BY UnseenWorker DEF Gate, AwaitOlder, Unmoved, lifecycle, logs
  <1>2. t # 0 /\ thr[t].pc \in {"gate", "awaitOlder"}
    BY ThreadNames DEF Gate, AwaitOlder, At
  <1>3. OnlyMoves(t)
    BY ExitMoves, GotoMoves DEF Gate, AwaitOlder, OnlyMoves
  <1>4. CASE t # worker
    BY <1>1, <1>3, <1>4, HiddenMove DEF SameActive, Seen
  <1>5. CASE t = worker
    <2>1. IsCurrent(t) /\ Committed(t)
      BY <1>2, <1>5 DEF IInv, LifeOK, IsCurrent, Committed
    <2>2. PICK q \in {"call", "awaitOlder"} :
            /\ Stays(t) /\ thr'[t].pc = q
            /\ q = "call" => cl.active = 0
      <3>1. CASE AwaitOlder(t)
        <4>1. cl.active = 0
          BY <1>2, <1>5, <3>1
             DEF AwaitOlder, RemovalInv, WaitOK, ActiveOK
        <4>2. Goto(t, "call")
          BY <3>1 DEF AwaitOlder
        <4>3. Stays(t) /\ thr'[t].pc = "call"
          BY <4>2, GotoMoves
        <4> QED
          BY <4>1, <4>3
      <3>2. CASE Gate(t)
        <4> DEFINE q == IF ctx[t].wait = 0 THEN "call" ELSE "awaitOlder"
                   u == [thr[t] EXCEPT !.rpc = "renewal", !.pc = q]
        <4>1. thr' = [thr EXCEPT ![t] = u]
          BY <2>1, <3>2 DEF Gate
        <4>2. u.pc = q
          BY OwnLocal DEF LocalType
        <4> HIDE DEF u
        <4>3. Stays(t) /\ thr'[t].pc = q
          BY <4>1, <4>2, GoMoves
        <4>4. q = "call" => cl.active = 0
          BY <1>2, <1>5 DEF RemovalInv, WaitOK
        <4> QED
          BY <4>3, <4>4
      <3> QED
        BY <3>1, <3>2
    <2>3. CASE q = "awaitOlder"
      BY <1>1, <1>2, <1>3, <2>2, <2>3, HiddenMove DEF SameActive, Seen
    <2>4. CASE q = "call"
      <3>1. Phase = "starting" /\ Phase' = "renewing"
        BY <1>1, <1>2, <1>5, <2>2, <2>4 DEF Phase
      <3> QED
        BY <1>1, <2>2, <2>4, <3>1, OpenSeen
    <2> QED
      BY <2>3, <2>4
  <1> QED
    BY <1>4, <1>5

-----------------------------------------------------------------------------
(* Cleanups.                                                               *)

\* A cleanup that was not sent has no answer.
LEMMA Unanswered ==
  IInv /\ RemovalInv /\ (\E u \in DOMAIN thr : Removing(u) /\ thr[u].pc = "call")
    => ActiveCleanup = [gen |-> cl.ops[cl.active].gen, answer |-> "none"]
  <1> SUFFICES ASSUME IInv, RemovalInv, NEW u \in DOMAIN thr,
                      Removing(u), thr[u].pc = "call"
               PROVE  ActiveCleanup = [gen |-> cl.ops[cl.active].gen,
                                       answer |-> "none"]
    OBVIOUS
  <1> QED
    BY AnswerOf

\* The thread t takes over a removal of the generation, which becomes active.
LEMMA ClaimSeen ==
  ASSUME IInv, RemovalInv, WireInv, IInv', RemovalInv', Unseen,
         NEW t \in DOMAIN thr', Removing(t)', thr'[t].pc = "call",
         cl.active = 0, cl'.ops[cl'.active].gen = generation,
         cl.removed # generation, cl'.removed = cl.removed,
         worker = 0, worker' = 0, logsClosed' = logsClosed
  PROVE  Seen
  <1>1. ActiveCleanup = Contract!NoCleanup
    BY NothingActive
  <1>2. ActiveCleanup' = [gen |-> generation, answer |-> "none"]
    <2>1. (IInv /\ RemovalInv
             /\ (\E u \in DOMAIN thr : Removing(u) /\ thr[u].pc = "call")
           => ActiveCleanup = [gen |-> cl.ops[cl.active].gen,
                               answer |-> "none"])'
      BY Unanswered, PTL
    <2> QED
      BY <2>1
  <1>3. Phase = "off" /\ Phase' = "off"
    BY DEF Phase
  <1>4. Contract!Claim
    BY <1>1, <1>2, <1>3, SentView DEF Contract!Claim
  <1> QED
    BY <1>4 DEF Seen, Contract!Next

LEMMA SeenTerminalOwn ==
  ASSUME IInv, RemovalInv, WireInv, IInv', RemovalInv', NEW t \in DOMAIN thr,
         TerminalOwn(t)
  PROVE  Seen
  <1> DEFINE g == thr[t].gen
             o == Len(cl.ops) + 1
             u == [thr[t] EXCEPT !.pc = "call", !.rpc = "cleanup", !.ref = o]
  <1>1. /\ Unseen /\ UNCHANGED <<worker, logsClosed>>
        /\ cl.active = 0 /\ worker = 0 /\ generation = g /\ cl.removed # g
        /\ cl' = [cl EXCEPT !.ops = Append(@, Operation(g)), !.active = o]
        /\ thr' = [thr EXCEPT ![t] = u]
    BY UnseenTerminal
       DEF TerminalOwn, Unsettled, InScope, Unmoved, lifecycle, logs
  <1>2. u.pc = "call" /\ u.rpc = "cleanup"
    BY OwnLocal DEF LocalType
  <1> HIDE DEF u
  <1>3. t \in DOMAIN thr' /\ thr'[t].pc = "call" /\ Removing(t)'
    BY <1>1, <1>2 DEF Removing
  <1>4. cl'.removed = cl.removed /\ cl'.ops[cl'.active].gen = generation
    <2>1. cl \in CleanupState /\ cl.ops \in Seq(OperationType) /\ g \in Nat
      BY Numbers, Fields, OwnLocal
    <2>2. /\ cl'.removed = cl.removed /\ cl'.active = o
          /\ cl'.ops = Append(cl.ops, Operation(g))
      BY <1>1, <2>1 DEF CleanupState
    <2> HIDE DEF g
    <2> QED
      BY <1>1, <2>1, <2>2, AddOperation
  <1> QED
    BY <1>1, <1>3, <1>4, ClaimSeen

\* The pending removal is taken over.
LEMMA TakenSeen ==
  ASSUME IInv, RemovalInv, WireInv, IInv', RemovalInv', Unseen,
         cl.pending # 0, cl.active = 0,
         cl' = [cl EXCEPT !.pending = 0, !.active = cl.pending],
         NEW t \in DOMAIN thr', Removing(t)', thr'[t].pc = "call",
         worker' = worker, logsClosed' = logsClosed
  PROVE  Seen
  <1>1. /\ worker = 0 /\ cl'.ops[cl'.active].gen = generation
        /\ cl.removed # generation
    BY TakenOver DEF RemovalInv, PendingOK
  <1>2. cl'.removed = cl.removed
    <2>1. cl \in CleanupState
      BY Numbers
    <2> QED
      BY <2>1 DEF CleanupState
  <1> QED
    BY <1>1, <1>2, ClaimSeen

LEMMA SeenClaim ==
  ASSUME IInv, RemovalInv, WireInv, IInv', RemovalInv', NEW t \in DOMAIN thr,
         Claim(t)
  PROVE  Seen
  <1>1. Unseen /\ UNCHANGED <<worker, logsClosed>> /\ thr[t].pc = "claim"
    BY UnseenActor DEF Claim, At, Unmoved, lifecycle, logs
  <1>2. CASE Goto(t, "discard") /\ UNCHANGED cl
    <2>1. OnlyMoves(t) /\ thr'[t].pc = "discard"
      BY <1>2, GotoMoves
    <2> QED
      BY <1>1, <1>2, <2>1, HiddenMove DEF SameActive, Seen
  <1>3. CASE /\ cl.active = 0 /\ cl.pending = thr[t].ref
             /\ cl' = [cl EXCEPT !.pending = 0, !.active = thr[t].ref]
             /\ thr' = [thr EXCEPT ![t].pc = "call", ![t].rpc = "cleanup"]
    <2> DEFINE u == [thr[t] EXCEPT !.pc = "call", !.rpc = "cleanup"]
    <2>1. thr[t].ref # 0
      BY <1>1, OwnLocal DEF LocalOK
    <2>2. u.pc = "call" /\ u.rpc = "cleanup" /\ thr' = [thr EXCEPT ![t] = u]
      BY <1>3, OwnLocal DEF LocalType
    <2> HIDE DEF u
    <2>3. t \in DOMAIN thr' /\ thr'[t].pc = "call" /\ Removing(t)'
      BY <2>2 DEF Removing
    <2> QED
      BY <1>1, <1>3, <2>1, <2>3, TakenSeen
  <1> QED
    BY <1>2, <1>3 DEF Claim

LEMMA SeenFinishWorker ==
  ASSUME IInv, RemovalInv, WireInv, IInv', RemovalInv', NEW t \in DOMAIN thr,
         FinishWorker(t)
  PROVE  Seen
  <1>1. Unseen /\ logsClosed' = logsClosed /\ thr[t].pc = "finish" /\ t # 0
    BY UnseenWorker, ThreadNames DEF FinishWorker, At, logs
  <1>2. CASE Mine(t)
    <2> DEFINE u == [thr[t] EXCEPT !.pc = "call", !.rpc = "cleanup",
                                   !.ref = cl.pending]
    <2>1. /\ cl.pending # 0 /\ cl.active = 0
          /\ cl' = [cl EXCEPT !.pending = 0, !.active = cl.pending]
          /\ thr' = [thr EXCEPT ![t] = u]
      BY <1>2 DEF FinishWorker, Mine
    <2>2. u.pc = "call" /\ u.rpc = "cleanup"
      BY OwnLocal DEF LocalType
    <2> HIDE DEF u
    <2>3. t \in DOMAIN thr' /\ thr'[t].pc = "call" /\ Removing(t)'
      BY <2>1, <2>2 DEF Removing
    <2>4. worker' = worker
      BY <2>1 DEF FinishWorker, IInv, CleanupOK
    <2> QED
      BY <1>1, <2>1, <2>3, <2>4, TakenSeen
  <1>3. CASE ~Mine(t)
    <2>1. Goto(t, "schedTail") /\ UNCHANGED cl
      BY <1>3 DEF FinishWorker
    <2>2. OnlyMoves(t) /\ thr'[t].pc = "schedTail"
      BY <2>1, GotoMoves
    <2>3. CASE worker = t
      BY <1>1, <2>1, <2>3, StopSeen DEF FinishWorker, SameActive
    <2>4. CASE worker # t
      BY <1>1, <2>1, <2>2, <2>4, HiddenMove DEF FinishWorker, SameActive, Seen
    <2> QED
      BY <2>3, <2>4
  <1> QED
    BY <1>2, <1>3

-----------------------------------------------------------------------------
(* Admin calls.                                                            *)

\* No thread brings the answer of a cleanup or takes one away.
LEMMA AnswersMove ==
  ASSUME NEW t, OnlyMoves(t),
         t \in DOMAIN thr => thr[t].pc # "commit" \/ thr[t].rpc # "cleanup",
         Stays(t) => thr'[t].pc # "commit" \/ thr'[t].rpc # "cleanup"
  PROVE  \A ok : Answered(ok)' = Answered(ok)
BY DEF OnlyMoves, Stays, Answered, Removing

LEMMA SeenRpcBegin ==
  ASSUME IInv, RemovalInv, WireInv, NEW t \in DOMAIN thr, RpcBegin(t)
  PROVE  Seen
  <1> DEFINE v == [thr[t] EXCEPT !.pc = "rpc", !.seq = rpcSeq + 1]
             kind == thr[t].rpc
  <1>1. /\ thr[t].pc = "call" /\ net = 0 /\ net' = t /\ t # 0
        /\ thr' = [thr EXCEPT ![t] = v]
        /\ UNCHANGED <<generation, worker, cl, remote, logsClosed>>
        /\ kind = "renewal" => IsCurrent(t)
    BY ThreadNames DEF RpcBegin, At, lifecycle, logs
  <1>2. v.pc = "rpc" /\ v.rpc = kind
    BY OwnLocal DEF LocalType
  <1> HIDE DEF v
  <1>3. OnlyMoves(t) /\ Stays(t) /\ thr'[t].pc = "rpc" /\ thr'[t].rpc = kind
    BY <1>1, <1>2, GoMoves
  <1>4. Phase' = Phase
    BY <1>1, <1>3, PhaseMove
  <1>5. ActiveCleanup' = ActiveCleanup
    BY <1>1, <1>3, AnswersMove, CleanupView DEF SameActive
  <1>6. AdminCallNow = "none" /\ AdminCallNow' = kind
    BY <1>1, <1>3 DEF AdminCallNow
  <1>7. kind \in {"register", "remove", "renewal", "cleanup"}
    BY <1>1, OwnLocal DEF WireInv, Named, AdminSteps, Rpcs
  <1>8. CASE kind = "renewal"
    <2>1. Phase = "renewing"
      BY <1>1, <1>8 DEF IsCurrent, Phase
    <2> QED
      BY <1>1, <1>4, <1>5, <1>6, <1>8, <2>1
         DEF Seen, Contract!Next, Contract!Begin, Contract!MayBegin
  <1>9. CASE kind = "cleanup"
    <2>1. Removing(t)
      BY <1>1, <1>9 DEF Removing
    <2>2. ActiveCleanup # Contract!NoCleanup /\ ActiveCleanup.answer = "none"
      BY <1>1, <2>1, AnswerOf, SomethingActive
    <2> QED
      BY <1>1, <1>4, <1>5, <1>6, <1>9, <2>2
         DEF Seen, Contract!Next, Contract!Begin, Contract!MayBegin
  <1>10. CASE kind \in {"register", "remove"}
    BY <1>1, <1>4, <1>5, <1>6, <1>10
       DEF Seen, Contract!Next, Contract!Begin, Contract!MayBegin
  <1> QED
    BY <1>7, <1>8, <1>9, <1>10

LEMMA SeenRpcEnd ==
  ASSUME IInv, RemovalInv, CallsInv, WireInv, IInv', RemovalInv',
         NEW t \in DOMAIN thr, RpcEnd(t)
  PROVE  Seen
  <1>1. PICK o \in Outcomes :
          /\ remote' = IF o.effect THEN thr[t].rpc \in {"register", "renewal"}
                       ELSE remote
          /\ thr' = [thr EXCEPT ![t].pc = "commit", ![t].ok = o.ok]
    BY DEF RpcEnd
  <1>2. o.ok \in BOOLEAN /\ o.effect \in BOOLEAN /\ (o.ok => o.effect)
    BY DEF Outcomes
  <1> DEFINE v == [thr[t] EXCEPT !.pc = "commit", !.ok = o.ok]
             kind == thr[t].rpc
  <1>3. /\ thr[t].pc = "rpc" /\ net' = 0 /\ t # 0
        /\ thr' = [thr EXCEPT ![t] = v]
        /\ UNCHANGED <<generation, worker, cl, logsClosed>>
    BY <1>1, ThreadNames DEF RpcEnd, At, lifecycle, logs
  <1>4. v.pc = "commit" /\ v.rpc = kind /\ v.ok = o.ok /\ v.ref = thr[t].ref
    BY <1>2, OwnLocal DEF LocalType
  <1> HIDE DEF v
  <1>5. OnlyMoves(t) /\ Stays(t) /\ thr'[t] = v
    BY <1>3, GoMoves
  <1>6. Phase' = Phase
    BY <1>3, <1>4, <1>5, PhaseMove
  <1>7. AdminCallNow = kind /\ kind # "none" /\ AdminCallNow' = "none"
    BY <1>3, HolderIs DEF WireInv, Named, AdminSteps, AdminCallNow
  <1>8. remote' = IF o.effect THEN AdminCallNow \in {"register", "renewal"}
                  ELSE remote
    BY <1>1, <1>7
  <1>9. ActiveCleanup' =
          IF kind = "cleanup"
          THEN [ActiveCleanup EXCEPT !.answer = IF o.ok THEN "ok" ELSE "fail"]
          ELSE ActiveCleanup
    <2>1. CASE kind = "cleanup"
      <3>1. Removing(t)
        BY <1>3, <2>1 DEF Removing
      <3>2. ActiveCleanup.gen = cl.ops[cl.active].gen
        BY <3>1, AnswerOf
      <3>3. /\ o.ok => Answered(TRUE)'
            /\ ~o.ok => ~Answered(TRUE)' /\ Answered(FALSE)'
        <4>1. Removing(t)' /\ thr'[t].pc = "commit" /\ thr'[t].ok = o.ok
          BY <1>4, <1>5, <2>1 DEF Removing
        <4>2. \A u \in DOMAIN thr' : Removing(u)' => u = t
          BY <1>5, <3>1 DEF RemovalInv, RemovingOK, OnlyMoves, Removing
        <4> QED
          BY <1>2, <1>5, <4>1, <4>2 DEF Answered, Stays
      <3> QED
        BY <1>3, <2>1, <3>2, <3>3 DEF ActiveCleanup
    <2>2. CASE kind # "cleanup"
      BY <1>3, <1>4, <1>5, <2>2, AnswersMove, CleanupView DEF SameActive
    <2> QED
      BY <2>1, <2>2
  <1>10. \E ok, effect \in BOOLEAN : Contract!End(ok, effect)
    <2>1. Contract!End(o.ok, o.effect)
      BY <1>2, <1>3, <1>6, <1>7, <1>8, <1>9 DEF Contract!End
    <2> QED
      BY <1>2, <2>1
  <1> QED
    BY <1>10 DEF Seen, Contract!Next

-----------------------------------------------------------------------------
(* Completions.                                                            *)

\* The thread that completes a call no longer holds network_lock.
LEMMA HolderStays ==
  ASSUME WireInv, NEW t \in DOMAIN thr, OnlyMoves(t), thr[t].pc = "commit",
         net' = net
  PROVE  AdminCallNow' = AdminCallNow
BY DEF WireInv, OnlyMoves, AdminCallNow

\* A completion that may only take the record of a removal away.
LEMMA ForgetSeen ==
  ASSUME RemovalInv, WireInv, NEW t \in DOMAIN thr, OnlyMoves(t),
         thr[t].pc = "commit", thr[t].rpc # "cleanup",
         Stays(t) => thr'[t].pc # "commit",
         t = worker => thr'[t].pc \notin {"gate", "awaitOlder"},
         UNCHANGED <<generation, worker, net, remote, logsClosed>>, SameActive,
         cl'.removed \in {cl.removed, NoGen}
  PROVE  Seen
  <1>1. UNCHANGED <<Phase, AdminCallNow, ActiveCleanup>>
    BY PhaseMove, HolderStays, AnswersMove, CleanupView
  <1>2. CASE cl'.removed = cl.removed
    BY <1>1, <1>2 DEF Seen, Contract!vars
  <1>3. CASE cl'.removed = NoGen
    BY <1>1, <1>3 DEF Seen, Contract!Next, Contract!Forget, NoGen
  <1> QED
    BY <1>2, <1>3

LEMMA SeenCommitRegister ==
  ASSUME IInv, RemovalInv, CallsInv, WireInv, NEW t \in DOMAIN thr,
         CommitRegister(t)
  PROVE  Seen
  <1>1. /\ thr[t].pc = "commit" /\ thr[t].rpc = "register"
        /\ UNCHANGED <<generation, worker, net, remote, logsClosed>>
        /\ Exit(t) \/ \E p \in {"schedTail", "closeTail"} : Goto(t, p)
    BY DEF CommitRegister, At, lifecycle, logs
  <1>2. OnlyMoves(t) /\ (Stays(t) => thr'[t].pc # "commit")
    BY <1>1, ExitMoves, GotoMoves
  <1>3. t # worker
    BY <1>1, ThreadNames
       DEF RemovalInv, Shapes, Shape, WorkerShape, ActorShape, AdminSteps
  <1>4. PICK a : /\ LeftBy(t, a)
                 /\ LookedAt(a, cl') \/ OnlyCoords(a, cl')
    BY RegisterLooks DEF CallsInv
  <1>5. /\ a.active = cl.active /\ a.ops = cl.ops
        /\ a.removed \in {cl.removed, NoGen}
    BY <1>4 DEF LeftBy
  <1>6. /\ cl'.active = a.active /\ cl'.removed = a.removed
        /\ \A o \in 1..Len(a.ops) : cl'.ops[o].gen = a.ops[o].gen
    BY <1>4 DEF LookedAt, Asks, OnlyCoords
  <1>7. SameActive
    BY <1>5, <1>6, Numbers DEF SameActive, IInv, CleanupOK
  <1> QED
    BY <1>1, <1>2, <1>3, <1>5, <1>6, <1>7, ForgetSeen

LEMMA SeenCommitPlain ==
  ASSUME IInv, RemovalInv, WireInv, NEW t \in DOMAIN thr,
         CommitRemove(t) \/ CommitRenewal(t)
  PROVE  Seen
  <1>1. /\ thr[t].pc = "commit" /\ thr[t].rpc \in {"remove", "renewal"}
        /\ UNCHANGED <<generation, worker, net, remote, logsClosed>>
        /\ Exit(t) \/ \E p \in {"sleep", "finish"} : Goto(t, p)
    BY DEF CommitRemove, CommitRenewal, At, lifecycle, logs
  <1>2. /\ OnlyMoves(t)
        /\ Stays(t) => thr'[t].pc \in {"idle", "sleep", "finish"}
    BY <1>1, ExitMoves, GotoMoves
  <1>3. t = worker => Stays(t)
    <2>1. t \notin Callers \/ t # worker
      BY ThreadNames
    <2>2. CASE thr[t].rpc = "renewal"
      BY <1>1, <2>2, GotoMoves DEF CommitRemove, CommitRenewal, At
    <2>3. CASE thr[t].rpc = "remove"
      BY <1>1, <2>1, <2>3
         DEF RemovalInv, Shapes, Shape, WorkerShape, ActorShape, AdminSteps
    <2> QED
      BY <1>1, <2>2, <2>3
  <1>4. SameActive /\ cl'.removed \in {cl.removed, NoGen}
    <2>1. cl \in CleanupState /\ thr[t].ok \in BOOLEAN
      BY Numbers, OwnLocal
    <2>2. CASE CommitRemove(t)
      <3>1. cl' = cl \/ cl' = Record(cl, "remove", thr[t].ok)
        BY <2>2 DEF CommitRemove
      <3> QED
        BY <2>1, <3>1, RecordSame DEF SameActive
    <2>3. CASE CommitRenewal(t)
      <3> DEFINE s == Record(cl, "renewal", thr[t].ok)
      <3>1. /\ s \in CleanupState /\ s.ops = cl.ops /\ s.active = cl.active
            /\ s.removed = cl.removed
        BY <2>1, RecordSame
      <3>2. \/ cl' = cl \/ cl' = s
            \/ cl' = Invalidate(s, ctx[t].gen, 0, generation)
        BY <2>3 DEF CommitRenewal
      <3> HIDE DEF s
      <3> QED
        BY <3>1, <3>2, InvalidateSame DEF SameActive
    <2> QED
      BY <2>2, <2>3
  <1> QED
    BY <1>1, <1>2, <1>3, <1>4, ForgetSeen

\* The end of a cleanup: its success may go on record.
LEMMA SeenCompleteRemove ==
  ASSUME IInv, RemovalInv, WireInv, IInv', RemovalInv', NEW t \in DOMAIN thr,
         CompleteRemove(t)
  PROVE  Seen
  <1> DEFINE s == Completed(t)
             g == cl.ops[thr[t].ref].gen
  <1>1. /\ thr[t].pc = "commit" /\ thr[t].rpc = "cleanup" /\ Goto(t, "sched")
        /\ UNCHANGED <<generation, worker, net, remote, logsClosed>>
    BY DEF CompleteRemove, At, lifecycle, logs
  <1>2. OnlyMoves(t) /\ Stays(t) /\ thr'[t].pc = "sched"
    BY <1>1, GotoMoves
  <1>3. UNCHANGED <<Phase, AdminCallNow>>
    BY <1>1, <1>2, PhaseMove, HolderStays
  <1>4. /\ Removing(t) /\ cl.active = thr[t].ref
        /\ ActiveCleanup = [gen    |-> g,
                            answer |-> IF thr[t].ok THEN "ok" ELSE "fail"]
    BY <1>1, AnswerOf DEF Removing
  <1>5. s.active = 0 /\ CleanupOK(s, generation, worker)
        /\ cl' = ReconcileAfter(s, g, generation)
    BY CompletedFields, CompletedOK
  <1>6. Closes(t, s) \/ Ends(t, s)
    BY CompletedEnds
  <1> HIDE DEF s
  <1>7. cl'.active = 0 /\ cl'.removed = s.removed
    <2>1. SettledOf(s, cl', generation, worker)
      BY <1>5, Numbers, ReconcileAfterAsks
    <2> QED
      BY <1>5, <2>1 DEF SettledOf, Asks
  <1>8. ActiveCleanup' = Contract!NoCleanup
    <2>1. (IInv /\ RemovalInv /\ cl.active = 0
             => ActiveCleanup = Contract!NoCleanup)'
      BY NothingActive, PTL
    <2> QED
      BY <1>7, <2>1 DEF Contract!NoCleanup
  <1>9. CASE Ends(t, s)
    BY <1>1, <1>3, <1>4, <1>7, <1>8, <1>9
       DEF Ends, Seen, Contract!Next, Contract!Complete
  <1>10. CASE Closes(t, s)
    BY <1>1, <1>3, <1>4, <1>7, <1>8, <1>10
       DEF Closes, Phase, Seen, Contract!Next, Contract!Complete
  <1> QED
    BY <1>6, <1>9, <1>10

-----------------------------------------------------------------------------
(* The log handlers.                                                       *)

LEMMA SeenMaybeCloseLogs ==
  ASSUME IInv, RemovalInv, WireInv, NEW t \in DOMAIN thr, MaybeCloseLogs(t)
  PROVE  Seen
  <1>1. /\ Unseen /\ UNCHANGED <<worker, cl>>
        /\ logsClosed' = (logsClosed \/ (closing /\ LogsIdle))
        /\ thr[t].pc \in {"recheck", "close", "recheckTail", "closeTail"}
    BY UnseenTail DEF MaybeCloseLogs, lifecycle
  <1>2. OnlyMoves(t)
    BY ExitMoves, GotoMoves DEF MaybeCloseLogs
  <1>3. t # worker \/ worker = 0
    BY <1>1 DEF RemovalInv, WorkersOK, InLoop, LoopSteps, AdminSteps
  <1>4. CASE logsClosed' = logsClosed
    BY <1>1, <1>2, <1>3, <1>4, HiddenMove DEF SameActive, Seen
  <1>5. CASE LogsIdle /\ logsClosed' = TRUE
    <2>1. UNCHANGED <<Phase, ActiveCleanup, AdminCallNow, remote, generation>>
      BY <1>1, <1>2, <1>3, PhaseMove, SentView, CleanupView DEF SameActive
    <2>2. Phase = "off" /\ ActiveCleanup = Contract!NoCleanup
      BY <1>5, NothingActive DEF LogsIdle, Phase
    <2>3. AdminCallNow \notin {"renewal", "cleanup"}
      <3> SUFFICES ASSUME net # 0, thr[net].rpc \in {"renewal", "cleanup"}
                   PROVE  FALSE
        BY DEF AdminCallNow
      <3>1. net \in DOMAIN thr /\ thr[net].pc = "rpc"
        BY DEF WireInv
      <3>2. ~Background(net) /\ ~Removing(net)
        BY <1>5, <3>1, IdleMeansIdle, NoRemover DEF LogsIdle
      <3>3. net \in Callers
        BY <3>1, <3>2 DEF Background, SchedSites
      <3> QED
        BY <3>1, <3>2, <3>3 DEF RemovalInv, Shapes, Shape, CallerShape, Removing
    <2> QED
      BY <1>1, <1>5, <2>1, <2>2, <2>3
         DEF Seen, Contract!Next, Contract!CloseLogs
  <1>6. logsClosed \in BOOLEAN
    BY DEF IInv, RestOK
  <1> QED
    BY <1>1, <1>4, <1>5, <1>6

-----------------------------------------------------------------------------
(* The calls that are under way keep their kinds and their holder.         *)

LEMMA WireKept ==
  ASSUME WireInv, Shapes', Unseen, NEW t, OnlyMoves(t),
         Stays(t) /\ t \in Callers => Named(thr'[t])
  PROVE  WireInv'
BY NamesKept, HolderKept DEF WireInv, Unseen, Named, AdminSteps

LEMMA WireTerminal ==
  ASSUME IInv, RemovalInv, WireInv, RemovalInv', NEW t \in DOMAIN thr,
         \/ TerminalOneShot(t) \/ TerminalRegisters(t) \/ TerminalCached(t)
         \/ TerminalActive(t) \/ TerminalPending(t) \/ TerminalOwn(t)
         \/ AwaitRegisters(t) \/ AwaitRemove(t)
  PROVE  WireInv'
  <1>1. Unseen
    BY UnseenTerminal
  <1>2. thr[t].pc \in TerminalSteps
    BY DEF TerminalOneShot, TerminalRegisters, TerminalCached, TerminalActive,
           TerminalPending, TerminalOwn, Unsettled, AwaitRegisters, AwaitRemove,
           At, TerminalSteps
  <1>3. thr[t].rpc = "remove"
    BY <1>2, TerminalCaller
  <1>4. CASE Exit(t) \/ \E p : Goto(t, p)
    <2>1. OnlyMoves(t) /\ (Stays(t) => Named(thr'[t]))
      BY <1>3, <1>4, ExitMoves, GotoMoves DEF Named, AdminSteps
    <2> QED
      BY <1>1, <2>1, WireKept DEF RemovalInv
  <1>5. ASSUME NEW u, u.rpc # "none", thr' = [thr EXCEPT ![t] = u]
        PROVE  WireInv'
    <2>1. OnlyMoves(t) /\ Named(thr'[t])
      BY <1>5, GoMoves DEF Named
    <2> QED
      BY <1>1, <2>1, WireKept DEF RemovalInv
  <1>6. CASE TerminalRegisters(t)
    <2> DEFINE u == [thr[t] EXCEPT !.pc = "awaitRegisters", !.coord = cl.coord]
    <2>1. u.rpc = "remove" /\ thr' = [thr EXCEPT ![t] = u]
      BY <1>3, <1>6, OwnLocal DEF TerminalRegisters, LocalType
    <2> QED
      BY <1>5, <2>1
  <1>7. CASE TerminalActive(t)
    <2> DEFINE u == [thr[t] EXCEPT !.pc = "awaitActive", !.ref = cl.active]
    <2>1. u.rpc = "remove" /\ thr' = [thr EXCEPT ![t] = u]
      BY <1>3, <1>7, OwnLocal DEF TerminalActive, LocalType
    <2> QED
      BY <1>5, <2>1
  <1>8. CASE TerminalPending(t)
    <2> DEFINE u == [thr[t] EXCEPT
                       !.pc = IF cl.ops[cl.pending].gen = thr[t].gen
                              THEN "schedWait" ELSE "awaitPending",
                       !.ref = cl.pending]
    <2>1. u.rpc = "remove" /\ thr' = [thr EXCEPT ![t] = u]
      BY <1>3, <1>8, OwnLocal DEF TerminalPending, LocalType
    <2> QED
      BY <1>5, <2>1
  <1>9. CASE TerminalOwn(t)
    <2> DEFINE u == [thr[t] EXCEPT !.pc = "call", !.rpc = "cleanup",
                                   !.ref = Len(cl.ops) + 1]
    <2>1. u.rpc = "cleanup" /\ thr' = [thr EXCEPT ![t] = u]
      BY <1>9, OwnLocal DEF TerminalOwn, LocalType
    <2> QED
      BY <1>5, <2>1
  <1> QED
    BY <1>4, <1>6, <1>7, <1>8, <1>9
       DEF TerminalOneShot, TerminalCached, AwaitRegisters, AwaitRemove

\* Workers and actors.
LEMMA WireBackground ==
  ASSUME IInv, RemovalInv, WireInv, RemovalInv', NEW t \in DOMAIN thr,
         \/ Gate(t) \/ AwaitOlder(t) \/ WorkerQuit(t) \/ Tick(t)
         \/ FinishWorker(t) \/ Claim(t) \/ Discard(t)
  PROVE  WireInv'
  <1>1. Unseen
    BY UnseenWorker, UnseenActor
  <1>2. t \notin Callers
    <2>1. \/ thr[t].pc \in {"gate", "claim", "discard"} \cup LoopSteps
          \/ thr[t].rpc = "renewal"
      BY DEF Gate, AwaitOlder, WorkerQuit, Tick, FinishWorker, Claim, Discard,
             At, LoopSteps
    <2> QED
      BY <2>1 DEF RemovalInv, Shapes, Shape, CallerShape
  <1>3. Exit(t) \/ \E v : thr' = [thr EXCEPT ![t] = v]
    BY DEF Gate, AwaitOlder, WorkerQuit, Tick, FinishWorker, Claim, Discard,
           Goto
  <1>4. OnlyMoves(t)
    BY <1>3, ExitMoves, GoMoves
  <1> QED
    BY <1>1, <1>2, <1>4, WireKept DEF RemovalInv

\* Steps that lead to no call.
LEMMA WireTail ==
  ASSUME IInv, RemovalInv, WireInv, RemovalInv', NEW t \in DOMAIN thr, Unseen,
         Exit(t) \/ \E p : Goto(t, p) /\ p \notin AdminSteps
  PROVE  WireInv'
  <1>1. OnlyMoves(t) /\ (Stays(t) => Named(thr'[t]))
    BY ExitMoves, GotoMoves DEF Named, AdminSteps
  <1> QED
    BY <1>1, WireKept DEF RemovalInv

LEMMA WireSchedule ==
  ASSUME IInv, RemovalInv, DeregisterInv, WireInv, RemovalInv',
         NEW t \in DOMAIN thr, Schedule(t)
  PROVE  WireInv'
  <1> DEFINE p == thr[t].pc
             v == [Local("actor", "claim", cl.ops[cl.pending].gen)
                     EXCEPT !.ref = cl.pending]
             u == [thr[t] EXCEPT !.pc = AfterSched(p)]
  <1>1. Unseen /\ p \in SchedSites
    BY UnseenSchedule DEF Schedule
  <1>2. AfterSched(p) \notin AdminSteps /\ AfterSpawnFailure(p) \notin AdminSteps
    BY DEF AfterSched, AfterSpawnFailure, AdminSteps
  <1>3. CASE Spawn([thr EXCEPT ![t] = u], v)
    <2>1. u.pc = AfterSched(p)
      BY OwnLocal DEF LocalType
    <2> HIDE DEF u, v, p
    <2>2. SpawnedBy(t, u, spawned + 1, v)
      BY <1>3, SpawnMoves
    <2>3. Named(u)
      BY <1>2, <2>1 DEF Named
    <2>4. \A x \in DOMAIN thr' : Named(thr'[x])
      BY <2>2, <2>3, SpawnNames, ThreadNames DEF RemovalInv
    <2> QED
      BY <1>1, <2>4, HolderKept DEF WireInv, Unseen, Named, AdminSteps
  <1> HIDE DEF p
  <1>4. CASE Exit(t) \/ Goto(t, AfterSched(p)) \/ Goto(t, AfterSpawnFailure(p))
    BY <1>1, <1>2, <1>4, WireTail
  <1> QED
    BY <1>3, <1>4 DEF Schedule, Goto, p

LEMMA WireCall ==
  ASSUME IInv, RemovalInv, WireInv, RemovalInv', NEW c \in Callers, Call(c)
  PROVE  WireInv'
  <1>1. Unseen
    BY UnseenCall
  <1>2. c \in DOMAIN thr
    BY DEF IInv, ThreadsOK
  <1>3. ASSUME NEW u, thr' = [thr EXCEPT ![c] = u],
               u.rpc # "none" \/ u.pc \notin AdminSteps
        PROVE  WireInv'
    <2>1. OnlyMoves(c) /\ Named(thr'[c])
      BY <1>2, <1>3, GoMoves DEF Named
    <2> QED
      BY <1>1, <2>1, WireKept DEF RemovalInv
  <1>4. CASE CallRegister(c)
    BY <1>3, <1>4, CallRegisterJoins
  <1>5. CASE CallRemove(c)
    <2> DEFINE u == [Idle EXCEPT
                       !.pc = IF worker = 0 THEN "terminal" ELSE "call",
                       !.job = "remove", !.gen = generation, !.rpc = "remove"]
    <2>1. u.rpc = "remove" /\ thr' = [thr EXCEPT ![c] = u]
      BY <1>5 DEF CallRemove, Go, Idle
    <2> QED
      BY <1>3, <2>1
  <1>6. ASSUME NEW k \in Kinds, CallStart(c, k)
        PROVE  WireInv'
    <2> DEFINE u == [Idle EXCEPT !.pc = "prepared", !.job = k,
                                 !.ref = spawned + 1]
               v == Local("worker", "gate", generation + 1)
    <2>1. u.pc = "prepared"
      BY DEF Idle
    <2>2. UNCHANGED thr \/ Spawn([thr EXCEPT ![c] = u], v)
      BY <1>6 DEF CallStart
    <2> HIDE DEF u, v
    <2>3. CASE UNCHANGED thr
      BY <1>1, <2>3 DEF Unseen, WireInv, Named
    <2>4. CASE Spawn([thr EXCEPT ![c] = u], v)
      <3>1. SpawnedBy(c, u, spawned + 1, v)
        BY <1>2, <2>4, SpawnMoves
      <3>2. \A x \in DOMAIN thr' : Named(thr'[x])
        BY <2>1, <3>1, SpawnNames, ThreadNames DEF RemovalInv, Named, AdminSteps
      <3> QED
        BY <1>1, <3>2, HolderKept DEF WireInv, Unseen, Named, AdminSteps
    <2> QED
      BY <2>2, <2>3, <2>4
  <1>7. ASSUME NEW k \in Kinds, CallStop(c, k) \/ CallShutdown(c, k)
        PROVE  WireInv'
    <2>1. PICK p \in {"schedStop", "request", "closeTail"} :
            Go(c, Local(k, p, generation))
      BY <1>7 DEF CallStop, CallShutdown
    <2>2. Local(k, p, generation).pc = p /\ p \notin AdminSteps
      BY DEF Local, Idle, AdminSteps
    <2> QED
      BY <1>3, <2>1, <2>2 DEF Go
  <1> QED
    BY <1>4, <1>5, <1>6, <1>7 DEF Call

LEMMA WireRpcBegin ==
  ASSUME IInv, RemovalInv, WireInv, RemovalInv', NEW t \in DOMAIN thr,
         RpcBegin(t)
  PROVE  WireInv'
  <1> DEFINE v == [thr[t] EXCEPT !.pc = "rpc", !.seq = rpcSeq + 1]
  <1>1. thr[t].pc = "call" /\ net' = t /\ thr' = [thr EXCEPT ![t] = v]
    BY DEF RpcBegin, At
  <1>2. v.pc = "rpc" /\ v.rpc = thr[t].rpc
    BY OwnLocal DEF LocalType
  <1> HIDE DEF v
  <1>3. OnlyMoves(t) /\ Stays(t) /\ thr'[t] = v
    BY <1>1, GoMoves
  <1>4. thr[t].rpc # "none"
    BY <1>1 DEF WireInv, Named, AdminSteps
  <1>5. \A u \in DOMAIN thr' : Named(thr'[u])
    BY <1>2, <1>3, <1>4, NamesKept DEF RemovalInv, Named
  <1> QED
    BY <1>1, <1>2, <1>3, <1>5 DEF WireInv, Stays, Named, AdminSteps

LEMMA WireRpcEnd ==
  ASSUME IInv, RemovalInv, WireInv, RemovalInv', NEW t \in DOMAIN thr,
         RpcEnd(t)
  PROVE  WireInv'
  <1>1. PICK o \in Outcomes :
          /\ remote' = IF o.effect THEN thr[t].rpc \in {"register", "renewal"}
                       ELSE remote
          /\ thr' = [thr EXCEPT ![t].pc = "commit", ![t].ok = o.ok]
    BY DEF RpcEnd
  <1> DEFINE v == [thr[t] EXCEPT !.pc = "commit", !.ok = o.ok]
  <1>2. thr[t].pc = "rpc" /\ net' = 0 /\ thr' = [thr EXCEPT ![t] = v]
    BY <1>1 DEF RpcEnd, At
  <1>3. v.rpc = thr[t].rpc
    BY OwnLocal DEF LocalType
  <1> HIDE DEF v
  <1>4. OnlyMoves(t) /\ Stays(t) /\ thr'[t] = v
    BY <1>2, GoMoves
  <1>5. thr[t].rpc # "none"
    BY <1>2 DEF WireInv, Named, AdminSteps
  <1>6. \A u \in DOMAIN thr' : Named(thr'[u])
    BY <1>3, <1>4, <1>5, NamesKept DEF RemovalInv, Named
  <1> QED
    BY <1>2, <1>6 DEF WireInv, Named, AdminSteps

\* A completion leads to no call.
LEMMA WireCommitted ==
  ASSUME IInv, RemovalInv, WireInv, RemovalInv', NEW t \in DOMAIN thr,
         thr[t].pc = "commit", net' = net,
         Exit(t) \/ \E p : Goto(t, p) /\ p \notin AdminSteps
  PROVE  WireInv'
  <1>1. OnlyMoves(t) /\ (Stays(t) => Named(thr'[t]))
    BY ExitMoves, GotoMoves DEF Named, AdminSteps
  <1>2. \A u \in DOMAIN thr' : Named(thr'[u])
    BY <1>1, NamesKept DEF RemovalInv
  <1> QED
    BY <1>1, <1>2 DEF WireInv, OnlyMoves, Named, AdminSteps

LEMMA WireCommit ==
  ASSUME IInv, RemovalInv, WireInv, RemovalInv', NEW t \in DOMAIN thr,
         \/ CommitRegister(t) \/ CommitRemove(t) \/ CommitRenewal(t)
         \/ CompleteRemove(t)
  PROVE  WireInv'
  <1>1. {"schedTail", "closeTail", "sleep", "finish", "sched"}
          \cap AdminSteps = {}
    BY DEF AdminSteps
  <1>2. CASE CommitRegister(t)
    <2>1. /\ thr[t].pc = "commit" /\ net' = net
          /\ Exit(t) \/ Goto(t, "schedTail") \/ Goto(t, "closeTail")
      BY <1>2 DEF CommitRegister, At
    <2> QED
      BY <1>1, <2>1, WireCommitted
  <1>3. CASE CommitRemove(t)
    BY <1>3, WireCommitted DEF CommitRemove, At
  <1>4. CASE CommitRenewal(t)
    <2>1. /\ thr[t].pc = "commit" /\ net' = net
          /\ \E p \in {"sleep", "finish"} : Goto(t, p)
      BY <1>4 DEF CommitRenewal, At
    <2> QED
      BY <1>1, <2>1, WireCommitted
  <1>5. CASE CompleteRemove(t)
    BY <1>1, <1>5, WireCommitted DEF CompleteRemove, At
  <1> QED
    BY <1>2, <1>3, <1>4, <1>5

LEMMA InitWire == Init => WireInv
BY DEF Init, WireInv, Named, AdminSteps, Idle

LEMMA NextWire ==
  IInv /\ RemovalInv /\ DeregisterInv /\ WireInv /\ [Next]_vars => WireInv'
  <1> SUFFICES ASSUME IInv, RemovalInv, DeregisterInv, WireInv, [Next]_vars
               PROVE  WireInv'
    OBVIOUS
  <1>1. RemovalInv'
    BY NextRemoval
  <1>2. CASE UNCHANGED vars
    BY <1>2 DEF vars, rpcs, WireInv, Named
  <1>3. ASSUME NEW c \in Callers, Call(c)
        PROVE  WireInv'
    BY <1>1, <1>3, WireCall
  <1>4. ASSUME NEW t \in DOMAIN thr, Step(t)
        PROVE  WireInv'
    <2>1. CASE MaybeCloseLogs(t) \/ CancelPrepared(t)
      <3>1. Exit(t) \/ \E p \in {"close", "closeTail", "discard"} : Goto(t, p)
        BY <2>1 DEF MaybeCloseLogs, AfterExecute, CancelPrepared
      <3> QED
        BY <1>1, <2>1, <3>1, UnseenTail, WireTail DEF AdminSteps
    <2>2. CASE ShutdownRequest(t)
      <3>1. \E p \in {"schedShutdown", "closeTail"} : Goto(t, p)
        BY <2>2 DEF ShutdownRequest
      <3> QED
        BY <1>1, <2>2, <3>1, UnseenShutdownRequest, WireTail DEF AdminSteps
    <2>3. CASE Activate(t)
      <3>1. Exit(t) \/ Goto(t, "raised")
        BY <2>3 DEF Activate
      <3>2. ~Sent(thr[t]) /\ net' = net
        BY <2>3 DEF Activate, At, Sent
      <3>3. SameSent
        BY <3>1, <3>2, ExitSent, GotoSent
      <3>4. OnlyMoves(t) /\ (Stays(t) => Named(thr'[t]))
        BY <3>1, ExitMoves, GotoMoves DEF Named, AdminSteps
      <3> QED
        BY <1>1, <3>2, <3>3, <3>4, NamesKept, HolderKept
           DEF RemovalInv, WireInv, Named, AdminSteps
    <2> QED
      BY <1>1, <1>4, <2>1, <2>2, <2>3, WireTerminal, WireBackground,
         WireSchedule, WireRpcBegin, WireRpcEnd, WireCommit DEF Step
  <1>5. ASSUME NEW t \in DOMAIN thr, Tick(t)
        PROVE  WireInv'
    BY <1>1, <1>5, WireBackground
  <1> QED
    BY <1>2, <1>3, <1>4, <1>5 DEF Next, Rest

-----------------------------------------------------------------------------
(* The registry keeps the contract.                                        *)

\* The inductive invariant of the refinement.
SeenInv == IInv /\ RemovalInv /\ DeregisterInv /\ WireInv

LEMMA InitSeenInv == Init => SeenInv
BY InitInvariant, InitRemoval, InitDeregister, InitWire DEF SeenInv

LEMMA NextSeenInv == SeenInv /\ [Next]_vars => SeenInv'
BY NextInvariant, NextRemoval, NextDeregister, NextWire DEF SeenInv

LEMMA InitSeen == Init => Contract!Init
  <1> SUFFICES ASSUME Init
               PROVE  Contract!Init
    OBVIOUS
  <1>1. Phase = "off" /\ AdminCallNow = "none"
    BY DEF Init, Phase, AdminCallNow
  <1>2. ActiveCleanup = Contract!NoCleanup
    BY InitInvariant, InitRemoval, NothingActive DEF Init
  <1> QED
    BY <1>1, <1>2 DEF Init, Contract!Init, NoGen

\* The initial states map to initial states, and every step to a step of the
\* contract or to none.
LEMMA NextSeen == SeenInv /\ [Next]_vars => [Contract!Next]_(Contract!vars)
  <1> SUFFICES ASSUME SeenInv, [Next]_vars
               PROVE  Seen
    BY DEF Seen
  <1> USE DEF SeenInv
  <1>1. IInv' /\ RemovalInv'
    BY NextInvariant, NextRemoval
  <1>2. DeregisterInv => CallsInv
    BY DEF DeregisterInv
  <1>3. ASSUME UNCHANGED Contract!vars
        PROVE  Seen
    BY <1>3 DEF Seen
  <1>4. CASE UNCHANGED vars
    <2>1. UNCHANGED <<generation, worker, cl, logsClosed, net, remote, thr>>
      BY <1>4 DEF vars, lifecycle, logs, rpcs
    <2> QED
      BY <1>3, <2>1 DEF Contract!vars, Phase, ActiveCleanup, Answered, Removing,
                        AdminCallNow
  <1>5. ASSUME NEW c \in Callers, Call(c)
        PROVE  Seen
    BY <1>3, <1>5, HiddenCall, SeenCallStop DEF Call
  <1>6. ASSUME NEW t \in DOMAIN thr, Step(t)
        PROVE  Seen
    <2>1. CASE RpcBegin(t) \/ RpcEnd(t)
      BY <1>1, <1>2, <2>1, SeenRpcBegin, SeenRpcEnd
    <2>2. CASE \/ CommitRegister(t) \/ CommitRemove(t) \/ CommitRenewal(t)
               \/ CompleteRemove(t)
      BY <1>1, <1>2, <2>2, SeenCommitRegister, SeenCommitPlain,
         SeenCompleteRemove
    <2>3. CASE \/ TerminalOneShot(t) \/ TerminalRegisters(t)
               \/ TerminalCached(t) \/ TerminalActive(t) \/ TerminalPending(t)
               \/ AwaitRegisters(t) \/ AwaitRemove(t)
      BY <1>3, <2>3, HiddenTerminal
    <2>4. CASE TerminalOwn(t) \/ Claim(t) \/ FinishWorker(t)
      BY <1>1, <2>4, SeenTerminalOwn, SeenClaim, SeenFinishWorker
    <2>5. CASE Activate(t) \/ MaybeCloseLogs(t) \/ Gate(t) \/ AwaitOlder(t)
      BY <2>5, SeenActivate, SeenMaybeCloseLogs, SeenBegins
    <2>6. CASE \/ CancelPrepared(t) \/ ShutdownRequest(t) \/ Schedule(t)
               \/ WorkerQuit(t) \/ Discard(t)
      BY <1>3, <2>6, HiddenCancel, HiddenShutdownRequest, HiddenSchedule,
         HiddenWorker, HiddenDiscard
    <2> QED
      BY <1>6, <2>1, <2>2, <2>3, <2>4, <2>5, <2>6 DEF Step
  <1>7. ASSUME NEW t \in DOMAIN thr, Tick(t)
        PROVE  Seen
    BY <1>3, <1>7, HiddenWorker
  <1> QED
    BY <1>4, <1>5, <1>6, <1>7 DEF Next, Rest

\* The registry implements its contract: whatever its threads do, in every
\* order and with every fault, the Admin server and the application see one
\* cleanup at a time, made for the newest lifecycle after its end and over
\* before the next one renews, put on record only after its success, and
\* nothing of it after the log handlers were closed.
THEOREM ContractKept == Spec => ImplementsContract
<1>1. Init => SeenInv /\ Contract!Init
  BY InitSeenInv, InitSeen
<1>2. SeenInv /\ [Next]_vars => SeenInv' /\ [Contract!Next]_(Contract!vars)
  BY NextSeenInv, NextSeen
<1> QED
  BY <1>1, <1>2, PTL DEF Spec, ImplementsContract, Contract!Spec

-----------------------------------------------------------------------------
(* What the contract is worth.                                             *)

\* The types of what is seen, and the call that a cleanup makes.
ContractInv ==
  /\ generation \in Nat
  /\ ActiveCleanup \in [gen : Int, answer : {"none", "ok", "fail"}]
  /\ cl.removed \in Int
  /\ AdminCallNow \in {"none", "register", "remove", "renewal", "cleanup"}
  /\ ActiveCleanup.gen <= generation /\ cl.removed <= generation
  /\ AdminCallNow = "cleanup" => /\ ActiveCleanup # Contract!NoCleanup
                                 /\ ActiveCleanup.answer = "none"
  /\ Contract!CleanupsInOrder

LEMMA InitContract == Contract!Init => ContractInv
BY DEF Contract!Init, ContractInv, Contract!CleanupsInOrder, Contract!NoCleanup

LEMMA NextContract == ContractInv /\ [Contract!Next]_(Contract!vars) => ContractInv'
  <1> SUFFICES ASSUME ContractInv, [Contract!Next]_(Contract!vars)
               PROVE  ContractInv'
    OBVIOUS
  <1> USE DEF ContractInv, Contract!CleanupsInOrder, Contract!NoCleanup
  <1>1. CASE UNCHANGED Contract!vars
    BY <1>1 DEF Contract!vars
  <1>2. CASE Contract!Start
    BY <1>2 DEF Contract!Start
  <1>3. CASE Contract!Open \/ Contract!Stop
    BY <1>3 DEF Contract!Open, Contract!Stop
  <1>4. ASSUME NEW kind \in {"register", "remove", "renewal", "cleanup"},
               Contract!Begin(kind)
        PROVE  ContractInv'
    BY <1>4 DEF Contract!Begin, Contract!MayBegin
  <1>5. ASSUME NEW ok \in BOOLEAN, NEW effect \in BOOLEAN,
               Contract!End(ok, effect)
        PROVE  ContractInv'
    <2>1. CASE AdminCallNow = "cleanup"
      BY <1>5, <2>1 DEF Contract!End
    <2>2. CASE AdminCallNow # "cleanup"
      BY <1>5, <2>2 DEF Contract!End
    <2> QED
      BY <2>1, <2>2
  <1>6. CASE Contract!Claim
    BY <1>6 DEF Contract!Claim
  <1>7. CASE Contract!Complete
    BY <1>7 DEF Contract!Complete
  <1>8. CASE Contract!Forget \/ Contract!CloseLogs
    BY <1>8 DEF Contract!Forget, Contract!CloseLogs
  <1> QED
    BY <1>1, <1>2, <1>3, <1>4, <1>5, <1>6, <1>7, <1>8 DEF Contract!Next

\* It is the contract that puts the cleanups in order: a cleanup is over
\* before the next lifecycle renews, it was made for an older one than lives,
\* and none that is on record stands for a lifecycle that lives.
THEOREM ContractOrdersCleanups == Spec => []Contract!CleanupsInOrder
<1>1. ContractInv => Contract!CleanupsInOrder
  BY DEF ContractInv
<1>2. Spec => Contract!Init /\ [][Contract!Next]_(Contract!vars)
  BY ContractKept, PTL DEF ImplementsContract, Contract!Spec
<1> QED
  BY <1>1, <1>2, InitContract, NextContract, PTL

\* And it keeps a lifecycle listed: while one renews, no cleanup of the
\* library, however late its answer, takes the executor from the list of the
\* Admin server; only remove(), called by the application, does.
THEOREM ContractKeepsListed == Spec => Contract!WithdrawnOnRequest
<1>1. ContractInv /\ [Contract!Next]_(Contract!vars)
        => [Phase = "renewing" /\ remote /\ ~remote'
              => AdminCallNow = "remove"]_(Contract!vars)
  <2> SUFFICES ASSUME ContractInv, Contract!Next, Phase = "renewing",
                      remote, ~remote'
               PROVE  AdminCallNow = "remove"
    OBVIOUS
  <2>1. PICK ok \in BOOLEAN, effect \in BOOLEAN : Contract!End(ok, effect)
    BY DEF Contract!Next, Contract!Start, Contract!Open, Contract!Stop,
           Contract!Begin, Contract!Claim, Contract!Complete, Contract!Forget,
           Contract!CloseLogs
  <2>2. AdminCallNow \notin {"none", "register", "renewal"}
    BY <2>1 DEF Contract!End
  <2>3. AdminCallNow # "cleanup"
    BY DEF ContractInv, Contract!CleanupsInOrder
  <2> QED
    BY <2>2, <2>3 DEF ContractInv
<1>2. Spec => Contract!Init /\ [][Contract!Next]_(Contract!vars)
  BY ContractKept, PTL DEF ImplementsContract, Contract!Spec
<1> QED
  BY <1>1, <1>2, InitContract, NextContract, PTL DEF Contract!WithdrawnOnRequest

=============================================================================
