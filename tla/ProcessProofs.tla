--------------------------- MODULE ProcessProofs ---------------------------
(***************************************************************************)
(* What holds of the Registry across forks for every number of threads,    *)
(* calls and forks.                                                        *)
(*                                                                         *)
(* NoOrphanLock is about the holder of a lock at the moment it is asked    *)
(* for.  A fork ends that holder at any moment, so the invariant says who  *)
(* may ask: beyond the check of the pid a thread works on a state of its   *)
(* own process (OwnedOK), and the locks of such a state, and the removal   *)
(* under way in it, belong to living threads in the places where they are  *)
(* taken (LockOK).  Of the states of                                       *)
(* forefathers, with their torn locks, nothing is said, for nothing looks  *)
(* at them.  The log manager's lock is not replaced: it is only held once  *)
(* the finalizer has run, and a child without a finalizer never asks for   *)
(* it (LogOK, ClosingOK).  SilentExit needs what obliges a state to a      *)
(* removal (Duty).  StartIsKept needs where the worker and the candidate   *)
(* of the one state of a process are (StartInv).  WorkComesToItsEnd needs  *)
(* that what a state counts and collects is what its threads are at        *)
(* (WorkInv): whatever keeps the logs open has a thread behind it, which   *)
(* asks again when it is done.                                             *)
(***************************************************************************)
EXTENDS Process, SequenceTheorems, FiniteSetTheorems, TLAPS

\* Where a thread does not yet, or no longer, work on the state it refers to.
Private == {"guard", "create", "detach", "detaching", "resume", "ended"}
\* Where it holds the network lock.
Owning  == {"own?", "own", "rpc"}

\* The thread of a removal that is under way.
Performing(r) == r.op = "cleanup" /\ r.at \in {"call", "net", "rpc", "settle", "complete"}

\* The work that is done at each place.
PlaceOK(r) ==
  /\ r.at = "ended" => r = Ended
  /\ r.holds => r.at \in Sections
  /\ r.at \in {"guard", "create"} => r.op \in Calls
  /\ r.at \in {"detach", "detaching", "shutdown"} => r.op = "close"
  /\ r.at \in {"prepare", "resume", "activate"} => r.op = "start"
  /\ r.at \in {"join", "commit"} => r.op = "register"
  /\ r.at \in {"gate", "wake", "begin", "older", "sleep", "own?", "own",
               "finish?", "finish", "record"} => r.op = "worker"
  /\ r.at \in {"claim?", "claim", "complete"} => r.op = "cleanup"
  /\ r.at = "call" => r.op \in {"register", "cleanup"}
  /\ r.at \in {"net", "rpc", "settle"} => r.op \in {"register", "worker", "cleanup"}

\* Beyond the check of the pid, a thread works on a state of its process.
OwnedOK(r) ==
  /\ r.at \notin Private => r.st \in 1 .. Len(states) /\ states[r.st].pid = pid
  /\ r.at = "resume" => r.st \in 1 .. Len(states)

AnnouncedOK(r) ==
  r.op = "cleanup" \/ r.at \in {"settle", "commit", "record"} => did.announced

\* The log manager's lock was left behind by a thread of the parent.
Orphan == logLock # NoThread /\ thr[logLock].at = "ended"

ClosingOK(r) ==
  r.op = "close" \/ r.at \in {"close", "closing"} => ~finalizer /\ ~Orphan

ThreadOK(r) == PlaceOK(r) /\ OwnedOK(r) /\ AnnouncedOK(r) /\ ClosingOK(r)

LockOK(s, i) ==
  /\ s.stateLock # NoThread =>
       /\ s.stateLock \in Threads /\ thr[s.stateLock].holds
       /\ thr[s.stateLock].st = i
  /\ s.networkLock # NoThread =>
       /\ s.networkLock \in Threads /\ thr[s.networkLock].at \in Owning
       /\ thr[s.networkLock].st = i
  /\ s.active # NoThread =>
       /\ s.active \in Threads /\ Performing(thr[s.active])
       /\ thr[s.active].st = i

Duty(s) == s.generation > 0 \/ s.registered \/ s.pending

StateOK(s, i) ==
  /\ s.pid <= pid
  /\ s.pid = pid => /\ LockOK(s, i)
                    /\ Duty(s) => did.announced
                    /\ s.closeLogs => ~finalizer /\ ~Orphan

LogOK ==
  logLock # NoThread =>
    ~finalizer /\ thr[logLock].at \in {"detaching", "closing", "ended"}

ForkInv ==
  /\ TypeOK /\ LogOK
  /\ did.removed => did.announced
  /\ \A t \in Threads : ThreadOK(thr[t])
  /\ \A i \in 1 .. Len(states) : StateOK(states[i], i)

-----------------------------------------------------------------------------
(* What a step looks like.                                                 *)

\* Thread t goes on as r; other threads stay as they are, and those that are
\* new are among fresh.
Advances(t, r, fresh) ==
  /\ thr' \in Seq(ThreadRecords) /\ Threads \subseteq Threads' /\ thr'[t] = r
  /\ \A u \in Threads : u # t => thr'[u] = thr[u]
  /\ \A u \in Threads' \ Threads : thr'[u] \in fresh

Rewrites(i, s) ==
  /\ states' \in Seq(States) /\ Len(states') = Len(states) /\ states'[i] = s
  /\ \A j \in 1 .. Len(states) : j # i => states'[j] = states[j]

\* One thread goes on as r.
LEMMA MoveView ==
  ASSUME TypeOK, NEW t \in Threads, NEW r \in ThreadRecords, thr' = [thr EXCEPT ![t] = r]
  PROVE  Advances(t, r, {})
<1>1. Threads' = Threads
  BY ExceptSeq DEF TypeOK, Threads
<1> QED BY <1>1, ExceptSeq DEF Advances, TypeOK, Threads

\* One thread goes on as r and starts another.
LEMMA SpawnView ==
  ASSUME TypeOK, NEW t \in Threads, NEW r \in ThreadRecords, NEW new \in ThreadRecords,
         thr' = Append([thr EXCEPT ![t] = r], new)
  PROVE  Advances(t, r, {new})
<1>1. /\ [thr EXCEPT ![t] = r] \in Seq(ThreadRecords)
      /\ Len([thr EXCEPT ![t] = r]) = Len(thr)
      /\ \A j \in 1 .. Len(thr) : [thr EXCEPT ![t] = r][j] = IF j = t THEN r ELSE thr[j]
  BY ExceptSeq DEF TypeOK, Threads
<1>2. Len(thr) \in Nat
  BY DEF TypeOK
<1>3. /\ thr' \in Seq(ThreadRecords) /\ Len(thr') = Len(thr) + 1
      /\ thr'[Len(thr) + 1] = new
      /\ \A j \in 1 .. Len(thr) : thr'[j] = IF j = t THEN r ELSE thr[j]
  BY <1>1, <1>2
<1>4. Threads' \ Threads = {Len(thr) + 1} /\ Threads \subseteq Threads'
  BY <1>2, <1>3 DEF Threads
<1> QED BY <1>3, <1>4 DEF Advances, Threads

\* The state i becomes s.
LEMMA RewriteView ==
  ASSUME TypeOK, NEW i \in 1 .. Len(states), NEW s \in States,
         states' = [states EXCEPT ![i] = s]
  PROVE  Rewrites(i, s)
BY ExceptSeq DEF Rewrites, TypeOK

\* No state changes: any of them becomes itself.
LEMMA StayView ==
  ASSUME TypeOK, NEW i \in 1 .. Len(states), states' = states
  PROVE  Rewrites(i, states[i])
BY DEF Rewrites, TypeOK

\* What no step but a fork does.
Frame ==
  /\ pid' = pid /\ finalizer' \in BOOLEAN /\ (finalizer' => finalizer)
  /\ did.announced => did'.announced
  /\ Orphan' => Orphan
  /\ Len(states) \in Nat /\ Len(states') \in Nat /\ Len(states) <= Len(states')
  /\ \A j \in 1 .. Len(states) : states'[j].pid = states[j].pid

\* What is true of a thread stays true of it while others take steps.
LEMMA ThreadKeeps ==
  ASSUME Frame, NEW r, ThreadOK(r)
  PROVE  ThreadOK(r)'
<1>1. PlaceOK(r)'
  BY DEF ThreadOK, PlaceOK
<1>2. OwnedOK(r)'
  BY DEF ThreadOK, OwnedOK, Frame
<1>3. AnnouncedOK(r)'
  BY DEF ThreadOK, AnnouncedOK, Frame
<1>4. ClosingOK(r)'
  BY DEF ThreadOK, ClosingOK, Frame
<1> QED BY <1>1, <1>2, <1>3, <1>4 DEF ThreadOK

\* What is true of a state stays true of it while its locks are in order.
LEMMA StateKeeps ==
  ASSUME Frame, NEW s, NEW i, StateOK(s, i), s.pid = pid => LockOK(s, i)'
  PROVE  StateOK(s, i)'
BY DEF StateOK, Frame, Duty

\* A lock stays with the thread that has it.
LEMMA LockKeeps ==
  ASSUME NEW t \in Threads, NEW r, NEW fresh, Advances(t, r, fresh),
         NEW s, NEW i, LockOK(s, i),
         s.stateLock = t => r.holds /\ r.st = i,
         s.networkLock = t => r.at \in Owning /\ r.st = i,
         s.active = t => Performing(r) /\ r.st = i
  PROVE  LockOK(s, i)'
BY DEF LockOK, Advances, Performing

\* The state does not depend on where the thread is.
Untied(t, s) == s.stateLock # t /\ s.networkLock # t /\ s.active # t

\* A step that moves one thread and rewrites one state.
LEMMA StepKeeps ==
  ASSUME ForkInv, TypeOK', Frame, LogOK', did'.removed => did'.announced,
         NEW t \in Threads, NEW r, NEW fresh, Advances(t, r, fresh),
         ThreadOK(r)', \A f \in fresh : ThreadOK(f)',
         NEW i \in 1 .. Len(states), NEW s, Rewrites(i, s), StateOK(s, i)',
         \A j \in 1 .. Len(states) :
           j # i /\ states[j].pid = pid => Untied(t, states[j])
  PROVE  ForkInv'
<1>1. ASSUME NEW u \in Threads'  PROVE ThreadOK(thr[u])'
  <2>1. CASE u = t
    BY <2>1 DEF Advances
  <2>2. CASE u \in Threads /\ u # t
    <3>1. ThreadOK(thr[u])
      BY <2>2 DEF ForkInv
    <3>2. thr'[u] = thr[u]
      BY <2>2 DEF Advances
    <3> HIDE DEF ThreadOK
    <3>3. \A q : ThreadOK(q) => ThreadOK(q)'
      BY ThreadKeeps
    <3> QED BY <3>1, <3>2, <3>3
  <2>3. CASE u \notin Threads
    BY <2>3 DEF Advances
  <2> QED BY <2>1, <2>2, <2>3
<1>2. ASSUME NEW j \in 1 .. Len(states')  PROVE StateOK(states[j], j)'
  <2>1. CASE j = i
    BY <2>1 DEF Rewrites
  <2>2. CASE j # i
    <3>1. j \in 1 .. Len(states) /\ states'[j] = states[j]
      BY <2>2 DEF Rewrites
    <3>2. StateOK(states[j], j)
      BY <3>1 DEF ForkInv
    <3>3. states[j].pid = pid => LockOK(states[j], j) /\ Untied(t, states[j])
      BY <2>2, <3>1, <3>2 DEF StateOK
    <3>4. \A q : LockOK(q, j) /\ Untied(t, q) => LockOK(q, j)'
      BY LockKeeps DEF Untied
    <3>5. \A q : StateOK(q, j) /\ (q.pid = pid => LockOK(q, j)') => StateOK(q, j)'
      BY StateKeeps
    <3>6. StateOK(states[j], j)'
      BY <3>1, <3>2, <3>3, <3>4, <3>5
    <3> QED BY <3>6
  <2> QED BY <2>1, <2>2
<1> QED BY <1>1, <1>2 DEF ForkInv


\* What a thread of this process holds: the state lock in a section it has
\* entered, the network lock around an Admin call, a removal while it performs it,
\* nothing of another state.
LEMMA Holds ==
  ASSUME ForkInv, NEW t \in Threads, NEW j \in 1 .. Len(states), states[j].pid = pid
  PROVE  /\ states[j].stateLock = t => thr[t].holds /\ thr[t].st = j
         /\ states[j].networkLock = t => thr[t].at \in Owning /\ thr[t].st = j
         /\ states[j].active = t => Performing(thr[t]) /\ thr[t].st = j
         /\ LockOK(states[j], j)
<1>1. StateOK(states[j], j)
  BY DEF ForkInv
<1>2. t # NoThread
  BY DEF Threads, NoThread
<1> QED BY <1>1, <1>2 DEF StateOK, LockOK

\* The log manager's lock stays as it is while a thread that has not got it moves.
LEMMA LogStays ==
  ASSUME ForkInv, NEW t \in Threads, NEW r, NEW fresh, Advances(t, r, fresh),
         thr[t].at \notin {"detaching", "closing", "ended"}, UNCHANGED <<logLock, finalizer>>
  PROVE  LogOK' /\ Orphan' = Orphan
<1>1. CASE logLock = NoThread
  BY <1>1 DEF LogOK, Orphan
<1>2. CASE logLock # NoThread
  <2>1. logLock \in Threads /\ logLock # t
    BY <1>2 DEF ForkInv, LogOK, TypeOK, Threads, NoThread
  <2>2. thr'[logLock] = thr[logLock]
    BY <2>1 DEF Advances
  <2> QED BY <2>2 DEF ForkInv, LogOK, Orphan
<1> QED BY <1>1, <1>2

Dids == [started : BOOLEAN, announced : BOOLEAN, removed : BOOLEAN, raced : BOOLEAN]

\* A step of one thread on one state keeps the types.
LEMMA TypeKeeps ==
  ASSUME TypeOK, NEW t \in Threads, NEW r, NEW fresh, Advances(t, r, fresh),
         r.st \in 0 .. Len(states), \A f \in fresh : f.st \in 0 .. Len(states),
         NEW i \in 1 .. Len(states), NEW s, Rewrites(i, s),
         UNCHANGED <<pid, current, calls>>, finalizer' \in BOOLEAN, did' \in Dids,
         logLock' \in 0 .. Len(thr)
  PROVE  TypeOK'
<1>1. thr' \in Seq(ThreadRecords) /\ \A u \in Threads' : thr'[u].st \in 0 .. Len(states)
  BY DEF TypeOK, Advances
<1>2. states' \in Seq(States) /\ Len(states') = Len(states)
  BY DEF Rewrites
<1>3. Len(thr) <= Len(thr') /\ Len(thr) \in Nat /\ Len(thr') \in Nat
  <2>1. Len(thr) \in Nat /\ Len(thr') \in Nat /\ 1 .. Len(thr) \subseteq 1 .. Len(thr')
    BY <1>1 DEF TypeOK, Advances, Threads
  <2> QED BY <2>1
<1> QED BY <1>1, <1>2, <1>3 DEF TypeOK, Dids

\* The step of a thread that holds nothing and leaves the states alone.
LEMMA IdleStep ==
  ASSUME ForkInv, NEW t \in Threads,
         ~thr[t].holds, thr[t].at \notin Owning, ~Performing(thr[t]),
         NEW r, Advances(t, r, {}), r.st \in 0 .. Len(states),
         UNCHANGED <<pid, states, current, finalizer, did, calls>>,
         logLock' \in 0 .. Len(thr), LogOK', Orphan' => Orphan, ThreadOK(r)
  PROVE  ForkInv'
<1>1. current \in 1 .. Len(states) /\ Rewrites(current, states[current])
  BY StayView DEF ForkInv, TypeOK
<1>2. TypeOK /\ did \in Dids /\ finalizer \in BOOLEAN
  BY DEF ForkInv, TypeOK, Dids
<1>3. TypeOK'
  BY <1>1, <1>2, TypeKeeps
<1>4. Frame
  BY <1>2 DEF Frame, TypeOK
<1>5. ThreadOK(r)'
  BY <1>4, ThreadKeeps
<1>6. \A j \in 1 .. Len(states) : states[j].pid = pid => Untied(t, states[j])
  BY Holds DEF Untied
<1>7. StateOK(states[current], current)'
  <2>1. StateOK(states[current], current)
    BY <1>1 DEF ForkInv
  <2>2. states[current].pid = pid => LockOK(states[current], current)
    BY <2>1 DEF StateOK
  <2>3. \A q : LockOK(q, current) /\ Untied(t, q) => LockOK(q, current)'
    BY LockKeeps DEF Untied
  <2>4. \A q : StateOK(q, current) /\ (q.pid = pid => LockOK(q, current)') => StateOK(q, current)'
    BY <1>4, StateKeeps
  <2> QED BY <1>1, <1>6, <2>1, <2>2, <2>3, <2>4
<1>8. did'.removed => did'.announced
  BY DEF ForkInv
<1> QED BY <1>1, <1>3, <1>4, <1>5, <1>6, <1>7, <1>8, StepKeeps

\* The history of a step that is no fork.
DidKeeps ==
  did' \in Dids /\ (did.announced => did'.announced) /\ (did'.removed => did'.announced)

\* A step that does nothing of note keeps the history in order.
LEMMA DidStays ==
  ASSUME ForkInv, did' = did
  PROVE  DidKeeps
BY DEF ForkInv, TypeOK, DidKeeps, Dids

\* What the thread that goes on as r must be allowed to do.
MayGoOn(t, r) ==
  /\ r = Ended \/ r.st = thr[t].st
  /\ PlaceOK(r) /\ (r # Ended => r.at \notin Private \ {"resume"})
  /\ r.op = "cleanup" \/ r.at \in {"settle", "commit", "record"} => did'.announced
  /\ ClosingOK(r)

MaySpawn(t, f) ==
  /\ f.st = thr[t].st /\ ~f.holds
  /\ \/ f.at = "gate" /\ f.op = "worker"
     \/ f.at = "claim?" /\ f.op = "cleanup" /\ did'.announced

\* A thread that may be started is in order from its first step on.
LEMMA SpawnFacts ==
  ASSUME NEW t \in Threads, NEW f, MaySpawn(t, f)
  PROVE  /\ PlaceOK(f) /\ AnnouncedOK(f)'
         /\ f.st = thr[t].st /\ f.at \in {"gate", "claim?"} /\ f.op \in {"worker", "cleanup"}
BY DEF MaySpawn, PlaceOK, AnnouncedOK, Ended, Thread, Calls, Sections

\* A step of a thread that works on a state of its process: the new s of the
\* state and r of the thread.
LEMMA OwnedStep ==
  ASSUME ForkInv, NEW t \in Threads, thr[t].at \notin Private \cup {"closing"},
         NEW r, NEW fresh, Advances(t, r, fresh), MayGoOn(t, r),
         \A f \in fresh : MaySpawn(t, f),
         NEW s, Rewrites(thr[t].st, s), s.pid = pid,
         UNCHANGED <<pid, current, logLock, finalizer, calls>>, DidKeeps,
         s.stateLock \in {NoThread, State(t).stateLock, t},
         s.stateLock = t => r.holds /\ r.st = thr[t].st,
         s.networkLock \in {NoThread, State(t).networkLock, t},
         s.networkLock = t => r.at \in Owning /\ r.st = thr[t].st,
         s.active \in {NoThread, State(t).active, t},
         s.active = t => Performing(r) /\ r.st = thr[t].st,
         Duty(s) => did'.announced, s.closeLogs => ~finalizer /\ ~Orphan
  PROVE  ForkInv'
<1>1. PICK i \in 1 .. Len(states) : i = thr[t].st /\ states[i].pid = pid
  BY DEF ForkInv, ThreadOK, OwnedOK
<1>2. TypeOK /\ did' \in Dids /\ finalizer \in BOOLEAN /\ logLock \in 0 .. Len(thr)
  BY DEF ForkInv, TypeOK, DidKeeps
<1>3. LogOK' /\ Orphan' = Orphan
  BY LogStays DEF Private
<1>4. TypeOK'
  <2>1. r.st \in 0 .. Len(states)
    BY <1>1 DEF MayGoOn, Ended, Thread, NoState
  <2>2. \A f \in fresh : f.st \in 0 .. Len(states)
    BY <1>1 DEF MaySpawn
  <2> QED BY <1>1, <1>2, <2>1, <2>2, TypeKeeps
<1>5. Len(states') = Len(states) /\ Len(states) \in Nat
      /\ \A j \in 1 .. Len(states) : states'[j].pid = states[j].pid
  BY <1>1, <1>2, SMTT(30) DEF Rewrites, TypeOK
<1>6. Frame
  BY <1>2, <1>3, <1>5 DEF Frame, DidKeeps
<1>7. ThreadOK(r)'
  <2>1. OwnedOK(r)'
    BY <1>1, <1>5 DEF MayGoOn, OwnedOK, Private, Ended, Thread
  <2>2. PlaceOK(r)'
    BY DEF MayGoOn, PlaceOK
  <2>3. ClosingOK(r)'
    BY <1>3 DEF MayGoOn, ClosingOK
  <2>4. AnnouncedOK(r)'
    BY DEF MayGoOn, AnnouncedOK
  <2> QED BY <2>1, <2>2, <2>3, <2>4 DEF ThreadOK
<1>8. ASSUME NEW f \in fresh PROVE ThreadOK(f)'
  <2>0. PlaceOK(f) /\ AnnouncedOK(f)' /\ f.st = thr[t].st
        /\ f.at \in {"gate", "claim?"} /\ f.op \in {"worker", "cleanup"}
    BY SpawnFacts
  <2>1. OwnedOK(f)'
    BY <1>1, <1>5, <2>0 DEF OwnedOK, Private
  <2>2. PlaceOK(f)'
    BY <2>0 DEF PlaceOK
  <2>3. ClosingOK(f)'
    BY <2>0 DEF ClosingOK
  <2> QED BY <2>0, <2>1, <2>2, <2>3 DEF ThreadOK
<1>9. \A j \in 1 .. Len(states) : j # i /\ states[j].pid = pid => Untied(t, states[j])
  BY <1>1, Holds DEF Untied
<1>10. StateOK(s, i)'
  <2>1. LockOK(states[i], i)
    BY <1>1, Holds
  <2>2. \A u \in Threads : u # t => thr'[u] = thr[u]
    BY DEF Advances
  <2>3. thr'[t] = r /\ Threads \subseteq Threads'
    BY DEF Advances
  <2>4. LockOK(s, i)'
    BY <1>1, <2>1, <2>2, <2>3, SMTT(30) DEF LockOK, Performing, State, Threads, NoThread
  <2>5. s.pid <= pid /\ pid' = pid
    BY <1>2 DEF TypeOK
  <2>6. finalizer' = finalizer
    OBVIOUS
  <2>7. Duty(s)' => did'.announced
    BY DEF Duty
  <2>8. s.closeLogs => ~finalizer' /\ ~Orphan'
    BY <1>3, <2>6
  <2> QED BY <2>4, <2>5, <2>7, <2>8 DEF StateOK
<1> QED BY <1>1, <1>3, <1>4, <1>6, <1>7, <1>8, <1>9, <1>10, StepKeeps DEF DidKeeps

-----------------------------------------------------------------------------
(* What is known of the thread that takes a step, and its step in general. *)

\* What the invariant says of one thread and of the variables.
LEMMA ThreadFacts ==
  ASSUME ForkInv, NEW t \in Threads
  PROVE  /\ t \in Nat \ {0}
         /\ thr[t] \in ThreadRecords /\ ThreadOK(thr[t]) /\ TypeOK
         /\ thr[t].st \in 0 .. Len(states)
         /\ logLock \in 0 .. Len(thr) /\ did \in Dids /\ finalizer \in BOOLEAN
BY DEF ForkInv, TypeOK, Threads, Dids

\* What it says of a thread beyond the check of the pid, and of its state.
LEMMA OwnedFacts ==
  ASSUME ForkInv, NEW t \in Threads, thr[t].at \notin Private
  PROVE  /\ thr[t].st \in 1 .. Len(states)
         /\ State(t) \in States /\ State(t).pid = pid
         /\ State(t).stateLock = t => thr[t].holds
         /\ State(t).networkLock = t => thr[t].at \in Owning
         /\ State(t).active = t => Performing(thr[t])
         /\ Duty(State(t)) => did.announced
         /\ State(t).closeLogs => ~finalizer /\ ~Orphan
<1>1. thr[t].st \in 1 .. Len(states) /\ states[thr[t].st].pid = pid
  BY ThreadFacts DEF ThreadOK, OwnedOK
<1>2. StateOK(states[thr[t].st], thr[t].st)
  BY <1>1 DEF ForkInv
<1>3. states[thr[t].st] \in States
  BY <1>1 DEF ForkInv, TypeOK
<1> QED BY <1>1, <1>2, <1>3, Holds DEF StateOK, State

\* Where a thread is after a move, and that its record keeps its type.
LEMMA MovedFacts ==
  ASSUME NEW q \in ThreadRecords, NEW place \in Places \cup {"end"}
  PROVE  /\ Moved(q, place) \in ThreadRecords
         /\ place = "end" => Moved(q, place) = Ended
         /\ place # "end" =>
              /\ Moved(q, place).op = q.op /\ Moved(q, place).at = place
              /\ Moved(q, place).st = q.st /\ ~Moved(q, place).holds
         /\ Ended \in ThreadRecords /\ Ended.op = "none" /\ Ended.at = "ended"
         /\ ~Ended.holds /\ Ended.st = 0
BY DEF Moved, ThreadRecords, Ended, Thread, NoState, Places

\* A move to another place as a step of one thread.
LEMMA GotoView ==
  ASSUME TypeOK, NEW t \in Threads, thr[t] \in ThreadRecords,
         NEW place \in Places \cup {"end"}, thr' = Goto(t, place)
  PROVE  Advances(t, Moved(thr[t], place), {})
BY MovedFacts, MoveView DEF Goto

\* A thread that holds nothing goes to another place, and no lock changes hands.
LEMMA GotoStep ==
  ASSUME ForkInv, NEW t \in Threads, ~thr[t].holds,
         thr[t].at \notin Owning \cup {"detaching", "closing", "ended"}, ~Performing(thr[t]),
         NEW place \in Places \cup {"end"}, thr' = Goto(t, place),
         UNCHANGED <<pid, states, current, logLock, finalizer, did, calls>>,
         place # "end" => ThreadOK(Moved(thr[t], place))
  PROVE  ForkInv'
<1> DEFINE r == Moved(thr[t], place)
<1>1. Advances(t, r, {}) /\ r.st \in 0 .. Len(states)
  BY ThreadFacts, GotoView, MovedFacts
<1>2. LogOK' /\ Orphan' = Orphan
  BY <1>1, LogStays
<1>3. ThreadOK(r)
  BY ThreadFacts, MovedFacts DEF ThreadOK, PlaceOK, OwnedOK, AnnouncedOK, ClosingOK, Private, Calls, Sections
<1>4. \A q : Advances(t, q, {}) /\ q.st \in 0 .. Len(states) /\ ThreadOK(q) => ForkInv'
  BY <1>2, ThreadFacts, IdleStep
<1> QED BY <1>1, <1>3, <1>4

\* The end of a section: s is what it makes of the state.
LEMMA LeaveStep ==
  ASSUME ForkInv, NEW t \in Threads, thr[t].at \in Sections, thr[t].holds,
         NEW s \in States, Leave(t, s), OnlyTheState, DidKeeps,
         NEW r, NEW fresh, Advances(t, r, fresh), MayGoOn(t, r),
         \A f \in fresh : MaySpawn(t, f),
         s.pid = State(t).pid, s.networkLock \in {NoThread, State(t).networkLock},
         thr[t].at = "own" /\ s.networkLock = t => r.at = "rpc" /\ r # Ended,
         s.active \in {NoThread, State(t).active, t}, s.active = t => Performing(r),
         Duty(s) => did'.announced, s.closeLogs => ~finalizer /\ ~Orphan
  PROVE  ForkInv'
<1>1. thr[t].at \notin Private \cup {"closing"} /\ thr[t].at \notin Owning \ {"own"}
  BY DEF Sections, Private, Owning
<1> DEFINE q == [s EXCEPT !.stateLock = NoThread]
<1>2. /\ q \in States /\ q.pid = s.pid /\ q.stateLock = NoThread
      /\ q.networkLock = s.networkLock /\ q.closeLogs = s.closeLogs /\ q.active = s.active
      /\ q.generation = s.generation /\ q.registered = s.registered /\ q.pending = s.pending
  BY DEF States, NoThread
<1>3. Rewrites(thr[t].st, q)
  BY <1>1, <1>2, OwnedFacts, ThreadFacts, RewriteView DEF Leave, Update
<1>5. s.networkLock = t => r.at \in Owning /\ r.st = thr[t].st
  BY <1>1, OwnedFacts DEF MayGoOn, Owning, NoThread, Threads
<1>6. q.active = t => Performing(r) /\ r.st = thr[t].st
  BY <1>2 DEF MayGoOn, Performing, Ended, Thread
<1>7. Duty(q) => did'.announced
  BY <1>2 DEF Duty
<1>8. UNCHANGED <<pid, current, logLock, finalizer, calls>>
  BY DEF OnlyTheState
<1>9. q.pid = pid /\ t # NoThread
  BY <1>1, <1>2, OwnedFacts DEF Threads, NoThread
<1> HIDE DEF q
<1> QED BY <1>1, <1>2, <1>3, <1>5, <1>6, <1>7, <1>8, <1>9, OwnedStep

\* A section that ends with a call of another place and changes no lock.
LEMMA LeaveTo ==
  ASSUME ForkInv, NEW t \in Threads, thr[t].at \in Sections, thr[t].holds,
         NEW s \in States, Leave(t, s), OnlyTheState, DidKeeps,
         NEW place \in Places \cup {"end"}, thr' = Goto(t, place),
         place # "end" => MayGoOn(t, Moved(thr[t], place)),
         s.pid = State(t).pid, s.networkLock \in {NoThread, State(t).networkLock},
         thr[t].at = "own" /\ s.networkLock = t => place = "rpc",
         s.active \in {NoThread, State(t).active, t},
         s.active = t => place = "call" /\ thr[t].op = "cleanup",
         Duty(s) => did'.announced, s.closeLogs => ~finalizer /\ ~Orphan
  PROVE  ForkInv'
<1> DEFINE r == Moved(thr[t], place)
<1>1. Advances(t, r, {})
  BY ThreadFacts, GotoView
<1>2. MayGoOn(t, r)
  BY ThreadFacts, MovedFacts DEF MayGoOn, PlaceOK, ClosingOK, Calls, Sections
<1>3. place = "rpc" => r # Ended /\ r.at = "rpc"
  BY ThreadFacts, MovedFacts
<1>4. s.active = t => Performing(r)
  BY ThreadFacts, MovedFacts DEF Performing
<1> HIDE DEF r
<1> QED BY <1>1, <1>2, <1>3, <1>4, LeaveStep

\* The state with other actors.
LEMMA ManagedFacts ==
  ASSUME NEW s \in States, NEW n \in Nat
  PROVE  LET q == [s EXCEPT !.actors = {n + 1}]
         IN  /\ q \in States /\ q.pid = s.pid /\ q.networkLock = s.networkLock
             /\ q.closeLogs = s.closeLogs /\ q.active = s.active
             /\ q.generation = s.generation /\ q.registered = s.registered
             /\ q.pending = s.pending
BY SMTT(60) DEF States

\* The end of a section that may leave a removal due (_schedule_pending_remove).
LEMMA SchedulingStep ==
  ASSUME ForkInv, NEW t \in Threads, thr[t].at \in Sections \ {"own"}, thr[t].holds,
         NEW s \in States, NEW place \in {"end", "idle?"}, LeaveScheduling(t, s, place),
         OnlyTheState, DidKeeps,
         s.pid = State(t).pid, s.networkLock = State(t).networkLock,
         s.active \in {NoThread, State(t).active}, s.active # t,
         Duty(s) => did'.announced, s.closeLogs => ~finalizer /\ ~Orphan
  PROVE  ForkInv'
<1> DEFINE r == Moved(thr[t], place)
           new == Thread("cleanup", "claim?", thr[t].st)
<1>1. place \in Places \cup {"end"}
  BY DEF Places, Checks
<1>2. thr[t] \in ThreadRecords /\ ThreadOK(thr[t]) /\ TypeOK /\ thr[t].st \in Nat
  BY ThreadFacts DEF TypeOK
<1>3. MayGoOn(t, r)
  BY <1>1, <1>2, MovedFacts
     DEF MayGoOn, ThreadOK, PlaceOK, AnnouncedOK, ClosingOK, DidKeeps, Private, Sections, Calls
<1>4. CASE Leave(t, s) /\ thr' = Goto(t, place)
  BY <1>1, <1>3, <1>4, LeaveTo
<1>5. CASE /\ s.pending
           /\ Leave(t, [s EXCEPT !.actors = {Len(thr) + 1}])
           /\ thr' = Append(Goto(t, place), new)
  <2> DEFINE q == [s EXCEPT !.actors = {Len(thr) + 1}]
  <2>0. Len(thr) \in Nat
    BY <1>2 DEF TypeOK
  <2>1. /\ q \in States /\ q.pid = s.pid /\ q.networkLock = s.networkLock
        /\ q.closeLogs = s.closeLogs /\ q.active = s.active
        /\ q.generation = s.generation /\ q.registered = s.registered /\ q.pending = s.pending
    BY <2>0, ManagedFacts
  <2>2. Duty(q) => did'.announced
    BY <2>1 DEF Duty
  <2>3. new \in ThreadRecords
    BY <1>2 DEF ThreadRecords, Thread, Places, Checks
  <2>4. Advances(t, r, {new})
    BY <1>1, <1>2, <1>5, <2>3, MovedFacts, SpawnView DEF Goto
  <2>5. MaySpawn(t, new)
    BY <1>5 DEF MaySpawn, Thread, Duty
  <2>6. Leave(t, q)
    BY <1>5
  <2> HIDE DEF q, new, r
  <2> QED BY <1>3, <2>1, <2>2, <2>4, <2>5, <2>6, LeaveStep
<1> QED BY <1>4, <1>5 DEF LeaveScheduling

-----------------------------------------------------------------------------
(* The actions *)

\* _get_process_state reads the pid: the state taken is one of this process.
LEMMA GuardReadKeeps ==
  ASSUME ForkInv, NEW t \in Threads, GuardRead(t)
  PROVE  ForkInv'
<1>1. /\ thr[t] \in ThreadRecords /\ ThreadOK(thr[t]) /\ TypeOK
      /\ thr[t].at = "guard" /\ ~thr[t].holds /\ thr[t].op \in Calls /\ ~Performing(thr[t])
  BY ThreadFacts DEF GuardRead, At, ThreadOK, PlaceOK, Performing, Sections
<1>2. UNCHANGED <<pid, states, current, logLock, finalizer, did, calls>>
  BY DEF GuardRead, memory
<1>3. CASE states[current].pid = pid /\ Fetch(t, current)
  <2> DEFINE r == [thr[t] EXCEPT !.st = current, !.at = FirstSection(thr[t].op)]
  <2>1. current \in 1 .. Len(states) /\ current \in Nat
    BY <1>1 DEF TypeOK
  <2>2. FirstSection(thr[t].op) \in Sections
    BY <1>1 DEF FirstSection, Calls, Sections
  <2>3. /\ r \in ThreadRecords /\ r.op = thr[t].op /\ r.st = current
        /\ r.at = FirstSection(thr[t].op) /\ ~r.holds
    BY <1>1, <2>1, <2>2 DEF ThreadRecords, Places
  <2>4. Advances(t, r, {})
    BY <1>1, <1>3, <2>3, MoveView DEF Fetch
  <2>5. LogOK' /\ Orphan' = Orphan
    BY <1>1, <1>2, <2>4, LogStays
  <2>6. ThreadOK(r)
    BY <1>1, <1>3, <2>1, <2>3
       DEF FirstSection, Calls, ThreadOK, PlaceOK, OwnedOK, AnnouncedOK, ClosingOK, Ended, Thread
  <2> HIDE DEF r
  <2> QED BY <1>1, <1>2, <2>1, <2>3, <2>4, <2>5, <2>6, ThreadFacts, IdleStep DEF Owning
<1>4. CASE thr' = Goto(t, "create")
  <2>1. "create" \in Places
    BY DEF Places
  <2>2. ThreadOK(Moved(thr[t], "create"))
    BY <1>1, <2>1, MovedFacts
       DEF ThreadOK, PlaceOK, OwnedOK, AnnouncedOK, ClosingOK, Private, Sections, Calls
  <2> QED BY <1>1, <1>2, <1>4, <2>1, <2>2, GotoStep DEF Owning
<1> QED BY <1>3, <1>4 DEF GuardRead

\* The moves of a thread that holds nothing and changes no state.
LEMMA IdleMovesKeep ==
  ASSUME ForkInv, NEW t \in Threads,
         ResumeStart(t) \/ GateOpens(t) \/ OlderRemoved(t) \/ Renew(t) \/ StopEvent(t)
  PROVE  ForkInv'
<1>1. thr[t] \in ThreadRecords /\ ThreadOK(thr[t])
  BY ThreadFacts
<1>0. ~Performing(thr[t])
  BY <1>1 DEF ResumeStart, GateOpens, OlderRemoved, Renew, StopEvent, At, Performing
<1>2. UNCHANGED <<pid, states, current, logLock, finalizer, did, calls>>
  BY DEF ResumeStart, GateOpens, OlderRemoved, Renew, StopEvent, OnlyTheState
<1>3. CASE ResumeStart(t)
  <2>1. CASE thr' = Goto(t, "end")
    BY <1>0, <1>1, <1>2, <1>3, <2>1, GotoStep DEF ResumeStart, At, ThreadOK, PlaceOK, Owning, Sections
  <2>2. CASE thr' = Goto(t, "activate") /\ State(t).pid = pid
    <3>1. "activate" \in Places
      BY DEF Places, Sections
    <3>2. thr[t].at = "resume" /\ ~thr[t].holds
      BY <1>1, <1>3 DEF ResumeStart, At, ThreadOK, PlaceOK, Sections
    <3>3. ThreadOK(Moved(thr[t], "activate"))
      BY <1>1, <2>2, <3>1, <3>2, MovedFacts
         DEF State, ThreadOK, PlaceOK, OwnedOK, AnnouncedOK, ClosingOK, Private, Sections
    <3> QED BY <1>0, <1>2, <2>2, <3>1, <3>2, <3>3, GotoStep DEF Owning
  <2> QED BY <1>3, <2>1, <2>2 DEF ResumeStart
<1>4. CASE GateOpens(t) \/ OlderRemoved(t) \/ Renew(t)
  <2>1. "wake" \in Places /\ thr' = Goto(t, "wake")
    BY <1>4 DEF Places, Checks, GateOpens, OlderRemoved, Renew
  <2>2. thr[t].at \in {"gate", "older", "sleep"} /\ ~thr[t].holds
    BY <1>1, <1>4 DEF GateOpens, OlderRemoved, Renew, At, ThreadOK, PlaceOK, Sections
  <2>3. ThreadOK(Moved(thr[t], "wake"))
    BY <1>1, <2>1, <2>2, MovedFacts
       DEF ThreadOK, PlaceOK, OwnedOK, AnnouncedOK, ClosingOK, Private, Sections
  <2> QED BY <1>0, <1>2, <2>1, <2>2, <2>3, GotoStep DEF Owning
<1>5. CASE StopEvent(t)
  <2>1. "finish?" \in Places /\ thr' = Goto(t, "finish?")
    BY <1>5 DEF Places, Checks, StopEvent
  <2>2. thr[t].at = "sleep" /\ ~thr[t].holds
    BY <1>1, <1>5 DEF StopEvent, At, ThreadOK, PlaceOK, Sections
  <2>3. ThreadOK(Moved(thr[t], "finish?"))
    BY <1>1, <2>1, <2>2, MovedFacts
       DEF ThreadOK, PlaceOK, OwnedOK, AnnouncedOK, ClosingOK, Private, Sections
  <2> QED BY <1>0, <1>2, <2>1, <2>2, <2>3, GotoStep DEF Owning
<1> QED BY <1>3, <1>4, <1>5

\* A state that was replaced, once a thread has given up what it had of it.
Freed(q, t) ==
  [q EXCEPT !.networkLock = IF @ = t THEN NoThread ELSE @,
            !.active      = IF @ = t THEN NoThread ELSE @]

LEMMA ReplacedFacts ==
  ASSUME NEW q \in States, NEW t \in Nat \ {0}
  PROVE  LET s == Freed(q, t)
         IN  /\ s \in States /\ s.pid = q.pid /\ s.stateLock = q.stateLock
             /\ s.networkLock \in {NoThread, q.networkLock} /\ s.networkLock # t
             /\ s.active \in {NoThread, q.active} /\ s.active # t
             /\ s.closeLogs = q.closeLogs /\ s.generation = q.generation
             /\ s.registered = q.registered /\ s.pending = q.pending
             /\ s.worker = q.worker /\ s.prepared = q.prepared
<1>1. PICK n \in Nat, a \in Nat :
        /\ n = (IF q.networkLock = t THEN NoThread ELSE q.networkLock)
        /\ a = (IF q.active = t THEN NoThread ELSE q.active)
  BY DEF States, NoThread
<1>2. n \in {NoThread, q.networkLock} /\ n # t /\ a \in {NoThread, q.active} /\ a # t
  BY <1>1 DEF NoThread
<1> DEFINE s == [q EXCEPT !.networkLock = n, !.active = a]
<1>3. s = Freed(q, t)
  BY <1>1 DEF Freed
<1>4. /\ s \in States /\ s.pid = q.pid /\ s.stateLock = q.stateLock
      /\ s.networkLock = n /\ s.active = a
      /\ s.closeLogs = q.closeLogs /\ s.generation = q.generation
      /\ s.registered = q.registered /\ s.pending = q.pending
      /\ s.worker = q.worker /\ s.prepared = q.prepared
  BY DEF States
<1> HIDE DEF s
<1> QED BY <1>2, <1>3, <1>4

\* _state_is_current: a thread whose state was replaced ends and frees the network lock.
LEMMA RecheckKeeps ==
  ASSUME ForkInv, NEW t \in Threads, Recheck(t)
  PROVE  ForkInv'
<1>1. /\ thr[t] \in ThreadRecords /\ ThreadOK(thr[t]) /\ TypeOK /\ t \in Nat \ {0}
      /\ thr[t].at \in Checks /\ thr[t].at \notin Private \cup {"closing"} /\ ~thr[t].holds
  BY ThreadFacts DEF Recheck, Checks, Private, Sections, ThreadOK, PlaceOK
<1>2. UNCHANGED <<pid, current, logLock, finalizer, did, calls>> /\ DidKeeps
  BY DidStays DEF Recheck
<1>3. CASE thr' = Goto(t, Checked(t)) /\ states' = states
  <2> DEFINE r == Moved(thr[t], Checked(t))
  <2>1. /\ Checked(t) \in Places
        /\ thr[t].at = "call" => Checked(t) = "net"
        /\ thr[t].at = "own?" => Checked(t) = "own"
        /\ thr[t].at = "wake" => Checked(t) = "begin"
        /\ thr[t].at = "finish?" => Checked(t) = "finish"
        /\ thr[t].at = "claim?" => Checked(t) = "claim"
        /\ thr[t].at = "idle?" => Checked(t) = "idle"
        /\ thr[t].at = "settle" =>
             \/ thr[t].op = "register" /\ Checked(t) = "commit"
             \/ thr[t].op = "worker" /\ Checked(t) = "record"
             \/ thr[t].op = "cleanup" /\ Checked(t) = "complete"
    BY <1>1 DEF Checked, At, Checks, Places, Sections, ThreadOK, PlaceOK
  <2>2. r.op = thr[t].op /\ r.at = Checked(t) /\ r.st = thr[t].st /\ ~r.holds
    BY <1>1, <2>1, MovedFacts DEF Places, Checks, Sections
  <2>3. MayGoOn(t, r)
    BY <1>1, <1>2, <2>1, <2>2
       DEF MayGoOn, DidKeeps, Checks, Private, Sections, Calls, ThreadOK, PlaceOK, AnnouncedOK, ClosingOK
  <2>4. Advances(t, r, {})
    BY <1>1, <1>3, <2>1, GotoView
  <2>5. Rewrites(thr[t].st, State(t))
    BY <1>1, <1>3, OwnedFacts, StayView DEF State
  <2>6. /\ State(t).networkLock = t => r.at \in Owning
        /\ State(t).active = t => Performing(r)
    BY <1>1, <2>1, <2>2, OwnedFacts DEF Owning, Performing, Checks
  <2>7. Duty(State(t)) => did'.announced
    BY <1>1, <1>2, OwnedFacts DEF DidKeeps
  <2> HIDE DEF r
  <2> QED BY <1>1, <1>2, <2>2, <2>3, <2>4, <2>5, <2>6, <2>7, OwnedFacts, OwnedStep
<1>4. CASE thr' = Goto(t, "end")
           /\ Update(t, [State(t) EXCEPT !.networkLock = IF @ = t THEN NoThread ELSE @,
                                           !.active      = IF @ = t THEN NoThread ELSE @])
  <2> DEFINE s == Freed(State(t), t)
  <2>1. Advances(t, Ended, {})
    BY <1>1, <1>4, GotoView, MovedFacts
  <2>2. /\ s \in States /\ s.pid = State(t).pid /\ s.stateLock = State(t).stateLock
        /\ s.networkLock \in {NoThread, State(t).networkLock} /\ s.networkLock # t
        /\ s.active \in {NoThread, State(t).active} /\ s.active # t
        /\ s.closeLogs = State(t).closeLogs
        /\ s.generation = State(t).generation /\ s.registered = State(t).registered
        /\ s.pending = State(t).pending
    BY <1>1, OwnedFacts, ReplacedFacts
  <2>3. Rewrites(thr[t].st, s)
    <3>1. Update(t, s)
      BY <1>4 DEF Freed
    <3> QED BY <1>1, <2>2, <3>1, OwnedFacts, RewriteView DEF Update
  <2>4. Duty(s) => did'.announced
    BY <1>1, <1>2, <2>2, OwnedFacts DEF Duty
  <2>5. MayGoOn(t, Ended)
    BY DEF MayGoOn, PlaceOK, ClosingOK, Ended, Thread, Calls, Sections
  <2> HIDE DEF s
  <2> QED BY <1>1, <1>2, <2>1, <2>2, <2>3, <2>4, <2>5, OwnedFacts, OwnedStep
<1> QED BY <1>3, <1>4 DEF Recheck

\* A thread takes the state lock of its own state.
LEMMA EnterKeeps ==
  ASSUME ForkInv, NEW t \in Threads, Enter(t)
  PROVE  ForkInv'
<1>1. /\ thr[t] \in ThreadRecords /\ ThreadOK(thr[t]) /\ TypeOK
      /\ thr[t].at \in Sections /\ thr[t].at \notin Private \cup {"closing"} /\ ~thr[t].holds
  BY ThreadFacts DEF Enter, Private, Sections
<1>2. UNCHANGED <<pid, current, logLock, finalizer, did, calls>> /\ DidKeeps
  BY DidStays DEF Enter
<1> DEFINE r == [thr[t] EXCEPT !.holds = TRUE]
           s == [State(t) EXCEPT !.stateLock = t]
<1>3. /\ r \in ThreadRecords /\ r.op = thr[t].op /\ r.at = thr[t].at
      /\ r.st = thr[t].st /\ r.holds
  BY <1>1 DEF ThreadRecords
<1>4. Advances(t, r, {})
  BY <1>1, <1>3, MoveView DEF Enter
<1>5. /\ s \in States /\ s.pid = State(t).pid /\ s.stateLock = t
      /\ s.networkLock = State(t).networkLock /\ s.closeLogs = State(t).closeLogs
      /\ s.generation = State(t).generation /\ s.registered = State(t).registered
      /\ s.pending = State(t).pending /\ s.active = State(t).active
  BY <1>1, OwnedFacts, ThreadFacts, SMTT(30) DEF States
<1>6. Rewrites(thr[t].st, s)
  BY <1>1, <1>5, OwnedFacts, RewriteView DEF Enter, Update
<1>7. Duty(s) => did'.announced
  BY <1>1, <1>2, <1>5, OwnedFacts DEF Duty
<1>8. MayGoOn(t, r)
  BY <1>1, <1>2, <1>3
     DEF MayGoOn, DidKeeps, ThreadOK, PlaceOK, AnnouncedOK, ClosingOK, Ended, Thread, Sections
<1>9. /\ s.networkLock = t => r.at \in Owning
      /\ s.active = t => Performing(r)
  BY <1>1, <1>3, <1>5, OwnedFacts DEF Performing
<1> HIDE DEF r, s
<1> QED BY <1>1, <1>2, <1>3, <1>4, <1>5, <1>6, <1>7, <1>8, <1>9, OwnedFacts, OwnedStep

\* The Admin call ends; a removal is sent for what was announced.
LEMMA AnswerKeeps ==
  ASSUME ForkInv, NEW t \in Threads, Answer(t)
  PROVE  ForkInv'
<1>1. /\ thr[t] \in ThreadRecords /\ ThreadOK(thr[t]) /\ TypeOK /\ t \in Nat \ {0}
      /\ thr[t].at = "rpc" /\ thr[t].at \notin Private \cup {"closing"} /\ ~thr[t].holds
  BY ThreadFacts DEF Answer, At, Private, Sections, ThreadOK, PlaceOK
<1>2. UNCHANGED <<pid, current, logLock, finalizer, calls>> /\ did \in Dids
  BY ThreadFacts DEF Answer, OnlyTheState
<1>3. DidKeeps /\ did'.announced
  BY <1>1, <1>2 DEF Answer, DidKeeps, Dids, ForkInv, ThreadOK, AnnouncedOK
<1> DEFINE r == Moved(thr[t], "settle")
           s == [State(t) EXCEPT !.networkLock = NoThread]
<1>4. r.op = thr[t].op /\ r.at = "settle" /\ r.st = thr[t].st /\ ~r.holds /\ "settle" \in Places
  BY <1>1, MovedFacts DEF Places, Checks
<1>5. Advances(t, r, {})
  BY <1>1, <1>4, GotoView DEF Answer
<1>6. /\ s \in States /\ s.pid = State(t).pid /\ s.stateLock = State(t).stateLock
      /\ s.networkLock = NoThread /\ s.closeLogs = State(t).closeLogs /\ s.active = State(t).active
  BY <1>1, OwnedFacts, SMTT(30) DEF States, NoThread
<1>7. Rewrites(thr[t].st, s)
  BY <1>1, <1>6, OwnedFacts, RewriteView DEF Answer, Update
<1>8. MayGoOn(t, r)
  BY <1>1, <1>3, <1>4
     DEF MayGoOn, ThreadOK, PlaceOK, ClosingOK, Private, Sections, Calls
<1>9. s.networkLock # t /\ (s.active = t => Performing(r))
  BY <1>1, <1>4, <1>6, OwnedFacts DEF Performing, NoThread
<1> HIDE DEF r, s
<1> QED BY <1>1, <1>2, <1>3, <1>4, <1>5, <1>6, <1>7, <1>8, <1>9, OwnedFacts, OwnedStep

\* A thread takes the network lock of its own state.
LEMMA TakeNetworkLockKeeps ==
  ASSUME ForkInv, NEW t \in Threads, TakeNetworkLock(t)
  PROVE  ForkInv'
<1>1. /\ thr[t] \in ThreadRecords /\ ThreadOK(thr[t]) /\ TypeOK /\ t \in Nat \ {0}
      /\ thr[t].at = "net" /\ thr[t].at \notin Private \cup {"closing"} /\ ~thr[t].holds
      /\ thr[t].op \in {"register", "worker", "cleanup"}
  BY ThreadFacts DEF TakeNetworkLock, At, Private, Sections, ThreadOK, PlaceOK
<1>2. UNCHANGED <<pid, current, logLock, finalizer, calls, did>> /\ DidKeeps
  BY DidStays DEF TakeNetworkLock, OnlyTheState
<1> DEFINE place == IF thr[t].op = "worker" THEN "own?" ELSE "rpc"
           r == Moved(thr[t], place)
           s == [State(t) EXCEPT !.networkLock = t]
<1>3. place \in Owning /\ place \in Places
  BY DEF Owning, Places, Checks
<1>4. r.op = thr[t].op /\ r.at = place /\ r.st = thr[t].st /\ ~r.holds
  BY <1>1, <1>3, MovedFacts DEF Owning
<1>5. Advances(t, r, {})
  BY <1>1, <1>3, GotoView DEF TakeNetworkLock
<1>6. /\ s \in States /\ s.pid = State(t).pid /\ s.stateLock = State(t).stateLock
      /\ s.networkLock = t /\ s.closeLogs = State(t).closeLogs /\ s.active = State(t).active
      /\ s.generation = State(t).generation /\ s.registered = State(t).registered
      /\ s.pending = State(t).pending
  BY <1>1, OwnedFacts, SMTT(30) DEF States
<1>7. Rewrites(thr[t].st, s)
  BY <1>1, <1>6, OwnedFacts, RewriteView DEF TakeNetworkLock, Update
<1>8. MayGoOn(t, r)
  BY <1>1, <1>2, <1>4
     DEF MayGoOn, DidKeeps, ThreadOK, PlaceOK, AnnouncedOK, ClosingOK, Private, Sections, Calls
<1>9. Duty(s) => did'.announced
  BY <1>1, <1>2, <1>6, OwnedFacts DEF Duty
<1>10. s.active = t => Performing(r)
  <2>1. place = "rpc" \/ thr[t].op # "cleanup"
    OBVIOUS
  <2> QED BY <1>1, <1>4, <1>6, <2>1, OwnedFacts DEF Performing
<1> HIDE DEF r, s, place
<1> QED BY <1>1, <1>2, <1>3, <1>4, <1>5, <1>6, <1>7, <1>8, <1>9, <1>10, OwnedFacts, OwnedStep

\* What is known of a thread in a section.
LEMMA SectionFacts ==
  ASSUME ForkInv, NEW t \in Threads, NEW section \in Sections, Inside(t, section)
  PROVE  /\ t \in Nat \ {0} /\ thr[t].holds /\ thr[t].at = section
         /\ thr[t] \in ThreadRecords /\ ThreadOK(thr[t]) /\ TypeOK
         /\ thr[t].at \notin Private
         /\ State(t) \in States
         /\ Duty(State(t)) => did.announced
         /\ State(t).closeLogs => ~finalizer /\ ~Orphan
         /\ section # "own" => State(t).networkLock # t
         /\ section # "complete" => State(t).active # t
<1>1. thr[t].at = section /\ thr[t].holds /\ thr[t].at \notin Private
  BY DEF Inside, At, Sections, Private
<1>2. section # "own" => section \notin Owning
  BY DEF Owning, Sections
<1>3. section # "complete" => ~Performing(thr[t])
  BY <1>1 DEF Performing, Sections
<1> QED BY <1>1, <1>2, <1>3, ThreadFacts, OwnedFacts

\* status reads under the state lock.
LEMMA StatusKeeps ==
  ASSUME ForkInv, NEW t \in Threads, StatusSnapshot(t)
  PROVE  ForkInv'
<1>1. Inside(t, "status") /\ "status" \in Sections
  BY DEF StatusSnapshot, Sections
<1>2. DidKeeps /\ did' = did
  BY DidStays DEF StatusSnapshot
<1> QED BY <1>1, <1>2, SectionFacts, LeaveTo DEF StatusSnapshot, DidKeeps, Sections

\* The state of a new lifecycle.
Activated(q) ==
  [q EXCEPT !.generation = @ + 1, !.worker = q.prepared, !.prepared = NoThread,
            !.older = q.active, !.pending = FALSE, !.inflight = 0, !.cleanup = FALSE]

LEMMA ActivatedType ==
  ASSUME NEW q \in States
  PROVE  LET s == Activated(q)
         IN  /\ s \in States /\ s.pid = q.pid /\ s.networkLock = q.networkLock
             /\ s.active = q.active /\ s.closeLogs = q.closeLogs
             /\ s.generation = q.generation + 1 /\ s.prepared = NoThread
             /\ s.worker = q.prepared /\ ~s.pending /\ s.inflight = 0 /\ ~s.cleanup
             /\ s.stopping = q.stopping /\ s.actors = q.actors
<1>1. q.generation + 1 \in Nat /\ q.prepared \in Nat /\ q.active \in Nat
  BY DEF States
<1> DEFINE a1 == [q EXCEPT !.generation = @ + 1]
           a2 == [a1 EXCEPT !.worker = q.prepared]
           a3 == [a2 EXCEPT !.prepared = NoThread]
           a4 == [a3 EXCEPT !.older = q.active]
           a5 == [a4 EXCEPT !.pending = FALSE]
           a6 == [a5 EXCEPT !.inflight = 0]
           a7 == [a6 EXCEPT !.cleanup = FALSE]
<1> HIDE DEF a1, a2, a3, a4, a5, a6, a7
<1>2. /\ a1 \in States /\ a1.pid = q.pid /\ a1.networkLock = q.networkLock
      /\ a1.active = q.active /\ a1.closeLogs = q.closeLogs
      /\ a1.generation = q.generation + 1 /\ a1.stopping = q.stopping /\ a1.actors = q.actors
  BY <1>1 DEF States, a1
<1>3. /\ a2 \in States /\ a2.pid = q.pid /\ a2.networkLock = q.networkLock
      /\ a2.active = q.active /\ a2.closeLogs = q.closeLogs /\ a2.worker = q.prepared
      /\ a2.generation = q.generation + 1 /\ a2.stopping = q.stopping /\ a2.actors = q.actors
  BY <1>1, <1>2 DEF States, a2
<1>4. /\ a3 \in States /\ a3.pid = q.pid /\ a3.networkLock = q.networkLock
      /\ a3.active = q.active /\ a3.closeLogs = q.closeLogs /\ a3.worker = q.prepared
      /\ a3.generation = q.generation + 1 /\ a3.stopping = q.stopping /\ a3.actors = q.actors
      /\ a3.prepared = NoThread
  BY <1>3 DEF States, NoThread, a3
<1>5. /\ a4 \in States /\ a4.pid = q.pid /\ a4.networkLock = q.networkLock
      /\ a4.active = q.active /\ a4.closeLogs = q.closeLogs /\ a4.worker = q.prepared
      /\ a4.generation = q.generation + 1 /\ a4.stopping = q.stopping /\ a4.actors = q.actors
      /\ a4.prepared = NoThread
  BY <1>1, <1>4 DEF States, a4
<1>6. /\ a5 \in States /\ a5.pid = q.pid /\ a5.networkLock = q.networkLock
      /\ a5.active = q.active /\ a5.closeLogs = q.closeLogs /\ a5.worker = q.prepared
      /\ a5.generation = q.generation + 1 /\ a5.stopping = q.stopping /\ a5.actors = q.actors
      /\ a5.prepared = NoThread /\ ~a5.pending
  BY <1>5 DEF States, a5
<1>7. /\ a6 \in States /\ a6.pid = q.pid /\ a6.networkLock = q.networkLock
      /\ a6.active = q.active /\ a6.closeLogs = q.closeLogs /\ a6.worker = q.prepared
      /\ a6.generation = q.generation + 1 /\ a6.stopping = q.stopping /\ a6.actors = q.actors
      /\ a6.prepared = NoThread /\ ~a6.pending /\ a6.inflight = 0
  BY <1>6 DEF States, a6
<1>8. /\ a7 \in States /\ a7.pid = q.pid /\ a7.networkLock = q.networkLock
      /\ a7.active = q.active /\ a7.closeLogs = q.closeLogs /\ a7.worker = q.prepared
      /\ a7.generation = q.generation + 1 /\ a7.stopping = q.stopping /\ a7.actors = q.actors
      /\ a7.prepared = NoThread /\ ~a7.pending /\ a7.inflight = 0 /\ ~a7.cleanup
  BY <1>7 DEF States, a7
<1>9. a7 = Activated(q)
  BY DEF Activated, a1, a2, a3, a4, a5, a6, a7
<1> QED BY <1>8, <1>9

\* The state after a shutdown.
ShutState(q, stopping, cleanup, pending) ==
  [q EXCEPT !.prepared = NoThread, !.worker = NoThread, !.stopping = stopping,
            !.closeLogs = TRUE, !.cleanup = cleanup, !.pending = pending]

LEMMA ShutType ==
  ASSUME NEW q \in States, NEW stopping \in SUBSET Nat, NEW cleanup \in BOOLEAN,
         NEW pending \in BOOLEAN
  PROVE  LET s == ShutState(q, stopping, cleanup, pending)
         IN  /\ s \in States /\ s.pid = q.pid /\ s.networkLock = q.networkLock
             /\ s.active = q.active /\ s.generation = q.generation
             /\ s.registered = q.registered /\ s.pending = pending
             /\ s.prepared = NoThread /\ s.worker = NoThread /\ s.stopping = stopping
             /\ s.cleanup = cleanup /\ s.actors = q.actors /\ s.inflight = q.inflight
<1> DEFINE p == [q EXCEPT !.prepared = NoThread, !.worker = NoThread, !.stopping = stopping]
           s == [p EXCEPT !.closeLogs = TRUE, !.cleanup = cleanup, !.pending = pending]
<1>1. /\ p \in States /\ p.pid = q.pid /\ p.networkLock = q.networkLock
      /\ p.active = q.active /\ p.generation = q.generation /\ p.registered = q.registered
      /\ p.prepared = NoThread /\ p.worker = NoThread /\ p.stopping = stopping
      /\ p.actors = q.actors /\ p.inflight = q.inflight
  BY DEF States, NoThread
<1>2. s = ShutState(q, stopping, cleanup, pending)
  BY DEF ShutState
<1> HIDE DEF p
<1>3. /\ s \in States /\ s.pid = p.pid /\ s.networkLock = p.networkLock
      /\ s.active = p.active /\ s.generation = p.generation
      /\ s.registered = p.registered /\ s.pending = pending
      /\ s.prepared = p.prepared /\ s.worker = p.worker /\ s.stopping = p.stopping
      /\ s.cleanup = cleanup /\ s.actors = p.actors /\ s.inflight = p.inflight
  BY <1>1 DEF States
<1> HIDE DEF s
<1> QED BY <1>1, <1>2, <1>3

\* The state a registration leaves.
LEMMA CommitView ==
  ASSUME NEW t \in Threads, State(t) \in States, CommitRegister(t)
  PROVE  LET s0 == State(t)
             mine == thr[t].token = s0.generation + 1
             last == mine /\ s0.inflight = 1
         IN  \E s \in States :
               /\ LeaveScheduling(t, s, IF thr[t].token = 0 THEN "end" ELSE "idle?")
               /\ s.pid = s0.pid /\ s.networkLock = s0.networkLock /\ s.active = s0.active
               /\ s.inflight = (IF mine THEN s0.inflight - 1 ELSE s0.inflight)
               /\ s.generation = s0.generation
               /\ s.prepared = s0.prepared /\ s.worker = s0.worker
               /\ s.stopping = s0.stopping /\ s.actors = s0.actors
               /\ s.closeLogs = s0.closeLogs /\ s.logsClosed = s0.logsClosed
               /\ s0.pending => s.pending
               /\ s.cleanup => s0.cleanup /\ (~last \/ s.pending)
               /\ ~mine => s.pending = s0.pending /\ s.cleanup = s0.cleanup
<1> DEFINE s0 == State(t)
           mine == thr[t].token = s0.generation + 1
           last == mine /\ s0.inflight = 1
           k == IF mine THEN s0.inflight - 1 ELSE s0.inflight
           place == IF thr[t].token = 0 THEN "end" ELSE "idle?"
           raw(b) == [s0 EXCEPT !.registered = @ \/ b,
                                !.inflight = IF thr[t].token = s0.generation + 1 THEN @ - 1 ELSE @]
           due(b) == last /\ s0.cleanup /\ CleanupDue(raw(b))
           end(b) == [raw(b) EXCEPT !.pending = @ \/ due(b), !.cleanup = @ /\ (~last \/ due(b))]
<1>1. PICK b \in BOOLEAN : LeaveScheduling(t, end(b), place)
  BY Zenon DEF CommitRegister
<1>2. PICK q \in States :
        /\ raw(b) = q /\ q.inflight = k
        /\ q.pid = s0.pid /\ q.networkLock = s0.networkLock /\ q.active = s0.active
        /\ q.generation = s0.generation /\ q.prepared = s0.prepared /\ q.worker = s0.worker
        /\ q.stopping = s0.stopping /\ q.actors = s0.actors
        /\ q.closeLogs = s0.closeLogs /\ q.logsClosed = s0.logsClosed
        /\ q.pending = s0.pending /\ q.cleanup = s0.cleanup
  <2> DEFINE registered == s0.registered \/ b
             q == [s0 EXCEPT !.registered = registered, !.inflight = k]
  <2>1. raw(b) = q
    BY DEF States
  <2>2. registered \in BOOLEAN /\ k \in Int
    BY DEF States
  <2> HIDE DEF registered, k, s0
  <2>3. q \in States /\ q.inflight = k
    BY <2>2 DEF States, s0
  <2>4. /\ q.pid = s0.pid /\ q.networkLock = s0.networkLock /\ q.active = s0.active
        /\ q.generation = s0.generation /\ q.prepared = s0.prepared /\ q.worker = s0.worker
        /\ q.stopping = s0.stopping /\ q.actors = s0.actors
        /\ q.closeLogs = s0.closeLogs /\ q.logsClosed = s0.logsClosed
        /\ q.pending = s0.pending /\ q.cleanup = s0.cleanup
    BY DEF States, s0
  <2> HIDE DEF q, raw
  <2> QED BY <2>1, <2>3, <2>4
<1>3. \A u \in States : u.pending \in BOOLEAN /\ u.cleanup \in BOOLEAN
  BY DEF States
<1>4. due(b) \in BOOLEAN /\ (due(b) => last)
  OBVIOUS
<1> HIDE DEF raw, due
<1>5. PICK p \in BOOLEAN, c \in BOOLEAN :
        p = (q.pending \/ due(b)) /\ c = (q.cleanup /\ (~last \/ due(b)))
  BY <1>3, <1>4
<1>6. end(b) = [q EXCEPT !.pending = p, !.cleanup = c]
  BY <1>2, <1>5
<1> DEFINE s == [q EXCEPT !.pending = p, !.cleanup = c]
<1>7. /\ s \in States /\ s.inflight = q.inflight /\ s.pending = p /\ s.cleanup = c
      /\ s.pid = q.pid /\ s.networkLock = q.networkLock /\ s.active = q.active
      /\ s.generation = q.generation /\ s.prepared = q.prepared /\ s.worker = q.worker
      /\ s.stopping = q.stopping /\ s.actors = q.actors
      /\ s.closeLogs = q.closeLogs /\ s.logsClosed = q.logsClosed
  BY DEF States
<1> HIDE DEF s, end
<1>8. LeaveScheduling(t, s, place)
  BY <1>1, <1>6 DEF s
<1>9. /\ s0.pending => s.pending
      /\ s.cleanup => s0.cleanup /\ (~last \/ s.pending)
      /\ ~mine => s.pending = s0.pending /\ s.cleanup = s0.cleanup
  BY <1>2, <1>3, <1>4, <1>5, <1>7
<1> HIDE DEF mine, last, place, k
<1>10. /\ s.pid = s0.pid /\ s.networkLock = s0.networkLock /\ s.active = s0.active
       /\ s.generation = s0.generation /\ s.prepared = s0.prepared /\ s.worker = s0.worker
       /\ s.stopping = s0.stopping /\ s.actors = s0.actors /\ s.inflight = k
       /\ s.closeLogs = s0.closeLogs /\ s.logsClosed = s0.logsClosed
  BY <1>2, <1>7
<1> QED BY <1>7, <1>8, <1>9, <1>10 DEF mine, last, place, k

\* A registration joins the window.
LEMMA JoinRegisterKeeps ==
  ASSUME ForkInv, NEW t \in Threads, JoinRegister(t)
  PROVE  ForkInv'
<1>1. Inside(t, "join") /\ "join" \in Sections
  BY DEF JoinRegister, Sections
<1>2. DidKeeps /\ did' = did /\ OnlyTheState
  BY DidStays DEF JoinRegister
<1>3. PICK n \in Nat :
        thr' = [thr EXCEPT ![t] = [Moved(thr[t], "call") EXCEPT !.token = n]]
  <2> DEFINE n == IF ~State(t).cleanup THEN State(t).generation + 1 ELSE 0
  <2>1. State(t).generation \in Nat
    BY <1>1, SectionFacts DEF States
  <2>2. thr' = [thr EXCEPT ![t] = [Moved(thr[t], "call") EXCEPT !.token = n]] /\ n \in Nat
    BY <2>1 DEF JoinRegister
  <2> QED BY <2>2
<1>4. PICK k \in Int : Leave(t, [State(t) EXCEPT !.inflight = k])
  BY <1>1, SectionFacts, SMTT(30) DEF JoinRegister, States
<1> DEFINE r == [Moved(thr[t], "call") EXCEPT !.token = n]
           s == [State(t) EXCEPT !.inflight = k]
<1>5. /\ r \in ThreadRecords /\ r.op = thr[t].op /\ r.at = "call" /\ r.st = thr[t].st
      /\ ~r.holds
  <2>1. "call" \in Places
    BY DEF Places, Checks
  <2> QED BY <1>1, <2>1, SectionFacts, MovedFacts DEF ThreadRecords
<1>6. Advances(t, r, {})
  BY <1>1, <1>3, <1>5, SectionFacts, MoveView
<1>7. /\ s \in States /\ s.pid = State(t).pid /\ s.networkLock = State(t).networkLock
      /\ s.active = State(t).active
      /\ s.closeLogs = State(t).closeLogs /\ s.generation = State(t).generation
      /\ s.registered = State(t).registered /\ s.pending = State(t).pending
  BY <1>1, SectionFacts DEF States
<1>8. MayGoOn(t, r)
  BY <1>1, <1>2, <1>5, SectionFacts
     DEF MayGoOn, DidKeeps, ThreadOK, PlaceOK, AnnouncedOK, ClosingOK, Private, Sections, Calls
<1>9. Duty(s) => did'.announced
  BY <1>1, <1>2, <1>7, SectionFacts DEF Duty
<1>10. Leave(t, s)
  BY <1>4
<1> HIDE DEF r, s
<1> QED BY <1>1, <1>2, <1>6, <1>7, <1>8, <1>9, <1>10, SectionFacts, LeaveStep

\* A registration is written down and may leave a removal due.
LEMMA CommitRegisterKeeps ==
  ASSUME ForkInv, NEW t \in Threads, CommitRegister(t)
  PROVE  ForkInv'
<1>1. Inside(t, "commit") /\ "commit" \in Sections
  BY DEF CommitRegister, Sections
<1>2. DidKeeps /\ did' = did /\ did.announced /\ OnlyTheState
  BY <1>1, SectionFacts, DidStays DEF CommitRegister, ThreadOK, AnnouncedOK
<1>3. PICK s \in States, place \in {"end", "idle?"} :
        /\ LeaveScheduling(t, s, place) /\ s.pid = State(t).pid
        /\ s.networkLock = State(t).networkLock /\ s.active = State(t).active
        /\ s.closeLogs = State(t).closeLogs
  <2>1. State(t) \in States
    BY <1>1, SectionFacts
  <2> DEFINE place == IF thr[t].token = 0 THEN "end" ELSE "idle?"
  <2>2. place \in {"end", "idle?"}
    OBVIOUS
  <2> QED BY <2>1, <2>2, CommitView
<1> QED BY <1>1, <1>2, <1>3, SectionFacts, SchedulingStep

\* The first half of a start prepares a thread.
LEMMA PrepareStartKeeps ==
  ASSUME ForkInv, NEW t \in Threads, PrepareStart(t)
  PROVE  ForkInv'
<1>1. Inside(t, "prepare") /\ "prepare" \in Sections
  BY DEF PrepareStart, Sections
<1>2. DidKeeps /\ did' = did /\ OnlyTheState
  BY DidStays DEF PrepareStart
<1>3. Len(thr) + 1 \in Nat
  BY <1>1, SectionFacts DEF TypeOK
<1>4. CASE Leave(t, State(t)) /\ thr' = Goto(t, "end")
  BY <1>1, <1>2, <1>4, SectionFacts, LeaveTo DEF DidKeeps
<1>5. CASE /\ Leave(t, [State(t) EXCEPT !.prepared = Len(thr) + 1])
           /\ thr' = Append([thr EXCEPT ![t] = [Moved(thr[t], "resume") EXCEPT !.token = Len(thr) + 1]],
                            Thread("worker", "gate", thr[t].st))
  <2> DEFINE r == [Moved(thr[t], "resume") EXCEPT !.token = Len(thr) + 1]
             s == [State(t) EXCEPT !.prepared = Len(thr) + 1]
             new == Thread("worker", "gate", thr[t].st)
  <2>1. /\ r \in ThreadRecords /\ r.op = thr[t].op /\ r.at = "resume" /\ r.st = thr[t].st
        /\ ~r.holds
    <3>1. "resume" \in Places
      BY DEF Places
    <3> QED BY <1>1, <1>3, <3>1, SectionFacts, MovedFacts DEF ThreadRecords
  <2>2. new \in ThreadRecords /\ MaySpawn(t, new)
    BY <1>1, SectionFacts DEF ThreadRecords, Thread, Places, MaySpawn
  <2>3. Advances(t, r, {new})
    BY <1>1, <1>5, <2>1, <2>2, SectionFacts, SpawnView
  <2>4. /\ s \in States /\ s.pid = State(t).pid /\ s.networkLock = State(t).networkLock
        /\ s.active = State(t).active
        /\ s.closeLogs = State(t).closeLogs /\ s.generation = State(t).generation
        /\ s.registered = State(t).registered /\ s.pending = State(t).pending
    BY <1>1, <1>3, SectionFacts DEF States
  <2>5. MayGoOn(t, r)
    BY <1>1, <1>2, <2>1, SectionFacts
       DEF MayGoOn, DidKeeps, ThreadOK, PlaceOK, AnnouncedOK, ClosingOK, Private, Sections, Calls
  <2>6. Duty(s) => did'.announced
    BY <1>1, <1>2, <2>4, SectionFacts DEF Duty
  <2>7. Leave(t, s)
    BY <1>5
  <2> HIDE DEF r, s, new
  <2> QED BY <1>1, <1>2, <2>2, <2>3, <2>4, <2>5, <2>6, <2>7, SectionFacts, LeaveStep
<1> QED BY <1>4, <1>5 DEF PrepareStart

\* The second half activates it, which announces the process.
LEMMA ActivateStartKeeps ==
  ASSUME ForkInv, NEW t \in Threads, ActivateStart(t)
  PROVE  ForkInv'
<1>1. Inside(t, "activate") /\ "activate" \in Sections
  BY DEF ActivateStart, Sections
<1>2. thr' = Goto(t, "end") /\ OnlyTheState
  BY DEF ActivateStart
<1>3. CASE Leave(t, State(t)) /\ did' = did
  BY <1>1, <1>2, <1>3, SectionFacts, DidStays, LeaveTo DEF DidKeeps
<1> DEFINE s == Activated(State(t))
<1>4. CASE Leave(t, s) /\ did' = [did EXCEPT !.started = TRUE, !.announced = TRUE]
  <2>1. DidKeeps /\ did'.announced
    BY <1>4, ThreadFacts DEF DidKeeps, Dids
  <2>2. /\ s \in States /\ s.pid = State(t).pid /\ s.networkLock = State(t).networkLock
        /\ s.active = State(t).active /\ s.closeLogs = State(t).closeLogs
    BY <1>1, SectionFacts, ActivatedType
  <2>3. Leave(t, s)
    BY <1>4
  <2> HIDE DEF s
  <2> QED BY <1>1, <1>2, <2>1, <2>2, <2>3, SectionFacts, LeaveTo
<1> QED BY <1>3, <1>4 DEF ActivateStart, Activated

\* A shutdown asks for the logs and, where there is a registration, for a removal.
LEMMA ShutdownKeeps ==
  ASSUME ForkInv, NEW t \in Threads, Shutdown(t)
  PROVE  ForkInv'
<1>1. Inside(t, "shutdown") /\ "shutdown" \in Sections
  BY DEF Shutdown, Sections
<1>2. did' = [did EXCEPT !.started = FALSE] /\ OnlyTheState
  BY DEF Shutdown
<1>3. DidKeeps /\ did'.announced = did.announced
  BY <1>2, ThreadFacts DEF DidKeeps, Dids, ForkInv
<1>4. PICK stopping \in SUBSET Nat, cleanup \in BOOLEAN, pending \in BOOLEAN :
        /\ pending => CleanupDue(State(t))
        /\ LeaveScheduling(t, ShutState(State(t), stopping, cleanup, pending), "idle?")
  <2> DEFINE stopping == State(t).stopping \cup ({State(t).worker} \ {NoThread})
             cleanup  == State(t).inflight > 0
             pending  == State(t).inflight = 0 /\ CleanupDue(State(t))
  <2>1. stopping \in SUBSET Nat /\ cleanup \in BOOLEAN /\ pending \in BOOLEAN
    BY <1>1, SectionFacts DEF States
  <2>2. LeaveScheduling(t, ShutState(State(t), stopping, cleanup, pending), "idle?")
    BY DEF Shutdown, ShutState
  <2>3. pending => CleanupDue(State(t))
    OBVIOUS
  <2> HIDE DEF stopping, cleanup, pending
  <2> QED BY <2>1, <2>2, <2>3
<1> DEFINE s == ShutState(State(t), stopping, cleanup, pending)
<1>5. /\ s \in States /\ s.pid = State(t).pid /\ s.networkLock = State(t).networkLock
      /\ s.active = State(t).active
      /\ s.generation = State(t).generation /\ s.registered = State(t).registered
      /\ s.pending = pending
  BY <1>1, SectionFacts, ShutType
<1>6. Duty(s) => did'.announced
  BY <1>1, <1>3, <1>4, <1>5, SectionFacts DEF Duty, CleanupDue
<1>7. ~finalizer /\ ~Orphan
  BY <1>1, SectionFacts DEF ThreadOK, PlaceOK, ClosingOK
<1>8. LeaveScheduling(t, s, "idle?")
  BY <1>4
<1> HIDE DEF s
<1> QED BY <1>1, <1>2, <1>3, <1>5, <1>6, <1>7, <1>8, SectionFacts, SchedulingStep

\* A worker that wakes up asks whether it still is the worker.
LEMMA WorkerBeginsKeeps ==
  ASSUME ForkInv, NEW t \in Threads, WorkerBegins(t)
  PROVE  ForkInv'
<1>1. Inside(t, "begin") /\ "begin" \in Sections
  BY DEF WorkerBegins, Sections
<1>2. DidKeeps /\ did' = did /\ OnlyTheState /\ Leave(t, State(t))
  BY DidStays DEF WorkerBegins
<1>3. \A place \in {"net", "finish?", "end", "older"} :
        /\ place \in Places \cup {"end"}
        /\ place # "end" => MayGoOn(t, Moved(thr[t], place))
  <2> SUFFICES ASSUME NEW place \in {"net", "finish?", "end", "older"}
               PROVE  /\ place \in Places \cup {"end"}
                      /\ place # "end" => MayGoOn(t, Moved(thr[t], place))
    OBVIOUS
  <2>1. place \in Places \cup {"end"}
    BY DEF Places, Checks
  <2> QED BY <1>1, <1>2, <2>1, SectionFacts, MovedFacts
          DEF MayGoOn, DidKeeps, ThreadOK, PlaceOK, AnnouncedOK, ClosingOK, Private, Sections, Calls
<1>4. CASE \E place \in {"net", "finish?", "end"} : thr' = Goto(t, place)
  BY <1>1, <1>2, <1>3, <1>4, SectionFacts, LeaveTo DEF DidKeeps
<1>5. CASE thr' = [thr EXCEPT ![t] = [Moved(thr[t], "older") EXCEPT !.token = State(t).older]]
  <2> DEFINE m == Moved(thr[t], "older")
             r == [m EXCEPT !.token = State(t).older]
  <2>1. /\ m \in ThreadRecords /\ m.at = "older" /\ MayGoOn(t, m)
        /\ State(t).older \in Nat
    <3>1. "older" \in Places /\ \A q \in States : q.older \in Nat
      BY DEF Places, States
    <3> QED BY <1>1, <1>3, <3>1, SectionFacts, MovedFacts
  <2> HIDE DEF m
  <2>2. /\ r \in ThreadRecords /\ r.op = m.op /\ r.at = m.at /\ r.st = m.st
        /\ r.holds = m.holds
    BY <2>1 DEF ThreadRecords
  <2>3. MayGoOn(t, r)
    BY <2>1, <2>2 DEF MayGoOn, PlaceOK, ClosingOK, Ended, Thread, Private
  <2>4. Advances(t, r, {})
    BY <1>1, <1>5, <2>2, SectionFacts, MoveView DEF m
  <2> HIDE DEF r
  <2> QED BY <1>1, <1>2, <2>3, <2>4, SectionFacts, LeaveStep DEF DidKeeps
<1> QED BY <1>4, <1>5 DEF WorkerBegins

\* A worker asks again once it has the network lock.
LEMMA WorkerOwnsKeeps ==
  ASSUME ForkInv, NEW t \in Threads, WorkerOwns(t)
  PROVE  ForkInv'
<1>1. Inside(t, "own") /\ "own" \in Sections
  BY DEF WorkerOwns, Sections
<1>2. DidKeeps /\ did' = did /\ OnlyTheState
  BY DidStays DEF WorkerOwns
<1>3. \A place \in {"rpc", "finish?"} :
        place \in Places /\ MayGoOn(t, Moved(thr[t], place))
  <2> SUFFICES ASSUME NEW place \in {"rpc", "finish?"}
               PROVE  place \in Places /\ MayGoOn(t, Moved(thr[t], place))
    OBVIOUS
  <2>1. place \in Places
    BY DEF Places, Checks
  <2>2. MayGoOn(t, Moved(thr[t], place))
    BY <1>1, <1>2, <2>1, SectionFacts, MovedFacts
       DEF MayGoOn, DidKeeps, ThreadOK, PlaceOK, AnnouncedOK, ClosingOK, Private, Sections, Calls
  <2> QED BY <2>1, <2>2
<1>4. CASE Leave(t, State(t)) /\ thr' = Goto(t, "rpc")
  BY <1>1, <1>2, <1>3, <1>4, SectionFacts, LeaveTo DEF DidKeeps
<1>5. CASE Leave(t, [State(t) EXCEPT !.networkLock = NoThread]) /\ thr' = Goto(t, "finish?")
  <2> DEFINE s == [State(t) EXCEPT !.networkLock = NoThread]
  <2>1. /\ s \in States /\ s.pid = State(t).pid /\ s.networkLock = NoThread
        /\ s.active = State(t).active
        /\ s.closeLogs = State(t).closeLogs /\ s.generation = State(t).generation
        /\ s.registered = State(t).registered /\ s.pending = State(t).pending
    BY <1>1, SectionFacts DEF States, NoThread
  <2>2. Duty(s) => did'.announced
    BY <1>1, <1>2, <2>1, SectionFacts DEF Duty
  <2>3. s.networkLock # t
    BY <1>1, <2>1, SectionFacts DEF NoThread
  <2>4. Leave(t, s)
    BY <1>5
  <2> HIDE DEF s
  <2> QED BY <1>1, <1>2, <1>3, <1>5, <2>1, <2>2, <2>3, <2>4, SectionFacts, LeaveTo
<1> QED BY <1>4, <1>5 DEF WorkerOwns

\* A renewal is written down.
LEMMA RecordRenewalKeeps ==
  ASSUME ForkInv, NEW t \in Threads, RecordRenewal(t)
  PROVE  ForkInv'
<1>1. Inside(t, "record") /\ "record" \in Sections
  BY DEF RecordRenewal, Sections
<1>2. DidKeeps /\ did' = did /\ OnlyTheState /\ did'.announced
  BY <1>1, SectionFacts, DidStays DEF RecordRenewal, ThreadOK, AnnouncedOK
<1>3. PICK registered \in BOOLEAN, place \in {"sleep", "finish?"} :
        Leave(t, [State(t) EXCEPT !.registered = registered]) /\ thr' = Goto(t, place)
  <2>1. State(t).registered \in BOOLEAN
        /\ State(t) = [State(t) EXCEPT !.registered = State(t).registered]
    BY <1>1, SectionFacts DEF States
  <2> QED BY <2>1 DEF RecordRenewal
<1> DEFINE s == [State(t) EXCEPT !.registered = registered]
<1>4. /\ s \in States /\ s.pid = State(t).pid /\ s.networkLock = State(t).networkLock
      /\ s.active = State(t).active
      /\ s.closeLogs = State(t).closeLogs
  BY <1>1, SectionFacts DEF States
<1>5. place \in Places \cup {"end"}
  BY DEF Places, Checks
<1>6. MayGoOn(t, Moved(thr[t], place))
  BY <1>1, <1>2, <1>5, SectionFacts, MovedFacts
     DEF MayGoOn, DidKeeps, ThreadOK, PlaceOK, AnnouncedOK, ClosingOK, Private, Sections, Calls
<1>7. Leave(t, s)
  BY <1>3
<1> HIDE DEF s
<1> QED BY <1>1, <1>2, <1>3, <1>4, <1>5, <1>6, <1>7, SectionFacts, LeaveTo

\* The state in which a worker that ends has claimed the removal.
ClaimedBy(t, q) == [q EXCEPT !.pending = FALSE, !.actors = {t}, !.active = t]

LEMMA ClaimedFacts ==
  ASSUME NEW q \in States, NEW t \in Nat
  PROVE  LET s == ClaimedBy(t, q)
         IN  /\ s \in States /\ s.pid = q.pid /\ s.networkLock = q.networkLock
             /\ s.closeLogs = q.closeLogs /\ s.active = t /\ s.actors = {t} /\ ~s.pending
             /\ s.prepared = q.prepared /\ s.worker = q.worker /\ s.stopping = q.stopping
             /\ s.generation = q.generation /\ s.inflight = q.inflight
             /\ s.cleanup = q.cleanup
<1> DEFINE p == [q EXCEPT !.pending = FALSE, !.actors = {t}]
<1>1. /\ p \in States /\ p.pid = q.pid /\ p.networkLock = q.networkLock
      /\ p.closeLogs = q.closeLogs /\ p.actors = {t} /\ ~p.pending
      /\ p.prepared = q.prepared /\ p.worker = q.worker /\ p.stopping = q.stopping
      /\ p.generation = q.generation /\ p.inflight = q.inflight /\ p.cleanup = q.cleanup
  BY DEF States
<1>2. ClaimedBy(t, q) = [p EXCEPT !.active = t]
  BY DEF ClaimedBy
<1> HIDE DEF p
<1> QED BY <1>1, <1>2 DEF States

\* A worker that ends performs the removal or leaves it to an actor.
LEMMA FinishWorkerKeeps ==
  ASSUME ForkInv, NEW t \in Threads, FinishWorker(t)
  PROVE  ForkInv'
<1>1. Inside(t, "finish") /\ "finish" \in Sections
  BY DEF FinishWorker, Sections
<1>2. DidKeeps /\ did' = did /\ OnlyTheState
  BY DidStays DEF FinishWorker
<1> DEFINE left == [State(t) EXCEPT !.stopping = @ \ {t}, !.worker = IF @ = t THEN NoThread ELSE @]
<1>3. /\ left \in States /\ left.pid = State(t).pid /\ left.networkLock = State(t).networkLock
      /\ left.active = State(t).active
      /\ left.closeLogs = State(t).closeLogs /\ left.generation = State(t).generation
      /\ left.registered = State(t).registered /\ left.pending = State(t).pending
  <2>1. State(t) \in States
    BY <1>1, SectionFacts
  <2> DEFINE q == [State(t) EXCEPT !.stopping = @ \ {t}]
  <2>2. q \in States /\ left = [q EXCEPT !.worker = IF @ = t THEN NoThread ELSE @]
    BY <2>1 DEF States
  <2>3. left \in States
    <3> HIDE DEF q, left
    <3> QED BY <2>2 DEF States, NoThread
  <2> QED BY <2>1, <2>3 DEF States
<1>4. CASE LeaveScheduling(t, left, "idle?")
  <2>1. Duty(left) => did'.announced
    BY <1>1, <1>2, <1>3, SectionFacts DEF Duty
  <2> HIDE DEF left
  <2> QED BY <1>1, <1>2, <1>3, <1>4, <2>1, SectionFacts, SchedulingStep
<1>5. CASE /\ State(t).pending
           /\ Leave(t, [left EXCEPT !.pending = FALSE, !.actors = {t}, !.active = t])
           /\ thr' = [thr EXCEPT ![t] = [Moved(thr[t], "call") EXCEPT !.op = "cleanup"]]
  <2> DEFINE s == ClaimedBy(t, left)
             r == [Moved(thr[t], "call") EXCEPT !.op = "cleanup"]
  <2>1. /\ r \in ThreadRecords /\ r.op = "cleanup" /\ r.at = "call" /\ r.st = thr[t].st
        /\ ~r.holds
    <3>1. "call" \in Places
      BY DEF Places, Checks
    <3> QED BY <1>1, <3>1, SectionFacts, MovedFacts DEF ThreadRecords
  <2>2. Advances(t, r, {})
    BY <1>1, <1>5, <2>1, SectionFacts, MoveView
  <2>3. did'.announced
    BY <1>1, <1>2, <1>5, SectionFacts DEF Duty
  <2>4. MayGoOn(t, r) /\ Performing(r)
    BY <1>1, <2>1, <2>3, SectionFacts
       DEF MayGoOn, Performing, PlaceOK, ClosingOK, Private, Sections, Calls
  <2> HIDE DEF left
  <2>5. /\ s \in States /\ s.pid = left.pid /\ s.networkLock = left.networkLock
        /\ s.closeLogs = left.closeLogs /\ s.active = t
    BY <1>1, <1>3, SectionFacts, ClaimedFacts
  <2>6. Leave(t, s)
    BY <1>5 DEF ClaimedBy
  <2> HIDE DEF r, s
  <2> QED BY <1>1, <1>2, <1>3, <2>2, <2>3, <2>4, <2>5, <2>6, SectionFacts, LeaveStep
<1> QED BY <1>4, <1>5 DEF FinishWorker

\* The state a removal leaves.
LEMMA RemovedFacts ==
  ASSUME NEW t \in Threads, State(t) \in States, NEW success \in BOOLEAN
  PROVE  LET s == Removed(t, success)
         IN  /\ s \in States /\ s.pid = State(t).pid /\ s.networkLock = State(t).networkLock
             /\ s.active \in {NoThread, State(t).active} /\ s.active # t
             /\ s.closeLogs = State(t).closeLogs /\ s.actors = State(t).actors \ {t}
             /\ ~s.cleanup /\ s.pending = State(t).pending
             /\ s.prepared = State(t).prepared /\ s.worker = State(t).worker
             /\ s.stopping = State(t).stopping
             /\ s.generation = State(t).generation /\ s.inflight = State(t).inflight
<1> DEFINE q == State(t)
<1>1. PICK actors \in SUBSET Nat, active \in Nat, registered \in BOOLEAN :
        /\ actors = q.actors \ {t} /\ registered = (q.registered /\ ~success)
        /\ active = (IF q.active = t THEN NoThread ELSE q.active)
  BY DEF States, NoThread
<1>2. active \in {NoThread, q.active} /\ active # t
  BY <1>1 DEF Threads, NoThread
<1> DEFINE p == [q EXCEPT !.actors = actors, !.active = active]
           s == [p EXCEPT !.cleanup = FALSE, !.registered = registered]
<1>3. s = Removed(t, success)
  <2>1. p.registered = q.registered /\ q.registered \in BOOLEAN
    BY DEF States
  <2> QED BY <1>1, <2>1 DEF Removed
<1> HIDE DEF q
<1>4. /\ p \in States /\ p.pid = q.pid /\ p.networkLock = q.networkLock
      /\ p.active = active /\ p.closeLogs = q.closeLogs /\ p.actors = actors
      /\ p.pending = q.pending /\ p.prepared = q.prepared /\ p.worker = q.worker
      /\ p.stopping = q.stopping /\ p.generation = q.generation /\ p.inflight = q.inflight
  BY DEF States, q
<1> HIDE DEF p
<1>5. /\ s \in States /\ s.pid = p.pid /\ s.networkLock = p.networkLock
      /\ s.active = p.active /\ s.closeLogs = p.closeLogs /\ s.actors = p.actors
      /\ ~s.cleanup
      /\ s.pending = p.pending /\ s.prepared = p.prepared /\ s.worker = p.worker
      /\ s.stopping = p.stopping /\ s.generation = p.generation /\ s.inflight = p.inflight
  BY <1>4 DEF States
<1> HIDE DEF s
<1> QED BY <1>1, <1>2, <1>3, <1>4, <1>5 DEF q

\* An actor claims a removal and ends it.
LEMMA RemovalsKeep ==
  ASSUME ForkInv, NEW t \in Threads, ClaimRemoval(t) \/ CompleteRemoval(t)
  PROVE  ForkInv'
<1>1. /\ Inside(t, "claim") \/ Inside(t, "complete")
      /\ "claim" \in Sections /\ "complete" \in Sections
  BY DEF ClaimRemoval, CompleteRemoval, Sections
<1>2. DidKeeps /\ did' = did /\ OnlyTheState
  BY DidStays DEF ClaimRemoval, CompleteRemoval
<1>3. /\ thr[t] \in ThreadRecords /\ ThreadOK(thr[t]) /\ thr[t].holds
      /\ thr[t].at \in Sections \ {"own"} /\ State(t) \in States
      /\ State(t).closeLogs => ~finalizer /\ ~Orphan
  BY <1>1, SectionFacts
<1>4. did'.announced
  BY <1>1, <1>2, <1>3 DEF Inside, At, ThreadOK, PlaceOK, AnnouncedOK
<1>5. ASSUME NEW s \in States, s.pid = State(t).pid, s.networkLock = State(t).networkLock,
             s.active \in {NoThread, State(t).active}, s.active # t,
             s.closeLogs = State(t).closeLogs, LeaveScheduling(t, s, "idle?")
      PROVE  ForkInv'
  BY <1>2, <1>3, <1>4, <1>5, SchedulingStep
<1>6. CASE CompleteRemoval(t)
  <2>1. PICK success \in BOOLEAN : LeaveScheduling(t, Removed(t, success), "idle?")
    BY <1>6 DEF CompleteRemoval
  <2> QED BY <1>3, <1>5, <2>1, RemovedFacts
<1>7. CASE Inside(t, "claim") /\ LeaveScheduling(t, [State(t) EXCEPT !.actors = @ \ {t}], "idle?")
  <2> DEFINE s == [State(t) EXCEPT !.actors = @ \ {t}]
  <2>1. /\ s \in States /\ s.pid = State(t).pid /\ s.networkLock = State(t).networkLock
        /\ s.active = State(t).active /\ s.closeLogs = State(t).closeLogs
    BY <1>3 DEF States
  <2>2. LeaveScheduling(t, s, "idle?") /\ State(t).active # t
    BY <1>1, <1>7, SectionFacts
  <2> HIDE DEF s
  <2> QED BY <1>5, <2>1, <2>2
<1>9. CASE /\ Inside(t, "claim") /\ Leave(t, [State(t) EXCEPT !.pending = FALSE, !.active = t])
           /\ thr' = Goto(t, "call")
  <2> DEFINE s == [State(t) EXCEPT !.pending = FALSE, !.active = t]
  <2>1. /\ s \in States /\ s.pid = State(t).pid /\ s.networkLock = State(t).networkLock
        /\ s.active = t /\ s.closeLogs = State(t).closeLogs
    BY <1>3, ThreadFacts DEF States
  <2>2. Leave(t, s) /\ "call" \in Places /\ thr[t].op = "cleanup"
    BY <1>3, <1>9 DEF Places, Checks, Inside, At, ThreadOK, PlaceOK
  <2>3. MayGoOn(t, Moved(thr[t], "call"))
    BY <1>3, <1>4, <1>9, <2>2, MovedFacts
       DEF Inside, At, MayGoOn, ThreadOK, PlaceOK, ClosingOK, Private, Sections, Calls
  <2> HIDE DEF s
  <2> QED BY <1>2, <1>3, <1>4, <1>9, <2>1, <2>2, <2>3, LeaveTo
<1> QED BY <1>6, <1>7, <1>9 DEF ClaimRemoval

\* Who finds everything idle goes on to close the log handlers.
LEMMA CloseLogsKeeps ==
  ASSUME ForkInv, NEW t \in Threads, CloseLogsWhenIdle(t)
  PROVE  ForkInv'
<1>1. Inside(t, "idle") /\ "idle" \in Sections
  BY DEF CloseLogsWhenIdle, Sections
<1>2. DidKeeps /\ did' = did /\ OnlyTheState
  BY DidStays DEF CloseLogsWhenIdle
<1>3. PICK closed \in BOOLEAN, place \in {"close", "end"} :
        /\ Leave(t, [State(t) EXCEPT !.logsClosed = closed])
        /\ thr' = Goto(t, place)
        /\ place = "close" => State(t).closeLogs
  <2> DEFINE s0 == State(t)
             idle == /\ s0.closeLogs /\ ~s0.logsClosed
                     /\ s0.prepared = NoThread /\ s0.worker = NoThread
                     /\ s0.stopping = {} /\ s0.actors = {} /\ ~s0.pending
                     /\ s0.inflight = 0 /\ ~s0.cleanup
             closed == s0.logsClosed \/ idle
  <2>1. s0.logsClosed \in BOOLEAN
    BY <1>1, SectionFacts DEF States
  <2>2. closed \in BOOLEAN
    BY <2>1
  <2>3. /\ Leave(t, [State(t) EXCEPT !.logsClosed = closed])
        /\ thr' = Goto(t, IF idle THEN "close" ELSE "end")
    BY DEF CloseLogsWhenIdle
  <2>4. idle => s0.closeLogs
    OBVIOUS
  <2> HIDE DEF closed, idle
  <2> QED BY <2>2, <2>3, <2>4
<1> DEFINE s == [State(t) EXCEPT !.logsClosed = closed]
<1>4. /\ s \in States /\ s.pid = State(t).pid /\ s.networkLock = State(t).networkLock
      /\ s.active = State(t).active
      /\ s.closeLogs = State(t).closeLogs /\ s.generation = State(t).generation
      /\ s.registered = State(t).registered /\ s.pending = State(t).pending
  BY <1>1, SectionFacts DEF States
<1>5. place \in Places \cup {"end"}
  BY DEF Places
<1>6. place # "end" => MayGoOn(t, Moved(thr[t], place))
  BY <1>1, <1>2, <1>3, <1>5, SectionFacts, MovedFacts
     DEF MayGoOn, DidKeeps, ThreadOK, PlaceOK, AnnouncedOK, ClosingOK, Private, Sections, Calls
<1>7. Duty(s) => did'.announced
  BY <1>1, <1>2, <1>4, SectionFacts DEF Duty
<1>8. Leave(t, s)
  BY <1>3
<1> HIDE DEF s
<1> QED BY <1>1, <1>2, <1>3, <1>4, <1>5, <1>6, <1>7, <1>8, SectionFacts, LeaveTo

\* The log manager's lock, taken by the thread of the finalizer or after it.
LEMMA LogLockKeeps ==
  ASSUME ForkInv, NEW t \in Threads, TakeLogLock(t) \/ ReleaseLogLock(t)
  PROVE  ForkInv'
<1>1. /\ thr[t] \in ThreadRecords /\ ThreadOK(thr[t]) /\ TypeOK /\ t \in Nat \ {0}
      /\ thr[t].at \in {"detach", "close", "detaching", "closing"} /\ ~thr[t].holds
      /\ thr[t].at \notin Owning /\ ~finalizer /\ ~Orphan /\ t \in 0 .. Len(thr)
      /\ thr[t].at \in {"detach", "detaching"} => thr[t].op = "close"
      /\ thr[t].st \in 0 .. Len(states) /\ ~Performing(thr[t])
  BY ThreadFacts
     DEF TakeLogLock, ReleaseLogLock, ThreadOK, PlaceOK, ClosingOK, Performing, Sections, Owning,
         Threads
<1>2. UNCHANGED <<pid, states, current, finalizer, did, calls>>
  BY DEF TakeLogLock, ReleaseLogLock
<1>3. PICK place \in {"detaching", "closing", "guard", "end"} :
        /\ thr' = Goto(t, place)
        /\ place \in {"detaching", "guard"} => thr[t].op = "close"
        /\ place = "closing" => thr[t].at = "close"
        /\ \/ logLock' = t /\ place \in {"detaching", "closing"}
           \/ logLock' = NoThread
  BY <1>1 DEF TakeLogLock, ReleaseLogLock, At
<1> DEFINE r == Moved(thr[t], place)
<1>4. place \in Places \cup {"end"}
  BY DEF Places
<1>5. Advances(t, r, {}) /\ r.st \in 0 .. Len(states)
  BY <1>1, <1>3, <1>4, GotoView, MovedFacts
<1>6. LogOK' /\ Orphan' = FALSE
  <2>1. logLock' = t => thr'[t].at \in {"detaching", "closing"}
    BY <1>1, <1>3, <1>4, <1>5, MovedFacts DEF Advances, NoThread
  <2> QED BY <1>1, <1>2, <1>3, <2>1 DEF LogOK, Orphan, NoThread
<1>7. logLock' \in 0 .. Len(thr)
  BY <1>1, <1>3 DEF NoThread, TypeOK
<1>8. ThreadOK(r)
  BY <1>1, <1>3, <1>4, MovedFacts, SMTT(30)
     DEF ThreadOK, PlaceOK, OwnedOK, AnnouncedOK, ClosingOK, Private, Sections, Calls
<1> HIDE DEF r
<1> QED BY <1>1, <1>2, <1>5, <1>6, <1>7, <1>8, IdleStep

\* _get_process_state replaces the parent's state by a blank one of this process.
LEMMA GuardCreateKeeps ==
  ASSUME ForkInv, NEW t \in Threads, GuardCreate(t)
  PROVE  ForkInv'
<1>1. /\ thr[t] \in ThreadRecords /\ ThreadOK(thr[t]) /\ TypeOK
      /\ thr[t].at = "create" /\ ~thr[t].holds /\ thr[t].op \in Calls
      /\ thr[t].at \notin Owning /\ ~Performing(thr[t])
  BY ThreadFacts DEF GuardCreate, At, ThreadOK, PlaceOK, Performing, Sections, Owning
<1>2. UNCHANGED <<pid, logLock, finalizer, calls>>
  BY DEF GuardCreate
<1>3. DidKeeps
  BY <1>1 DEF GuardCreate, DidKeeps, Dids, ForkInv, TypeOK
<1> DEFINE n == Len(states)
<1>4. n \in Nat /\ n + 1 \in Nat /\ pid \in Nat /\ current \in 1 .. n
  BY <1>1 DEF TypeOK
<1>0. \A j \in 1 .. n : states[j] \in States /\ states[j].pid \in Nat
  <2>1. \A j \in 1 .. n : states[j] \in States
    BY <1>1 DEF TypeOK
  <2>2. \A q \in States : q.pid \in Nat
    BY DEF States
  <2> QED BY <2>1, <2>2
<1>5. \A p \in Nat : /\ Blank(p) \in States /\ Blank(p).pid = p
                     /\ Blank(p).stateLock = NoThread /\ Blank(p).networkLock = NoThread
                     /\ Blank(p).active = NoThread
                     /\ ~Blank(p).closeLogs /\ ~Duty(Blank(p))
  BY DEF Blank, States, NoThread, Duty
<1>6. /\ states' \in Seq(States) /\ Len(states') = n + 1 /\ states'[n + 1] = Blank(pid)
      /\ \A j \in 1 .. n : states'[j] = states[j] \/ states'[j] = Blank(states[j].pid)
  <2> DEFINE kept == [i \in 1 .. n |-> IF i \in Kept(t) THEN states[i] ELSE Blank(states[i].pid)]
  <2>2. kept \in [1 .. n -> States]
    BY <1>0, <1>5
  <2>3. kept \in Seq(States) /\ Len(kept) = n /\ \A j \in 1 .. n : kept[j] = states[j] \/ kept[j] = Blank(states[j].pid)
    BY <1>4, <2>2
  <2>4. states' = Append(kept, Blank(pid)) /\ Blank(pid) \in States
    BY <1>4, <1>5 DEF GuardCreate
  <2> HIDE DEF kept, n
  <2> QED BY <1>4, <2>3, <2>4
<1> DEFINE r == [thr[t] EXCEPT !.st = n + 1, !.at = FirstSection(thr[t].op)]
<1>7. FirstSection(thr[t].op) \in Sections
  BY <1>1 DEF FirstSection, Calls, Sections
<1>8. /\ r \in ThreadRecords /\ r.op = thr[t].op /\ r.st = n + 1
      /\ r.at = FirstSection(thr[t].op) /\ ~r.holds
  <2>1. FirstSection(thr[t].op) \in Places
    BY <1>7 DEF Places
  <2> HIDE DEF n
  <2> QED BY <1>1, <1>4, <2>1 DEF ThreadRecords
<1>9. current' = n + 1 /\ Advances(t, r, {})
  <2>1. current' = n + 1
    BY <1>6 DEF GuardCreate
  <2>2. thr' = [thr EXCEPT ![t] = r]
    BY <2>1 DEF GuardCreate, Fetch
  <2> HIDE DEF r
  <2> QED BY <1>1, <1>8, <2>1, <2>2, MoveView
<1>10. LogOK' /\ Orphan' = Orphan
  BY <1>1, <1>2, <1>9, LogStays
<1> HIDE DEF r
<1>11. Frame
  <2>1. \A j \in 1 .. n : states'[j].pid = states[j].pid
    BY <1>0, <1>5, <1>6
  <2> QED BY <1>1, <1>2, <1>3, <1>4, <1>6, <1>10, <2>1 DEF Frame, DidKeeps, TypeOK
<1>12. TypeOK'
  <2>1. thr' \in Seq(ThreadRecords) /\ \A u \in Threads' : thr'[u].st \in 0 .. Len(states')
    <3>1. thr' \in Seq(ThreadRecords) /\ Threads' = Threads
      BY <1>9 DEF Advances
    <3>2. \A u \in Threads : thr[u].st \in 0 .. n
      BY <1>1 DEF TypeOK
    <3>3. \A u \in Threads : thr'[u].st = IF u = t THEN n + 1 ELSE thr[u].st
      BY <1>8, <1>9 DEF Advances
    <3> HIDE DEF n
    <3> QED BY <1>4, <1>6, <3>1, <3>2, <3>3
  <2>2. Len(thr') = Len(thr)
    <3>1. Threads' = Threads
      BY <1>9 DEF Advances
    <3>2. Len(thr) \in Nat /\ Len(thr') \in Nat
      BY <1>1, <2>1 DEF TypeOK
    <3> QED BY <3>1, <3>2 DEF Threads
  <2> QED BY <1>1, <1>2, <1>3, <1>4, <1>6, <1>9, <2>1, <2>2 DEF TypeOK, DidKeeps, Dids
<1>13. ASSUME NEW u \in Threads'  PROVE ThreadOK(thr[u])'
  <2>1. CASE u = t
    <3>1. thr'[u] = r
      BY <1>9, <2>1 DEF Advances
    <3>2. PlaceOK(r) /\ r.at \notin Private /\ AnnouncedOK(thr[t]) /\ ClosingOK(thr[t])
      BY <1>1, <1>7, <1>8 DEF FirstSection, Calls, ThreadOK, PlaceOK, Sections, Private, Ended, Thread
    <3>3. r.at \notin {"settle", "commit", "record", "close", "closing", "resume"} /\ r.op # "cleanup"
      BY <1>1, <1>8 DEF FirstSection, Calls
    <3>4. r.st \in 1 .. Len(states') /\ states'[r.st].pid = pid'
      BY <1>2, <1>4, <1>5, <1>6, <1>8
    <3> QED BY <1>2, <1>8, <1>10, <3>1, <3>2, <3>3, <3>4
            DEF ThreadOK, PlaceOK, OwnedOK, AnnouncedOK, ClosingOK
  <2>2. CASE u # t
    <3>1. u \in Threads /\ thr'[u] = thr[u] /\ ThreadOK(thr[u])
      BY <1>9, <2>2 DEF Advances, ForkInv
    <3>2. \A q : ThreadOK(q) => ThreadOK(q)'
      BY <1>11, ThreadKeeps
    <3> QED BY <3>1, <3>2
  <2> QED BY <2>1, <2>2
<1>14. ASSUME NEW j \in 1 .. Len(states')  PROVE StateOK(states[j], j)'
  <2>1. CASE j = n + 1 \/ \E p \in Nat : states'[j] = Blank(p) /\ p <= pid
    <3>1. PICK p \in Nat : states'[j] = Blank(p) /\ p <= pid
      BY <1>4, <1>6, <2>1
    <3> QED BY <1>2, <1>5, <3>1 DEF StateOK, LockOK, Duty
  <2>2. CASE j \in 1 .. n /\ states'[j] = states[j]
    <3>1. StateOK(states[j], j)
      BY <2>2 DEF ForkInv
    <3>2. states[j].pid = pid => LockOK(states[j], j) /\ Untied(t, states[j])
      BY <1>1, <2>2, Holds DEF Untied
    <3>3. \A q : LockOK(q, j) /\ Untied(t, q) => LockOK(q, j)'
      BY <1>9, LockKeeps DEF Untied
    <3>4. \A q : StateOK(q, j) /\ (q.pid = pid => LockOK(q, j)') => StateOK(q, j)'
      BY <1>11, StateKeeps
    <3> QED BY <2>2, <3>1, <3>2, <3>3, <3>4
  <2>3. CASE j \in 1 .. n /\ states'[j] = Blank(states[j].pid)
    <3>1. states[j].pid \in Nat /\ states[j].pid <= pid
      BY <1>0, <2>3 DEF ForkInv, StateOK
    <3> QED BY <2>1, <2>3, <3>1
  <2> QED BY <1>4, <1>6, <2>1, <2>2, <2>3
<1> QED BY <1>3, <1>10, <1>12, <1>13, <1>14 DEF ForkInv, DidKeeps

\* A call begins in a thread of its own.
LEMMA CallKeeps ==
  ASSUME ForkInv, NEW op \in Operations, Call(op)
  PROVE  ForkInv'
<1>1. TypeOK /\ op \in Calls /\ Len(thr) \in Nat /\ did \in Dids
  BY OperationsAssumption DEF ForkInv, TypeOK, Dids
<1> DEFINE new == Thread(op, IF op = "close" THEN "detach" ELSE "guard", NoState)
<1>2. /\ new \in ThreadRecords /\ new.op = op /\ new.st = 0 /\ ~new.holds
      /\ new.at \in {"detach", "guard"} /\ (new.at = "detach" => op = "close")
  BY <1>1 DEF ThreadRecords, Thread, NoState, Places
<1>3. /\ UNCHANGED <<pid, states, current, logLock, did>> /\ calls' = calls + 1
      /\ thr' = Append(thr, new) /\ finalizer' = (finalizer /\ op # "close")
      /\ op = "close" => finalizer
  BY DEF Call
<1>4. /\ thr' \in Seq(ThreadRecords) /\ Len(thr') = Len(thr) + 1 /\ thr'[Len(thr) + 1] = new
      /\ \A u \in Threads : thr'[u] = thr[u]
  <2>1. thr \in Seq(ThreadRecords)
    BY <1>1 DEF TypeOK
  <2> HIDE DEF new
  <2> QED BY <1>2, <1>3, <2>1 DEF Threads
<1> HIDE DEF new
<1>5. Threads' = Threads \cup {Len(thr) + 1}
  BY <1>1, <1>4 DEF Threads
<1>6. LogOK' /\ Orphan' = Orphan
  <2>1. logLock # NoThread => logLock \in Threads /\ thr'[logLock] = thr[logLock]
    BY <1>1, <1>4 DEF TypeOK, Threads, NoThread
  <2> QED BY <1>3, <2>1 DEF ForkInv, LogOK, Orphan
<1>7. op = "close" => ~finalizer' /\ ~Orphan'
  BY <1>3, <1>6 DEF ForkInv, LogOK, Orphan
<1>8. Frame
  BY <1>1, <1>3, <1>6 DEF Frame, TypeOK
<1>9. TypeOK'
  <2>1. \A u \in Threads' : thr'[u].st \in 0 .. Len(states)
    BY <1>1, <1>2, <1>4, <1>5, SMTT(30) DEF TypeOK
  <2>2. finalizer' \in BOOLEAN
    BY <1>3
  <2>3. logLock' \in 0 .. Len(thr')
    BY <1>1, <1>3, <1>4 DEF TypeOK
  <2>4. calls' \in Nat
    BY <1>1, <1>3 DEF TypeOK
  <2>5. pid' \in Nat /\ did' \in Dids /\ states' \in Seq(States) /\ current' \in 1 .. Len(states')
    BY <1>1, <1>3 DEF TypeOK
  <2>6. Len(states') = Len(states)
    BY <1>3
  <2> QED BY <1>4, <2>1, <2>2, <2>3, <2>4, <2>5, <2>6 DEF TypeOK, Dids
<1>10. ASSUME NEW u \in Threads'  PROVE ThreadOK(thr[u])'
  <2>1. CASE u \in Threads
    <3>1. thr'[u] = thr[u] /\ ThreadOK(thr[u])
      BY <1>4, <2>1 DEF ForkInv
    <3>2. \A q : ThreadOK(q) => ThreadOK(q)'
      BY <1>8, ThreadKeeps
    <3> QED BY <3>1, <3>2
  <2>2. CASE u = Len(thr) + 1
    <3>1. thr'[u] = new
      BY <1>4, <2>2
    <3> QED BY <1>1, <1>2, <1>7, <3>1
            DEF ThreadOK, PlaceOK, OwnedOK, AnnouncedOK, ClosingOK, Private, Sections, Calls
  <2> QED BY <1>5, <2>1, <2>2
<1>11. ASSUME NEW j \in 1 .. Len(states')  PROVE StateOK(states[j], j)'
  <2>1. StateOK(states[j], j) /\ states'[j] = states[j]
    BY <1>3 DEF ForkInv
  <2>2. \A q : LockOK(q, j) => LockOK(q, j)'
    BY <1>4, <1>5 DEF LockOK, Performing
  <2>3. \A q : StateOK(q, j) /\ (q.pid = pid => LockOK(q, j)') => StateOK(q, j)'
    BY <1>8, StateKeeps
  <2>4. states[j].pid = pid => LockOK(states[j], j)
    BY <2>1 DEF StateOK
  <2> QED BY <2>1, <2>2, <2>3, <2>4
<1> QED BY <1>3, <1>6, <1>9, <1>10, <1>11 DEF ForkInv

\* In a child all states belong to a former process; only the state of a start
\* between its halves is still referred to, and no lock of a state is asked for.
LEMMA ForkKeeps ==
  ASSUME ForkInv, Fork
  PROVE  ForkInv'
<1>1. TypeOK /\ Len(thr) \in Nat /\ pid \in Nat
  BY DEF ForkInv, TypeOK
<1>2. PICK forking \in SUBSET {t \in Threads : At(t, "resume")} :
        thr' = [t \in Threads |-> IF t \in forking THEN thr[t] ELSE Ended]
  BY DEF Fork
<1>3. /\ UNCHANGED <<states, current, logLock, finalizer, calls>>
      /\ pid' = pid + 1 /\ did' = Nothing
  BY DEF Fork, memory
<1>4. Ended \in ThreadRecords /\ Ended.at = "ended" /\ Ended.st = 0 /\ ~Ended.holds /\ Ended.op = "none"
  BY DEF ThreadRecords, Ended, Thread, NoState, Places
<1>5. \A t \in Threads : thr[t] \in ThreadRecords
  BY <1>1 DEF TypeOK, Threads
<1>6. thr' \in [1 .. Len(thr) -> ThreadRecords]
  BY <1>2, <1>4, <1>5 DEF Threads
<1>7. thr' \in Seq(ThreadRecords) /\ Len(thr') = Len(thr) /\ Threads' = Threads
  BY <1>1, <1>6 DEF Threads
<1>8. \A t \in Threads : thr'[t] = Ended \/ (thr[t].at = "resume" /\ thr'[t] = thr[t])
  BY <1>2 DEF At
<1>9. did'.removed = FALSE /\ did' \in Dids
  BY <1>3 DEF Nothing, Dids
<1>10. TypeOK'
  <2>1. \A t \in Threads : thr'[t].st \in 0 .. Len(states)
    BY <1>1, <1>4, <1>8 DEF TypeOK
  <2> QED BY <1>1, <1>3, <1>7, <1>9, <2>1 DEF TypeOK, Dids
<1>11. LogOK'
  <2>1. logLock # NoThread => logLock \in Threads
    BY <1>1 DEF TypeOK, Threads, NoThread
  <2> QED BY <1>3, <1>4, <1>8, <2>1 DEF ForkInv, LogOK
<1>12. ASSUME NEW t \in Threads'  PROVE ThreadOK(thr[t])'
  <2>1. CASE thr'[t] = Ended
    BY <1>4, <2>1
       DEF ThreadOK, PlaceOK, OwnedOK, AnnouncedOK, ClosingOK, Private, Sections, Calls
  <2>2. CASE thr[t].at = "resume" /\ thr'[t] = thr[t]
    <3>1. ThreadOK(thr[t])
      BY <1>7 DEF ForkInv
    <3> QED BY <1>3, <2>2, <3>1
            DEF ThreadOK, PlaceOK, OwnedOK, AnnouncedOK, ClosingOK, Private, Sections
  <2> QED BY <1>7, <1>8, <2>1, <2>2
<1>13. ASSUME NEW j \in 1 .. Len(states')  PROVE StateOK(states[j], j)'
  <2>1. StateOK(states[j], j) /\ states'[j] = states[j] /\ states[j] \in States
    BY <1>1, <1>3 DEF ForkInv, TypeOK
  <2>2. states[j].pid \in Nat
    BY <2>1 DEF States
  <2> QED BY <1>1, <1>3, <2>1, <2>2 DEF StateOK
<1> QED BY <1>9, <1>10, <1>11, <1>12, <1>13 DEF ForkInv

-----------------------------------------------------------------------------

\* The process that begins has a state of its own and no threads.
LEMMA InitFork ==
  ASSUME Init
  PROVE  ForkInv
<1>1. states = <<Blank(1)>> /\ thr = << >> /\ Blank(1) \in States
  BY DEF Init, Blank, States, NoThread
<1>2. TypeOK
  <2>1. did \in Dids
    BY DEF Init, Nothing, Dids
  <2> QED BY <1>1, <2>1 DEF Init, TypeOK, Dids, NoThread, Threads
<1>3. StateOK(Blank(1), 1)
  BY DEF Init, StateOK, LockOK, Duty, Blank, NoThread
<1>4. Len(states) = 1 /\ states[1] = Blank(1)
  BY <1>1
<1>5. Threads = {}
  BY <1>1 DEF Threads
<1> QED BY <1>2, <1>3, <1>4, <1>5 DEF Init, ForkInv, LogOK, Nothing

\* Every step keeps the invariant.
LEMMA StepFork ==
  ASSUME ForkInv, [Next]_vars
  PROVE  ForkInv'
<1>1. CASE Fork
  BY <1>1, ForkKeeps
<1>2. CASE \E op \in Operations : Call(op)
  BY <1>2, CallKeeps
<1>3. ASSUME NEW t \in Threads, Renew(t) \/ Step(t)
      PROVE  ForkInv'
  <2>1. CASE GuardRead(t) \/ GuardCreate(t) \/ Recheck(t) \/ Enter(t)
    BY <2>1, GuardReadKeeps, GuardCreateKeeps, RecheckKeeps, EnterKeeps
  <2>2. CASE ResumeStart(t) \/ GateOpens(t) \/ OlderRemoved(t) \/ Renew(t) \/ StopEvent(t)
    BY <2>2, IdleMovesKeep
  <2>3. CASE \/ StatusSnapshot(t) \/ JoinRegister(t) \/ TakeNetworkLock(t)
             \/ Answer(t) \/ CommitRegister(t)
    BY <2>3, StatusKeeps, JoinRegisterKeeps, TakeNetworkLockKeeps, AnswerKeeps, CommitRegisterKeeps
  <2>4. CASE PrepareStart(t) \/ ActivateStart(t) \/ Shutdown(t)
    BY <2>4, PrepareStartKeeps, ActivateStartKeeps, ShutdownKeeps
  <2>5. CASE WorkerBegins(t) \/ WorkerOwns(t) \/ RecordRenewal(t) \/ FinishWorker(t)
    BY <2>5, WorkerBeginsKeeps, WorkerOwnsKeeps, RecordRenewalKeeps, FinishWorkerKeeps
  <2>6. CASE \/ ClaimRemoval(t) \/ CompleteRemoval(t) \/ CloseLogsWhenIdle(t)
             \/ TakeLogLock(t) \/ ReleaseLogLock(t)
    BY <2>6, RemovalsKeep, CloseLogsKeeps, LogLockKeeps
  <2> QED BY <1>3, <2>1, <2>2, <2>3, <2>4, <2>5, <2>6 DEF Step
<1>4. CASE UNCHANGED vars
  <2>1. UNCHANGED <<pid, states, current, logLock, finalizer, thr, did, calls>>
    BY <1>4 DEF vars, memory
  <2> QED BY <2>1
          DEF ForkInv, TypeOK, Threads, LogOK, Orphan, ThreadOK, PlaceOK, OwnedOK, AnnouncedOK,
              ClosingOK, StateOK, LockOK, Performing
<1> QED BY <1>1, <1>2, <1>3, <1>4 DEF Next

\* The inductive invariant.
THEOREM ForkSafe == Spec => []ForkInv
BY InitFork, StepFork, PTL DEF Spec

\* Every variable keeps its type and every thread holds on to a state that exists,
\* for any number of threads, calls and forks (_RegistryProcessState).
THEOREM ProcessTypeCorrect == Spec => []TypeOK
<1>1. ForkInv => TypeOK
  BY DEF ForkInv
<1> QED BY <1>1, ForkSafe, PTL

\* The thread that another one waits for, the holder of a lock or the one that performs
\* a removal, goes on in its own process, however often and whenever it was forked (_get_process_state).
THEOREM NoOrphan == Spec => []NoOrphanLock
<1>1. ASSUME ForkInv, NEW t \in Threads, BlockedBy(t) # NoThread
      PROVE  Alive(BlockedBy(t))
  <2>1. thr[t] \in ThreadRecords /\ ThreadOK(thr[t]) /\ TypeOK
    BY <1>1, ThreadFacts
  <2>2. Ended.at = "ended" /\ ~Ended.holds
    BY DEF Ended, Thread
  <2>3. CASE thr[t].at \in Sections /\ ~thr[t].holds
    <3>1. BlockedBy(t) = State(t).stateLock
      <4>1. thr[t].at \notin {"net", "detach", "close", "older"}
        BY <2>3 DEF Sections
      <4> QED BY <2>3, <4>1 DEF BlockedBy, At
    <3>2. thr[t].at \notin Private
      BY <2>3 DEF Sections, Private
    <3>3. LockOK(State(t), thr[t].st)
      BY <1>1, <2>1, <3>2, Holds DEF ThreadOK, OwnedOK, State
    <3>4. thr[State(t).stateLock].holds
      BY <1>1, <3>1, <3>3 DEF LockOK
    <3> QED BY <2>2, <3>1, <3>4 DEF Alive
  <2>4. CASE At(t, "net")
    <3>1. BlockedBy(t) = State(t).networkLock
      BY <2>4 DEF BlockedBy, At, Sections
    <3>2. thr[t].at \notin Private
      BY <2>4 DEF At, Private
    <3>3. LockOK(State(t), thr[t].st)
      BY <1>1, <2>1, <3>2, Holds DEF ThreadOK, OwnedOK, State
    <3>4. thr[State(t).networkLock].at \in Owning
      BY <1>1, <3>1, <3>3 DEF LockOK
    <3> QED BY <2>2, <3>1, <3>4 DEF Alive, Owning
  <2>5. CASE thr[t].at \in {"detach", "close"}
    <3>1. BlockedBy(t) = logLock
      BY <2>5 DEF BlockedBy, At, Sections
    <3>2. ~Orphan
      BY <2>1, <2>5 DEF ThreadOK, PlaceOK, ClosingOK
    <3> QED BY <1>1, <2>2, <3>1, <3>2 DEF Alive, Orphan
  <2>6. CASE At(t, "older") /\ State(t).active = thr[t].token
    <3>1. BlockedBy(t) = State(t).active
      BY <2>6 DEF BlockedBy, At, Sections
    <3>2. thr[t].at \notin Private
      BY <2>6 DEF At, Private
    <3>3. LockOK(State(t), thr[t].st)
      BY <1>1, <2>1, <3>2, Holds DEF ThreadOK, OwnedOK, State
    <3>4. Performing(thr[State(t).active])
      BY <1>1, <3>1, <3>3 DEF LockOK
    <3>5. ~Performing(Ended)
      BY <2>2 DEF Performing
    <3> QED BY <3>1, <3>4, <3>5 DEF Alive
  <2> QED BY <1>1, <2>3, <2>4, <2>5, <2>6 DEF BlockedBy
<1>2. ForkInv => NoOrphanLock
  BY <1>1 DEF NoOrphanLock
<1> QED BY <1>2, ForkSafe, PTL

\* A process removes a registration from the Admin only after it has registered or
\* started a worker itself, whatever its parent did before the fork (shutdown).
THEOREM LeavesParentAlone == Spec => []SilentExit
<1>1. ForkInv => SilentExit
  BY DEF ForkInv, SilentExit
<1> QED BY <1>1, ForkSafe, PTL

-----------------------------------------------------------------------------
(* What a start leaves.  Unless two threads replaced the parent's state at *)
(* the same time, the process has one state, the one in place, and every   *)
(* thread beyond the check of the pid works on it: _state_is_current lets  *)
(* none of them end, and its worker is where a worker is that has not been *)
(* stopped.                                                                *)

\* Where a thread is as long as the worker of a lifecycle.
Serving == {"gate", "wake", "begin", "older", "net", "own?", "own", "rpc", "settle", "record", "sleep"}

Serves(w, i, places) ==
  w \in Threads /\ thr[w].op = "worker" /\ thr[w].st = i /\ thr[w].at \in places

StartOK(s, i) ==
  /\ s.prepared # NoThread => Serves(s.prepared, i, {"gate"})
  /\ s.worker # NoThread => Serves(s.worker, i, Serving)

\* A start between its halves knows the thread it prepared.
TokenOK(r) == r.at \in {"resume", "activate"} => r.token # NoThread

OneState ==
  /\ \A i \in 1 .. Len(states) : states[i].pid = pid => i = current
  /\ did.started => states[current].pid = pid /\ states[current].worker # NoThread
  /\ states[current].pid = pid => StartOK(states[current], current)

StartInv == (\A t \in Threads : TokenOK(thr[t])) /\ (did.raced \/ OneState)

\* A step of one thread on one state.  Its process has no other state, unless two
\* threads raced for it.
LEMMA StartKeeps ==
  ASSUME TypeOK, StartInv, NEW t \in Threads, NEW r, NEW fresh, Advances(t, r, fresh),
         TokenOK(r), \A f \in fresh : TokenOK(f),
         NEW i \in 1 .. Len(states), NEW s, Rewrites(i, s), s.pid = states[i].pid,
         UNCHANGED <<pid, current>>, did'.raced = did.raced,
         states[i].pid = pid \/ (i = current /\ (did'.started => did.started)),
         ~did.raced /\ states[i].pid = pid =>
           /\ did'.started => s.worker # NoThread
           /\ StartOK(s, i)'
  PROVE  StartInv'
<1>1. \A u \in Threads' : TokenOK(thr'[u])
  BY DEF StartInv, Advances
<1>2. (\A u \in Threads : TokenOK(thr[u]))'
  BY <1>1 DEF TokenOK
<1>3. ASSUME ~did.raced  PROVE OneState'
  <2>1. OneState
    BY <1>3 DEF StartInv
  <2>2. Len(states') = Len(states) /\ \A j \in 1 .. Len(states) : states'[j].pid = states[j].pid
    BY DEF Rewrites, TypeOK
  <2>3. i = current /\ states'[current] = s
    BY <2>1 DEF OneState, Rewrites
  <2>4. (\A j \in 1 .. Len(states) : states[j].pid = pid => j = current)'
    BY <2>1, <2>2 DEF OneState
  <2>5. CASE states[i].pid = pid
    BY <1>3, <2>3, <2>4, <2>5 DEF OneState, StartOK, Serves
  <2>6. CASE states[i].pid # pid
    BY <2>1, <2>3, <2>4, <2>6 DEF OneState
  <2> QED BY <2>5, <2>6
<1> QED BY <1>2, <1>3 DEF StartInv

\* A worker stays in service while its thread does, and while others move.
LEMMA ServesKeeps ==
  ASSUME NEW t \in Threads, NEW r, NEW fresh, Advances(t, r, fresh),
         NEW w, NEW i, NEW places, Serves(w, i, places),
         w = t => r.op = "worker" /\ r.st = i /\ r.at \in places
  PROVE  Serves(w, i, places)'
BY DEF Serves, Advances

\* A step that starts no worker: it leaves the worker of the state, and the thread
\* that is prepared, alone or gives them up.
LEMMA NoStart ==
  ASSUME TypeOK, StartInv, NEW t \in Threads, NEW r, NEW fresh, Advances(t, r, fresh),
         TokenOK(r), \A f \in fresh : TokenOK(f),
         NEW i \in 1 .. Len(states), NEW s, Rewrites(i, s), s.pid = states[i].pid,
         UNCHANGED <<pid, current>>, did'.raced = did.raced,
         states[i].pid = pid \/ i = current,
         s.prepared \in {NoThread, states[i].prepared}, s.prepared # t \/ thr[t].at # "gate",
         s.worker \in {NoThread, states[i].worker},
         did'.started => did.started /\ (s.worker = states[i].worker \/ did.raced),
         ~did.raced /\ states[i].pid = pid /\ s.worker = t =>
           r.op = "worker" /\ r.st = i /\ r.at \in Serving
  PROVE  StartInv'
<1>1. ASSUME ~did.raced, states[i].pid = pid
      PROVE  (did'.started => s.worker # NoThread) /\ StartOK(s, i)'
  <2>1. OneState /\ i = current /\ StartOK(states[i], i)
    BY <1>1 DEF StartInv, OneState
  <2>2. did'.started => s.worker # NoThread
    BY <1>1, <2>1 DEF OneState
  <2>3. ASSUME s.prepared # NoThread  PROVE Serves(s.prepared, i, {"gate"})'
    <3>1. Serves(s.prepared, i, {"gate"}) /\ s.prepared # t
      BY <2>1, <2>3 DEF StartOK, Serves
    <3> QED BY <3>1, ServesKeeps
  <2>4. ASSUME s.worker # NoThread  PROVE Serves(s.worker, i, Serving)'
    <3>1. Serves(s.worker, i, Serving)
      BY <2>1, <2>4 DEF StartOK
    <3> QED BY <1>1, <3>1, ServesKeeps
  <2> QED BY <2>2, <2>3, <2>4 DEF StartOK, Serves
<1> HIDE DEF StartOK
<1> QED BY <1>1, StartKeeps

\* A thread that changes no state moves.
LEMMA NoStartMove ==
  ASSUME TypeOK, StartInv, NEW t \in Threads, thr[t] \in ThreadRecords,
         NEW r, NEW fresh, Advances(t, r, fresh), TokenOK(r), fresh = {},
         UNCHANGED <<pid, states, current, did>>,
         thr[t].at = "gate" => State(t).prepared # t /\ thr[t].st = current,
         ~did.raced /\ states[current].pid = pid /\ states[current].worker = t =>
           r.op = "worker" /\ r.st = current /\ r.at \in Serving
  PROVE  StartInv'
<1>1. current \in 1 .. Len(states) /\ Rewrites(current, states[current])
  BY StayView DEF TypeOK
<1>2. states[current].prepared # t \/ thr[t].at # "gate"
  BY DEF State
<1> QED BY <1>1, <1>2, NoStart

\* Unless there was a race, a thread beyond the check works on the state in place,
\* and the worker of that state is in service.
LEMMA ServingFacts ==
  ASSUME ForkInv, StartInv, NEW t \in Threads, thr[t].at \notin Private
  PROVE  /\ thr[t].st \in 1 .. Len(states) /\ State(t) = states[thr[t].st]
         /\ State(t) \in States /\ State(t).pid = pid /\ TokenOK(thr[t])
         /\ ~did.raced => thr[t].st = current
         /\ ~did.raced /\ State(t).worker = t =>
              thr[t].op = "worker" /\ thr[t].st = current /\ thr[t].at \in Serving
         /\ ~did.raced /\ State(t).prepared = t => thr[t].at = "gate"
<1>1. thr[t].st \in 1 .. Len(states) /\ State(t) \in States /\ State(t).pid = pid
  BY OwnedFacts
<1>2. t # NoThread
  BY DEF Threads, NoThread
<1> QED BY <1>1, <1>2 DEF State, StartInv, OneState, StartOK, Serves

\* What a move does to the token.
LEMMA MovedToken ==
  ASSUME NEW q \in ThreadRecords, NEW place \in Places \cup {"end"},
         place \notin {"resume", "activate"}
  PROVE  TokenOK(Moved(q, place)) /\ Moved(q, place) \in ThreadRecords
<1>1. Ended.at = "ended"
  BY DEF Ended, Thread
<1> QED BY <1>1, MovedFacts DEF TokenOK

\* The end of a section that starts no worker.
LEMMA NoStartLeave ==
  ASSUME ForkInv, StartInv, NEW t \in Threads, thr[t].at \in Sections,
         NEW s \in States, Leave(t, s), s.pid = State(t).pid, OnlyTheState,
         NEW r, NEW fresh, Advances(t, r, fresh), TokenOK(r), \A f \in fresh : TokenOK(f),
         did'.raced = did.raced,
         s.prepared \in {NoThread, State(t).prepared},
         s.worker \in {NoThread, State(t).worker},
         did'.started => did.started /\ (s.worker = State(t).worker \/ did.raced),
         ~did.raced /\ s.worker = t =>
           r.op = "worker" /\ r.st = thr[t].st /\ r.at \in Serving
  PROVE  StartInv'
<1> DEFINE q == [s EXCEPT !.stateLock = NoThread]
<1>1. /\ q \in States /\ q.pid = s.pid /\ q.prepared = s.prepared /\ q.worker = s.worker
  BY DEF States, NoThread
<1>2. thr[t].at \notin Private /\ thr[t].at # "gate"
  BY DEF Sections, Private
<1>3. TypeOK /\ Rewrites(thr[t].st, q)
  BY <1>1, <1>2, OwnedFacts, ThreadFacts, RewriteView DEF Leave, Update
<1>4. thr[t].st \in 1 .. Len(states) /\ State(t) = states[thr[t].st] /\ State(t).pid = pid
  BY <1>2, ServingFacts
<1>5. UNCHANGED <<pid, current>>
  BY DEF OnlyTheState
<1> HIDE DEF q
<1> QED BY <1>1, <1>2, <1>3, <1>4, <1>5, NoStart

\* The same where the thread goes on at another place.
LEMMA NoStartLeaveTo ==
  ASSUME ForkInv, StartInv, NEW t \in Threads, thr[t].at \in Sections,
         NEW s \in States, Leave(t, s), s.pid = State(t).pid, OnlyTheState,
         NEW place \in Places \cup {"end"}, thr' = Goto(t, place),
         place \notin {"resume", "activate"}, did'.raced = did.raced,
         s.prepared \in {NoThread, State(t).prepared},
         s.worker \in {NoThread, State(t).worker},
         did'.started => did.started /\ (s.worker = State(t).worker \/ did.raced),
         ~did.raced /\ s.worker = t => thr[t].op = "worker" /\ place \in Serving
  PROVE  StartInv'
<1> DEFINE r == Moved(thr[t], place)
<1>1. thr[t] \in ThreadRecords /\ TypeOK
  BY ThreadFacts
<1>2. Advances(t, r, {}) /\ TokenOK(r)
  BY <1>1, GotoView, MovedToken
<1>3. place \in Serving => r.op = thr[t].op /\ r.st = thr[t].st /\ r.at \in Serving
  BY <1>1, MovedFacts DEF Serving
<1> HIDE DEF r
<1> QED BY <1>2, <1>3, NoStartLeave

\* The same where a removal may be left due.
LEMMA NoStartScheduling ==
  ASSUME ForkInv, StartInv, NEW t \in Threads, thr[t].at \in Sections,
         NEW s \in States, NEW place \in {"end", "idle?"}, LeaveScheduling(t, s, place),
         s.pid = State(t).pid, OnlyTheState, did'.raced = did.raced,
         s.prepared \in {NoThread, State(t).prepared},
         s.worker \in {NoThread, State(t).worker}, ~did.raced => s.worker # t,
         did'.started => did.started /\ (s.worker = State(t).worker \/ did.raced)
  PROVE  StartInv'
<1> DEFINE r == Moved(thr[t], place)
           new == Thread("cleanup", "claim?", thr[t].st)
           q == [s EXCEPT !.actors = {Len(thr) + 1}]
<1>1. place \in Places \cup {"end"} /\ place \notin {"resume", "activate"}
  BY DEF Places, Checks
<1>2. thr[t] \in ThreadRecords /\ TypeOK /\ Len(thr) \in Nat /\ thr[t].st \in Nat
  BY ThreadFacts DEF TypeOK
<1>3. CASE Leave(t, s) /\ thr' = Goto(t, place)
  BY <1>1, <1>3, NoStartLeaveTo
<1>4. CASE Leave(t, q) /\ thr' = Append(Goto(t, place), new)
  <2>0. Len(thr) + 1 \in Nat
    BY <1>2
  <2>1. /\ q \in States /\ q.pid = s.pid /\ q.prepared = s.prepared /\ q.worker = s.worker
    BY <2>0 DEF States
  <2>2. new \in ThreadRecords /\ TokenOK(new)
    BY <1>2 DEF ThreadRecords, Thread, Places, Checks, TokenOK
  <2>3. TokenOK(r) /\ r \in ThreadRecords
    BY <1>1, <1>2, MovedToken
  <2>4. Advances(t, r, {new})
    BY <1>2, <1>4, <2>2, <2>3, SpawnView DEF Goto
  <2> HIDE DEF q, new, r
  <2> QED BY <1>4, <2>1, <2>2, <2>3, <2>4, NoStartLeave
<1> QED BY <1>3, <1>4 DEF LeaveScheduling

\* The moves that change no state.
LEMMA StartMoves ==
  ASSUME ForkInv, StartInv, NEW t \in Threads,
         \/ GuardRead(t) \/ ResumeStart(t) \/ GateOpens(t) \/ OlderRemoved(t) \/ Renew(t)
         \/ StopEvent(t) \/ TakeLogLock(t) \/ ReleaseLogLock(t)
  PROVE  StartInv'
<1>1. thr[t] \in ThreadRecords /\ TypeOK /\ t # NoThread /\ TokenOK(thr[t]) /\ thr[t].st \in Nat
  BY ThreadFacts DEF StartInv, TypeOK, NoThread
<1>2. UNCHANGED <<pid, states, current, did>>
  BY DEF GuardRead, ResumeStart, GateOpens, OlderRemoved, Renew, StopEvent, TakeLogLock,
         ReleaseLogLock, OnlyTheState, memory
<1>3. \* A worker in service takes none of these steps but to wake up.
      ASSUME ~did.raced, states[current].pid = pid, states[current].worker = t
      PROVE  thr[t].op = "worker" /\ thr[t].st = current /\ thr[t].at \in Serving
  BY <1>1, <1>3 DEF StartInv, OneState, StartOK, Serves
<1>4. ASSUME NEW place \in Places \cup {"end"}, thr' = Goto(t, place),
             place = "activate" => thr[t].at = "resume", place # "resume",
             thr[t].at = "gate" => State(t).prepared # t /\ place = "wake",
             thr[t].at \in Serving => place \in Serving \/ (thr[t].at = "sleep" /\ State(t).worker # t)
      PROVE  StartInv'
  <2> DEFINE r == Moved(thr[t], place)
  <2>1. Advances(t, r, {})
    BY <1>1, <1>4, GotoView
  <2>2. TokenOK(r)
    <3>1. place = "end" => r.at = "ended"
      BY <1>1, MovedFacts
    <3>2. place # "end" => r.token = thr[t].token /\ r.at = place
      BY <1>1 DEF Moved, ThreadRecords
    <3> QED BY <1>1, <1>4, <3>1, <3>2 DEF TokenOK
  <2>3. place \in Serving => r.op = thr[t].op /\ r.st = thr[t].st /\ r.at \in Serving
    BY <1>1, MovedFacts DEF Serving
  <2>4. ~did.raced /\ states[current].pid = pid /\ states[current].worker = t =>
          r.op = "worker" /\ r.st = current /\ r.at \in Serving
    BY <1>3, <1>4, <2>3 DEF State
  <2>5. CASE thr[t].at = "gate" /\ thr[t].st # current
    \* It is the state of a process in which two threads raced.
    <3>1. thr[t].at \notin Private
      BY <2>5 DEF Private
    <3>2. did.raced
      BY <2>5, <3>1, ServingFacts
    <3>3. \A u \in Threads' : TokenOK(thr'[u])
      BY <2>1, <2>2 DEF StartInv, Advances
    <3> QED BY <1>2, <3>2, <3>3 DEF StartInv, TokenOK
  <2>6. CASE thr[t].at = "gate" => thr[t].st = current
    <3> HIDE DEF r
    <3> QED BY <1>1, <1>2, <1>4, <2>1, <2>2, <2>4, <2>6, NoStartMove
  <2> QED BY <2>5, <2>6
<1>5. {"create", "wake", "finish?", "activate", "end", "detaching", "closing", "guard"}
        \subseteq Places \cup {"end"}
  BY DEF Places, Checks, Sections
<1>6. CASE ResumeStart(t) \/ GateOpens(t) \/ OlderRemoved(t) \/ Renew(t) \/ StopEvent(t)
  BY <1>4, <1>5, <1>6 DEF ResumeStart, GateOpens, OlderRemoved, Renew, StopEvent, At, Serving
<1>7. CASE TakeLogLock(t) \/ ReleaseLogLock(t)
  BY <1>4, <1>5, <1>7 DEF TakeLogLock, ReleaseLogLock, At, Serving
<1>8. CASE GuardRead(t)
  <2>1. CASE thr' = Goto(t, "create")
    BY <1>4, <1>5, <1>8, <2>1 DEF GuardRead, At, Serving
  <2>2. CASE Fetch(t, current)
    <3> DEFINE r == [thr[t] EXCEPT !.st = current, !.at = FirstSection(thr[t].op)]
    <3>1. thr[t].op \in Calls /\ thr[t].at = "guard"
      BY <1>8, ThreadFacts DEF GuardRead, At, ThreadOK, PlaceOK
    <3>2. FirstSection(thr[t].op) \in Places \ {"resume", "activate"}
      BY <3>1 DEF FirstSection, Calls, Places, Sections
    <3>0. current \in Nat
      BY <1>1 DEF TypeOK
    <3>3. r \in ThreadRecords /\ r.at = FirstSection(thr[t].op)
      BY <1>1, <3>0, <3>2 DEF ThreadRecords
    <3>4. Advances(t, r, {})
      BY <1>1, <2>2, <3>3, MoveView DEF Fetch
    <3>5. TokenOK(r)
      BY <3>2, <3>3 DEF TokenOK
    <3>6. thr[t].at \notin Serving /\ thr[t].at # "gate"
      BY <3>1 DEF Serving
    <3> HIDE DEF r
    <3> QED BY <1>1, <1>2, <1>3, <3>4, <3>5, <3>6, NoStartMove
  <2> QED BY <1>8, <2>1, <2>2 DEF GuardRead
<1> QED BY <1>6, <1>7, <1>8

\* _state_is_current, the locks and the Admin call.
LEMMA StartLocks ==
  ASSUME ForkInv, StartInv, NEW t \in Threads,
         Recheck(t) \/ Enter(t) \/ TakeNetworkLock(t) \/ Answer(t)
  PROVE  StartInv'
<1>1. /\ thr[t] \in ThreadRecords /\ TypeOK /\ t # NoThread /\ t \in Nat /\ did \in Dids
      /\ thr[t].at \notin Private /\ thr[t].at # "gate" /\ ThreadOK(thr[t])
  BY ThreadFacts
     DEF NoThread, Recheck, Enter, TakeNetworkLock, Answer, At, Checks, Sections, Private
<1>2. UNCHANGED <<pid, current>> /\ did'.raced = did.raced /\ did'.started = did.started
  BY <1>1 DEF Recheck, Enter, TakeNetworkLock, Answer, OnlyTheState, Dids
<1>7. /\ TokenOK(thr[t])
      /\ ~did.raced /\ State(t).worker = t => thr[t].op = "worker" /\ thr[t].at \in Serving
  BY <1>1, ServingFacts
<1>3. ASSUME NEW r \in ThreadRecords, thr' = [thr EXCEPT ![t] = r], TokenOK(r),
             NEW s \in States, states' = [states EXCEPT ![thr[t].st] = s],
             s.pid = State(t).pid, s.worker = State(t).worker, s.prepared = State(t).prepared,
             ~did.raced /\ State(t).worker = t =>
               r.op = "worker" /\ r.st = thr[t].st /\ r.at \in Serving
      PROVE  StartInv'
  <2>1. Advances(t, r, {})
    BY <1>1, <1>3, MoveView
  <2>2. Rewrites(thr[t].st, s)
    BY <1>1, <1>3, ServingFacts, RewriteView
  <2> QED BY <1>1, <1>2, <1>3, <2>1, <2>2, ServingFacts, NoStart
<1>4. CASE Enter(t)
  <2> DEFINE r == [thr[t] EXCEPT !.holds = TRUE]
             s == [State(t) EXCEPT !.stateLock = t]
  <2>1. /\ r \in ThreadRecords /\ r.op = thr[t].op /\ r.st = thr[t].st /\ r.at = thr[t].at
        /\ r.token = thr[t].token
    BY <1>1 DEF ThreadRecords
  <2>2. /\ s \in States /\ s.pid = State(t).pid /\ s.worker = State(t).worker
        /\ s.prepared = State(t).prepared
    BY <1>1, ServingFacts, SMTT(30) DEF States
  <2>3. thr' = [thr EXCEPT ![t] = r] /\ states' = [states EXCEPT ![thr[t].st] = s]
    BY <1>4 DEF Enter, Update
  <2>4. TokenOK(r)
    BY <1>7, <2>1 DEF TokenOK
  <2> HIDE DEF r, s
  <2> QED BY <1>3, <1>7, <2>1, <2>2, <2>3, <2>4
<1>5. CASE TakeNetworkLock(t) \/ Answer(t)
  <2> DEFINE place == IF thr[t].at = "rpc" THEN "settle"
                      ELSE IF thr[t].op = "worker" THEN "own?" ELSE "rpc"
             n == IF thr[t].at = "rpc" THEN NoThread ELSE t
             r == Moved(thr[t], place)
             s == [State(t) EXCEPT !.networkLock = n]
  <2>1. place \in Places /\ place \notin {"resume", "activate", "end"} /\ place \in Serving
    BY DEF Places, Checks, Serving
  <2>2. r \in ThreadRecords /\ TokenOK(r) /\ r.op = thr[t].op /\ r.st = thr[t].st /\ r.at = place
    BY <1>1, <2>1, MovedFacts, MovedToken
  <2>3. /\ s \in States /\ s.pid = State(t).pid /\ s.worker = State(t).worker
        /\ s.prepared = State(t).prepared
    <3>1. n \in Nat
      BY <1>1 DEF NoThread
    <3> QED BY <1>1, <3>1, ServingFacts, SMTT(30) DEF States
  <2>4. thr' = [thr EXCEPT ![t] = r] /\ states' = [states EXCEPT ![thr[t].st] = s]
    BY <1>5 DEF TakeNetworkLock, Answer, Update, Goto, At
  <2> HIDE DEF r, s, place, n
  <2> QED BY <1>3, <1>7, <2>1, <2>2, <2>3, <2>4
<1>6. CASE Recheck(t)
  <2>1. CASE Current(t) /\ thr' = Goto(t, Checked(t)) /\ states' = states
    <3> DEFINE r == Moved(thr[t], Checked(t))
    <3>1. /\ Checked(t) \in Places \ {"resume", "activate"}
          /\ thr[t].at \in Serving /\ thr[t].op = "worker" => Checked(t) \in Serving
      BY <1>1, <1>6 DEF Recheck, Checked, At, Checks, Places, Sections, Serving, ThreadOK, PlaceOK
    <3>2. r \in ThreadRecords /\ TokenOK(r)
      BY <1>1, <3>1, MovedToken
    <3>3. Checked(t) # "end"
      BY <3>1 DEF Places, Checks, Sections
    <3>4. r.op = thr[t].op /\ r.st = thr[t].st /\ r.at = Checked(t)
      BY <1>1, <3>1, <3>3, MovedFacts
    <3>5. states' = [states EXCEPT ![thr[t].st] = State(t)]
      BY <1>1, <2>1, ServingFacts DEF TypeOK
    <3>6. thr' = [thr EXCEPT ![t] = r]
      BY <2>1 DEF Goto
    <3>7. State(t) \in States
      BY <1>1, ServingFacts
    <3> HIDE DEF r
    <3> QED BY <1>3, <1>7, <3>1, <3>2, <3>4, <3>5, <3>6, <3>7
  <2>2. CASE ~Current(t) /\ thr' = Goto(t, "end") /\ Update(t, Freed(State(t), t))
    <3> DEFINE r == Moved(thr[t], "end")
               s == Freed(State(t), t)
    <3>1. did.raced
      BY <1>1, <2>2, ServingFacts DEF Current
    <3>2. r \in ThreadRecords /\ TokenOK(r)
      BY <1>1, MovedToken
    <3>3. /\ s \in States /\ s.pid = State(t).pid /\ s.worker = State(t).worker
          /\ s.prepared = State(t).prepared
      <4>1. State(t) \in States /\ t \in Nat \ {0}
        BY <1>1, ServingFacts, ThreadFacts
      <4> QED BY <4>1, ReplacedFacts
    <3>4. thr' = [thr EXCEPT ![t] = r] /\ states' = [states EXCEPT ![thr[t].st] = s]
      BY <2>2 DEF Goto, Update
    <3> HIDE DEF r, s
    <3> QED BY <1>1, <1>3, <3>1, <3>2, <3>3, <3>4
  <2> QED BY <1>6, <2>1, <2>2 DEF Recheck, Freed
<1> QED BY <1>4, <1>5, <1>6


\* The sections that start no worker and stop none.
LEMMA StartSections ==
  ASSUME ForkInv, StartInv, NEW t \in Threads,
         \/ StatusSnapshot(t) \/ JoinRegister(t) \/ CommitRegister(t) \/ WorkerBegins(t)
         \/ WorkerOwns(t) \/ RecordRenewal(t) \/ CloseLogsWhenIdle(t)
         \/ ClaimRemoval(t) \/ CompleteRemoval(t)
  PROVE  StartInv'
<1>0. /\ thr[t].at \in {"status", "join", "commit", "begin", "own", "record", "idle",
                         "claim", "complete"}
      /\ OnlyTheState /\ did' = did
  <2>1. CASE StatusSnapshot(t) \/ JoinRegister(t)
    BY <2>1, Zenon DEF StatusSnapshot, JoinRegister, Inside, At
  <2>2. CASE CommitRegister(t)
    BY <2>2, Zenon DEF CommitRegister, Inside, At
  <2>3. CASE WorkerBegins(t) \/ WorkerOwns(t)
    BY <2>3, Zenon DEF WorkerBegins, WorkerOwns, Inside, At
  <2>4. CASE RecordRenewal(t) \/ CloseLogsWhenIdle(t)
    BY <2>4, Zenon DEF RecordRenewal, CloseLogsWhenIdle, Inside, At
  <2>5. CASE ClaimRemoval(t) \/ CompleteRemoval(t)
    BY <2>5, Zenon DEF ClaimRemoval, CompleteRemoval, Inside, At
  <2> QED BY <2>1, <2>2, <2>3, <2>4, <2>5
<1>1. /\ thr[t] \in ThreadRecords /\ TypeOK /\ t # NoThread
      /\ thr[t].at \in Sections /\ thr[t].at \notin Private /\ ThreadOK(thr[t])
  BY <1>0, ThreadFacts DEF NoThread, Sections, Private
<1>2. OnlyTheState /\ did'.raced = did.raced /\ did'.started = did.started
  BY <1>0 DEF OnlyTheState
<1>3. /\ State(t) \in States
      /\ ~did.raced /\ State(t).worker = t => thr[t].op = "worker" /\ thr[t].at \in Serving
  BY <1>1, ServingFacts
<1>4. \* The thread leaves s, which has the same worker, and goes on at another place.
      ASSUME NEW s \in States, Leave(t, s), s.pid = State(t).pid, s.worker = State(t).worker,
             s.prepared = State(t).prepared,
             NEW place \in Places \cup {"end"}, thr' = Goto(t, place),
             place \notin {"resume", "activate"},
             ~did.raced /\ State(t).worker = t => place \in Serving
      PROVE  StartInv'
  BY <1>1, <1>2, <1>3, <1>4, NoStartLeaveTo
<1>5. \* The same, with a removal that may be due.
      ASSUME NEW s \in States, NEW place \in {"end", "idle?"}, LeaveScheduling(t, s, place),
             s.pid = State(t).pid, s.worker = State(t).worker, s.prepared = State(t).prepared,
             thr[t].at \notin Serving
      PROVE  StartInv'
  BY <1>1, <1>2, <1>3, <1>5, NoStartScheduling
<1>6. {"end", "idle?", "sleep", "finish?", "net", "rpc", "close", "call"} \subseteq Places \cup {"end"}
  BY DEF Places, Checks, Sections
<1>7. CASE StatusSnapshot(t)
  BY <1>3, <1>4, <1>6, <1>7 DEF StatusSnapshot, Inside, At, Serving
<1>8. CASE WorkerBegins(t)
  <2>1. Leave(t, State(t))
    BY <1>8 DEF WorkerBegins
  <2> DEFINE waits == State(t).older # NoThread /\ State(t).active = State(t).older
  <2>2. CASE State(t).worker = t /\ waits
    <3> DEFINE r == [Moved(thr[t], "older") EXCEPT !.token = State(t).older]
    <3>1. thr' = [thr EXCEPT ![t] = r]
      BY <1>8, <2>2 DEF WorkerBegins
    <3>2. /\ r \in ThreadRecords /\ r.op = thr[t].op /\ r.at = "older" /\ r.st = thr[t].st
      <4>1. "older" \in Places /\ State(t).older \in Nat
        BY <1>3 DEF Places, States
      <4> QED BY <1>1, <4>1, MovedFacts DEF ThreadRecords
    <3>3. Advances(t, r, {}) /\ TokenOK(r)
      BY <1>1, <3>1, <3>2, MoveView DEF TokenOK
    <3>4. r.at \in Serving
      BY <3>2 DEF Serving
    <3> HIDE DEF r
    <3> QED BY <1>1, <1>2, <1>3, <2>1, <3>2, <3>3, <3>4, NoStartLeave
  <2>3. CASE ~(State(t).worker = t /\ waits)
    <3>1. PICK place \in {"net", "finish?", "end"} :
            thr' = Goto(t, place) /\ (State(t).worker = t => place = "net")
      <4>1. CASE State(t).worker = t
        BY <1>8, <2>3, <4>1 DEF WorkerBegins
      <4>2. CASE State(t).worker # t
        BY <1>8, <4>2 DEF WorkerBegins
      <4> QED BY <4>1, <4>2
    <3> QED BY <1>3, <1>4, <1>6, <2>1, <3>1 DEF Serving
  <2> QED BY <2>2, <2>3
<1>9. CASE WorkerOwns(t)
  <2>1. CASE State(t).worker = t /\ Leave(t, State(t)) /\ thr' = Goto(t, "rpc")
    BY <1>3, <1>4, <1>6, <2>1 DEF Serving
  <2>2. CASE /\ State(t).worker # t /\ thr' = Goto(t, "finish?")
             /\ Leave(t, [State(t) EXCEPT !.networkLock = NoThread])
    <3>1. LET s == [State(t) EXCEPT !.networkLock = NoThread]
          IN  /\ s \in States /\ s.pid = State(t).pid /\ s.worker = State(t).worker
              /\ s.prepared = State(t).prepared
      BY <1>3 DEF States, NoThread
    <3> QED BY <1>4, <1>6, <2>2, <3>1
  <2> QED BY <1>9, <2>1, <2>2 DEF WorkerOwns
<1>10. CASE RecordRenewal(t)
  <2>1. CASE State(t).worker # t /\ Leave(t, State(t)) /\ thr' = Goto(t, "finish?")
    BY <1>3, <1>4, <1>6, <2>1
  <2>2. ASSUME NEW b \in BOOLEAN, thr' = Goto(t, "sleep"),
               Leave(t, [State(t) EXCEPT !.registered = b])
        PROVE  StartInv'
    <3>1. LET s == [State(t) EXCEPT !.registered = b]
          IN  /\ s \in States /\ s.pid = State(t).pid /\ s.worker = State(t).worker
              /\ s.prepared = State(t).prepared
      BY <1>3 DEF States
    <3> QED BY <1>4, <1>6, <2>2, <3>1 DEF Serving
  <2> QED BY <1>10, <2>1, <2>2 DEF RecordRenewal
<1>11. CASE CloseLogsWhenIdle(t)
  <2>1. thr[t].at \notin Serving
    BY <1>11 DEF CloseLogsWhenIdle, Inside, At, Serving
  <2>2. PICK b \in BOOLEAN, place \in {"close", "end"} :
          Leave(t, [State(t) EXCEPT !.logsClosed = @ \/ b]) /\ thr' = Goto(t, place)
    BY <1>11 DEF CloseLogsWhenIdle
  <2>3. LET s == [State(t) EXCEPT !.logsClosed = @ \/ b]
        IN  /\ s \in States /\ s.pid = State(t).pid /\ s.worker = State(t).worker
            /\ s.prepared = State(t).prepared
    BY <1>3 DEF States
  <2> QED BY <1>3, <1>4, <1>6, <2>1, <2>2, <2>3
<1>12. CASE ClaimRemoval(t)
  <2>1. thr[t].at \notin Serving
    BY <1>12 DEF ClaimRemoval, Inside, At, Serving
  <2>2. CASE Leave(t, [State(t) EXCEPT !.pending = FALSE, !.active = t]) /\ thr' = Goto(t, "call")
    <3>0. t \in Nat
      BY ThreadFacts
    <3>1. LET s == [State(t) EXCEPT !.pending = FALSE, !.active = t]
          IN  /\ s \in States /\ s.pid = State(t).pid /\ s.worker = State(t).worker
              /\ s.prepared = State(t).prepared
      BY <1>3, <3>0 DEF States
    <3> QED BY <1>3, <1>4, <1>6, <2>1, <2>2, <3>1
  <2>3. CASE LeaveScheduling(t, [State(t) EXCEPT !.actors = @ \ {t}], "idle?")
    <3>1. LET s == [State(t) EXCEPT !.actors = @ \ {t}]
          IN  /\ s \in States /\ s.pid = State(t).pid /\ s.worker = State(t).worker
              /\ s.prepared = State(t).prepared
      BY <1>3 DEF States
    <3> QED BY <1>5, <2>1, <2>3, <3>1
  <2> QED BY <1>12, <2>2, <2>3 DEF ClaimRemoval
<1>13. CASE CompleteRemoval(t)
  <2>1. thr[t].at \notin Serving
    BY <1>13 DEF CompleteRemoval, Inside, At, Serving
  <2>2. PICK success \in BOOLEAN : LeaveScheduling(t, Removed(t, success), "idle?")
    BY <1>13 DEF CompleteRemoval
  <2>3. LET s == Removed(t, success)
        IN  /\ s \in States /\ s.pid = State(t).pid /\ s.worker = State(t).worker
            /\ s.prepared = State(t).prepared
    BY <1>3, RemovedFacts
  <2> QED BY <1>5, <2>1, <2>2, <2>3
<1>14. CASE JoinRegister(t)
  <2>1. thr[t].at \notin Serving
    BY <1>14 DEF JoinRegister, Inside, At, Serving
  <2>2. PICK k \in Int : Leave(t, [State(t) EXCEPT !.inflight = k])
    <3> DEFINE n == IF ~State(t).cleanup THEN State(t).inflight + 1 ELSE State(t).inflight
    <3>1. n \in Int
      BY <1>3 DEF States
    <3>2. Leave(t, [State(t) EXCEPT !.inflight = n])
      BY <1>14 DEF JoinRegister
    <3> QED BY <3>1, <3>2
  <2>3. LET s == [State(t) EXCEPT !.inflight = k]
        IN  /\ s \in States /\ s.pid = State(t).pid /\ s.worker = State(t).worker
            /\ s.prepared = State(t).prepared
    BY <1>3 DEF States
  <2>4. PICK n \in Nat : thr' = [thr EXCEPT ![t] = [Moved(thr[t], "call") EXCEPT !.token = n]]
    <3>1. (IF ~State(t).cleanup THEN State(t).generation + 1 ELSE 0) \in Nat
      BY <1>3 DEF States
    <3> QED BY <1>14, <3>1 DEF JoinRegister
  <2> DEFINE r == [Moved(thr[t], "call") EXCEPT !.token = n]
             s == [State(t) EXCEPT !.inflight = k]
  <2>5. Moved(thr[t], "call") \in ThreadRecords /\ Moved(thr[t], "call").at = "call"
    BY <1>1, <1>6, MovedFacts
  <2>6. r \in ThreadRecords /\ r.at = "call"
    BY <2>5 DEF ThreadRecords
  <2>7. TokenOK(r) /\ Advances(t, r, {})
    BY <1>1, <2>4, <2>6, MoveView DEF TokenOK
  <2>8. did'.started => did.started
    BY <1>2
  <2>9. s \in States /\ s.pid = State(t).pid /\ s.worker = State(t).worker /\ s.prepared = State(t).prepared
        /\ Leave(t, s)
    BY <2>2, <2>3
  <2> HIDE DEF r, s
  <2> QED BY <1>1, <1>2, <1>3, <2>1, <2>7, <2>8, <2>9, NoStartLeave
<1>15. CASE CommitRegister(t)
  <2>1. thr[t].at \notin Serving
    <3>1. thr[t].at = "commit"
      BY <1>15, Zenon DEF CommitRegister, Inside, At
    <3> QED BY <3>1 DEF Serving
  <2>2. PICK s \in States, place \in {"end", "idle?"} :
          /\ s.pid = State(t).pid /\ s.worker = State(t).worker /\ s.prepared = State(t).prepared
          /\ LeaveScheduling(t, s, place)
    <3>1. PICK s \in States :
            /\ LeaveScheduling(t, s, IF thr[t].token = 0 THEN "end" ELSE "idle?")
            /\ s.pid = State(t).pid /\ s.worker = State(t).worker /\ s.prepared = State(t).prepared
      BY <1>3, <1>15, CommitView, Zenon
    <3>2. CASE thr[t].token = 0
      BY <3>1, <3>2
    <3>3. CASE thr[t].token # 0
      BY <3>1, <3>3
    <3> QED BY <3>2, <3>3
  <2> QED BY <1>5, <2>1, <2>2
<1> QED BY <1>7, <1>8, <1>9, <1>10, <1>11, <1>12, <1>13, <1>14, <1>15

\* A worker that ends has been taken out of the service before.
LEMMA StartFinish ==
  ASSUME ForkInv, StartInv, NEW t \in Threads, FinishWorker(t)
  PROVE  StartInv'
<1>1. /\ thr[t] \in ThreadRecords /\ TypeOK /\ t # NoThread
      /\ thr[t].at = "finish" /\ thr[t].at \in Sections /\ thr[t].at \notin Private \cup Serving
  BY ThreadFacts DEF NoThread, FinishWorker, Inside, At, Sections, Private, Serving
<1>2. OnlyTheState /\ did' = did
  BY DEF FinishWorker
<1>3. State(t) \in States /\ (~did.raced => State(t).worker # t)
  BY <1>1, ServingFacts
<1> DEFINE left == [State(t) EXCEPT !.stopping = @ \ {t}, !.worker = IF @ = t THEN NoThread ELSE @]
<1>4. /\ left \in States /\ left.pid = State(t).pid /\ left.prepared = State(t).prepared
      /\ left.worker \in {NoThread, State(t).worker} /\ left.worker # t
      /\ State(t).worker # t => left.worker = State(t).worker
  <2> DEFINE stopping == State(t).stopping \ {t}
             worker == IF State(t).worker = t THEN NoThread ELSE State(t).worker
  <2>1. stopping \in SUBSET Nat /\ worker \in Nat
    BY <1>3 DEF States, NoThread
  <2>2. /\ worker \in {NoThread, State(t).worker} /\ worker # t
        /\ State(t).worker # t => worker = State(t).worker
    BY <1>1
  <2>3. left = [State(t) EXCEPT !.stopping = stopping, !.worker = worker]
    OBVIOUS
  <2> HIDE DEF left, stopping, worker
  <2> QED BY <1>3, <2>1, <2>2, <2>3 DEF States
<1>5. CASE LeaveScheduling(t, left, "idle?")
  <2> HIDE DEF left
  <2> QED BY <1>1, <1>2, <1>3, <1>4, <1>5, NoStartScheduling
<1>6. CASE /\ Leave(t, ClaimedBy(t, left))
           /\ thr' = [thr EXCEPT ![t] = [Moved(@, "call") EXCEPT !.op = "cleanup"]]
  <2> DEFINE q == ClaimedBy(t, left)
             r == [Moved(thr[t], "call") EXCEPT !.op = "cleanup"]
  <2>1. q \in States /\ q.pid = left.pid /\ q.worker = left.worker /\ q.prepared = left.prepared
    <3> HIDE DEF left
    <3>1. t \in Nat
      BY ThreadFacts
    <3> QED BY <1>4, <3>1, ClaimedFacts
  <2>2. Moved(thr[t], "call") \in ThreadRecords /\ Moved(thr[t], "call").at = "call"
    <3>1. "call" \in Places
      BY DEF Places, Checks
    <3> QED BY <1>1, <3>1, MovedFacts
  <2>3. r \in ThreadRecords /\ r.at = "call"
    BY <2>2 DEF ThreadRecords
  <2>4. TokenOK(r) /\ Advances(t, r, {})
    BY <1>1, <1>6, <2>3, MoveView DEF TokenOK
  <2>5. Leave(t, q)
    BY <1>6
  <2> HIDE DEF q, r, left
  <2> QED BY <1>1, <1>2, <1>3, <1>4, <2>1, <2>4, <2>5, NoStartLeave
<1> QED BY <1>5, <1>6 DEF FinishWorker, ClaimedBy

\* After a shutdown nothing is started.
LEMMA StartShutdown ==
  ASSUME ForkInv, StartInv, NEW t \in Threads, Shutdown(t)
  PROVE  StartInv'
<1>1. /\ thr[t] \in ThreadRecords /\ TypeOK /\ t # NoThread /\ did \in Dids
      /\ thr[t].at \in Sections /\ thr[t].at \notin Private \cup Serving
  BY ThreadFacts DEF NoThread, Shutdown, Inside, At, Sections, Private, Serving
<1>2. OnlyTheState /\ did'.raced = did.raced /\ did'.started = FALSE
  BY <1>1 DEF Shutdown, Dids
<1>3. State(t) \in States
  BY <1>1, ServingFacts
<1>4. PICK s \in States :
        /\ s.pid = State(t).pid /\ s.worker = NoThread /\ s.prepared = NoThread
        /\ LeaveScheduling(t, s, "idle?")
  <2> DEFINE stopping == State(t).stopping \cup ({State(t).worker} \ {NoThread})
             cleanup  == State(t).inflight > 0
             pending  == State(t).inflight = 0 /\ CleanupDue(State(t))
             s == ShutState(State(t), stopping, cleanup, pending)
  <2>1. stopping \in SUBSET Nat /\ cleanup \in BOOLEAN /\ pending \in BOOLEAN
    BY <1>3 DEF States
  <2>2. LeaveScheduling(t, s, "idle?")
    BY DEF Shutdown, ShutState
  <2>3. s \in States /\ s.pid = State(t).pid /\ s.worker = NoThread /\ s.prepared = NoThread
    <3> HIDE DEF stopping, cleanup, pending
    <3> QED BY <1>3, <2>1, ShutType
  <2> HIDE DEF s
  <2> QED BY <2>2, <2>3
<1> QED BY <1>1, <1>2, <1>3, <1>4, NoStartScheduling

\* A state whose candidate is a thread that has just been started at the gate.
LEMMA StartCandidate ==
  ASSUME TypeOK, StartInv, NEW t \in Threads, NEW r, NEW new, Advances(t, r, {new}),
         TokenOK(r), TokenOK(new), NEW w, w \in Threads', thr'[w] = new, w # NoThread,
         NEW i \in 1 .. Len(states), states[i].pid = pid,
         new.op = "worker" /\ new.at = "gate" /\ new.st = i,
         NEW q, Rewrites(i, q), q.pid = states[i].pid, q.prepared = w,
         q.worker = states[i].worker, ~did.raced => q.worker # t,
         UNCHANGED <<pid, current, did>>
  PROVE  StartInv'
<1>1. ASSUME ~did.raced
      PROVE  (did'.started => q.worker # NoThread) /\ StartOK(q, i)'
  <2>1. OneState /\ i = current /\ StartOK(states[i], i)
    BY <1>1 DEF StartInv, OneState
  <2>2. did'.started => q.worker # NoThread
    BY <2>1 DEF OneState
  <2>3. Serves(w, i, {"gate"})'
    BY DEF Serves
  <2>4. ASSUME q.worker # NoThread  PROVE Serves(q.worker, i, Serving)'
    <3>1. Serves(q.worker, i, Serving) /\ q.worker # t
      BY <1>1, <2>1, <2>4 DEF StartOK
    <3> QED BY <3>1, ServesKeeps
  <2> QED BY <2>2, <2>3, <2>4 DEF StartOK
<1> HIDE DEF StartOK
<1> QED BY <1>1, StartKeeps

\* A start prepares a thread, which waits at the gate.
LEMMA StartPrepare ==
  ASSUME ForkInv, StartInv, NEW t \in Threads, PrepareStart(t)
  PROVE  StartInv'
<1>1. /\ thr[t] \in ThreadRecords /\ TypeOK /\ t # NoThread
      /\ thr[t].at \in Sections /\ thr[t].at \notin Private \cup Serving
  BY ThreadFacts DEF NoThread, PrepareStart, Inside, At, Sections, Private, Serving
<1>2. OnlyTheState /\ did' = did
  BY DEF PrepareStart
<1>3. /\ State(t) \in States /\ Len(thr) + 1 \in Nat /\ Len(thr) \in Nat
      /\ State(t) = states[thr[t].st] /\ State(t).pid = pid
      /\ thr[t].st \in 1 .. Len(states)
      /\ ~did.raced => thr[t].st = current /\ State(t).worker # t
  BY <1>1, ServingFacts DEF TypeOK
<1>4. CASE Leave(t, State(t)) /\ thr' = Goto(t, "end")
  BY <1>1, <1>2, <1>3, <1>4, NoStartLeaveTo
<1>5. CASE /\ Leave(t, [State(t) EXCEPT !.prepared = Len(thr) + 1])
           /\ thr' = Append([thr EXCEPT ![t] = [Moved(thr[t], "resume") EXCEPT !.token = Len(thr) + 1]],
                            Thread("worker", "gate", thr[t].st))
  <2> DEFINE r == [Moved(thr[t], "resume") EXCEPT !.token = Len(thr) + 1]
             w == Len(thr) + 1
             s == [State(t) EXCEPT !.prepared = w]
             q == [s EXCEPT !.stateLock = NoThread]
             new == Thread("worker", "gate", thr[t].st)
  <2>1. Moved(thr[t], "resume") \in ThreadRecords
    <3>1. "resume" \in Places
      BY DEF Places
    <3> QED BY <1>1, <3>1, MovedFacts
  <2>2. r \in ThreadRecords /\ TokenOK(r)
    BY <1>3, <2>1 DEF ThreadRecords, TokenOK, NoThread
  <2>3. /\ new \in ThreadRecords /\ TokenOK(new) /\ new.op = "worker" /\ new.at = "gate"
        /\ new.st = thr[t].st
    BY <1>1 DEF ThreadRecords, Thread, Places, TokenOK
  <2>4. s \in States /\ s.pid = State(t).pid /\ s.prepared = w /\ s.worker = State(t).worker
    <3> HIDE DEF w
    <3>1. w \in Nat
      BY <1>3 DEF w
    <3> QED BY <1>3, <3>1 DEF States
  <2>5. q \in States /\ q.pid = State(t).pid /\ q.prepared = w /\ q.worker = State(t).worker
    <3> HIDE DEF s
    <3> QED BY <2>4 DEF States, NoThread
  <2>6. Advances(t, r, {new})
    BY <1>1, <1>5, <2>2, <2>3, SpawnView
  <2>7. Rewrites(thr[t].st, q)
    BY <1>1, <1>3, <1>5, <2>5, RewriteView DEF Leave, Update
  <2>8. w \in Threads' /\ thr'[w] = new
    <3>1. thr' = Append([thr EXCEPT ![t] = r], new) /\ thr \in Seq(ThreadRecords)
      BY <1>1, <1>5 DEF TypeOK
    <3>2. [thr EXCEPT ![t] = r] \in Seq(ThreadRecords) /\ Len([thr EXCEPT ![t] = r]) = Len(thr)
      BY <2>2, <3>1, ExceptSeq DEF Threads
    <3> HIDE DEF r, new
    <3> QED BY <1>3, <2>3, <3>1, <3>2 DEF Threads
  <2> HIDE DEF r, new, q, s, w
  <2>9. w # NoThread
    BY <1>3 DEF w, NoThread
  <2>10. UNCHANGED <<pid, current, did>>
    BY <1>2 DEF OnlyTheState
  <2> QED BY <1>1, <1>3, <2>2, <2>3, <2>5, <2>6, <2>7, <2>8, <2>9, <2>10, StartCandidate
<1> QED BY <1>4, <1>5 DEF PrepareStart

\* A start that is activated has prepared a thread, which becomes the worker.
LEMMA StartActivate ==
  ASSUME ForkInv, StartInv, NEW t \in Threads, ActivateStart(t)
  PROVE  StartInv'
<1>1. /\ thr[t] \in ThreadRecords /\ TypeOK /\ t # NoThread /\ did \in Dids
      /\ thr[t].at = "activate" /\ thr[t].at \in Sections /\ thr[t].at \notin Private \cup Serving
  BY ThreadFacts DEF NoThread, ActivateStart, Inside, At, Sections, Private, Serving
<1>2. OnlyTheState /\ thr' = Goto(t, "end")
  BY DEF ActivateStart
<1>3. /\ State(t) \in States /\ TokenOK(thr[t])
      /\ State(t) = states[thr[t].st] /\ State(t).pid = pid
      /\ thr[t].st \in 1 .. Len(states)
      /\ ~did.raced => thr[t].st = current /\ State(t).worker # t /\ State(t).prepared # t
  BY <1>1, ServingFacts DEF Serving
<1>4. CASE Leave(t, State(t)) /\ did' = did
  BY <1>1, <1>2, <1>3, <1>4, NoStartLeaveTo
<1>5. CASE /\ State(t).prepared = thr[t].token
           /\ Leave(t, Activated(State(t)))
           /\ did' = [did EXCEPT !.started = TRUE, !.announced = TRUE]
  <2>1. PICK q \in States :
          /\ Rewrites(thr[t].st, q) /\ q.pid = State(t).pid
          /\ q.prepared = NoThread /\ q.worker = State(t).prepared
    <3> DEFINE s == Activated(State(t))
               q == [s EXCEPT !.stateLock = NoThread]
    <3>1. s \in States /\ s.pid = State(t).pid /\ s.prepared = NoThread
          /\ s.worker = State(t).prepared
      BY <1>3, ActivatedType
    <3>2. states' = [states EXCEPT ![thr[t].st] = q]
      BY <1>5 DEF Leave, Update
    <3> HIDE DEF s
    <3>3. q \in States /\ q.pid = s.pid /\ q.prepared = s.prepared /\ q.worker = s.worker
      BY <3>1 DEF States, NoThread
    <3> HIDE DEF q
    <3> QED BY <1>1, <1>3, <3>1, <3>2, <3>3, RewriteView
  <2>2. did'.raced = did.raced /\ State(t).prepared # NoThread
    BY <1>1, <1>3, <1>5 DEF Dids, TokenOK
  <2>3. PICK r \in ThreadRecords : Advances(t, r, {}) /\ TokenOK(r)
    BY <1>1, <1>2, GotoView, MovedToken
  <2>5. PICK i \in 1 .. Len(states) : i = thr[t].st /\ states[i] = State(t)
    BY <1>3
  <2>4. ASSUME ~did.raced
        PROVE  (did'.started => q.worker # NoThread) /\ StartOK(q, i)'
    <3>2. StartOK(State(t), i)
      BY <1>3, <2>4, <2>5 DEF StartInv, OneState
    <3>3. PICK w : w = State(t).prepared /\ w # t /\ Serves(w, i, Serving)
      BY <1>3, <2>2, <2>4, <3>2 DEF StartOK, Serves, Serving
    <3>4. Serves(w, i, Serving)'
      BY <2>3, <3>3, ServesKeeps
    <3>6. StartOK(q, i)'
      BY <2>1, <3>3, <3>4 DEF StartOK
    <3> QED BY <2>1, <2>2, <3>6
  <2>6. UNCHANGED <<pid, current>> /\ Rewrites(i, q)
    BY <1>2, <2>1, <2>5 DEF OnlyTheState
  <2> HIDE DEF StartOK
  <2> QED BY <1>1, <1>3, <2>1, <2>2, <2>3, <2>4, <2>5, <2>6, StartKeeps
<1> QED BY <1>4, <1>5 DEF ActivateStart, Activated

\* A function on 1 .. n is a sequence of n elements.
LEMMA ListIsSequence ==
  ASSUME NEW S, NEW n \in Nat, NEW f \in [1 .. n -> S]
  PROVE  f \in Seq(S) /\ Len(f) = n
OBVIOUS

\* A state that replaces the parent's is blank and the only one of the process; one
\* that replaces a state of the process itself tells of a race.
LEMMA StartCreate ==
  ASSUME ForkInv, StartInv, NEW t \in Threads, GuardCreate(t)
  PROVE  StartInv'
<1>1. /\ thr[t] \in ThreadRecords /\ TypeOK /\ did \in Dids
      /\ thr[t].at = "create" /\ thr[t].op \in Calls
  BY ThreadFacts DEF GuardCreate, At, ThreadOK, PlaceOK
<1>2. pid' = pid /\ did' = [did EXCEPT !.raced = @ \/ states[current].pid = pid]
  BY DEF GuardCreate
<1>3. did'.started = did.started /\ did'.raced = (did.raced \/ states[current].pid = pid)
  BY <1>1, <1>2 DEF Dids
<1> DEFINE n == Len(states)
           r == [thr[t] EXCEPT !.st = current', !.at = FirstSection(thr[t].op)]
<1>4. n \in Nat /\ pid \in Nat /\ current \in 1 .. n
  BY <1>1 DEF TypeOK
<1>5. \A u \in Threads' : TokenOK(thr'[u])
  <2>1. thr' = [thr EXCEPT ![t] = r]
    BY DEF GuardCreate, Fetch
  <2>2. Threads' = Threads
    BY <1>1, <2>1 DEF Threads, TypeOK
  <2>3. \A u \in Threads : u # t => thr'[u] = thr[u]
    BY <1>1, <2>1 DEF Threads, TypeOK
  <2>4. thr'[t].at = FirstSection(thr[t].op)
    BY <1>1, <2>1 DEF Threads, TypeOK, ThreadRecords
  <2>5. TokenOK(thr'[t])
    BY <1>1, <2>4 DEF TokenOK, FirstSection, Calls
  <2> QED BY <2>2, <2>3, <2>5 DEF StartInv
<1>6. ASSUME ~did'.raced  PROVE OneState'
  <2>1. OneState /\ states[current].pid # pid /\ ~did'.started
    BY <1>3, <1>6 DEF StartInv, OneState
  <2>2. /\ Blank(pid).pid = pid /\ Blank(pid).prepared = NoThread /\ Blank(pid).worker = NoThread
    BY DEF Blank
  <2>3. /\ Len(states') = n + 1 /\ states'[n + 1] = Blank(pid) /\ current' = n + 1
        /\ \A j \in 1 .. n : states'[j].pid = states[j].pid
    <3> DEFINE kept == [i \in 1 .. n |-> IF i \in Kept(t) THEN states[i] ELSE Blank(states[i].pid)]
    <3>1. states' = Append(kept, Blank(pid)) /\ current' = Len(states')
      BY <1>4 DEF GuardCreate
    <3>2. \A j \in 1 .. n : kept[j].pid = states[j].pid
      BY DEF Blank
    <3>3. kept \in Seq({kept[j] : j \in 1 .. n}) /\ Len(kept) = n
      <4>1. kept \in [1 .. n -> {kept[j] : j \in 1 .. n}]
        OBVIOUS
      <4> HIDE DEF kept, n
      <4> QED BY <1>4, <4>1, ListIsSequence
    <3> HIDE DEF kept, n
    <3> QED BY <1>4, <3>1, <3>2, <3>3
  <2>4. (\A j \in 1 .. Len(states) : states[j].pid = pid => j = current)'
    BY <1>2, <1>4, <2>1, <2>3 DEF OneState
  <2>5. states'[current'] = Blank(pid)
    BY <2>3
  <2>6. StartOK(states[current], current)'
    BY <2>2, <2>5 DEF StartOK
  <2> QED BY <2>1, <2>4, <2>6 DEF OneState
<1>7. (\A u \in Threads : TokenOK(thr[u]))'
  BY <1>5 DEF TokenOK
<1> QED BY <1>6, <1>7 DEF StartInv

\* A call and a fork start nothing; of the former process a child has no state in
\* place that is its own.
LEMMA StartCallFork ==
  ASSUME ForkInv, StartInv, Fork \/ \E op \in Operations : Call(op)
  PROVE  StartInv'
<1>1. TypeOK /\ Len(thr) \in Nat
  BY DEF ForkInv, TypeOK
<1>2. CASE Fork
  <2>1. \A u \in Threads' : u \in Threads /\ (thr'[u] = Ended \/ thr'[u] = thr[u])
    <3>1. PICK forking : thr' = [t \in Threads |-> IF t \in forking THEN thr[t] ELSE Ended]
      BY <1>2 DEF Fork
    <3>2. Len(thr') = Len(thr)
      BY <1>1, <3>1 DEF Threads
    <3> QED BY <3>1, <3>2 DEF Threads
  <2>2. TokenOK(Ended)
    BY DEF TokenOK, Ended, Thread
  <2>3. (\A u \in Threads : TokenOK(thr[u]))'
    BY <2>1, <2>2 DEF StartInv, TokenOK
  <2>4. ~did'.started /\ pid' = pid + 1 /\ UNCHANGED <<states, current>>
    BY <1>2 DEF Fork, Nothing, memory
  <2>5. pid \in Nat /\ current \in 1 .. Len(states)
        /\ \A j \in 1 .. Len(states) : states[j].pid <= pid /\ states[j] \in States
    BY DEF ForkInv, TypeOK, StateOK
  <2>6. \A j \in 1 .. Len(states) : states'[j].pid # pid'
    <3>1. \A q \in States : q.pid \in Nat
      BY DEF States
    <3> QED BY <2>4, <2>5, <3>1
  <2> QED BY <2>3, <2>4, <2>5, <2>6 DEF StartInv, OneState
<1>3. ASSUME NEW op \in Operations, Call(op)  PROVE StartInv'
  <2> DEFINE new == Thread(op, IF op = "close" THEN "detach" ELSE "guard", NoState)
  <2>1. /\ UNCHANGED <<pid, states, current, did>> /\ thr' = Append(thr, new)
    BY <1>3 DEF Call
  <2>2. new.at \notin {"resume", "activate"}
    BY DEF Thread
  <2> HIDE DEF new
  <2>3. /\ Len(thr') = Len(thr) + 1 /\ thr'[Len(thr) + 1] = new
        /\ \A u \in Threads : thr'[u] = thr[u]
    BY <1>1, <2>1 DEF TypeOK, Threads
  <2>4. Threads' = Threads \cup {Len(thr) + 1}
    BY <1>1, <2>3 DEF Threads
  <2>5. (\A u \in Threads : TokenOK(thr[u]))'
    BY <2>2, <2>3, <2>4 DEF StartInv, TokenOK
  <2>6. ASSUME ~did.raced  PROVE OneState'
    <3>1. OneState
      BY <2>6 DEF StartInv
    <3>2. StartOK(states[current], current) => StartOK(states[current], current)'
      BY <2>1, <2>3, <2>4 DEF StartOK, Serves
    <3> QED BY <2>1, <3>1, <3>2 DEF OneState
  <2> QED BY <2>1, <2>5, <2>6 DEF StartInv
<1> QED BY <1>2, <1>3

\* Every step keeps what is known of the worker.
LEMMA StepStart ==
  ASSUME ForkInv, StartInv, [Next]_vars
  PROVE  StartInv'
<1>1. CASE Fork \/ \E op \in Operations : Call(op)
  BY <1>1, StartCallFork
<1>2. ASSUME NEW t \in Threads, Renew(t) \/ Step(t)
      PROVE  StartInv'
  <2>1. CASE \/ GuardRead(t) \/ ResumeStart(t) \/ GateOpens(t) \/ OlderRemoved(t) \/ Renew(t)
             \/ StopEvent(t) \/ TakeLogLock(t) \/ ReleaseLogLock(t)
    BY <2>1, StartMoves
  <2>2. CASE Recheck(t) \/ Enter(t) \/ TakeNetworkLock(t) \/ Answer(t)
    BY <2>2, StartLocks
  <2>3. CASE \/ StatusSnapshot(t) \/ JoinRegister(t) \/ CommitRegister(t) \/ WorkerBegins(t)
             \/ WorkerOwns(t) \/ RecordRenewal(t) \/ CloseLogsWhenIdle(t)
             \/ ClaimRemoval(t) \/ CompleteRemoval(t)
    BY <2>3, StartSections
  <2>4. CASE GuardCreate(t) \/ PrepareStart(t) \/ ActivateStart(t) \/ Shutdown(t) \/ FinishWorker(t)
    BY <2>4, StartCreate, StartPrepare, StartActivate, StartShutdown, StartFinish
  <2> QED BY <1>2, <2>1, <2>2, <2>3, <2>4 DEF Step
<1>3. CASE UNCHANGED vars
  BY <1>3 DEF vars, memory, StartInv, OneState, StartOK, Serves, TokenOK, Threads
<1> QED BY <1>1, <1>2, <1>3 DEF Next

\* A new process has started nothing.
LEMMA InitStart == Init => StartInv
<1>1. ASSUME Init  PROVE StartInv
  <2>1. thr = << >> /\ Len(states) = 1 /\ states[1] = Blank(1) /\ current = 1 /\ ~did.started
    BY <1>1 DEF Init, Nothing
  <2>2. StartOK(Blank(1), 1)
    BY DEF StartOK, Blank
  <2>3. Threads = {}
    BY <2>1 DEF Threads
  <2> QED BY <2>1, <2>2, <2>3 DEF StartInv, OneState
<1> QED BY <1>1

\* After an activation that no shutdown followed the process has a living worker of
\* its own, wherever the forks and the waits of its threads fall, unless two of them
\* made a state at the same time (start, _state_is_current).
THEOREM StartStays == Spec => []StartIsKept
<1>1. ASSUME StartInv  PROVE StartIsKept
  <2>1. SUFFICES ASSUME did.started, ~did.raced
                 PROVE  LET w == states[current].worker IN
                        w # NoThread /\ Alive(w) /\ thr[w].op = "worker" /\ thr[w].st = current
    BY DEF StartIsKept
  <2>2. states[current].worker # NoThread /\ Serves(states[current].worker, current, Serving)
    BY <1>1, <2>1 DEF StartInv, OneState, StartOK
  <2>3. Ended.op # "worker"
    BY DEF Ended, Thread
  <2> QED BY <2>2, <2>3 DEF Serves, Alive
<1>2. StartInv => StartIsKept
  BY <1>1
<1>3. ForkInv /\ StartInv /\ [Next]_vars => StartInv'
  BY StepStart
<1> QED BY <1>2, <1>3, ForkSafe, InitStart, PTL DEF Spec

-----------------------------------------------------------------------------
(* Whether work comes to its end.  What a state counts and collects is     *)
(* what its threads are at, so when all of them wait nothing is left.      *)

\* A register call that may have joined the window of the generation.
Registers(r) == r.op = "register" /\ r.at \in {"call", "net", "rpc", "settle", "commit"}
Joins(r, g)  == Registers(r) /\ r.token = g + 1
Joined(g)    == {u \in Threads : Joins(thr[u], g)}

Starting(r, w) == r.at \in {"resume", "activate"} /\ r.token = w /\ r.st = current
Working(r)     == r.op = "worker" /\ r.at \in Serving \cup {"finish?", "finish"}
Removes(r)     == Performing(r) \/ r.at \in {"claim?", "claim"}
Asking(r)      == r.at \in {"idle?", "idle"}

\* Nothing keeps the log handlers open.
Idle(s) ==
  /\ s.prepared = NoThread /\ s.worker = NoThread
  /\ s.stopping = {} /\ s.actors = {} /\ ~s.pending
  /\ s.inflight = 0 /\ ~s.cleanup

WorkOK(s) ==
  /\ s.worker # NoThread => did.started
  /\ s.prepared # NoThread => \E u \in Threads : Starting(thr[u], s.prepared)
  /\ \A u \in s.stopping : u \in Threads /\ Working(thr[u])
  /\ s.actors = {u \in Threads : Removes(thr[u])}
  /\ s.pending => s.stopping # {} \/ s.actors # {}
  /\ \A u \in Threads : Registers(thr[u]) => thr[u].token <= s.generation + 1
  /\ s.inflight = Cardinality(Joined(s.generation))
  /\ s.cleanup => s.inflight > 0 \/ s.pending \/ \E u \in Threads : Performing(thr[u])
  /\ s.closeLogs => s.logsClosed \/ ~Idle(s) \/ \E u \in Threads : Asking(thr[u])

\* It is said of the one state of a process.
WorkInv == did.raced \/ states[current].pid # pid \/ WorkOK(states[current])

\* Who has entered a section of the state lock waits for nothing, so whoever
\* waits for that lock waits for a thread that goes on.
LEMMA InsideGoesOn ==
  ASSUME ForkInv, NEW t \in Threads, thr[t].holds
  PROVE  ~Waits(t)
<1>1. thr[t].at \in Sections
  BY ThreadFacts DEF ThreadOK, PlaceOK
<1>2. ~Ended.holds
  BY DEF Ended, Thread
<1>3. BlockedBy(t) = NoThread
  BY <1>1 DEF BlockedBy, At, Sections
<1> QED BY <1>1, <1>2, <1>3 DEF Waits, Alive, At, Sections

\* Whoever stands before a section that is taken has someone to wait for.
LEMMA SectionIsLeft ==
  ASSUME ForkInv, NEW t \in Threads, thr[t].at \in Sections, ~thr[t].holds,
         State(t).stateLock # NoThread
  PROVE  \E u \in Threads : ~Waits(u)
<1>1. thr[t].at \notin Private
  BY DEF Sections, Private
<1>2. LockOK(State(t), thr[t].st)
  BY <1>1, ThreadFacts, Holds DEF ThreadOK, OwnedOK, State
<1> QED BY <1>2, InsideGoesOn DEF LockOK

\* Whoever stands before the network lock while it is taken waits for its holder,
\* who waits at most for the state lock.
LEMMA NetworkIsLeft ==
  ASSUME ForkInv, NEW t \in Threads, At(t, "net"), State(t).networkLock # NoThread
  PROVE  \E u \in Threads : ~Waits(u)
<1>1. thr[t].at \notin Private
  BY DEF At, Private
<1>2. LockOK(State(t), thr[t].st)
  BY <1>1, ThreadFacts, Holds DEF ThreadOK, OwnedOK, State
<1>3. PICK u \in Threads : thr[u].at \in Owning
  BY <1>2 DEF LockOK
<1>4. Ended.at = "ended"
  BY DEF Ended, Thread
<1>5. CASE thr[u].at = "own" /\ ~thr[u].holds /\ State(u).stateLock # NoThread
  BY <1>5, SectionIsLeft DEF Sections
<1>6. CASE ~(thr[u].at = "own" /\ ~thr[u].holds /\ State(u).stateLock # NoThread)
  <2>1. BlockedBy(u) = NoThread
    BY <1>3, <1>6 DEF BlockedBy, At, Sections, Owning
  <2> QED BY <1>3, <1>4, <2>1 DEF Waits, Alive, At, Owning
<1> QED BY <1>5, <1>6

\* No threads wait in a circle: the thread that performs a removal waits at most for
\* the network lock or the state lock, and the holder of the log manager's lock for
\* nothing.
LEMMA SomeoneGoesOn ==
  ASSUME ForkInv, NEW t \in Threads, BlockedBy(t) # NoThread
  PROVE  \E u \in Threads : ~Waits(u)
<1>1. thr[t] \in ThreadRecords /\ ThreadOK(thr[t]) /\ TypeOK
  BY ThreadFacts
<1>2. Ended.at = "ended" /\ ~Ended.holds
  BY DEF Ended, Thread
<1>3. CASE thr[t].at \in Sections /\ ~thr[t].holds
  <2>1. BlockedBy(t) = State(t).stateLock
    <3>1. thr[t].at \notin {"net", "detach", "close", "older"}
      BY <1>3 DEF Sections
    <3> QED BY <1>3, <3>1 DEF BlockedBy, At
  <2> QED BY <1>3, <2>1, SectionIsLeft
<1>4. CASE At(t, "net")
  <2>1. State(t).networkLock # NoThread
    BY <1>4 DEF BlockedBy, At, Sections
  <2> QED BY <1>4, <2>1, NetworkIsLeft
<1>5. CASE thr[t].at \in {"detach", "close"}
  <2>1. BlockedBy(t) = logLock
    BY <1>5 DEF BlockedBy, At, Sections
  <2>2. ~Orphan
    BY <1>1, <1>5 DEF ThreadOK, PlaceOK, ClosingOK
  <2>3. logLock \in Threads /\ thr[logLock].at \in {"detaching", "closing"}
    BY <2>1, <2>2 DEF ForkInv, TypeOK, LogOK, Orphan, Threads, NoThread
  <2>4. BlockedBy(logLock) = NoThread
    BY <2>3 DEF BlockedBy, At, Sections
  <2> QED BY <1>2, <2>3, <2>4 DEF Waits, Alive, At
<1>6. CASE At(t, "older") /\ State(t).active = thr[t].token
  <2>1. State(t).active # NoThread
    BY <1>6 DEF BlockedBy, At, Sections
  <2>2. thr[t].at \notin Private
    BY <1>6 DEF At, Private
  <2>3. LockOK(State(t), thr[t].st)
    BY <1>1, <2>2, Holds DEF ThreadOK, OwnedOK, State
  <2>4. PICK u \in Threads : Performing(thr[u])
    BY <2>1, <2>3 DEF LockOK
  <2>5. CASE At(u, "net") /\ State(u).networkLock # NoThread
    BY <2>5, NetworkIsLeft
  <2>6. CASE thr[u].at \in Sections /\ ~thr[u].holds /\ State(u).stateLock # NoThread
    BY <2>6, SectionIsLeft
  <2>7. CASE /\ ~(At(u, "net") /\ State(u).networkLock # NoThread)
             /\ ~(thr[u].at \in Sections /\ ~thr[u].holds /\ State(u).stateLock # NoThread)
    <3>1. thr[u].at \in {"call", "net", "rpc", "settle", "complete"}
      BY <2>4 DEF Performing
    <3>2. BlockedBy(u) = NoThread
      BY <2>7, <3>1 DEF BlockedBy, At
    <3> QED BY <1>2, <3>1, <3>2 DEF Waits, Alive, At
  <2> QED BY <2>5, <2>6, <2>7
<1> QED BY <1>3, <1>4, <1>5, <1>6 DEF BlockedBy

\* When every thread waits, a process has none but its worker and its candidate.
LEMMA RestFacts ==
  ASSUME ForkInv, AtRest, NEW t \in Threads
  PROVE  \/ thr[t] = Ended
         \/ At(t, "sleep") /\ State(t).worker = t
         \/ At(t, "gate") /\ State(t).prepared = t
BY SomeoneGoesOn DEF AtRest, Waits, Alive

\* A step of thread t, which goes on as r, makes q of the state s: one part for
\* each part of WorkOK.
LaunchStep(t, r, s, q) ==
  /\ q.worker # NoThread => did'.started
  /\ q.prepared # NoThread =>
       Starting(r, q.prepared) \/ (q.prepared = s.prepared /\ ~Starting(thr[t], s.prepared))

TaskStep(t, r, s, q) ==
  /\ \A u \in q.stopping : u \in Threads /\ Working(IF u = t THEN r ELSE thr[u])
  /\ t \in q.actors <=> Removes(r)
  /\ \A u \in Threads \ {t} : u \in q.actors <=> u \in s.actors
  /\ \A u \in Threads' \ Threads : u \in q.actors <=> Removes(thr'[u])
  /\ q.actors \subseteq Threads'
  /\ q.pending => q.stopping # {} \/ q.actors # {}

RegisterStep(t, r, s, q) ==
  LET g == s.generation IN
  /\ Registers(r) => r.token <= q.generation + 1
  /\ \/ /\ q.generation = g
        /\ \/ q.inflight = s.inflight     /\ (Joins(thr[t], g) <=> Joins(r, g))
           \/ q.inflight = s.inflight + 1 /\ ~Joins(thr[t], g) /\ Joins(r, g)
           \/ q.inflight = s.inflight - 1 /\ Joins(thr[t], g) /\ ~Joins(r, g)
     \/ q.generation > g /\ q.inflight = 0 /\ ~Registers(r)

CleanupStep(t, r, s, q) ==
  /\ q.cleanup => \/ q.inflight > 0 \/ q.pending \/ Performing(r)
                  \/ \E u \in Threads \ {t} : Performing(thr[u])
  /\ q.closeLogs => \/ q.logsClosed \/ ~Idle(q) \/ Asking(r)
                    \/ \E u \in Threads \ {t} : Asking(thr[u])

\* The threads that have joined a window are counted one by one.
LEMMA CountMoves ==
  ASSUME TypeOK, NEW t \in Threads, NEW r, NEW fresh, Advances(t, r, fresh),
         \A f \in fresh : ~Registers(f), NEW g
  PROVE  /\ IsFiniteSet(Joined(g)) /\ Cardinality(Joined(g)) \in Nat
         /\ (Joins(thr[t], g) <=> Joins(r, g)) => Cardinality(Joined(g)') = Cardinality(Joined(g))
         /\ ~Joins(thr[t], g) /\ Joins(r, g) => Cardinality(Joined(g)') = Cardinality(Joined(g)) + 1
         /\ Joins(thr[t], g) /\ ~Joins(r, g) => Cardinality(Joined(g)') = Cardinality(Joined(g)) - 1
<1>1. IsFiniteSet(Joined(g))
  <2>1. Len(thr) \in Nat
    BY DEF TypeOK
  <2>2. IsFiniteSet(Threads)
    BY <2>1, FS_Interval DEF Threads
  <2> QED BY <2>2, FS_Subset DEF Joined
<1>2. \A u \in Threads' : u \in Joined(g)' <=> IF u = t THEN Joins(r, g) ELSE u \in Joined(g)
  BY DEF Advances, Joined, Joins
<1>3. Joined(g) \subseteq Threads' /\ Joined(g)' \subseteq Threads' /\ t \in Threads'
      /\ (t \in Joined(g) <=> Joins(thr[t], g))
  BY DEF Advances, Joined
<1>4. CASE Joins(thr[t], g) <=> Joins(r, g)
  <2>1. Joined(g)' = Joined(g)
    BY <1>2, <1>3, <1>4
  <2> QED BY <1>1, <1>4, <2>1, FS_CardinalityType
<1>5. CASE ~Joins(thr[t], g) /\ Joins(r, g)
  <2>1. Joined(g)' = Joined(g) \cup {t}
    BY <1>2, <1>3, <1>5
  <2> QED BY <1>1, <1>3, <1>5, <2>1, FS_AddElement, FS_CardinalityType
<1>6. CASE Joins(thr[t], g) /\ ~Joins(r, g)
  <2>1. Joined(g)' = Joined(g) \ {t}
    BY <1>2, <1>3, <1>6
  <2> QED BY <1>1, <1>3, <1>6, <2>1, FS_RemoveElement, FS_CardinalityType
<1> QED BY <1>4, <1>5, <1>6

\* A step whose four parts are in order keeps the counts of the state in order.
LEMMA WorkStep ==
  ASSUME TypeOK, NEW t \in Threads, NEW r, NEW fresh, Advances(t, r, fresh),
         \A f \in fresh : ~Registers(f), current' = current,
         NEW s \in States, NEW q \in States, WorkOK(s),
         LaunchStep(t, r, s, q), TaskStep(t, r, s, q), RegisterStep(t, r, s, q),
         CleanupStep(t, r, s, q)
  PROVE  WorkOK(q)'
<1>1. \A u \in Threads : thr'[u] = IF u = t THEN r ELSE thr[u]
  BY DEF Advances
<1>2. Threads \subseteq Threads' /\ \A u \in Threads' \ Threads : ~Registers(thr'[u])
  BY DEF Advances
<1>3. q.prepared # NoThread => \E u \in Threads' : Starting(thr'[u], q.prepared)
  BY <1>1, <1>2 DEF LaunchStep, WorkOK, Starting
<1>4. \A u \in q.stopping : u \in Threads' /\ Working(thr'[u])
  BY <1>1, <1>2 DEF TaskStep
<1>5. q.actors = {u \in Threads' : Removes(thr'[u])}
  <2>1. s.actors = {u \in Threads : Removes(thr[u])}
    BY DEF WorkOK
  <2>2. \A u \in Threads' : u \in q.actors <=> Removes(thr'[u])
    BY <1>1, <1>2, <2>1 DEF TaskStep
  <2>3. q.actors \subseteq Threads'
    BY DEF TaskStep
  <2> QED BY <2>2, <2>3
<1>6. \A u \in Threads : Registers(thr[u]) => thr[u].token <= s.generation + 1
  BY DEF WorkOK
<1>7. \A u \in Threads : thr[u].token \in Nat
  <2>1. \A u \in Threads : thr[u] \in ThreadRecords
    BY DEF TypeOK, Threads
  <2>2. \A v \in ThreadRecords : v.token \in Nat
    BY DEF ThreadRecords
  <2> QED BY <2>1, <2>2
<1>8. s.generation \in Nat /\ q.generation \in Nat /\ s.inflight \in Int
  BY DEF States
<1>9. \A u \in Threads' : Registers(thr'[u]) => thr'[u].token <= q.generation + 1
  BY <1>1, <1>2, <1>6, <1>7, <1>8 DEF RegisterStep
<1>10. q.inflight = Cardinality(Joined(q.generation)')
  <2>1. s.inflight = Cardinality(Joined(s.generation))
    BY DEF WorkOK
  <2>2. CASE q.generation = s.generation
    BY <1>8, <2>1, <2>2, CountMoves DEF RegisterStep
  <2>3. CASE q.generation > s.generation /\ q.inflight = 0 /\ ~Registers(r)
    <3>1. ASSUME NEW u \in Threads'  PROVE ~Joins(thr'[u], q.generation)
      BY <1>1, <1>2, <1>6, <1>7, <1>8, <2>3 DEF Joins
    <3>2. Joined(q.generation)' = {}
      BY <3>1 DEF Joined
    <3> QED BY <2>3, <3>2, FS_EmptySet
  <2> QED BY <2>2, <2>3 DEF RegisterStep
<1>11. q.cleanup => q.inflight > 0 \/ q.pending \/ \E u \in Threads' : Performing(thr'[u])
  BY <1>1, <1>2 DEF CleanupStep
<1>12. q.closeLogs => q.logsClosed \/ ~Idle(q) \/ \E u \in Threads' : Asking(thr'[u])
  BY <1>1, <1>2 DEF CleanupStep
<1>13. /\ q.worker # NoThread => did'.started
       /\ q.pending => q.stopping # {} \/ q.actors # {}
  BY DEF LaunchStep, TaskStep
<1> QED BY <1>3, <1>4, <1>5, <1>9, <1>10, <1>11, <1>12, <1>13
        DEF WorkOK, Starting, Working, Removes, Registers, Performing, Asking, Idle

\* The four parts together.
Works(t, r, s, q) ==
  /\ LaunchStep(t, r, s, q) /\ TaskStep(t, r, s, q)
  /\ RegisterStep(t, r, s, q) /\ CleanupStep(t, r, s, q)

\* The same of the state in place, among all the states.
LEMMA WorkKeeps ==
  ASSUME TypeOK, WorkInv, NEW t \in Threads, NEW r, NEW fresh, Advances(t, r, fresh),
         \A f \in fresh : ~Registers(f),
         NEW i \in 1 .. Len(states), NEW q \in States, Rewrites(i, q), q.pid = states[i].pid,
         UNCHANGED <<pid, current>>, did'.raced = did.raced,
         ~did.raced /\ states[current].pid = pid /\ WorkOK(states[current]) =>
           i = current /\ Works(t, r, states[current], q)
  PROVE  WorkInv'
<1>1. SUFFICES ASSUME ~did.raced, states'[current].pid = pid
               PROVE  WorkOK(states[current])'
  BY DEF WorkInv
<1>2. current \in 1 .. Len(states) /\ states[current] \in States
  BY DEF TypeOK
<1>3. states[current].pid = pid
  BY <1>1, <1>2 DEF Rewrites
<1>4. i = current /\ WorkOK(states[current]) /\ Works(t, r, states[current], q)
  BY <1>1, <1>3 DEF WorkInv
<1>5. WorkOK(q)'
  BY <1>2, <1>4, WorkStep DEF Works
<1>6. states'[current'] = q
  BY <1>4 DEF Rewrites
<1> QED BY <1>5, <1>6 DEF WorkOK, Idle

\* Nothing that is counted changes, and the thread stays what it was to the state.
SameWork(s, q) ==
  /\ q.generation = s.generation /\ q.inflight = s.inflight /\ q.cleanup = s.cleanup
  /\ q.prepared = s.prepared /\ q.worker = s.worker /\ q.stopping = s.stopping
  /\ q.pending = s.pending /\ q.actors = s.actors
  /\ q.closeLogs = s.closeLogs /\ q.logsClosed = s.logsClosed

SameRole(t, r, s) ==
  /\ Starting(thr[t], s.prepared) => Starting(r, s.prepared)
  /\ t \in s.stopping => Working(r)
  /\ Registers(r) <=> Registers(thr[t])
  /\ Registers(r) => r.token = thr[t].token
  /\ Removes(r) <=> Removes(thr[t])
  /\ Performing(thr[t]) => Performing(r)
  /\ Asking(thr[t]) => Asking(r)

\* A step that changes neither the counts nor the role of its thread is in order.
LEMMA QuietWork ==
  ASSUME TypeOK, NEW t \in Threads, NEW r, Threads' = Threads, NEW s \in States, NEW q, WorkOK(s),
         SameWork(s, q), SameRole(t, r, s), did.started => did'.started
  PROVE  Works(t, r, s, q)
<1>1. LaunchStep(t, r, s, q)
  BY DEF LaunchStep, WorkOK, SameWork, SameRole
<1>2. TaskStep(t, r, s, q)
  BY DEF TaskStep, WorkOK, SameWork, SameRole
<1>3. RegisterStep(t, r, s, q)
  BY DEF RegisterStep, Joins, WorkOK, SameWork, SameRole
<1>4. CleanupStep(t, r, s, q)
  BY DEF CleanupStep, Idle, WorkOK, SameWork, SameRole
<1> QED BY <1>1, <1>2, <1>3, <1>4 DEF Works

\* The moves between places that nothing of a state depends on.
Neutral == {"guard", "create", "status", "join", "prepare", "shutdown", "detach",
            "detaching", "close", "closing", "end"}

QuietMove(t, place, s) ==
  \/ thr[t].op = "worker" /\ {thr[t].at, place} \subseteq Serving \cup {"finish?", "finish"}
  \/ thr[t].op = "register" /\ {thr[t].at, place} \subseteq {"call", "net", "rpc", "settle", "commit"}
  \/ thr[t].op = "cleanup" /\ {thr[t].at, place} \subseteq {"call", "net", "rpc", "settle", "complete"}
  \/ thr[t].at = "claim?" /\ place = "claim"
  \/ thr[t].at = "idle?" /\ place = "idle"
  \/ thr[t].at = "resume" /\ place = "activate"
  \/ {thr[t].at, place} \subseteq Neutral
  \/ thr[t].at = "begin" /\ place = "end" /\ t \notin s.stopping
  \/ thr[t].at \in {"resume", "activate"} /\ place = "end" /\ ~Starting(thr[t], s.prepared)

\* Such a move leaves the thread its role.
LEMMA MoveRole ==
  ASSUME ForkInv, NEW t \in Threads, NEW place \in Places \cup {"end"}, NEW s, WorkOK(s),
         QuietMove(t, place, s)
  PROVE  SameRole(t, Moved(thr[t], place), s)
<1> DEFINE r == Moved(thr[t], place)
<1>1. thr[t] \in ThreadRecords /\ PlaceOK(thr[t])
  BY ThreadFacts DEF ThreadOK
<1>2. place = "end" => r.op = "none" /\ r.at = "ended"
  BY <1>1, MovedFacts
<1>3. place # "end" => r.op = thr[t].op /\ r.at = place /\ r.st = thr[t].st
  BY <1>1, MovedFacts
<1>4. place # "end" => r.token = thr[t].token
  BY <1>1 DEF Moved, ThreadRecords
<1>5. t \in s.stopping => Working(thr[t])
  BY DEF WorkOK
<1> HIDE DEF r
<1>6. SameRole(t, r, s)
  BY <1>1, <1>2, <1>3, <1>4, <1>5, SMTT(60)
     DEF QuietMove, SameRole, Starting, Working, Registers, Removes, Performing, Asking,
         Serving, Neutral, PlaceOK
<1> QED BY <1>6 DEF r

\* A step that is neither counted nor changes a role keeps the counts.
LEMMA QuietStep ==
  ASSUME TypeOK, WorkInv, NEW t \in Threads, NEW r, Advances(t, r, {}),
         NEW i \in 1 .. Len(states), NEW q \in States, Rewrites(i, q), q.pid = states[i].pid,
         SameWork(states[i], q), UNCHANGED <<pid, current>>, did'.raced = did.raced,
         did.started => did'.started,
         ~did.raced /\ states[current].pid = pid /\ WorkOK(states[current]) =>
           i = current /\ SameRole(t, r, states[current])
  PROVE  WorkInv'
<1>1. Threads' = Threads
  BY DEF Advances
<1>2. states[i] \in States
  BY DEF TypeOK
<1>3. ASSUME ~did.raced, states[current].pid = pid, WorkOK(states[current])
      PROVE  i = current /\ Works(t, r, states[current], q)
  BY <1>1, <1>2, <1>3, QuietWork
<1> QED BY <1>3, WorkKeeps

\* A thread moves and no state changes.
LEMMA QuietGoto ==
  ASSUME ForkInv, WorkInv, NEW t \in Threads, NEW place \in Places \cup {"end"},
         thr' = Goto(t, place), UNCHANGED <<pid, states, current, did>>,
         ~did.raced /\ states[current].pid = pid /\ WorkOK(states[current]) =>
           QuietMove(t, place, states[current])
  PROVE  WorkInv'
<1> DEFINE r == Moved(thr[t], place)
<1>1. TypeOK /\ Advances(t, r, {})
  BY ThreadFacts, GotoView
<1>2. current \in 1 .. Len(states) /\ Rewrites(current, states[current])
      /\ states[current] \in States /\ SameWork(states[current], states[current])
  BY <1>1, StayView DEF TypeOK, SameWork
<1>3. ~did.raced /\ states[current].pid = pid /\ WorkOK(states[current]) =>
        SameRole(t, r, states[current])
  BY MoveRole
<1> HIDE DEF r
<1> QED BY <1>1, <1>2, <1>3, QuietStep

\* The end of a section frees the lock and leaves everything else.
LEMMA LeftState ==
  ASSUME NEW s \in States
  PROVE  LET q == [s EXCEPT !.stateLock = NoThread]
         IN  q \in States /\ q.pid = s.pid /\ SameWork(s, q)
BY DEF States, NoThread, SameWork

\* A thread leaves a section, in which it has changed nothing of note, for another
\* place.
LEMMA QuietLeave ==
  ASSUME ForkInv, StartInv, WorkInv, NEW t \in Threads, thr[t].at \in Sections,
         NEW s \in States, Leave(t, s), s.pid = State(t).pid, SameWork(State(t), s), OnlyTheState,
         NEW place \in Places \cup {"end"}, thr' = Goto(t, place),
         did'.raced = did.raced, did'.started = did.started,
         ~did.raced /\ WorkOK(State(t)) => QuietMove(t, place, State(t))
  PROVE  WorkInv'
<1> DEFINE r == Moved(thr[t], place)
           q == [s EXCEPT !.stateLock = NoThread]
<1>1. TypeOK /\ Advances(t, r, {})
  BY ThreadFacts, GotoView
<1>2. q \in States /\ q.pid = s.pid /\ SameWork(s, q)
  BY LeftState
<1>3. thr[t].at \notin Private
  BY DEF Sections, Private
<1>9. /\ thr[t].st \in 1 .. Len(states) /\ State(t) = states[thr[t].st]
      /\ ~did.raced => thr[t].st = current
  BY <1>3, ServingFacts
<1>4. PICK i \in 1 .. Len(states) :
        i = thr[t].st /\ State(t) = states[i] /\ (~did.raced => i = current)
  BY <1>9
<1>5. Rewrites(i, q)
  BY <1>1, <1>2, <1>4, RewriteView DEF Leave, Update
<1>6. SameWork(states[i], q)
  BY <1>2, <1>4 DEF SameWork
<1>7. ~did.raced /\ states[current].pid = pid /\ WorkOK(states[current]) =>
        i = current /\ SameRole(t, r, states[current])
  BY <1>4, MoveRole
<1>8. UNCHANGED <<pid, current>>
  BY DEF OnlyTheState
<1> HIDE DEF r, q
<1> QED BY <1>1, <1>2, <1>4, <1>5, <1>6, <1>7, <1>8, QuietStep

\* The moves that change no state.
LEMMA WorkMoves ==
  ASSUME ForkInv, StartInv, WorkInv, NEW t \in Threads,
         \/ GuardRead(t) \/ ResumeStart(t) \/ GateOpens(t) \/ OlderRemoved(t) \/ Renew(t)
         \/ StopEvent(t) \/ TakeLogLock(t) \/ ReleaseLogLock(t)
  PROVE  WorkInv'
<1>1. thr[t] \in ThreadRecords /\ TypeOK /\ ThreadOK(thr[t])
  BY ThreadFacts
<1>2. UNCHANGED <<pid, states, current, did>>
  BY DEF GuardRead, ResumeStart, GateOpens, OlderRemoved, Renew, StopEvent, TakeLogLock,
         ReleaseLogLock, OnlyTheState, memory
<1>3. {"create", "wake", "finish?", "activate", "end", "detaching", "closing", "guard"}
        \subseteq Places \cup {"end"}
  BY DEF Places, Checks, Sections
<1>4. CASE GateOpens(t) \/ OlderRemoved(t) \/ Renew(t) \/ StopEvent(t)
  <2>1. PICK place \in {"wake", "finish?"} :
          thr' = Goto(t, place) /\ thr[t].at \in {"gate", "older", "sleep"}
    BY <1>4 DEF GateOpens, OlderRemoved, Renew, StopEvent, At
  <2>2. thr[t].op = "worker"
    BY <1>1, <2>1 DEF ThreadOK, PlaceOK
  <2>3. \A s : QuietMove(t, place, s)
    BY <2>1, <2>2 DEF QuietMove, Serving
  <2> QED BY <1>2, <1>3, <2>1, <2>3, QuietGoto
<1>5. CASE TakeLogLock(t) \/ ReleaseLogLock(t)
  <2>1. PICK place \in {"detaching", "closing", "guard", "end"} :
          thr' = Goto(t, place) /\ thr[t].at \in {"detach", "close", "detaching", "closing"}
    BY <1>5 DEF TakeLogLock, ReleaseLogLock, At
  <2>2. \A s : QuietMove(t, place, s)
    BY <2>1 DEF QuietMove, Neutral
  <2> QED BY <1>2, <1>3, <2>1, <2>2, QuietGoto
<1>6. CASE ResumeStart(t)
  <2>1. CASE State(t).pid = pid /\ Current(t) /\ thr' = Goto(t, "activate")
    <3>1. \A s : QuietMove(t, "activate", s)
      BY <1>6 DEF QuietMove, ResumeStart, At
    <3> QED BY <1>2, <1>3, <2>1, <3>1, QuietGoto
  <2>2. CASE ~(State(t).pid = pid /\ Current(t)) /\ thr' = Goto(t, "end")
    <3>1. \A s : states[current].pid = pid => QuietMove(t, "end", s)
      BY <1>6, <2>2 DEF QuietMove, ResumeStart, At, Starting, State, Current
    <3> QED BY <1>2, <1>3, <2>2, <3>1, QuietGoto
  <2> QED BY <1>6, <2>1, <2>2 DEF ResumeStart
<1>7. CASE GuardRead(t)
  <2>1. CASE thr' = Goto(t, "create")
    <3>1. \A s : QuietMove(t, "create", s)
      BY <1>7 DEF QuietMove, GuardRead, At, Neutral
    <3> QED BY <1>2, <1>3, <2>1, <3>1, QuietGoto
  <2>2. CASE Fetch(t, current)
    <3> DEFINE r == [thr[t] EXCEPT !.st = current, !.at = FirstSection(thr[t].op)]
    <3>1. thr[t].op \in Calls /\ thr[t].at = "guard"
      BY <1>1, <1>7 DEF GuardRead, At, ThreadOK, PlaceOK
    <3>2. FirstSection(thr[t].op) \in Places /\ FirstSection(thr[t].op) \in Neutral
      BY <3>1 DEF FirstSection, Calls, Places, Sections, Neutral
    <3>3. current \in Nat
      BY <1>1 DEF TypeOK
    <3>4. r \in ThreadRecords /\ r.at = FirstSection(thr[t].op) /\ r.op = thr[t].op
      BY <1>1, <3>2, <3>3 DEF ThreadRecords
    <3>5. Advances(t, r, {})
      BY <1>1, <2>2, <3>4, MoveView DEF Fetch
    <3> HIDE DEF r
    <3>6. current \in 1 .. Len(states) /\ Rewrites(current, states[current])
          /\ states[current] \in States /\ SameWork(states[current], states[current])
      BY <1>1, <1>2, StayView DEF TypeOK, SameWork
    <3>7. \A s : WorkOK(s) => SameRole(t, r, s)
      BY <3>1, <3>2, <3>4
         DEF WorkOK, SameRole, Neutral, Starting, Working, Registers, Removes, Performing,
             Asking, Serving, Calls
    <3> QED BY <1>1, <1>2, <3>5, <3>6, <3>7, QuietStep
  <2> QED BY <1>7, <2>1, <2>2 DEF GuardRead
<1> QED BY <1>4, <1>5, <1>6, <1>7

\* A lock that is taken or released changes nothing that is counted.
LEMMA LockedAlike ==
  ASSUME NEW s \in States, NEW n \in Nat
  PROVE  /\ [s EXCEPT !.stateLock = n] \in States
         /\ [s EXCEPT !.stateLock = n].pid = s.pid
         /\ SameWork(s, [s EXCEPT !.stateLock = n])
         /\ [s EXCEPT !.networkLock = n] \in States
         /\ [s EXCEPT !.networkLock = n].pid = s.pid
         /\ SameWork(s, [s EXCEPT !.networkLock = n])
<1>1. /\ [s EXCEPT !.stateLock = n] \in States
      /\ [s EXCEPT !.networkLock = n] \in States
  BY DEF States
<1>2. SameWork(s, [s EXCEPT !.stateLock = n])
  BY DEF States, SameWork
<1>3. SameWork(s, [s EXCEPT !.networkLock = n])
  BY DEF States, SameWork
<1> QED BY <1>1, <1>2, <1>3 DEF States

\* _state_is_current, the locks and the Admin call.
LEMMA WorkLocks ==
  ASSUME ForkInv, StartInv, WorkInv, NEW t \in Threads,
         Recheck(t) \/ Enter(t) \/ TakeNetworkLock(t) \/ Answer(t)
  PROVE  WorkInv'
<1>1. /\ thr[t] \in ThreadRecords /\ TypeOK /\ t # NoThread /\ t \in Nat /\ did \in Dids
      /\ thr[t].at \notin Private /\ ThreadOK(thr[t])
  BY ThreadFacts
     DEF NoThread, Recheck, Enter, TakeNetworkLock, Answer, At, Checks, Sections, Private
<1>2. UNCHANGED <<pid, current>> /\ did'.raced = did.raced /\ did'.started = did.started
  BY <1>1 DEF Recheck, Enter, TakeNetworkLock, Answer, OnlyTheState, Dids
<1>9. /\ thr[t].st \in 1 .. Len(states) /\ State(t) = states[thr[t].st] /\ State(t) \in States
      /\ State(t).pid = pid /\ (~did.raced => thr[t].st = current)
  BY <1>1, ServingFacts
<1>3. ASSUME NEW r \in ThreadRecords, thr' = [thr EXCEPT ![t] = r],
             NEW s \in States, states' = [states EXCEPT ![thr[t].st] = s],
             s.pid = State(t).pid, SameWork(State(t), s),
             ~did.raced /\ WorkOK(State(t)) => SameRole(t, r, State(t))
      PROVE  WorkInv'
  <2>1. Advances(t, r, {})
    BY <1>1, <1>3, MoveView
  <2>2. Rewrites(thr[t].st, s)
    BY <1>1, <1>3, <1>9, RewriteView
  <2> QED BY <1>1, <1>2, <1>3, <1>9, <2>1, <2>2, QuietStep
<1>4. CASE Enter(t)
  <2> DEFINE r == [thr[t] EXCEPT !.holds = TRUE]
             s == [State(t) EXCEPT !.stateLock = t]
  <2>1. /\ r \in ThreadRecords /\ r.op = thr[t].op /\ r.st = thr[t].st /\ r.at = thr[t].at
        /\ r.token = thr[t].token
    BY <1>1 DEF ThreadRecords
  <2>2. s \in States /\ s.pid = State(t).pid /\ SameWork(State(t), s)
    BY <1>1, <1>9, LockedAlike
  <2>3. thr' = [thr EXCEPT ![t] = r] /\ states' = [states EXCEPT ![thr[t].st] = s]
    BY <1>4 DEF Enter, Update
  <2> HIDE DEF r, s
  <2>4. WorkOK(State(t)) => SameRole(t, r, State(t))
    BY <2>1 DEF WorkOK, SameRole, Starting, Working, Registers, Removes, Performing, Asking
  <2> QED BY <1>3, <2>1, <2>2, <2>3, <2>4
<1>5. CASE TakeNetworkLock(t) \/ Answer(t)
  <2> DEFINE place == IF thr[t].at = "rpc" THEN "settle"
                      ELSE IF thr[t].op = "worker" THEN "own?" ELSE "rpc"
             n == IF thr[t].at = "rpc" THEN NoThread ELSE t
             r == Moved(thr[t], place)
             s == [State(t) EXCEPT !.networkLock = n]
  <2>1. place \in Places /\ thr[t].op \in {"register", "worker", "cleanup"}
    BY <1>1, <1>5 DEF TakeNetworkLock, Answer, At, ThreadOK, PlaceOK, Places, Checks
  <2>2. QuietMove(t, place, State(t))
    BY <1>5, <2>1 DEF TakeNetworkLock, Answer, At, QuietMove, Serving
  <2>3. s \in States /\ s.pid = State(t).pid /\ SameWork(State(t), s)
    <3>1. n \in Nat
      BY <1>1 DEF NoThread
    <3> QED BY <1>9, <3>1, LockedAlike
  <2>4. thr' = [thr EXCEPT ![t] = r] /\ states' = [states EXCEPT ![thr[t].st] = s]
    BY <1>5 DEF TakeNetworkLock, Answer, Update, Goto, At
  <2>5. r \in ThreadRecords
    BY <1>1, <2>1, MovedFacts
  <2>6. WorkOK(State(t)) => SameRole(t, r, State(t))
    BY <2>1, <2>2, MoveRole
  <2> HIDE DEF r, s, place, n
  <2> QED BY <1>3, <2>3, <2>4, <2>5, <2>6
<1>6. CASE Recheck(t)
  <2>1. CASE Current(t) /\ thr' = Goto(t, Checked(t)) /\ states' = states
    <3>1. Checked(t) \in Places
      BY <1>1, <1>6 DEF Recheck, Checked, At, Checks, Places, Sections, ThreadOK, PlaceOK
    <3>2. \A s : QuietMove(t, Checked(t), s)
      BY <1>1, <1>6, SMTT(30)
         DEF Recheck, Checked, At, Checks, ThreadOK, PlaceOK, QuietMove, Serving
    <3>3. UNCHANGED did
      BY <1>6 DEF Recheck
    <3> QED BY <1>2, <2>1, <3>1, <3>2, <3>3, QuietGoto
  <2>2. CASE /\ ~Current(t)
    <3>1. did.raced
      BY <1>9, <2>2 DEF Current
    <3> QED BY <1>2, <3>1 DEF WorkInv
  <2> QED BY <1>6, <2>1, <2>2 DEF Recheck
<1> QED BY <1>4, <1>5, <1>6

\* What holds of the state a section leaves holds of it with the lock free.
LEMMA WorksAs ==
  ASSUME NEW t, NEW r, NEW s, NEW p, NEW q, SameWork(p, q), Works(t, r, s, p)
  PROVE  Works(t, r, s, q)
<1>1. LaunchStep(t, r, s, q)
  BY DEF Works, LaunchStep, SameWork
<1>2. TaskStep(t, r, s, q)
  BY DEF Works, TaskStep, SameWork
<1>3. RegisterStep(t, r, s, q)
  BY DEF Works, RegisterStep, SameWork
<1>4. CleanupStep(t, r, s, q)
  BY DEF Works, CleanupStep, SameWork, Idle
<1> QED BY <1>1, <1>2, <1>3, <1>4 DEF Works

\* The end of a section.
LEMMA WorkLeave ==
  ASSUME ForkInv, StartInv, WorkInv, NEW t \in Threads, thr[t].at \in Sections,
         NEW s \in States, Leave(t, s), s.pid = State(t).pid, OnlyTheState,
         NEW r, NEW fresh, Advances(t, r, fresh), \A f \in fresh : ~Registers(f),
         did'.raced = did.raced,
         ~did.raced /\ WorkOK(State(t)) => Works(t, r, State(t), s)
  PROVE  WorkInv'
<1> DEFINE q == [s EXCEPT !.stateLock = NoThread]
<1>1. q \in States /\ q.pid = s.pid /\ SameWork(s, q)
  BY LeftState
<1>2. thr[t].at \notin Private /\ TypeOK
  BY ThreadFacts DEF Sections, Private
<1>3. /\ thr[t].st \in 1 .. Len(states) /\ State(t) = states[thr[t].st]
      /\ ~did.raced => thr[t].st = current
  BY <1>2, ServingFacts
<1>4. PICK i \in 1 .. Len(states) :
        i = thr[t].st /\ State(t) = states[i] /\ (~did.raced => i = current)
  BY <1>3
<1>5. Rewrites(i, q)
  BY <1>1, <1>2, <1>4, RewriteView DEF Leave, Update
<1>6. ~did.raced /\ states[current].pid = pid /\ WorkOK(states[current]) =>
        i = current /\ Works(t, r, states[current], q)
  BY <1>1, <1>4, WorksAs
<1>7. UNCHANGED <<pid, current>>
  BY DEF OnlyTheState
<1> HIDE DEF q
<1> QED BY <1>1, <1>2, <1>4, <1>5, <1>6, <1>7, WorkKeeps

\* The sections that change nothing that is counted.
LEMMA WorkQuietSections ==
  ASSUME ForkInv, StartInv, WorkInv, NEW t \in Threads,
         StatusSnapshot(t) \/ WorkerBegins(t) \/ WorkerOwns(t) \/ RecordRenewal(t)
  PROVE  WorkInv'
<1>1. /\ thr[t] \in ThreadRecords /\ thr[t].at \in Sections /\ ThreadOK(thr[t])
      /\ thr[t].at \notin Private
  BY ThreadFacts
     DEF StatusSnapshot, WorkerBegins, WorkerOwns, RecordRenewal, Inside, At, Sections, Private
<1>2. OnlyTheState /\ did'.raced = did.raced /\ did'.started = did.started
  BY DEF StatusSnapshot, WorkerBegins, WorkerOwns, RecordRenewal, OnlyTheState
<1>3. State(t) \in States /\ SameWork(State(t), State(t))
  BY <1>1, ServingFacts DEF SameWork
<1>4. {"end", "sleep", "finish?", "net", "rpc"} \subseteq Places \cup {"end"}
  BY DEF Places, Checks
<1>5. thr[t].at \in {"begin", "own", "record"} => thr[t].op = "worker"
  BY <1>1 DEF ThreadOK, PlaceOK
<1>6. ASSUME NEW s \in States, Leave(t, s), s.pid = State(t).pid, SameWork(State(t), s),
             NEW place \in {"sleep", "finish?", "net", "rpc"}, thr' = Goto(t, place),
             thr[t].at \in {"begin", "own", "record"}
      PROVE  WorkInv'
  <2>1. QuietMove(t, place, State(t))
    BY <1>5, <1>6 DEF QuietMove, Serving
  <2> QED BY <1>1, <1>2, <1>4, <1>6, <2>1, QuietLeave
<1>7. CASE StatusSnapshot(t)
  <2>1. QuietMove(t, "end", State(t))
    BY <1>7 DEF StatusSnapshot, Inside, At, QuietMove, Neutral
  <2> QED BY <1>1, <1>2, <1>3, <1>4, <1>7, <2>1, QuietLeave DEF StatusSnapshot
<1>8. CASE WorkerBegins(t)
  <2>1. Leave(t, State(t)) /\ thr[t].at = "begin"
    BY <1>8 DEF WorkerBegins, Inside, At
  <2> DEFINE older == [Moved(thr[t], "older") EXCEPT !.token = State(t).older]
  <2>2. \/ \E place \in {"net", "finish?"} : thr' = Goto(t, place)
        \/ thr' = [thr EXCEPT ![t] = older]
        \/ thr' = Goto(t, "end") /\ State(t).worker # t /\ t \notin State(t).stopping
    <3>1. CASE State(t).worker = t
      BY <1>8, <3>1 DEF WorkerBegins
    <3>2. CASE State(t).worker # t /\ t \in State(t).stopping
      BY <1>8, <3>2 DEF WorkerBegins
    <3>3. CASE State(t).worker # t /\ t \notin State(t).stopping
      BY <1>8, <3>3 DEF WorkerBegins
    <3> QED BY <3>1, <3>2, <3>3
  <2>3. CASE \E place \in {"net", "finish?"} : thr' = Goto(t, place)
    BY <1>3, <1>6, <2>1, <2>3
  <2>4. CASE thr' = Goto(t, "end") /\ t \notin State(t).stopping
    <3>1. QuietMove(t, "end", State(t))
      BY <2>1, <2>4 DEF QuietMove
    <3> QED BY <1>1, <1>2, <1>3, <1>4, <2>1, <2>4, <3>1, QuietLeave
  <2>5. CASE thr' = [thr EXCEPT ![t] = older]
    <3>1. TypeOK
      BY ThreadFacts
    <3>2. older \in ThreadRecords /\ older.op = "worker" /\ older.at = "older"
      <4>1. "older" \in Places /\ State(t).older \in Nat
        BY <1>3 DEF Places, States
      <4> QED BY <1>1, <1>5, <2>1, <4>1, MovedFacts DEF ThreadRecords
    <3>3. Advances(t, older, {})
      BY <2>5, <3>1, <3>2, MoveView
    <3> HIDE DEF older
    <3>4. Threads' = Threads
      BY <3>3 DEF Advances
    <3>5. SameRole(t, older, State(t))
      BY <1>5, <2>1, <3>2
         DEF SameRole, Starting, Working, Serving, Registers, Removes, Performing, Asking
    <3>6. WorkOK(State(t)) => Works(t, older, State(t), State(t))
      BY <1>2, <1>3, <3>1, <3>4, <3>5, QuietWork
    <3> QED BY <1>1, <1>2, <1>3, <2>1, <3>3, <3>6, WorkLeave
  <2> QED BY <2>2, <2>3, <2>4, <2>5
<1>9. CASE WorkerOwns(t)
  <2>0. thr[t].at = "own"
    BY <1>9 DEF WorkerOwns, Inside, At
  <2>1. CASE Leave(t, State(t)) /\ thr' = Goto(t, "rpc")
    BY <1>3, <1>6, <2>0, <2>1
  <2>2. CASE /\ thr' = Goto(t, "finish?")
             /\ Leave(t, [State(t) EXCEPT !.networkLock = NoThread])
    <3>1. LET s == [State(t) EXCEPT !.networkLock = NoThread]
          IN  s \in States /\ s.pid = State(t).pid /\ SameWork(State(t), s)
      BY <1>3 DEF States, NoThread, SameWork
    <3> QED BY <1>6, <2>0, <2>2, <3>1
  <2> QED BY <1>9, <2>1, <2>2 DEF WorkerOwns
<1>10. CASE RecordRenewal(t)
  <2>0. thr[t].at = "record"
    BY <1>10 DEF RecordRenewal, Inside, At
  <2>1. CASE Leave(t, State(t)) /\ thr' = Goto(t, "finish?")
    BY <1>3, <1>6, <2>0, <2>1
  <2>2. ASSUME NEW b \in BOOLEAN, thr' = Goto(t, "sleep"),
               Leave(t, [State(t) EXCEPT !.registered = b])
        PROVE  WorkInv'
    <3>1. LET s == [State(t) EXCEPT !.registered = b]
          IN  s \in States /\ s.pid = State(t).pid /\ SameWork(State(t), s)
      BY <1>3 DEF States, SameWork
    <3> QED BY <1>6, <2>0, <2>2, <3>1
  <2> QED BY <1>10, <2>1, <2>2 DEF RecordRenewal
<1> QED BY <1>7, <1>8, <1>9, <1>10

\* The end of a section that may leave a removal due: s is the state before the
\* removal is given to an actor.
Schedules(t, r, s, q) ==
  /\ LaunchStep(t, r, s, q) /\ RegisterStep(t, r, s, q) /\ CleanupStep(t, r, s, q)
  /\ \A u \in q.stopping : u \in Threads /\ u # t /\ Working(thr[u])
  /\ q.actors = s.actors \ {t}

\* Where no one is left to perform the removal an actor is started.
LEMMA WorkScheduling ==
  ASSUME ForkInv, StartInv, WorkInv, NEW t \in Threads, thr[t].at \in Sections,
         NEW s \in States, NEW place \in {"end", "idle?"}, LeaveScheduling(t, s, place),
         s.pid = State(t).pid, OnlyTheState, did'.raced = did.raced,
         ~did.raced /\ WorkOK(State(t)) => Schedules(t, Moved(thr[t], place), State(t), s)
  PROVE  WorkInv'
<1> DEFINE r == Moved(thr[t], place)
           new == Thread("cleanup", "claim?", thr[t].st)
           w == Len(thr) + 1
           q == [s EXCEPT !.actors = {w}]
<1>1. place \in Places \cup {"end"}
  BY DEF Places, Checks
<1>2. thr[t] \in ThreadRecords /\ TypeOK /\ Len(thr) \in Nat /\ thr[t].st \in Nat /\ w \in Nat
  BY ThreadFacts DEF TypeOK
<1>3. r \in ThreadRecords /\ ~Removes(r)
  <2>1. r \in ThreadRecords /\ r.at \in {"ended", "idle?"}
    BY <1>1, <1>2, MovedFacts
  <2> QED BY <2>1 DEF Removes, Performing
<1>4. CASE (~s.pending \/ s.stopping # {} \/ s.actors # {}) /\ Leave(t, s) /\ thr' = Goto(t, place)
  <2>1. Advances(t, r, {})
    BY <1>1, <1>2, <1>4, GotoView
  <2> HIDE DEF r
  <2>2. ASSUME WorkOK(State(t)), Schedules(t, r, State(t), s)
        PROVE  Works(t, r, State(t), s)
    <3>1. State(t).actors \subseteq Threads
      BY <2>2 DEF WorkOK
    <3>2. TaskStep(t, r, State(t), s)
      BY <1>3, <1>4, <2>1, <2>2, <3>1 DEF TaskStep, Schedules, Advances
    <3> QED BY <2>2, <3>2 DEF Works, Schedules
  <2>3. ~did.raced /\ WorkOK(State(t)) => Works(t, r, State(t), s)
    BY <2>2 DEF r
  <2> QED BY <1>4, <2>1, <2>3, WorkLeave
<1>5. CASE /\ s.pending /\ s.stopping = {} /\ s.actors = {}
           /\ Leave(t, q) /\ thr' = Append(Goto(t, place), new)
  <2>1. /\ q \in States /\ q.pid = s.pid /\ q.actors = {w} /\ q.pending = s.pending
        /\ q.prepared = s.prepared /\ q.worker = s.worker /\ q.stopping = s.stopping
        /\ q.generation = s.generation /\ q.inflight = s.inflight /\ q.cleanup = s.cleanup
        /\ q.closeLogs = s.closeLogs /\ q.logsClosed = s.logsClosed
    <3> HIDE DEF w
    <3> QED BY <1>2 DEF States
  <2>2. new \in ThreadRecords /\ ~Registers(new) /\ Removes(new)
    BY <1>2 DEF ThreadRecords, Thread, Places, Checks, Registers, Removes
  <2>3. Advances(t, r, {new})
    BY <1>2, <1>3, <1>5, <2>2, SpawnView DEF Goto
  <2>4. Threads' = Threads \cup {w} /\ w \notin Threads
    <3> HIDE DEF new, r
    <3>1. thr' = Append([thr EXCEPT ![t] = r], new)
      BY <1>5 DEF Goto, r
    <3>2. [thr EXCEPT ![t] = r] \in Seq(ThreadRecords) /\ Len([thr EXCEPT ![t] = r]) = Len(thr)
      BY <1>2, <1>3, ExceptSeq DEF TypeOK, Threads
    <3>3. Len(thr') = w
      BY <1>2, <2>2, <3>1, <3>2
    <3> QED BY <1>2, <3>3 DEF Threads
  <2> HIDE DEF q, new, r, w
  <2>5. ASSUME WorkOK(State(t)), Schedules(t, r, State(t), s)
        PROVE  Works(t, r, State(t), q)
    <3>1. LaunchStep(t, r, State(t), q)
      BY <2>1, <2>5 DEF Schedules, LaunchStep
    <3>2. RegisterStep(t, r, State(t), q)
      BY <2>1, <2>5 DEF Schedules, RegisterStep
    <3>3. CleanupStep(t, r, State(t), q)
      BY <2>1, <2>5 DEF Schedules, CleanupStep, Idle
    <3>4. thr'[w] = new /\ Removes(thr'[w])
      BY <2>2, <2>3, <2>4 DEF Advances
    <3>5. TaskStep(t, r, State(t), q)
      BY <1>3, <1>5, <2>1, <2>4, <2>5, <3>4 DEF Schedules, TaskStep
    <3> QED BY <3>1, <3>2, <3>3, <3>5 DEF Works
  <2>6. ~did.raced /\ WorkOK(State(t)) => Works(t, r, State(t), q)
    BY <2>5 DEF r
  <2> QED BY <1>5, <2>1, <2>2, <2>3, <2>6, WorkLeave
<1> QED BY <1>4, <1>5 DEF LeaveScheduling

\* What the counts of a state say of the thread that takes a step.
LEMMA WorkFacts ==
  ASSUME ForkInv, StartInv, NEW t \in Threads, thr[t].at \in Sections, ~did.raced, WorkOK(State(t))
  PROVE  /\ State(t) \in States /\ State(t).inflight \in Nat /\ State(t).actors \subseteq Threads
         /\ t \in State(t).actors <=> Removes(thr[t])
         /\ t \in State(t).stopping => Working(thr[t])
         /\ \A u \in State(t).stopping : u \in Threads /\ Working(thr[u])
         /\ thr[t].st = current /\ t # NoThread
         /\ Registers(thr[t]) => thr[t].token <= State(t).generation + 1
<1>1. thr[t].at \notin Private
  BY DEF Sections, Private
<1>2. State(t) \in States /\ thr[t].st = current
  BY <1>1, ServingFacts
<1>3. State(t).inflight \in Nat
  <2>1. IsFiniteSet(Threads)
    <3>1. Len(thr) \in Nat
      BY DEF ForkInv, TypeOK
    <3> QED BY <3>1, FS_Interval DEF Threads
  <2>2. IsFiniteSet(Joined(State(t).generation))
    BY <2>1, FS_Subset DEF Joined
  <2> QED BY <2>2, FS_CardinalityType DEF WorkOK
<1> QED BY <1>2, <1>3 DEF WorkOK, Threads, NoThread

\* A registration that may still reach the Admin is counted.
LEMMA WorkJoin ==
  ASSUME ForkInv, StartInv, WorkInv, NEW t \in Threads, JoinRegister(t)
  PROVE  WorkInv'
<1>1. /\ thr[t] \in ThreadRecords /\ TypeOK /\ ThreadOK(thr[t]) /\ thr[t].at = "join"
      /\ thr[t].at \in Sections /\ thr[t].at \notin Private /\ thr[t].op = "register"
  BY ThreadFacts DEF JoinRegister, Inside, At, Sections, Private, ThreadOK, PlaceOK
<1>2. OnlyTheState /\ did' = did
  BY DEF JoinRegister
<1>3. State(t) \in States /\ State(t).generation \in Nat /\ State(t).inflight \in Int
  BY <1>1, ServingFacts DEF States
<1> DEFINE g == State(t).generation
           joined == ~State(t).cleanup
           n == IF joined THEN g + 1 ELSE 0
           k == IF joined THEN State(t).inflight + 1 ELSE State(t).inflight
           r == [Moved(thr[t], "call") EXCEPT !.token = n]
           s == [State(t) EXCEPT !.inflight = k]
<1>4. Leave(t, s) /\ thr' = [thr EXCEPT ![t] = r]
  BY DEF JoinRegister
<1>5. /\ s \in States /\ s.pid = State(t).pid /\ s.inflight = k /\ s.generation = g
      /\ s.cleanup = State(t).cleanup /\ s.prepared = State(t).prepared
      /\ s.worker = State(t).worker /\ s.stopping = State(t).stopping
      /\ s.pending = State(t).pending /\ s.actors = State(t).actors
      /\ s.closeLogs = State(t).closeLogs /\ s.logsClosed = State(t).logsClosed
  <2>1. k \in Int
    BY <1>3
  <2> HIDE DEF k
  <2> QED BY <1>3, <2>1 DEF States
<1>6. r \in ThreadRecords /\ r.op = "register" /\ r.at = "call" /\ r.token = n
  <2>1. "call" \in Places /\ n \in Nat
    BY <1>3 DEF Places, Checks
  <2>2. LET m == Moved(thr[t], "call")
        IN  m \in ThreadRecords /\ m.op = "register" /\ m.at = "call"
    BY <1>1, <2>1, MovedFacts
  <2> HIDE DEF n
  <2> QED BY <2>1, <2>2 DEF ThreadRecords
<1>7. Advances(t, r, {}) /\ Threads' = Threads
  <2>1. Advances(t, r, {})
    BY <1>1, <1>4, <1>6, MoveView
  <2> QED BY <2>1 DEF Advances
<1> HIDE DEF r, s
<1>8. ASSUME ~did.raced, WorkOK(State(t))  PROVE Works(t, r, State(t), s)
  <2>1. /\ State(t).inflight \in Nat /\ State(t).actors \subseteq Threads
        /\ \A u \in State(t).stopping : u \in Threads /\ Working(thr[u])
        /\ t \in State(t).actors <=> Removes(thr[t])
    BY <1>1, <1>8, WorkFacts
  <2>2. ~Working(thr[t]) /\ ~Removes(thr[t]) /\ ~Registers(thr[t]) /\ ~Asking(thr[t])
        /\ ~Performing(thr[t]) /\ ~Starting(thr[t], s.prepared) /\ ~Removes(r) /\ Registers(r)
    BY <1>1, <1>6 DEF Working, Removes, Registers, Asking, Performing, Starting
  <2>3. LaunchStep(t, r, State(t), s)
    BY <1>2, <1>5, <1>8, <2>2 DEF LaunchStep, WorkOK
  <2>4. TaskStep(t, r, State(t), s)
    BY <1>5, <1>7, <1>8, <2>1, <2>2 DEF TaskStep, WorkOK
  <2>5. RegisterStep(t, r, State(t), s)
    BY <1>3, <1>5, <1>6, <2>2 DEF RegisterStep, Joins
  <2>6. CleanupStep(t, r, State(t), s)
    BY <1>5, <1>8, <2>1, <2>2 DEF CleanupStep, WorkOK, Idle
  <2> QED BY <2>3, <2>4, <2>5, <2>6 DEF Works
<1> QED BY <1>1, <1>2, <1>4, <1>5, <1>7, <1>8, WorkLeave

\* ... until it is written down; the last one hands on the cleanup that waits for it.
LEMMA WorkCommit ==
  ASSUME ForkInv, StartInv, WorkInv, NEW t \in Threads, CommitRegister(t)
  PROVE  WorkInv'
<1>1. /\ thr[t] \in ThreadRecords /\ TypeOK /\ ThreadOK(thr[t]) /\ thr[t].at = "commit"
      /\ thr[t].at \in Sections /\ thr[t].at \notin Private /\ thr[t].op = "register"
  BY ThreadFacts DEF CommitRegister, Inside, At, Sections, Private, ThreadOK, PlaceOK
<1>2. OnlyTheState /\ did' = did
  BY DEF CommitRegister
<1>3. /\ State(t) \in States /\ State(t).generation \in Nat /\ State(t).inflight \in Int
      /\ State(t).registered \in BOOLEAN /\ State(t).pending \in BOOLEAN
      /\ State(t).cleanup \in BOOLEAN /\ thr[t].token \in Nat
  BY <1>1, ServingFacts DEF States, ThreadRecords
<1> DEFINE g == State(t).generation
           mine == thr[t].token = g + 1
           last == mine /\ State(t).inflight = 1
           k == IF mine THEN State(t).inflight - 1 ELSE State(t).inflight
           place == IF thr[t].token = 0 THEN "end" ELSE "idle?"
           r == Moved(thr[t], place)
<1>4. PICK s \in States :
        /\ LeaveScheduling(t, s, place) /\ s.pid = State(t).pid
        /\ s.inflight = k /\ s.generation = g
        /\ s.prepared = State(t).prepared /\ s.worker = State(t).worker
        /\ s.stopping = State(t).stopping /\ s.actors = State(t).actors
        /\ s.closeLogs = State(t).closeLogs /\ s.logsClosed = State(t).logsClosed
        /\ State(t).pending => s.pending
        /\ s.cleanup => State(t).cleanup /\ (~last \/ s.pending)
        /\ ~mine => s.pending = State(t).pending /\ s.cleanup = State(t).cleanup
  BY <1>3, CommitView
<1>5. place \in {"end", "idle?"}
  OBVIOUS
<1>6. thr[t].token # 0 => Asking(r)
  <2>1. "idle?" \in Places
    BY DEF Places, Checks
  <2> QED BY <1>1, <2>1, MovedFacts DEF Asking
<1>7. r.at \in {"ended", "idle?"}
  <2>1. place \in Places \cup {"end"}
    BY DEF Places, Checks
  <2> HIDE DEF place
  <2> QED BY <1>1, <1>5, <2>1, MovedFacts
<1> HIDE DEF r
<1>8. ASSUME ~did.raced, WorkOK(State(t))  PROVE Schedules(t, r, State(t), s)
  <2>1. /\ State(t).inflight \in Nat /\ State(t).actors \subseteq Threads
        /\ \A u \in State(t).stopping : u \in Threads /\ Working(thr[u])
        /\ t \in State(t).actors <=> Removes(thr[t])
    BY <1>1, <1>8, WorkFacts
  <2>2. ~Working(thr[t]) /\ ~Removes(thr[t]) /\ Registers(thr[t]) /\ ~Asking(thr[t])
        /\ ~Performing(thr[t]) /\ ~Starting(thr[t], s.prepared) /\ ~Registers(r)
    BY <1>1, <1>7 DEF Working, Removes, Registers, Asking, Performing, Starting
  <2>3. LaunchStep(t, r, State(t), s)
    BY <1>2, <1>4, <1>8, <2>2 DEF LaunchStep, WorkOK
  <2>4. RegisterStep(t, r, State(t), s)
    BY <1>3, <1>4, <2>2 DEF RegisterStep, Joins
  <2>5. /\ \A u \in s.stopping : u \in Threads /\ u # t /\ Working(thr[u])
        /\ s.actors = State(t).actors \ {t}
    BY <1>4, <2>1, <2>2
  <2>6. s.cleanup => \/ s.inflight > 0 \/ s.pending
                     \/ \E u \in Threads \ {t} : Performing(thr[u])
    BY <1>3, <1>4, <1>8, <2>1, <2>2 DEF WorkOK
  <2>7. s.closeLogs => \/ s.logsClosed \/ ~Idle(s) \/ Asking(r)
                       \/ \E u \in Threads \ {t} : Asking(thr[u])
    <3>1. CASE thr[t].token # 0
      BY <1>6, <3>1
    <3>2. CASE thr[t].token = 0
      <4>1. ~mine
        BY <1>3, <3>2
      <4>2. Idle(s) => Idle(State(t))
        BY <1>4, <4>1 DEF Idle
      <4> QED BY <1>4, <1>8, <2>2, <4>2 DEF WorkOK
    <3> QED BY <3>1, <3>2
  <2> QED BY <2>3, <2>4, <2>5, <2>6, <2>7 DEF Schedules, CleanupStep
<1> HIDE DEF place
<1>9. ~did.raced /\ WorkOK(State(t)) => Schedules(t, Moved(thr[t], place), State(t), s)
  BY <1>8 DEF r
<1> QED BY <1>1, <1>2, <1>4, <1>5, <1>9, WorkScheduling

\* A thread that is prepared has a start that will activate it.
LEMMA WorkPrepare ==
  ASSUME ForkInv, StartInv, WorkInv, NEW t \in Threads, PrepareStart(t)
  PROVE  WorkInv'
<1>1. /\ thr[t] \in ThreadRecords /\ TypeOK /\ ThreadOK(thr[t]) /\ thr[t].at = "prepare"
      /\ thr[t].at \in Sections /\ thr[t].at \notin Private /\ thr[t].op = "start"
  BY ThreadFacts DEF PrepareStart, Inside, At, Sections, Private, ThreadOK, PlaceOK
<1>2. OnlyTheState /\ did' = did
  BY DEF PrepareStart
<1>3. State(t) \in States /\ Len(thr) \in Nat /\ Len(thr) + 1 \in Nat
  BY <1>1, ServingFacts DEF TypeOK
<1>4. CASE Leave(t, State(t)) /\ thr' = Goto(t, "end")
  <2>1. SameWork(State(t), State(t)) /\ QuietMove(t, "end", State(t))
    BY <1>1 DEF SameWork, QuietMove, Neutral
  <2> QED BY <1>1, <1>2, <1>3, <1>4, <2>1, QuietLeave
<1>5. CASE /\ State(t).worker = NoThread /\ State(t).prepared = NoThread
           /\ Leave(t, [State(t) EXCEPT !.prepared = Len(thr) + 1])
           /\ thr' = Append([thr EXCEPT ![t] = [Moved(thr[t], "resume") EXCEPT !.token = Len(thr) + 1]],
                            Thread("worker", "gate", thr[t].st))
  <2> DEFINE w == Len(thr) + 1
             r == [Moved(thr[t], "resume") EXCEPT !.token = w]
             s == [State(t) EXCEPT !.prepared = w]
             new == Thread("worker", "gate", thr[t].st)
  <2>1. /\ s \in States /\ s.pid = State(t).pid /\ s.prepared = w
        /\ s.inflight = State(t).inflight /\ s.generation = State(t).generation
        /\ s.cleanup = State(t).cleanup /\ s.worker = State(t).worker
        /\ s.stopping = State(t).stopping
        /\ s.pending = State(t).pending /\ s.actors = State(t).actors
        /\ s.closeLogs = State(t).closeLogs /\ s.logsClosed = State(t).logsClosed
    <3> HIDE DEF w
    <3>1. w \in Nat
      BY <1>3 DEF w
    <3> QED BY <1>3, <3>1 DEF States
  <2>2. /\ r \in ThreadRecords /\ r.op = "start" /\ r.at = "resume" /\ r.token = w
        /\ r.st = thr[t].st
    <3>1. "resume" \in Places
      BY DEF Places
    <3>2. LET m == Moved(thr[t], "resume")
          IN  m \in ThreadRecords /\ m.op = "start" /\ m.at = "resume" /\ m.st = thr[t].st
      BY <1>1, <3>1, MovedFacts
    <3> QED BY <1>3, <3>2 DEF ThreadRecords
  <2>3. new \in ThreadRecords /\ new.op = "worker" /\ new.at = "gate"
    BY <1>1 DEF ThreadRecords, Thread, Places
  <2>4. Advances(t, r, {new})
    BY <1>1, <1>5, <2>2, <2>3, SpawnView
  <2>5. Leave(t, s) /\ w # NoThread
    BY <1>3, <1>5 DEF NoThread
  <2> HIDE DEF r, s, w, new
  <2>6. Threads \subseteq Threads' /\ \A u \in Threads' \ Threads : thr'[u] = new
    BY <2>4 DEF Advances
  <2>7. ~Registers(new) /\ ~Removes(new) /\ ~Removes(r) /\ ~Registers(r)
    BY <2>2, <2>3 DEF Registers, Removes, Performing
  <2>8. ASSUME ~did.raced, WorkOK(State(t))  PROVE Works(t, r, State(t), s)
    <3>1. /\ State(t).actors \subseteq Threads /\ thr[t].st = current
          /\ \A u \in State(t).stopping : u \in Threads /\ Working(thr[u])
          /\ t \in State(t).actors <=> Removes(thr[t])
      BY <1>1, <2>8, WorkFacts
    <3>2. ~Working(thr[t]) /\ ~Removes(thr[t]) /\ ~Registers(thr[t])
          /\ ~Performing(thr[t])
      BY <1>1 DEF Working, Removes, Registers, Performing
    <3>3. LaunchStep(t, r, State(t), s)
      BY <1>2, <2>1, <2>2, <2>8, <3>1 DEF LaunchStep, WorkOK, Starting
    <3>4. TaskStep(t, r, State(t), s)
      BY <2>1, <2>6, <2>7, <2>8, <3>1, <3>2 DEF TaskStep, WorkOK
    <3>5. RegisterStep(t, r, State(t), s)
      BY <2>1, <2>7, <3>2 DEF RegisterStep, Joins
    <3>6. CleanupStep(t, r, State(t), s)
      BY <2>1, <2>5, <2>8, <3>2 DEF CleanupStep, WorkOK, Idle
    <3> QED BY <3>3, <3>4, <3>5, <3>6 DEF Works
  <2> QED BY <1>1, <1>2, <2>1, <2>4, <2>5, <2>7, <2>8, WorkLeave
<1> QED BY <1>4, <1>5 DEF PrepareStart

\* An activation opens a new window, in which nobody is yet.
LEMMA WorkActivate ==
  ASSUME ForkInv, StartInv, WorkInv, NEW t \in Threads, ActivateStart(t)
  PROVE  WorkInv'
<1>1. /\ thr[t] \in ThreadRecords /\ TypeOK /\ ThreadOK(thr[t]) /\ thr[t].at = "activate"
      /\ thr[t].at \in Sections /\ thr[t].at \notin Private /\ thr[t].op = "start"
      /\ did \in Dids /\ thr[t].token # NoThread
  BY ThreadFacts
     DEF ActivateStart, Inside, At, Sections, Private, ThreadOK, PlaceOK, StartInv, TokenOK
<1>2. OnlyTheState /\ thr' = Goto(t, "end")
  BY DEF ActivateStart
<1>3. State(t) \in States
  BY <1>1, ServingFacts
<1>4. CASE State(t).prepared # thr[t].token /\ Leave(t, State(t)) /\ did' = did
  <2>1. SameWork(State(t), State(t)) /\ QuietMove(t, "end", State(t))
    BY <1>1, <1>4 DEF SameWork, QuietMove, Starting
  <2> QED BY <1>1, <1>2, <1>3, <1>4, <2>1, QuietLeave
<1>5. CASE /\ State(t).prepared = thr[t].token
           /\ Leave(t, Activated(State(t)))
           /\ did' = [did EXCEPT !.started = TRUE, !.announced = TRUE]
  <2> DEFINE r == Moved(thr[t], "end")
             s == Activated(State(t))
  <2>1. r.op = "none" /\ r.at = "ended" /\ Advances(t, r, {})
    BY <1>1, <1>2, MovedFacts, GotoView
  <2>2. did'.started /\ did'.raced = did.raced
    BY <1>1, <1>5 DEF Dids
  <2>3. State(t).generation \in Nat /\ State(t).generation + 1 \in Nat /\ State(t).prepared \in Nat
    BY <1>3 DEF States
  <2>4. Leave(t, s)
    BY <1>5
  <2>5. /\ s \in States /\ s.pid = State(t).pid /\ s.generation = State(t).generation + 1
        /\ s.prepared = NoThread /\ s.worker = State(t).prepared /\ ~s.pending
        /\ s.inflight = 0 /\ ~s.cleanup /\ s.stopping = State(t).stopping
        /\ s.actors = State(t).actors
    BY <1>3, ActivatedType
  <2> HIDE DEF r, s
  <2>6. Threads' = Threads
    BY <2>1 DEF Advances
  <2>7. ASSUME ~did.raced, WorkOK(State(t))  PROVE Works(t, r, State(t), s)
    <3>1. /\ State(t).actors \subseteq Threads
          /\ \A u \in State(t).stopping : u \in Threads /\ Working(thr[u])
          /\ t \in State(t).actors <=> Removes(thr[t])
      BY <1>1, <2>7, WorkFacts
    <3>2. ~Working(thr[t]) /\ ~Removes(thr[t]) /\ ~Removes(r) /\ ~Registers(r)
      BY <1>1, <2>1 DEF Working, Removes, Registers, Performing
    <3>3. LaunchStep(t, r, State(t), s)
      BY <2>2, <2>5 DEF LaunchStep
    <3>4. TaskStep(t, r, State(t), s)
      BY <2>5, <2>6, <3>1, <3>2 DEF TaskStep
    <3>5. RegisterStep(t, r, State(t), s)
      BY <2>3, <2>5, <3>2 DEF RegisterStep
    <3>6. CleanupStep(t, r, State(t), s)
      BY <1>1, <1>5, <2>5 DEF CleanupStep, Idle
    <3> QED BY <3>3, <3>4, <3>5, <3>6 DEF Works
  <2> QED BY <1>1, <1>2, <2>1, <2>2, <2>4, <2>5, <2>7, WorkLeave
<1> QED BY <1>4, <1>5 DEF ActivateStart, Activated

\* A shutdown leaves its worker and its registrations something to do, and asks
\* itself whether the logs can be closed.
LEMMA WorkShutdown ==
  ASSUME ForkInv, StartInv, WorkInv, NEW t \in Threads, Shutdown(t)
  PROVE  WorkInv'
<1>1. /\ thr[t] \in ThreadRecords /\ TypeOK /\ ThreadOK(thr[t]) /\ thr[t].at = "shutdown"
      /\ thr[t].at \in Sections /\ thr[t].at \notin Private /\ thr[t].op = "close"
      /\ did \in Dids
  BY ThreadFacts DEF Shutdown, Inside, At, Sections, Private, ThreadOK, PlaceOK
<1>2. OnlyTheState /\ did'.raced = did.raced
  BY <1>1 DEF Shutdown, Dids
<1>3. /\ State(t) \in States /\ State(t).inflight \in Int /\ State(t).worker \in Nat
      /\ State(t).stopping \in SUBSET Nat
  BY <1>1, ServingFacts DEF States
<1> DEFINE stopping == State(t).stopping \cup ({State(t).worker} \ {NoThread})
           cleanup  == State(t).inflight > 0
           pending  == State(t).inflight = 0 /\ CleanupDue(State(t))
           s == ShutState(State(t), stopping, cleanup, pending)
           r == Moved(thr[t], "idle?")
<1>4. LeaveScheduling(t, s, "idle?")
  BY DEF Shutdown, ShutState
<1>5. stopping \in SUBSET Nat /\ cleanup \in BOOLEAN /\ pending \in BOOLEAN
  BY <1>3
<1> HIDE DEF stopping, cleanup, pending
<1>6. /\ s \in States /\ s.pid = State(t).pid /\ s.prepared = NoThread /\ s.worker = NoThread
      /\ s.stopping = stopping /\ s.cleanup = cleanup /\ s.actors = State(t).actors
      /\ s.generation = State(t).generation /\ s.inflight = State(t).inflight
  BY <1>3, <1>5, ShutType
<1>7. r.at = "idle?"
  <2>1. "idle?" \in Places
    BY DEF Places, Checks
  <2> QED BY <1>1, <2>1, MovedFacts
<1> HIDE DEF s, r
<1>8. ASSUME ~did.raced, WorkOK(State(t))  PROVE Schedules(t, r, State(t), s)
  <2>1. /\ State(t).actors \subseteq Threads
        /\ \A u \in State(t).stopping : u \in Threads /\ Working(thr[u])
        /\ t \in State(t).actors <=> Removes(thr[t])
    BY <1>1, <1>8, WorkFacts
  <2>2. ~Working(thr[t]) /\ ~Removes(thr[t]) /\ ~Registers(thr[t]) /\ ~Registers(r) /\ Asking(r)
    BY <1>1, <1>7 DEF Working, Removes, Registers, Performing, Asking
  <2>3. State(t).worker # NoThread => State(t).worker \in Threads /\ Working(thr[State(t).worker])
    <3>1. StartOK(State(t), current)
      BY <1>1, <1>8, ServingFacts DEF StartInv, OneState
    <3> QED BY <3>1 DEF StartOK, Serves, Working
  <2>4. LaunchStep(t, r, State(t), s)
    BY <1>6 DEF LaunchStep
  <2>5. RegisterStep(t, r, State(t), s)
    BY <1>6, <2>2 DEF RegisterStep, Joins
  <2>6. CleanupStep(t, r, State(t), s)
    BY <1>6, <2>2 DEF CleanupStep, cleanup
  <2>7. \A u \in s.stopping : u \in Threads /\ u # t /\ Working(thr[u])
    BY <1>6, <2>1, <2>2, <2>3 DEF stopping
  <2> QED BY <1>6, <2>1, <2>2, <2>4, <2>5, <2>6, <2>7 DEF Schedules
<1>9. ~did.raced /\ WorkOK(State(t)) => Schedules(t, Moved(thr[t], "idle?"), State(t), s)
  BY <1>8 DEF r
<1> QED BY <1>1, <1>2, <1>4, <1>6, <1>9, WorkScheduling

\* A worker that has ended has performed the removal that waited for it, or asks.
LEMMA WorkFinish ==
  ASSUME ForkInv, StartInv, WorkInv, NEW t \in Threads, FinishWorker(t)
  PROVE  WorkInv'
<1>1. /\ thr[t] \in ThreadRecords /\ TypeOK /\ ThreadOK(thr[t]) /\ thr[t].at = "finish"
      /\ thr[t].at \in Sections /\ thr[t].at \notin Private \cup Serving /\ thr[t].op = "worker"
  BY ThreadFacts DEF FinishWorker, Inside, At, Sections, Private, Serving, ThreadOK, PlaceOK
<1>2. OnlyTheState /\ did' = did
  BY DEF FinishWorker
<1>3. /\ State(t) \in States /\ t \in Nat
      /\ ~did.raced => State(t).worker # t
  BY <1>1, ServingFacts, ThreadFacts DEF Threads
<1> DEFINE left == [State(t) EXCEPT !.stopping = @ \ {t}, !.worker = IF @ = t THEN NoThread ELSE @]
<1>4. /\ left \in States /\ left.pid = State(t).pid /\ left.prepared = State(t).prepared
      /\ left.stopping = State(t).stopping \ {t}
      /\ left.worker = (IF State(t).worker = t THEN NoThread ELSE State(t).worker)
      /\ left.generation = State(t).generation /\ left.inflight = State(t).inflight
      /\ left.cleanup = State(t).cleanup /\ left.pending = State(t).pending
      /\ left.actors = State(t).actors
      /\ left.closeLogs = State(t).closeLogs /\ left.logsClosed = State(t).logsClosed
  <2> DEFINE q == [State(t) EXCEPT !.stopping = @ \ {t}]
             w == IF State(t).worker = t THEN NoThread ELSE State(t).worker
  <2>1. q \in States /\ left = [q EXCEPT !.worker = w]
    BY <1>3 DEF States
  <2>2. w \in Nat
    BY <1>3 DEF States, NoThread
  <2>3. left \in States /\ left.worker = w
    <3> HIDE DEF q, left, w
    <3> QED BY <2>1, <2>2 DEF States
  <2> HIDE DEF w
  <2> QED BY <1>3, <2>3 DEF States
<1>5. ~Removes(thr[t]) /\ ~Registers(thr[t]) /\ ~Performing(thr[t]) /\ ~Asking(thr[t])
      /\ \A w : ~Starting(thr[t], w)
  BY <1>1 DEF Removes, Registers, Performing, Asking, Starting
<1>6. ASSUME ~did.raced, WorkOK(State(t))
      PROVE  /\ State(t).actors \subseteq Threads /\ t \notin State(t).actors
             /\ \A u \in left.stopping : u \in Threads /\ u # t /\ Working(thr[u])
             /\ left.worker = State(t).worker
  BY <1>1, <1>3, <1>4, <1>5, <1>6, WorkFacts
<1> HIDE DEF left
<1>7. CASE LeaveScheduling(t, left, "idle?")
  <2> DEFINE r == Moved(thr[t], "idle?")
  <2>1. r.at = "idle?"
    <3>1. "idle?" \in Places
      BY DEF Places, Checks
    <3> QED BY <1>1, <3>1, MovedFacts
  <2> HIDE DEF r
  <2>2. ASSUME ~did.raced, WorkOK(State(t))  PROVE Schedules(t, r, State(t), left)
    <3>1. ~Registers(r) /\ Asking(r)
      BY <2>1 DEF Registers, Asking
    <3>2. LaunchStep(t, r, State(t), left)
      BY <1>2, <1>4, <1>5, <1>6, <2>2 DEF LaunchStep, WorkOK
    <3>3. RegisterStep(t, r, State(t), left)
      BY <1>4, <1>5, <3>1 DEF RegisterStep, Joins
    <3>4. CleanupStep(t, r, State(t), left)
      BY <1>4, <1>5, <2>2, <3>1 DEF CleanupStep, WorkOK
    <3> QED BY <1>4, <1>6, <2>2, <3>2, <3>3, <3>4 DEF Schedules
  <2>3. ~did.raced /\ WorkOK(State(t)) => Schedules(t, Moved(thr[t], "idle?"), State(t), left)
    BY <2>2 DEF r
  <2> QED BY <1>1, <1>2, <1>4, <1>7, <2>3, WorkScheduling
<1>8. CASE /\ State(t).actors = {}
           /\ Leave(t, ClaimedBy(t, left))
           /\ thr' = [thr EXCEPT ![t] = [Moved(thr[t], "call") EXCEPT !.op = "cleanup"]]
  <2> DEFINE r == [Moved(thr[t], "call") EXCEPT !.op = "cleanup"]
             s == ClaimedBy(t, left)
  <2>1. r \in ThreadRecords /\ r.op = "cleanup" /\ r.at = "call"
    <3>1. "call" \in Places
      BY DEF Places, Checks
    <3>2. LET m == Moved(thr[t], "call")  IN  m \in ThreadRecords /\ m.at = "call"
      BY <1>1, <3>1, MovedFacts
    <3> QED BY <3>2 DEF ThreadRecords
  <2>2. /\ s \in States /\ s.pid = left.pid /\ s.actors = {t} /\ ~s.pending
        /\ s.prepared = left.prepared /\ s.worker = left.worker /\ s.stopping = left.stopping
        /\ s.generation = left.generation /\ s.inflight = left.inflight
        /\ s.cleanup = left.cleanup
    BY <1>3, <1>4, ClaimedFacts
  <2>3. Advances(t, r, {}) /\ Threads' = Threads
    <3>1. Advances(t, r, {})
      BY <1>1, <1>8, <2>1, MoveView
    <3> QED BY <3>1 DEF Advances
  <2>4. Leave(t, s)
    BY <1>8
  <2> HIDE DEF r, s
  <2>5. ASSUME ~did.raced, WorkOK(State(t))  PROVE Works(t, r, State(t), s)
    <3>1. ~Registers(r) /\ Removes(r) /\ Performing(r)
      BY <2>1 DEF Registers, Removes, Performing
    <3>2. LaunchStep(t, r, State(t), s)
      BY <1>2, <1>4, <1>5, <1>6, <2>2, <2>5 DEF LaunchStep, WorkOK
    <3>3. TaskStep(t, r, State(t), s)
      BY <1>6, <1>8, <2>2, <2>3, <2>5, <3>1 DEF TaskStep
    <3>4. RegisterStep(t, r, State(t), s)
      BY <1>4, <1>5, <2>2, <3>1 DEF RegisterStep, Joins
    <3>5. CleanupStep(t, r, State(t), s)
      BY <2>2, <3>1 DEF CleanupStep, Idle
    <3> QED BY <3>2, <3>3, <3>4, <3>5 DEF Works
  <2> QED BY <1>1, <1>2, <1>4, <2>2, <2>3, <2>4, <2>5, WorkLeave
<1> QED BY <1>7, <1>8 DEF FinishWorker, left, ClaimedBy

\* An actor collects a removal until it is done, and then asks.
LEMMA WorkRemovals ==
  ASSUME ForkInv, StartInv, WorkInv, NEW t \in Threads, ClaimRemoval(t) \/ CompleteRemoval(t)
  PROVE  WorkInv'
<1>1. /\ thr[t] \in ThreadRecords /\ TypeOK /\ ThreadOK(thr[t]) /\ thr[t].op = "cleanup"
      /\ thr[t].at \in {"claim", "complete"}
      /\ thr[t].at \in Sections /\ thr[t].at \notin Private
  BY ThreadFacts
     DEF ClaimRemoval, CompleteRemoval, Inside, At, Sections, Private, ThreadOK, PlaceOK
<1>2. OnlyTheState /\ did' = did
  BY DEF ClaimRemoval, CompleteRemoval
<1>3. State(t) \in States /\ State(t).cleanup \in BOOLEAN
  BY <1>1, ServingFacts DEF States
<1>4. Removes(thr[t]) /\ ~Registers(thr[t]) /\ ~Asking(thr[t]) /\ ~Working(thr[t])
      /\ \A w : ~Starting(thr[t], w)
  BY <1>1 DEF Removes, Performing, Registers, Asking, Working, Starting
<1>5. ASSUME ~did.raced, WorkOK(State(t))
      PROVE  /\ t \in State(t).actors /\ State(t).actors \subseteq Threads
             /\ \A u \in State(t).stopping : u \in Threads /\ u # t /\ Working(thr[u])
  BY <1>1, <1>4, <1>5, WorkFacts
<1>6. \* The actor leaves without a removal.
      ASSUME NEW s \in States, LeaveScheduling(t, s, "idle?"), s.pid = State(t).pid,
             s.cleanup => State(t).cleanup /\ ~Performing(thr[t]),
             s.actors = State(t).actors \ {t}, s.pending = State(t).pending,
             s.prepared = State(t).prepared, s.worker = State(t).worker,
             s.stopping = State(t).stopping,
             s.generation = State(t).generation, s.inflight = State(t).inflight
      PROVE  WorkInv'
  <2> DEFINE r == Moved(thr[t], "idle?")
  <2>1. r.at = "idle?"
    <3>1. "idle?" \in Places
      BY DEF Places, Checks
    <3> QED BY <1>1, <3>1, MovedFacts
  <2> HIDE DEF r
  <2>4. ASSUME ~did.raced, WorkOK(State(t))  PROVE Schedules(t, r, State(t), s)
    <3>1. ~Registers(r) /\ Asking(r)
      BY <2>1 DEF Registers, Asking
    <3>2. LaunchStep(t, r, State(t), s)
      BY <1>2, <1>4, <1>6, <2>4 DEF LaunchStep, WorkOK
    <3>3. RegisterStep(t, r, State(t), s)
      BY <1>4, <1>6, <3>1 DEF RegisterStep, Joins
    <3>4. CleanupStep(t, r, State(t), s)
      BY <1>6, <2>4, <3>1 DEF CleanupStep, WorkOK
    <3> QED BY <1>5, <1>6, <2>4, <3>2, <3>3, <3>4 DEF Schedules
  <2>5. ~did.raced /\ WorkOK(State(t)) => Schedules(t, Moved(thr[t], "idle?"), State(t), s)
    BY <2>4 DEF r
  <2> QED BY <1>1, <1>2, <1>6, <2>5, WorkScheduling
<1>7. CASE CompleteRemoval(t)
  <2>1. PICK success \in BOOLEAN : LeaveScheduling(t, Removed(t, success), "idle?")
    BY <1>7 DEF CompleteRemoval
  <2> QED BY <1>3, <1>6, <2>1, RemovedFacts
<1>8. CASE ClaimRemoval(t)
  <2>0. thr[t].at = "claim"
    BY <1>8 DEF ClaimRemoval, Inside, At
  <2>1. CASE LeaveScheduling(t, [State(t) EXCEPT !.actors = @ \ {t}], "idle?")
    <3>1. ~Performing(thr[t])
      BY <2>0 DEF Performing
    <3>2. PICK actors \in SUBSET Nat : actors = State(t).actors \ {t}
      BY <1>3 DEF States
    <3> DEFINE s == [State(t) EXCEPT !.actors = actors]
    <3>3. /\ s \in States /\ s.pid = State(t).pid /\ s.actors = State(t).actors \ {t}
          /\ s.cleanup = State(t).cleanup /\ s.pending = State(t).pending
          /\ s.prepared = State(t).prepared /\ s.worker = State(t).worker
          /\ s.stopping = State(t).stopping
          /\ s.generation = State(t).generation /\ s.inflight = State(t).inflight
      BY <1>3, <3>2 DEF States
    <3>4. LeaveScheduling(t, s, "idle?")
      BY <2>1, <3>2
    <3> HIDE DEF s
    <3> QED BY <1>6, <3>1, <3>3, <3>4
  <2>2. CASE Leave(t, [State(t) EXCEPT !.pending = FALSE, !.active = t]) /\ thr' = Goto(t, "call")
    <3> DEFINE s == [State(t) EXCEPT !.pending = FALSE, !.active = t]
               r == Moved(thr[t], "call")
    <3>1. r.op = "cleanup" /\ r.at = "call" /\ Advances(t, r, {}) /\ Threads' = Threads
      <4>1. "call" \in Places
        BY DEF Places, Checks
      <4>2. r.op = "cleanup" /\ r.at = "call" /\ Advances(t, r, {})
        BY <1>1, <2>2, <4>1, MovedFacts, GotoView
      <4> QED BY <4>2 DEF Advances
    <3>2. /\ s \in States /\ s.pid = State(t).pid /\ ~s.pending
          /\ s.actors = State(t).actors /\ s.cleanup = State(t).cleanup
          /\ s.prepared = State(t).prepared /\ s.worker = State(t).worker
          /\ s.stopping = State(t).stopping
          /\ s.generation = State(t).generation /\ s.inflight = State(t).inflight
      <4>1. t \in Nat
        BY ThreadFacts
      <4> QED BY <1>3, <4>1 DEF States
    <3>3. Leave(t, s)
      BY <2>2
    <3> HIDE DEF r, s
    <3>4. ASSUME ~did.raced, WorkOK(State(t))  PROVE Works(t, r, State(t), s)
      <4>1. ~Registers(r) /\ Removes(r) /\ Performing(r)
        BY <3>1 DEF Registers, Removes, Performing
      <4>2. LaunchStep(t, r, State(t), s)
        BY <1>2, <1>4, <3>2, <3>4 DEF LaunchStep, WorkOK
      <4>3. TaskStep(t, r, State(t), s)
        BY <1>5, <3>1, <3>2, <3>4, <4>1 DEF TaskStep
      <4>4. RegisterStep(t, r, State(t), s)
        BY <1>4, <3>2, <4>1 DEF RegisterStep, Joins
      <4>5. CleanupStep(t, r, State(t), s)
        BY <1>5, <3>2, <3>4, <4>1 DEF CleanupStep, Idle
      <4> QED BY <4>2, <4>3, <4>4, <4>5 DEF Works
    <3> QED BY <1>1, <1>2, <3>1, <3>2, <3>3, <3>4, WorkLeave
  <2> QED BY <1>8, <2>1, <2>2 DEF ClaimRemoval
<1> QED BY <1>7, <1>8

\* Who asks leaves the logs closed, or something that keeps them open.
LEMMA WorkCloseLogs ==
  ASSUME ForkInv, StartInv, WorkInv, NEW t \in Threads, CloseLogsWhenIdle(t)
  PROVE  WorkInv'
<1>1. /\ thr[t] \in ThreadRecords /\ TypeOK /\ thr[t].at = "idle"
      /\ thr[t].at \in Sections /\ thr[t].at \notin Private
  BY ThreadFacts DEF CloseLogsWhenIdle, Inside, At, Sections, Private
<1>2. OnlyTheState /\ did' = did
  BY DEF CloseLogsWhenIdle
<1>3. State(t) \in States /\ State(t).logsClosed \in BOOLEAN /\ State(t).closeLogs \in BOOLEAN
  BY <1>1, ServingFacts DEF States
<1>4. PICK closes \in BOOLEAN, place \in {"close", "end"} :
        /\ Leave(t, [State(t) EXCEPT !.logsClosed = @ \/ closes])
        /\ thr' = Goto(t, place)
        /\ State(t).closeLogs /\ ~State(t).logsClosed /\ Idle(State(t)) => closes
  <2> DEFINE idle == State(t).closeLogs /\ ~State(t).logsClosed /\ Idle(State(t))
  <2>1. /\ Leave(t, [State(t) EXCEPT !.logsClosed = @ \/ idle])
        /\ thr' = Goto(t, IF idle THEN "close" ELSE "end")
    BY DEF CloseLogsWhenIdle, Idle
  <2>2. idle \in BOOLEAN
    OBVIOUS
  <2> QED BY <2>1, <2>2
<1> DEFINE c == State(t).logsClosed \/ closes
           s == [State(t) EXCEPT !.logsClosed = c]
           r == Moved(thr[t], place)
<1>5. r.at \in {"close", "ended"} /\ Advances(t, r, {}) /\ Threads' = Threads
  <2>1. place \in Places \cup {"end"}
    BY DEF Places, Sections
  <2>2. r.at \in {"close", "ended"} /\ Advances(t, r, {})
    BY <1>1, <1>4, <2>1, MovedFacts, GotoView
  <2> QED BY <2>2 DEF Advances
<1>6. Leave(t, s)
  BY <1>4
<1>7. /\ s \in States /\ s.pid = State(t).pid /\ s.logsClosed = c
      /\ s.closeLogs = State(t).closeLogs /\ s.pending = State(t).pending
      /\ s.actors = State(t).actors /\ s.cleanup = State(t).cleanup
      /\ s.prepared = State(t).prepared /\ s.worker = State(t).worker
      /\ s.stopping = State(t).stopping
      /\ s.generation = State(t).generation /\ s.inflight = State(t).inflight
  <2>1. c \in BOOLEAN
    BY <1>3
  <2> HIDE DEF c
  <2> QED BY <1>3, <2>1 DEF States
<1> HIDE DEF r, s
<1>8. ASSUME ~did.raced, WorkOK(State(t))  PROVE Works(t, r, State(t), s)
  <2>1. /\ State(t).actors \subseteq Threads
        /\ \A u \in State(t).stopping : u \in Threads /\ Working(thr[u])
        /\ t \in State(t).actors <=> Removes(thr[t])
    BY <1>1, <1>8, WorkFacts
  <2>2. ~Registers(thr[t]) /\ ~Removes(thr[t]) /\ ~Working(thr[t]) /\ ~Performing(thr[t])
        /\ ~Registers(r) /\ ~Removes(r) /\ \A w : ~Starting(thr[t], w)
    BY <1>1, <1>5 DEF Registers, Removes, Working, Performing, Starting, Serving
  <2>3. LaunchStep(t, r, State(t), s)
    BY <1>2, <1>7, <1>8, <2>2 DEF LaunchStep, WorkOK
  <2>4. TaskStep(t, r, State(t), s)
    BY <1>5, <1>7, <1>8, <2>1, <2>2 DEF TaskStep, WorkOK
  <2>5. RegisterStep(t, r, State(t), s)
    BY <1>7, <2>2 DEF RegisterStep, Joins
  <2>6. CleanupStep(t, r, State(t), s)
    BY <1>4, <1>7, <1>8, <2>2 DEF CleanupStep, WorkOK, Idle
  <2> QED BY <2>3, <2>4, <2>5, <2>6 DEF Works
<1> QED BY <1>1, <1>2, <1>5, <1>6, <1>7, <1>8, WorkLeave

\* A state that is made finds nobody who works on a state of the process.
LEMMA WorkCreate ==
  ASSUME ForkInv, StartInv, WorkInv, NEW t \in Threads, GuardCreate(t)
  PROVE  WorkInv'
<1>1. /\ thr[t] \in ThreadRecords /\ TypeOK /\ did \in Dids
      /\ thr[t].at = "create" /\ thr[t].op \in Calls
  BY ThreadFacts DEF GuardCreate, At, ThreadOK, PlaceOK
<1>2. pid' = pid /\ did' = [did EXCEPT !.raced = @ \/ states[current].pid = pid]
  BY DEF GuardCreate
<1>3. did'.raced = (did.raced \/ states[current].pid = pid)
  BY <1>1, <1>2 DEF Dids
<1>4. SUFFICES ASSUME ~did'.raced  PROVE WorkOK(states[current])'
  BY DEF WorkInv
<1>5. OneState /\ states[current].pid # pid
  BY <1>3, <1>4 DEF StartInv
<1>6. \A u \in Threads : thr[u].at \in Private
  BY <1>5, ThreadFacts DEF ThreadOK, OwnedOK, OneState
<1>7. states'[current'] = Blank(pid)
  <2> DEFINE n == Len(states)
             kept == [i \in 1 .. n |-> IF i \in Kept(t) THEN states[i] ELSE Blank(states[i].pid)]
  <2>1. n \in Nat /\ states' = Append(kept, Blank(pid)) /\ current' = Len(states')
    BY <1>1 DEF GuardCreate, TypeOK
  <2>2. kept \in Seq({kept[j] : j \in 1 .. n}) /\ Len(kept) = n
    <3>1. kept \in [1 .. n -> {kept[j] : j \in 1 .. n}]
      OBVIOUS
    <3> HIDE DEF kept, n
    <3> QED BY <2>1, <3>1, ListIsSequence
  <2> HIDE DEF kept, n
  <2> QED BY <2>1, <2>2
<1>8. Threads' = Threads /\ \A u \in Threads : thr'[u].at \in Private \cup {"status", "join", "prepare", "shutdown"}
  <2> DEFINE r == [thr[t] EXCEPT !.st = current', !.at = FirstSection(thr[t].op)]
  <2>1. thr' = [thr EXCEPT ![t] = r]
    BY DEF GuardCreate, Fetch
  <2>2. r.at = FirstSection(thr[t].op)
    BY <1>1 DEF ThreadRecords
  <2>3. FirstSection(thr[t].op) \in {"status", "join", "prepare", "shutdown"}
    BY <1>1 DEF FirstSection, Calls
  <2> HIDE DEF r
  <2>4. Threads' = Threads /\ thr'[t] = r /\ \A u \in Threads : u # t => thr'[u] = thr[u]
    BY <1>1, <2>1 DEF Threads, TypeOK
  <2> QED BY <1>6, <2>2, <2>3, <2>4
<1>9. \A u \in Threads' : ~Removes(thr'[u]) /\ ~Registers(thr'[u])
  BY <1>8 DEF Removes, Registers, Performing, Private
<1>10. /\ Blank(pid).worker = NoThread /\ Blank(pid).prepared = NoThread
       /\ Blank(pid).stopping = {} /\ Blank(pid).actors = {} /\ ~Blank(pid).pending
       /\ Blank(pid).generation = 0 /\ Blank(pid).inflight = 0 /\ ~Blank(pid).cleanup
       /\ ~Blank(pid).closeLogs
  BY DEF Blank
<1>11. Joined(0)' = {}
  BY <1>9 DEF Joined, Joins
<1>12. WorkOK(Blank(pid))'
  BY <1>2, <1>9, <1>10, <1>11, FS_EmptySet DEF WorkOK, Removes, Registers, Performing
<1> QED BY <1>2, <1>7, <1>12 DEF WorkOK

\* A new call has not begun; and a fork leaves no state that would be the child's.
LEMMA WorkCallFork ==
  ASSUME ForkInv, WorkInv, Fork \/ \E op \in Operations : Call(op)
  PROVE  WorkInv'
<1>1. TypeOK /\ Len(thr) \in Nat
  BY DEF ForkInv, TypeOK
<1>2. CASE Fork
  <2>1. pid' = pid + 1 /\ UNCHANGED <<states, current>>
    BY <1>2 DEF Fork, memory
  <2>2. pid \in Nat /\ states[current].pid \in Nat /\ states[current].pid <= pid
    <3>1. \A q \in States : q.pid \in Nat
      BY DEF States
    <3> QED BY <3>1 DEF ForkInv, TypeOK, StateOK
  <2>3. states'[current'].pid # pid'
    BY <2>1, <2>2
  <2> QED BY <2>3 DEF WorkInv
<1>3. ASSUME NEW op \in Operations, Call(op)  PROVE WorkInv'
  <2> DEFINE new == Thread(op, IF op = "close" THEN "detach" ELSE "guard", NoState)
  <2>1. /\ UNCHANGED <<pid, states, current, did>> /\ thr' = Append(thr, new)
    BY <1>3 DEF Call
  <2>2. new.at \in {"detach", "guard"}
    BY DEF Thread
  <2> HIDE DEF new
  <2>3. /\ Len(thr') = Len(thr) + 1 /\ thr'[Len(thr) + 1] = new
        /\ \A u \in Threads : thr'[u] = thr[u]
    BY <1>1, <2>1 DEF TypeOK, Threads
  <2>4. Threads' = Threads \cup {Len(thr) + 1} /\ Len(thr) + 1 \notin Threads
    BY <1>1, <2>3 DEF Threads
  <2>5. ~Removes(new) /\ ~Registers(new)
    BY <2>2 DEF Removes, Registers, Performing
  <2>6. ASSUME NEW s, WorkOK(s)  PROVE WorkOK(s)'
    <3>1. Joined(s.generation)' = Joined(s.generation)
      BY <2>3, <2>4, <2>5 DEF Joined, Joins, Registers
    <3>2. s.actors = {u \in Threads' : Removes(thr'[u])}
      BY <2>3, <2>4, <2>5, <2>6 DEF WorkOK
    <3>3. /\ \A u \in s.stopping : u \in Threads' /\ Working(thr'[u])
          /\ \A u \in Threads' : Registers(thr'[u]) => thr'[u].token <= s.generation + 1
      BY <2>3, <2>4, <2>5, <2>6 DEF WorkOK
    <3>4. /\ s.prepared # NoThread => \E u \in Threads' : Starting(thr'[u], s.prepared)
          /\ s.cleanup => s.inflight > 0 \/ s.pending \/ \E u \in Threads' : Performing(thr'[u])
          /\ s.closeLogs => s.logsClosed \/ ~Idle(s) \/ \E u \in Threads' : Asking(thr'[u])
      BY <2>3, <2>4, <2>6 DEF WorkOK
    <3>5. /\ s.worker # NoThread => did'.started
          /\ s.pending => s.stopping # {} \/ s.actors # {}
          /\ s.inflight = Cardinality(Joined(s.generation))
      BY <2>1, <2>6 DEF WorkOK
    <3>6. current' = current
      BY <2>1
    <3> QED BY <3>1, <3>2, <3>3, <3>4, <3>5, <3>6
            DEF WorkOK, Starting, Working, Removes, Registers, Performing, Asking, Idle
  <2>7. states'[current'] = states[current] /\ pid' = pid /\ did' = did
    BY <2>1
  <2>8. WorkOK(states[current]) => WorkOK(states[current])'
    <3>1. PICK s : s = states[current]
      OBVIOUS
    <3>2. WorkOK(s) => WorkOK(s)'
      BY <2>6
    <3> QED BY <2>7, <3>1, <3>2 DEF WorkOK, Idle
  <2> QED BY <2>7, <2>8 DEF WorkInv
<1> QED BY <1>2, <1>3

\* Every step keeps the counts in order.
LEMMA StepWork ==
  ASSUME ForkInv, StartInv, WorkInv, [Next]_vars
  PROVE  WorkInv'
<1>1. CASE Fork \/ \E op \in Operations : Call(op)
  BY <1>1, WorkCallFork
<1>2. ASSUME NEW t \in Threads, Renew(t) \/ Step(t)
      PROVE  WorkInv'
  <2>1. CASE \/ GuardRead(t) \/ ResumeStart(t) \/ GateOpens(t) \/ OlderRemoved(t) \/ Renew(t)
             \/ StopEvent(t) \/ TakeLogLock(t) \/ ReleaseLogLock(t)
    BY <2>1, WorkMoves
  <2>2. CASE Recheck(t) \/ Enter(t) \/ TakeNetworkLock(t) \/ Answer(t)
    BY <2>2, WorkLocks
  <2>3. CASE StatusSnapshot(t) \/ WorkerBegins(t) \/ WorkerOwns(t) \/ RecordRenewal(t)
    BY <2>3, WorkQuietSections
  <2>4. CASE JoinRegister(t) \/ CommitRegister(t) \/ PrepareStart(t) \/ ActivateStart(t) \/ Shutdown(t)
    BY <2>4, WorkJoin, WorkCommit, WorkPrepare, WorkActivate, WorkShutdown
  <2>5. CASE \/ GuardCreate(t) \/ FinishWorker(t) \/ ClaimRemoval(t) \/ CompleteRemoval(t)
             \/ CloseLogsWhenIdle(t)
    BY <2>5, WorkCreate, WorkFinish, WorkRemovals, WorkCloseLogs
  <2> QED BY <1>2, <2>1, <2>2, <2>3, <2>4, <2>5 DEF Step
<1>3. CASE UNCHANGED vars
  <2>1. UNCHANGED <<pid, states, current, thr, did>>
    BY <1>3 DEF vars, memory
  <2> QED BY <2>1 DEF WorkInv, WorkOK, Joined, Joins, Starting, Working, Removes, Registers,
                      Performing, Asking, Idle, Threads
<1> QED BY <1>1, <1>2, <1>3 DEF Next

\* When the threads of a process have come to wait, its calls have ended and the logs
\* its shutdown was to close are closed, unless a later start keeps them open or two
\* threads raced for a state: no locks are waited for in a circle, and every removal,
\* registration and stopping worker that holds the logs open asks once more when it
\* is done (shutdown, _schedule_pending_remove, _maybe_close_logs_when_idle).
THEOREM WorkEnds == Spec => []WorkComesToItsEnd
<1>1. ASSUME ForkInv, StartInv, WorkInv, AtRest
      PROVE  /\ \A t \in Threads : thr[t].op \notin Calls
             /\ LET s == states[current]
                IN  s.pid = pid /\ s.closeLogs => s.logsClosed \/ did.started \/ did.raced
  <2>1. ASSUME NEW t \in Threads  PROVE thr[t].op \notin Calls
    <3>1. thr[t] \in ThreadRecords /\ ThreadOK(thr[t])
      BY <1>1, ThreadFacts
    <3>2. Ended.op \notin Calls
      BY DEF Ended, Thread, Calls
    <3> QED BY <1>1, <3>1, <3>2, RestFacts DEF At, ThreadOK, PlaceOK, Calls
  <2> DEFINE s == states[current]
  <2>2. ASSUME s.pid = pid, s.closeLogs, ~did.started, ~did.raced
        PROVE  s.logsClosed
    <3>1. WorkOK(s) /\ s \in States
      BY <1>1, <2>2 DEF WorkInv, ForkInv, TypeOK
    <3>2. s.worker = NoThread
      BY <2>2, <3>1 DEF WorkOK
    <3>3. Ended.op = "none" /\ Ended.at = "ended"
      BY DEF Ended, Thread
    <3>4. \A u \in Threads : thr[u].at \notin {"resume", "activate"}
      BY <1>1, <3>3, RestFacts DEF At
    <3>5. s.prepared = NoThread
      BY <3>1, <3>4 DEF WorkOK, Starting
    <3>6. ASSUME NEW u \in Threads  PROVE thr[u] = Ended
      <4>1. CASE thr[u].at \in {"sleep", "gate"}
        <5>1. thr[u].at \notin Private
          BY <4>1 DEF Private
        <5>2. State(u) = s /\ u # NoThread
          BY <1>1, <2>2, <5>1, ServingFacts DEF Threads, NoThread
        <5> QED BY <1>1, <3>2, <3>3, <3>5, <5>2, RestFacts DEF At
      <4>2. CASE thr[u].at \notin {"sleep", "gate"}
        BY <1>1, <4>2, RestFacts DEF At
      <4> QED BY <4>1, <4>2
    <3>7. \A u \in Threads : ~Working(thr[u]) /\ ~Removes(thr[u]) /\ ~Performing(thr[u])
                             /\ ~Registers(thr[u]) /\ ~Asking(thr[u])
      BY <3>3, <3>6 DEF Working, Removes, Performing, Registers, Asking
    <3>8. s.stopping = {} /\ s.actors = {} /\ ~s.pending
      BY <3>1, <3>7 DEF WorkOK
    <3>9. Joined(s.generation) = {}
      BY <3>7 DEF Joined, Joins
    <3>10. s.inflight = 0 /\ ~s.cleanup
      BY <3>1, <3>7, <3>8, <3>9, FS_EmptySet DEF WorkOK
    <3> QED BY <2>2, <3>1, <3>2, <3>5, <3>7, <3>8, <3>10 DEF WorkOK, Idle
  <2> QED BY <2>1, <2>2
<1>2. Init => WorkInv
  <2>1. ASSUME Init  PROVE WorkOK(states[current])
    <3>1. thr = << >> /\ states[current] = Blank(1) /\ Threads = {}
      BY <2>1 DEF Init, Threads
    <3>2. /\ Blank(1).worker = NoThread /\ Blank(1).prepared = NoThread
          /\ Blank(1).stopping = {} /\ Blank(1).actors = {} /\ ~Blank(1).pending
          /\ Blank(1).inflight = 0 /\ ~Blank(1).cleanup /\ ~Blank(1).closeLogs
      BY DEF Blank
    <3>3. Joined(Blank(1).generation) = {}
      BY <3>1 DEF Joined
    <3> QED BY <3>1, <3>2, <3>3, FS_EmptySet DEF WorkOK
  <2> QED BY <2>1 DEF WorkInv
<1>3. ForkInv /\ StartInv /\ WorkInv => WorkComesToItsEnd
  BY <1>1 DEF WorkComesToItsEnd
<1>4. ForkInv /\ StartInv /\ [Next]_vars => StartInv'
  BY StepStart
<1>5. ForkInv /\ StartInv /\ WorkInv /\ [Next]_vars => WorkInv'
  BY StepWork
<1> QED BY <1>2, <1>3, <1>4, <1>5, ForkSafe, InitStart, PTL DEF Spec
=============================================================================
