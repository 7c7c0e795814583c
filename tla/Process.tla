------------------------------ MODULE Process ------------------------------
(***************************************************************************)
(* The Registry across os.fork().  A child has a copy of its parent's      *)
(* memory, its locks as they were held and none of its other threads.      *)
(* RegistryService keeps everything that may not be inherited in one       *)
(* ProcessState that carries a pid: each operation first fetches the state *)
(* and replaces it when the pid is another (_get_process_state), and after *)
(* every wait asks whether its state still is the one in place             *)
(* (_state_is_current).  The fetch takes no lock.                          *)
(*                                                                         *)
(* A behaviour follows one process: when it forks, its child.  The two     *)
(* share no memory, so the parent that goes on is the behaviour in which   *)
(* it does not fork.  A grandchild is the child of a child.                *)
(*                                                                         *)
(* The bookkeeping inside one ProcessState is module Registry's; here a    *)
(* state has what a fork can tear: the locks with their holders, the       *)
(* worker, the cleanup, the log handlers.  A critical section is two       *)
(* steps, Enter and its own action, so that a fork can fall between them.  *)
(***************************************************************************)
EXTENDS Integers, Sequences, FiniteSets

CONSTANTS Operations,    \* the calls made, of Calls
          MaxThreads,    \* threads, those that ended included
          MaxForks,
          MaxCallers,    \* calls under way at the same time
          MaxCalls       \* calls in all

\* start is start_registry, and init_app with AUTO_REGISTER, which runs code of
\* the application between the two halves of the start.
Calls == {"status", "register", "start", "close"}

ASSUME OperationsAssumption == Operations \subseteq Calls
ASSUME BoundsAssumption == {MaxThreads, MaxForks, MaxCallers, MaxCalls} \subseteq Nat

VARIABLES pid,
          states,      \* the ProcessStates, those that were replaced included
          current,     \* the one the service refers to
          logLock,     \* the holder of the log manager's lock
          finalizer,   \* whether the runtime's finalizer is still to run
          thr,         \* the threads, those of the forefathers included
          did,         \* what the process did itself (history)
          calls

memory == <<states, current, logLock, finalizer>>
vars   == <<pid, memory, thr, did, calls>>

Threads  == 1 .. Len(thr)
NoThread == 0
NoState  == 0

\* active is the thread of the removal under way, older the one of the removal
\* that the worker has to wait for (wait_remove_event).
Blank(p) ==
  [pid |-> p, stateLock |-> NoThread, networkLock |-> NoThread,
   generation |-> 0, registered |-> FALSE, inflight |-> 0, cleanup |-> FALSE,
   prepared |-> NoThread, worker |-> NoThread, older |-> NoThread, stopping |-> {},
   pending |-> FALSE, actors |-> {}, active |-> NoThread,
   closeLogs |-> FALSE, logsClosed |-> FALSE]

\* started: an activation that no shutdown followed; announced: an activation
\* or a registration; removed: a removal sent; raced: two threads replaced the
\* parent's state.
Nothing == [started |-> FALSE, announced |-> FALSE, removed |-> FALSE, raced |-> FALSE]

\* token is what the thread holds on to: the worker it prepared, the generation
\* whose register window it joined, plus one, or the removal it waits for.
Thread(op, at, st) == [op |-> op, at |-> at, st |-> st, holds |-> FALSE, token |-> 0]

Init ==
  /\ pid = 1
  /\ states = <<Blank(1)>> /\ current = 1
  /\ logLock = NoThread /\ finalizer = TRUE
  /\ thr = << >>
  /\ did = Nothing
  /\ calls = 0

\* The sections under the state lock of the ProcessState the thread holds on to.
Sections == {"status", "join", "prepare", "activate", "shutdown", "own", "commit",
             "begin", "record", "finish", "claim", "complete", "idle"}

\* What is left of a thread whose call has returned or whose work is done.
Ended    == Thread("none", "ended", NoState)
Alive(t) == thr[t] # Ended

State(t)     == states[thr[t].st]
Current(t)   == current = thr[t].st
At(t, place) == thr[t].at = place

Moved(r, place) == IF place = "end" THEN Ended ELSE [r EXCEPT !.at = place, !.holds = FALSE]
Goto(t, place)  == [thr EXCEPT ![t] = Moved(@, place)]
Update(t, s)   == states' = [states EXCEPT ![thr[t].st] = s]

-----------------------------------------------------------------------------
(* Processes, threads and calls *)

\* Every call has a thread of its own.  The finalizer of a runtime runs once in
\* a process; it drops the handlers whose stream is closed before it goes to
\* the service.
Call(op) ==
  /\ calls < MaxCalls /\ Len(thr) < MaxThreads
  /\ Cardinality({t \in Threads : thr[t].op \in Calls}) < MaxCallers
  /\ calls' = calls + 1
  /\ op = "close" => finalizer
  /\ finalizer' = (finalizer /\ op # "close")
  /\ thr' = Append(thr, Thread(op, IF op = "close" THEN "detach" ELSE "guard", NoState))
  /\ UNCHANGED <<pid, states, current, logLock, did>>

\* The thread that forks makes no call, or it is in the application's code that
\* init_app runs; no other thread goes on in the child.
Fork ==
  /\ pid <= MaxForks
  /\ \E forking \in SUBSET {t \in Threads : At(t, "resume")} :
       /\ Cardinality(forking) <= 1
       /\ thr' = [t \in Threads |-> IF t \in forking THEN thr[t] ELSE Ended]
  /\ pid' = pid + 1
  /\ did' = Nothing
  /\ UNCHANGED <<memory, calls>>

-----------------------------------------------------------------------------
(* _get_process_state: a read and, if the pid is another, an assignment *)

FirstSection(op) == CASE op = "status"   -> "status"
                      [] op = "register" -> "join"
                      [] op = "start"    -> "prepare"
                      [] op = "close"    -> "shutdown"

Fetch(t, i) == thr' = [thr EXCEPT ![t] = [@ EXCEPT !.st = i, !.at = FirstSection(thr[t].op)]]

\* Mutation: whatever state is there is taken.
GuardReadAny(t) ==
  /\ At(t, "guard")
  /\ Fetch(t, current)
  /\ UNCHANGED <<pid, memory, did, calls>>

GuardRead(t) ==
  /\ At(t, "guard")
  /\ IF states[current].pid = pid THEN Fetch(t, current) ELSE thr' = Goto(t, "create")
  /\ UNCHANGED <<pid, memory, did, calls>>

\* The states a thread goes on with; one that is replaced and that no thread
\* holds on to is garbage, and counts as a blank one.
Kept(t) == {thr[u].st : u \in Threads \ {t}}

\* Mutation: the new state starts with the results of the old one.
GuardCreateCopy(t) ==
  /\ At(t, "create")
  /\ states' = Append(states, [Blank(pid) EXCEPT !.registered = states[current].registered,
                                                !.generation = states[current].generation])
  /\ current' = Len(states')
  /\ Fetch(t, current')
  /\ did' = [did EXCEPT !.raced = @ \/ states[current].pid = pid]
  /\ UNCHANGED <<pid, logLock, finalizer, calls>>

GuardCreate(t) ==
  /\ At(t, "create")
  /\ states' = Append([i \in 1 .. Len(states) |-> IF i \in Kept(t) THEN states[i]
                                                   ELSE Blank(states[i].pid)],
                      Blank(pid))
  /\ current' = Len(states')
  /\ Fetch(t, current')
  /\ did' = [did EXCEPT !.raced = @ \/ states[current].pid = pid]
  /\ UNCHANGED <<pid, logLock, finalizer, calls>>

\* _state_is_current, asked before a lock is taken: where the thread goes on.  A
\* removal whose state was replaced is over for those that wait for it.
Checked(t) ==
  CASE At(t, "call")    -> "net"
    [] At(t, "own?")    -> "own"
    [] At(t, "wake")    -> "begin"
    [] At(t, "finish?") -> "finish"
    [] At(t, "claim?")  -> "claim"
    [] At(t, "idle?")   -> "idle"
    [] At(t, "settle")  -> CASE thr[t].op = "register" -> "commit"
                             [] thr[t].op = "worker"   -> "record"
                             [] thr[t].op = "cleanup"  -> "complete"

Checks == {"call", "own?", "wake", "finish?", "claim?", "idle?", "settle"}

Recheck(t) ==
  /\ thr[t].at \in Checks
  /\ IF Current(t)
     THEN thr' = Goto(t, Checked(t)) /\ UNCHANGED states
     ELSE /\ thr' = Goto(t, "end")
          /\ Update(t, [State(t) EXCEPT !.networkLock = IF @ = t THEN NoThread ELSE @,
                                         !.active      = IF @ = t THEN NoThread ELSE @])
  /\ UNCHANGED <<pid, current, logLock, finalizer, did, calls>>

Enter(t) ==
  /\ thr[t].at \in Sections /\ ~thr[t].holds
  /\ State(t).stateLock = NoThread
  /\ Update(t, [State(t) EXCEPT !.stateLock = t])
  /\ thr' = [thr EXCEPT ![t] = [@ EXCEPT !.holds = TRUE]]
  /\ UNCHANGED <<pid, current, logLock, finalizer, did, calls>>

\* The end of a section: its thread gives the lock up and leaves the state s.
Inside(t, section) == At(t, section) /\ thr[t].holds
Leave(t, s)  == Update(t, [s EXCEPT !.stateLock = NoThread])
OnlyTheState == UNCHANGED <<pid, current, logLock, finalizer, calls>>

\* Sections that may leave a removal due end in _schedule_pending_remove: unless
\* the stopping worker will perform it, an actor is started.
LeaveScheduling(t, s, place) ==
  IF ~s.pending \/ s.stopping # {} \/ s.actors # {}
  THEN Leave(t, s) /\ thr' = Goto(t, place)
  ELSE /\ Len(thr) < MaxThreads
       /\ Leave(t, [s EXCEPT !.actors = {Len(thr) + 1}])
       /\ thr' = Append(Goto(t, place), Thread("cleanup", "claim?", thr[t].st))

CleanupDue(s) == s.generation > 0 \/ s.registered

-----------------------------------------------------------------------------
(* The calls *)

StatusSnapshot(t) ==
  /\ Inside(t, "status")
  /\ Leave(t, State(t))
  /\ thr' = Goto(t, "end")
  /\ UNCHANGED did /\ OnlyTheState

JoinRegister(t) ==
  /\ Inside(t, "join")
  /\ LET s == State(t)
         joined == ~s.cleanup
     IN  /\ Leave(t, [s EXCEPT !.inflight = IF joined THEN @ + 1 ELSE @])
         /\ thr' = [thr EXCEPT ![t] =
                          [Moved(@, "call") EXCEPT !.token = IF joined THEN s.generation + 1 ELSE 0]]
  /\ UNCHANGED did /\ OnlyTheState

TakeNetworkLock(t) ==
  /\ At(t, "net")
  /\ State(t).networkLock = NoThread
  /\ Update(t, [State(t) EXCEPT !.networkLock = t])
  /\ thr' = Goto(t, IF thr[t].op = "worker" THEN "own?" ELSE "rpc")
  /\ UNCHANGED did /\ OnlyTheState

\* The Admin call ends, whatever it brings, and the network lock is released.
Answer(t) ==
  /\ At(t, "rpc")
  /\ Update(t, [State(t) EXCEPT !.networkLock = NoThread])
  /\ thr' = Goto(t, "settle")
  /\ did' = IF thr[t].op = "cleanup" THEN [did EXCEPT !.removed = TRUE]
                                      ELSE [did EXCEPT !.announced = TRUE]
  /\ OnlyTheState

CommitRegister(t) ==
  /\ Inside(t, "commit")
  /\ \E success \in BOOLEAN :
       LET s == State(t)
           last == thr[t].token = s.generation + 1 /\ s.inflight = 1
           noted == [s EXCEPT !.registered = @ \/ success,
                              !.inflight = IF thr[t].token = s.generation + 1 THEN @ - 1 ELSE @]
           due == last /\ s.cleanup /\ CleanupDue(noted)
       IN  LeaveScheduling(t, [noted EXCEPT !.pending = @ \/ due,
                                            !.cleanup = @ /\ (~last \/ due)],
                           IF thr[t].token = 0 THEN "end" ELSE "idle?")
  /\ UNCHANGED did /\ OnlyTheState

PrepareStart(t) ==
  /\ Inside(t, "prepare")
  /\ LET s == State(t)
         w == Len(thr) + 1
     IN  IF s.worker # NoThread \/ s.prepared # NoThread \/ Len(thr) = MaxThreads
         THEN Leave(t, s) /\ thr' = Goto(t, "end")
         ELSE /\ Leave(t, [s EXCEPT !.prepared = w])
              /\ thr' = Append([thr EXCEPT ![t] = [Moved(@, "resume") EXCEPT !.token = w]],
                               Thread("worker", "gate", thr[t].st))
  /\ UNCHANGED did /\ OnlyTheState

\* Mutation: the second half of a start relies on the first.
ResumeStartUnchecked(t) ==
  /\ At(t, "resume")
  /\ thr' = Goto(t, "activate")
  /\ UNCHANGED <<states, did>> /\ OnlyTheState

\* Activation looks at the pid before it looks at anything inherited.
ResumeStart(t) ==
  /\ At(t, "resume")
  /\ thr' = Goto(t, IF State(t).pid = pid /\ Current(t) THEN "activate" ELSE "end")
  /\ UNCHANGED <<states, did>> /\ OnlyTheState

ActivateStart(t) ==
  /\ Inside(t, "activate")
  /\ LET s == State(t) IN
     IF s.prepared # thr[t].token
     THEN Leave(t, s) /\ UNCHANGED did
     ELSE /\ Leave(t, [s EXCEPT !.generation = @ + 1, !.worker = s.prepared,
                                !.prepared = NoThread, !.older = s.active,
                                !.pending = FALSE, !.inflight = 0, !.cleanup = FALSE])
          /\ did' = [did EXCEPT !.started = TRUE, !.announced = TRUE]
  /\ thr' = Goto(t, "end")
  /\ OnlyTheState

\* Mutation: the shutdown waits for the registrations under way.
ShutdownWaiting(t) ==
  /\ Inside(t, "shutdown")
  /\ LET s == State(t) IN
     /\ s.inflight = 0
     /\ LeaveScheduling(t, [s EXCEPT !.prepared = NoThread, !.worker = NoThread,
                                     !.stopping = @ \cup ({s.worker} \ {NoThread}),
                                     !.closeLogs = TRUE, !.pending = CleanupDue(s)],
                        "idle?")
  /\ did' = [did EXCEPT !.started = FALSE]
  /\ OnlyTheState

\* The finalizer: shutdown(deregister_on_exit=True).
Shutdown(t) ==
  /\ Inside(t, "shutdown")
  /\ LET s == State(t) IN
     LeaveScheduling(t, [s EXCEPT !.prepared = NoThread, !.worker = NoThread,
                                  !.stopping = @ \cup ({s.worker} \ {NoThread}),
                                  !.closeLogs = TRUE, !.cleanup = s.inflight > 0,
                                  !.pending = s.inflight = 0 /\ CleanupDue(s)],
                     "idle?")
  /\ did' = [did EXCEPT !.started = FALSE]
  /\ OnlyTheState

-----------------------------------------------------------------------------
(* The worker and the cleanup actor *)

\* The prepared thread waits until it is activated or cancelled.
GateOpens(t) ==
  /\ At(t, "gate")
  /\ State(t).prepared # t
  /\ thr' = Goto(t, "wake")
  /\ UNCHANGED <<states, did>> /\ OnlyTheState

\* The worker of a new lifecycle first waits for the removal that was under way
\* when it was activated, and then asks again.
WorkerBegins(t) ==
  /\ Inside(t, "begin")
  /\ Leave(t, State(t))
  /\ LET s == State(t)
         owner == s.worker = t
         waits == s.older # NoThread /\ s.active = s.older
         stopping == ~owner /\ t \in s.stopping
     IN  IF owner /\ waits
         THEN thr' = [thr EXCEPT ![t] = [Moved(@, "older") EXCEPT !.token = s.older]]
         ELSE thr' = Goto(t, CASE owner -> "net" [] stopping -> "finish?" [] OTHER -> "end")
  /\ UNCHANGED did /\ OnlyTheState

OlderRemoved(t) ==
  /\ At(t, "older")
  /\ State(t).active # thr[t].token
  /\ thr' = Goto(t, "wake")
  /\ UNCHANGED <<states, did>> /\ OnlyTheState

WorkerOwns(t) ==
  /\ Inside(t, "own")
  /\ LET s == State(t) IN
     IF s.worker = t
     THEN Leave(t, s) /\ thr' = Goto(t, "rpc")
     ELSE Leave(t, [s EXCEPT !.networkLock = NoThread]) /\ thr' = Goto(t, "finish?")
  /\ UNCHANGED did /\ OnlyTheState

\* The snapshot becomes what the renewal brought, or stays if the answer is stale.
RecordRenewal(t) ==
  /\ Inside(t, "record")
  /\ \E registered \in BOOLEAN :
       LET s == State(t) IN
       IF s.worker = t
       THEN Leave(t, [s EXCEPT !.registered = registered]) /\ thr' = Goto(t, "sleep")
       ELSE Leave(t, s) /\ thr' = Goto(t, "finish?")
  /\ UNCHANGED did /\ OnlyTheState

Renew(t) ==
  /\ At(t, "sleep")
  /\ State(t).worker = t
  /\ thr' = Goto(t, "wake")
  /\ UNCHANGED <<states, did>> /\ OnlyTheState

StopEvent(t) ==
  /\ At(t, "sleep")
  /\ State(t).worker # t
  /\ thr' = Goto(t, "finish?")
  /\ UNCHANGED <<states, did>> /\ OnlyTheState

\* A worker that ends performs the removal that waits for it.
FinishWorker(t) ==
  /\ Inside(t, "finish")
  /\ LET s == State(t)
         left == [s EXCEPT !.stopping = @ \ {t}, !.worker = IF @ = t THEN NoThread ELSE @]
     IN  IF s.pending /\ s.actors = {}
         THEN /\ Leave(t, [left EXCEPT !.pending = FALSE, !.actors = {t}, !.active = t])
              /\ thr' = [thr EXCEPT ![t] = [Moved(@, "call") EXCEPT !.op = "cleanup"]]
         ELSE LeaveScheduling(t, left, "idle?")
  /\ UNCHANGED did /\ OnlyTheState

ClaimRemoval(t) ==
  /\ Inside(t, "claim")
  /\ LET s == State(t) IN
     IF s.pending
     THEN Leave(t, [s EXCEPT !.pending = FALSE, !.active = t]) /\ thr' = Goto(t, "call")
     ELSE LeaveScheduling(t, [s EXCEPT !.actors = @ \ {t}], "idle?")
  /\ UNCHANGED did /\ OnlyTheState

\* The removal is no longer active, and the executor is no longer registered if
\* the answer says so and is not stale.
Removed(t, success) ==
  [State(t) EXCEPT !.actors = @ \ {t}, !.active = IF @ = t THEN NoThread ELSE @,
                   !.cleanup = FALSE, !.registered = @ /\ ~success]

\* Mutation: the actor does not ask whether the logs can be closed.
CompleteRemovalOnly(t) ==
  /\ Inside(t, "complete")
  /\ \E success \in BOOLEAN : LeaveScheduling(t, Removed(t, success), "end")
  /\ UNCHANGED did /\ OnlyTheState

CompleteRemoval(t) ==
  /\ Inside(t, "complete")
  /\ \E success \in BOOLEAN : LeaveScheduling(t, Removed(t, success), "idle?")
  /\ UNCHANGED did /\ OnlyTheState

-----------------------------------------------------------------------------
(* The log manager: the one lock that is not replaced *)

CloseLogsWhenIdle(t) ==
  /\ Inside(t, "idle")
  /\ LET s == State(t)
         idle == /\ s.closeLogs /\ ~s.logsClosed
                 /\ s.prepared = NoThread /\ s.worker = NoThread
                 /\ s.stopping = {} /\ s.actors = {} /\ ~s.pending
                 /\ s.inflight = 0 /\ ~s.cleanup
     IN  /\ Leave(t, [s EXCEPT !.logsClosed = @ \/ idle])
         /\ thr' = Goto(t, IF idle THEN "close" ELSE "end")
  /\ UNCHANGED did /\ OnlyTheState

TakeLogLock(t) ==
  /\ thr[t].at \in {"detach", "close"}
  /\ logLock = NoThread
  /\ logLock' = t
  /\ thr' = Goto(t, IF At(t, "detach") THEN "detaching" ELSE "closing")
  /\ UNCHANGED <<pid, states, current, finalizer, did, calls>>

ReleaseLogLock(t) ==
  /\ thr[t].at \in {"detaching", "closing"}
  /\ logLock' = NoThread
  /\ thr' = Goto(t, IF At(t, "detaching") THEN "guard" ELSE "end")
  /\ UNCHANGED <<pid, states, current, finalizer, did, calls>>

-----------------------------------------------------------------------------

\* What a running thread does next, its sleep and the calls it makes apart.
Step(t) ==
  \/ GuardRead(t) \/ GuardCreate(t) \/ Recheck(t) \/ Enter(t)
  \/ StatusSnapshot(t) \/ JoinRegister(t) \/ TakeNetworkLock(t) \/ Answer(t) \/ CommitRegister(t)
  \/ PrepareStart(t) \/ ResumeStart(t) \/ ActivateStart(t) \/ Shutdown(t)
  \/ GateOpens(t) \/ WorkerBegins(t) \/ OlderRemoved(t) \/ WorkerOwns(t) \/ RecordRenewal(t) \/ StopEvent(t)
  \/ FinishWorker(t) \/ ClaimRemoval(t) \/ CompleteRemoval(t)
  \/ CloseLogsWhenIdle(t) \/ TakeLogLock(t) \/ ReleaseLogLock(t)

Next ==
  \/ Fork
  \/ \E op \in Operations : Call(op)
  \/ \E t \in Threads : Renew(t) \/ Step(t)

Spec == Init /\ [][Next]_vars

-----------------------------------------------------------------------------
(* Properties *)

States ==
  [pid : Nat, stateLock : Nat, networkLock : Nat, generation : Nat,
   registered : BOOLEAN, inflight : Int, cleanup : BOOLEAN, prepared : Nat,
   worker : Nat, older : Nat, stopping : SUBSET Nat,
   pending : BOOLEAN, actors : SUBSET Nat, active : Nat,
   closeLogs : BOOLEAN, logsClosed : BOOLEAN]

Places == Sections \cup Checks \cup
  {"guard", "create", "detach", "detaching", "close", "closing", "resume",
   "net", "rpc", "gate", "older", "sleep", "ended"}

ThreadRecords ==
  [op : Calls \cup {"worker", "cleanup", "none"}, at : Places, st : Nat,
   holds : BOOLEAN, token : Nat]

\* Every variable has its type, and a thread holds on to a state that exists.
TypeOK ==
  /\ pid \in Nat /\ calls \in Nat /\ finalizer \in BOOLEAN
  /\ did \in [started : BOOLEAN, announced : BOOLEAN, removed : BOOLEAN, raced : BOOLEAN]
  /\ states \in Seq(States) /\ current \in 1 .. Len(states)
  /\ thr \in Seq(ThreadRecords) /\ logLock \in 0 .. Len(thr)
  /\ \A t \in Threads : thr[t].st \in 0 .. Len(states)

\* Whom a thread waits for: the holder of the lock it is about to take, the
\* thread of the removal it waits for, or nobody.
BlockedBy(t) ==
  CASE thr[t].at \in Sections /\ ~thr[t].holds -> State(t).stateLock
    [] At(t, "net")                             -> State(t).networkLock
    [] thr[t].at \in {"detach", "close"}        -> logLock
    [] At(t, "older") /\ State(t).active = thr[t].token -> thr[t].token
    [] OTHER                                    -> NoThread

\* No thread waits for one that stayed behind in the parent: whatever lock was
\* held, and whatever removal was under way when the process was forked, a child
\* never asks for it.  The log manager's lock is inherited as it is, but it is
\* held only once the finalizer has run, and then the child has no finalizer
\* either.
NoOrphanLock ==
  \A t \in Threads : BlockedBy(t) # NoThread => Alive(BlockedBy(t))

\* A process that has neither started the Registry nor registered leaves the
\* Admin alone when it exits: the parent's registration is not its to remove.
SilentExit == did.removed => did.announced

\* After an activation that no shutdown followed, the process has a living
\* worker of its own, the one its status reports, unless two of its threads
\* were replacing the parent's state at the same time.
StartIsKept ==
  did.started /\ ~did.raced =>
    LET w == states[current].worker IN
    w # NoThread /\ Alive(w) /\ thr[w].op = "worker" /\ thr[w].st = current

\* A thread that has not ended waits for the timer or for its activation, or
\* for another thread: for a lock, or for the end of a removal.
Waits(t) ==
  \/ ~Alive(t)
  \/ At(t, "sleep") /\ State(t).worker = t
  \/ At(t, "gate") /\ State(t).prepared = t
  \/ BlockedBy(t) # NoThread

AtRest == \A t \in Threads : Waits(t)

\* A thread of these calls that cannot go on waits for one of these: nothing else,
\* such as a count that another thread has to bring down, ever holds one up.
StopsOnlyToWait == ~ENABLED (\E t \in Threads : Step(t)) => AtRest

\* Threads take finitely many steps between two calls, renewals and forks, so
\* what must happen in the end has happened when all of them wait.  Every call
\* comes to its end, before and after a fork: the threads do not wait for one
\* another in a circle.  The shutdown of a process, parent or child, has its log handlers
\* closed once its threads are done; a lifecycle started after it keeps them
\* open.
WorkComesToItsEnd ==
  AtRest =>
    /\ \A t \in Threads : thr[t].op \notin Calls
    /\ LET s == states[current]
       IN  s.pid = pid /\ s.closeLogs => s.logsClosed \/ did.started \/ did.raced

=============================================================================
