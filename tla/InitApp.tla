------------------------------ MODULE InitApp ------------------------------
(***************************************************************************)
(* FlaskXXLJob.init_app on one Flask application (flask_xxljob/            *)
(* extension.py): preflight, private preparation, Flask commit, Registry   *)
(* activation, and what is undone when a step fails.                       *)
(*                                                                         *)
(* Each call of init_app prepares a Runtime of its own.  The calls share   *)
(* what Flask and the extension object keep: app.extensions, the CLI       *)
(* command, the application record and the Blueprint.  A step is the       *)
(* access to one of these; what only the call can see changes with it.     *)
(***************************************************************************)
EXTENDS Naturals, FiniteSets

CONSTANTS
  Inits,        \* the calls of init_app(app)
  Nobody,       \* the owner of what is not there
  Modes,        \* the configurations: which of AllModes
  Faults        \* the steps that may raise: which of AllFaults

AllModes  == {"disabled",   \* enabled = False
              "manual",     \* auto_register = False
              "auto"}
AllFaults == {"preflight", "logs", "prepare", "finalizer",
              "cli",        \* another command has the name by now
              "publish",    \* app.extensions refuses the key
              "track",      \* the record, or attaching the finalizer, raises
              "setup",      \* register_blueprint raises before it publishes
              "hook",       \* and after it
              "activate",   \* _activate_prepared_start raises
              "wake",       \* setting the activation event fails again
              "info"}       \* the last log record raises

ASSUME NobodyAssumption == Nobody \notin Inits
ASSUME ModesAssumption  == Modes \subseteq AllModes
ASSUME FaultsAssumption == Faults \subseteq AllFaults

VARIABLES
  pc,         \* where each call is
  mode,       \* its configuration
  extension,  \* app.extensions["xxljob"]: the call whose Runtime it is
  cli,        \* app.cli.commands has xxljob_cli
  tracked,    \* the application is in self._applications
  blueprint,  \* the call whose Blueprint the application accepted
  own,        \* the local flags and private resources of each call
  exited,     \* the application was collected, or the process exits
  overlapped, \* history: the calls that were in progress with another one
  early       \* history: the calls on whose Runtime another thread started the
              \* Registry before the Blueprint was accepted

flask == <<extension, cli, tracked, blueprint>>
vars  == <<pc, mode, flask, own, exited, overlapped, early>>

\* cli and tracked are cli_added and application_added.
Private == [cli |-> FALSE, tracked |-> FALSE, logs |-> "none",
            worker |-> "none", finalizer |-> "none"]

Rest == {"idle", "refused", "failed", "done"}

Init ==
  /\ pc = [i \in Inits |-> "idle"]
  /\ mode \in [Inits -> Modes]
  /\ extension = Nobody /\ cli = FALSE /\ tracked = FALSE
  /\ blueprint = Nobody
  /\ own = [i \in Inits |-> Private]
  /\ exited = FALSE /\ overlapped = {} /\ early = {}

Goto(i, p) == pc' = [pc EXCEPT ![i] = p]

\* The step of i raised: the exception handler takes over.
Raise(i, f) == f \in Faults /\ Goto(i, "rollback")

Set(i, r) == own' = [own EXCEPT ![i] = r]

-----------------------------------------------------------------------------
(* Preflight: validation only.                                             *)

Begin(i) ==
  LET others == {j \in Inits : pc[j] \notin Rest}
  IN  /\ pc[i] = "idle" /\ ~exited
      /\ Goto(i, IF extension = Nobody THEN "preflight" ELSE "refused")
      /\ overlapped' = IF others = {} THEN overlapped
                       ELSE overlapped \cup others \cup {i}
      /\ UNCHANGED <<mode, flask, own, exited, early>>

\* Configuration, routes, Blueprint name and CLI name.
Preflight(i) ==
  /\ pc[i] = "preflight"
  /\ \/ /\ mode[i] = "disabled" \/ blueprint = Nobody
        /\ Goto(i, "logs")
     \/ /\ "preflight" \in Faults \/ (mode[i] # "disabled" /\ blueprint # Nobody)
        /\ Goto(i, "failed")
  /\ UNCHANGED <<mode, flask, own, exited, overlapped, early>>

-----------------------------------------------------------------------------
(* Private preparation.                                                    *)

\* XXLJobLogManager: without managed handlers there is nothing that can fail.
OpenLogs(i) ==
  /\ pc[i] = "logs"
  /\ \/ Set(i, [own[i] EXCEPT !.logs = "open"]) /\ Goto(i, "prepare")
     \/ mode[i] # "disabled" /\ Raise(i, "logs") /\ UNCHANGED own
  /\ UNCHANGED <<mode, flask, exited, overlapped, early>>

\* Mutation: the thread is not gated.
PrepareStartUngated(i) ==
  /\ pc[i] = "prepare"
  /\ Set(i, [own[i] EXCEPT !.worker = IF mode[i] = "auto" THEN "live" ELSE @])
  /\ Goto(i, "finalizer")
  /\ UNCHANGED <<mode, flask, exited, overlapped, early>>

\* RegistryService._prepare_start, when auto_register is set.
PrepareStart(i) ==
  /\ pc[i] = "prepare"
  /\ \/ mode[i] # "auto" /\ Goto(i, "finalizer") /\ UNCHANGED own
     \/ /\ mode[i] = "auto"
        /\ Set(i, [own[i] EXCEPT !.worker = "prepared"])
        /\ Goto(i, "finalizer")
     \/ mode[i] = "auto" /\ Raise(i, "prepare") /\ UNCHANGED own
  /\ UNCHANGED <<mode, flask, exited, overlapped, early>>

InstallFinalizer(i) ==
  /\ pc[i] = "finalizer"
  /\ \/ Set(i, [own[i] EXCEPT !.finalizer = "armed"]) /\ Goto(i, "cli")
     \/ Raise(i, "finalizer") /\ UNCHANGED own
  /\ UNCHANGED <<mode, flask, exited, overlapped, early>>

-----------------------------------------------------------------------------
(* Flask commit.                                                           *)

\* _register_cli: the call that adds the command owns it.
RegisterCli(i) ==
  /\ pc[i] = "cli"
  /\ \/ cli' = TRUE /\ Set(i, [own[i] EXCEPT !.cli = ~cli]) /\ Goto(i, "publish")
     \/ Raise(i, "cli") /\ UNCHANGED <<cli, own>>
  /\ UNCHANGED <<mode, extension, tracked, blueprint, exited, overlapped, early>>

Publish(i) ==
  /\ pc[i] = "publish"
  /\ \/ extension' = i /\ Goto(i, "track")
     \/ Raise(i, "publish") /\ UNCHANGED extension
  /\ UNCHANGED <<mode, cli, tracked, blueprint, own, exited, overlapped, early>>

\* application_added is set first, so a record that may be there is removed.
Track(i) ==
  /\ pc[i] = "track"
  /\ Set(i, [own[i] EXCEPT !.tracked = TRUE])
  /\ \/ /\ tracked' = TRUE
        /\ Goto(i, IF mode[i] = "disabled" THEN "activate" ELSE "blueprint")
     \/ Raise(i, "track") /\ tracked' \in {tracked, TRUE}
  /\ UNCHANGED <<mode, extension, cli, blueprint, exited, overlapped, early>>

\* The last irreversible commit.  Flask refuses a second Blueprint of the
\* same name; a raise may come before or after the Blueprint is visible.
RegisterBlueprint(i) ==
  /\ pc[i] = "blueprint"
  /\ \/ blueprint = Nobody /\ blueprint' = i /\ Goto(i, "activate")
     \/ /\ "hook" \in Faults /\ blueprint = Nobody
        /\ blueprint' = i /\ Goto(i, "settle")
     \/ /\ "setup" \in Faults \/ blueprint # Nobody
        /\ Goto(i, "rollback") /\ UNCHANGED blueprint
  /\ UNCHANGED <<mode, extension, cli, tracked, own, exited, overlapped, early>>

\* Mutation: an exception after the Blueprint is visible is rolled back too.
OnErrorAlways(i) == "rollback"

\* Where the exception handler of the commit goes.
OnError(i) == IF blueprint = i THEN "settle" ELSE "rollback"

\* _activate_prepared_start: false when the candidate was taken away.  It may
\* raise before the commit of the lifecycle, or after it at the event.
Activate(i) ==
  /\ pc[i] = "activate"
  /\ \/ /\ Set(i, IF own[i].worker = "prepared"
                  THEN [own[i] EXCEPT !.worker = "live"] ELSE own[i])
        /\ Goto(i, "info")
     \/ /\ "activate" \in Faults /\ own[i].worker = "prepared"
        /\ \E w \in {"prepared", "gated"} :
             Set(i, [own[i] EXCEPT !.worker = w])
        /\ Goto(i, OnError(i))
  /\ UNCHANGED <<mode, flask, exited, overlapped, early>>

LogInitialized(i) ==
  /\ pc[i] = "info"
  /\ \/ Goto(i, "done")
     \/ "info" \in Faults /\ Goto(i, OnError(i))
  /\ UNCHANGED <<mode, flask, own, exited, overlapped, early>>

-----------------------------------------------------------------------------
(* Failure.                                                                *)

\* What becomes of a worker when its initialization failed after publication:
\* a candidate is cancelled, a committed one gets its event set once more.
Settled(w) == CASE w = "prepared" -> {"cancelled"}
                [] w = "gated"    -> {"live"} \cup
                                     (IF "wake" \in Faults THEN {"gated"} ELSE {})
                [] OTHER          -> {w}

\* _settle_prepared_after_publish_failure.
Settle(i) ==
  /\ pc[i] = "settle"
  /\ \E w \in Settled(own[i].worker) : Set(i, [own[i] EXCEPT !.worker = w])
  /\ Goto(i, "failed")
  /\ UNCHANGED <<mode, flask, exited, overlapped, early>>

\* Mutation: the finalizer of a failed call stays armed.
DisarmNot(r) == [r EXCEPT !.worker = IF @ = "prepared" THEN "cancelled" ELSE @]

\* The candidate is cancelled, and the finalizer is detached if there is one.
Disarm(r) ==
  [r EXCEPT !.worker    = IF @ = "prepared" THEN "cancelled" ELSE @,
            !.finalizer = IF @ = "armed" THEN "detached" ELSE @]

\* _close_uncommitted_runtime_resources, in its order.
Rollback(i) ==
  /\ pc[i] = "rollback"
  /\ Set(i, Disarm(own[i]))
  /\ Goto(i, "rollbackCli")
  /\ UNCHANGED <<mode, flask, exited, overlapped, early>>

RollbackCli(i) ==
  /\ pc[i] = "rollbackCli"
  /\ cli' = (cli /\ ~own[i].cli)
  /\ Goto(i, "rollbackExtension")
  /\ UNCHANGED <<mode, extension, tracked, blueprint, own, exited, overlapped, early>>

\* Mutation: whatever Runtime is there is removed.
RollbackAnyExtension(i) ==
  /\ pc[i] = "rollbackExtension"
  /\ extension' = Nobody
  /\ Goto(i, "rollbackRecord")
  /\ UNCHANGED <<mode, cli, tracked, blueprint, own, exited, overlapped, early>>

RollbackExtension(i) ==
  /\ pc[i] = "rollbackExtension"
  /\ extension' = IF extension = i THEN Nobody ELSE extension
  /\ Goto(i, "rollbackRecord")
  /\ UNCHANGED <<mode, cli, tracked, blueprint, own, exited, overlapped, early>>

\* Mutation: the log handlers of a failed call stay open.
CloseLogsNot(r) == r

\* XXLJobLogManager.close
CloseLogs(r) == [r EXCEPT !.logs = IF @ = "open" THEN "closed" ELSE @]

\* Mutation: the application record of a failed call stays.
RollbackRecordNot(i) ==
  /\ pc[i] = "rollbackRecord"
  /\ Set(i, CloseLogs(own[i]))
  /\ Goto(i, "failed")
  /\ UNCHANGED <<mode, flask, exited, overlapped, early>>

RollbackRecord(i) ==
  /\ pc[i] = "rollbackRecord"
  /\ tracked' = (tracked /\ ~own[i].tracked)
  /\ Set(i, CloseLogs(own[i]))
  /\ Goto(i, "failed")
  /\ UNCHANGED <<mode, extension, cli, blueprint, exited, overlapped, early>>

-----------------------------------------------------------------------------
(* The environment of a call.                                              *)

\* Another thread uses the published Runtime: stop_registry(app).
StopRegistry ==
  /\ extension # Nobody /\ ~exited
  /\ own[extension].worker \in {"prepared", "live"}
  /\ own' = [own EXCEPT ![extension].worker =
               IF @ = "prepared" THEN "cancelled" ELSE "stopped"]
  /\ UNCHANGED <<pc, mode, flask, exited, overlapped, early>>

\* Another thread calls start_registry(app): with a candidate or a worker there
\* it does nothing.  A disabled extension has no Registry.
StartRegistry ==
  /\ extension # Nobody /\ ~exited
  /\ mode[extension] # "disabled"
  /\ own[extension].worker \in {"none", "cancelled", "stopped"}
  /\ own' = [own EXCEPT ![extension].worker = "live"]
  /\ early' = IF blueprint = extension THEN early ELSE early \cup {extension}
  /\ UNCHANGED <<pc, mode, flask, exited, overlapped>>

\* An armed finalizer closes its Runtime: the worker is asked to stop, which
\* one that still waits for its activation event cannot notice, and the logs
\* are closed when the registry is idle.
Closed(r) ==
  IF r.finalizer # "armed" THEN r
  ELSE [r EXCEPT !.worker = CASE @ = "prepared" -> "cancelled"
                              [] @ = "live"     -> "stopped"
                              [] OTHER          -> @,
                 !.logs   = IF r.worker = "gated" THEN @ ELSE "closed"]

Exit ==
  /\ ~exited /\ \A i \in Inits : pc[i] \in Rest
  /\ exited' = TRUE
  /\ own' = [i \in Inits |-> Closed(own[i])]
  /\ UNCHANGED <<pc, mode, flask, overlapped, early>>

Ended == exited /\ UNCHANGED vars

Step(i) ==
  \/ Begin(i) \/ Preflight(i)
  \/ OpenLogs(i) \/ PrepareStart(i) \/ InstallFinalizer(i)
  \/ RegisterCli(i) \/ Publish(i) \/ Track(i) \/ RegisterBlueprint(i)
  \/ Activate(i) \/ LogInitialized(i)
  \/ Settle(i) \/ Rollback(i) \/ RollbackCli(i) \/ RollbackExtension(i)
  \/ RollbackRecord(i)

Next == (\E i \in Inits : Step(i)) \/ StopRegistry \/ StartRegistry \/ Exit \/ Ended

Spec == Init /\ [][Next]_vars

-----------------------------------------------------------------------------
(* Properties.                                                             *)

PrivateType ==
  [cli : BOOLEAN, tracked : BOOLEAN, logs : {"none", "open", "closed"},
   worker : {"none", "prepared", "gated", "live", "cancelled", "stopped"},
   finalizer : {"none", "armed", "detached"}]

Steps == Rest \cup {"preflight", "logs", "prepare", "finalizer", "cli",
                    "publish", "track", "blueprint", "activate", "info",
                    "settle", "rollback", "rollbackCli", "rollbackExtension",
                    "rollbackRecord"}

\* Every variable has its type, and a finalizer is made for a Runtime that has
\* its log manager.
TypeOK ==
  /\ pc \in [Inits -> Steps] /\ mode \in [Inits -> Modes]
  /\ extension \in Inits \cup {Nobody} /\ blueprint \in Inits \cup {Nobody}
  /\ cli \in BOOLEAN /\ tracked \in BOOLEAN /\ exited \in BOOLEAN
  /\ own \in [Inits -> PrivateType] /\ overlapped \cup early \subseteq Inits
  /\ \A i \in Inits : own[i].finalizer # "none" => own[i].logs # "none"

\* The commit is one: whatever fails after the Blueprint is visible, the
\* extension key, the CLI command, the application record and the finalizer of
\* the same call stay, unless another call of init_app overlapped it.
CommittedTogether ==
  blueprint \notin overlapped \cup {Nobody} =>
    /\ extension = blueprint /\ cli /\ tracked
    /\ own[blueprint].finalizer = "armed"

\* No Admin call before the commit: a renewal worker runs only for the call
\* whose Blueprint the application has accepted, or because another thread
\* started the Registry of a Runtime that was published and not yet committed.
NoRenewalBeforeCommit ==
  \A i \in Inits : own[i].worker \in {"live", "gated"} => blueprint = i \/ i \in early

\* A failed call leaves the application as it was, so the next call can
\* succeed: at rest, without a call that was committed, nothing is there.  And
\* the finalizer of a call that was rolled back never runs: it would enter the
\* shutdown of the Runtime and contact the Admin.
FailureLeavesNothing ==
  /\ (\A i \in Inits : pc[i] \in {"idle", "failed"}) /\ blueprint = Nobody
       => extension = Nobody /\ ~cli /\ ~tracked
  /\ \A i \in Inits : pc[i] = "failed" /\ blueprint # i
                          => own[i].finalizer # "armed"

\* Every resource of every call has an owner that closes it: after the exit
\* no worker thread and no log handler is left, except the worker of a Runtime
\* that was rolled back after another thread had started its Registry.
NothingOutlivesTheApp ==
  exited => \A i \in Inits :
              /\ \/ own[i].worker \in {"none", "cancelled", "stopped"}
                 \/ i \in early /\ pc[i] = "failed" /\ blueprint # i
              /\ own[i].logs # "open"

\* A call never removes the Runtime that another one published.
OnlyOwnRuntimeRemoved ==
  [][extension # Nobody /\ extension' = Nobody
       => pc[extension] = "rollbackExtension"]_vars

=============================================================================
