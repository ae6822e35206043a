------------------------------ MODULE Updater ------------------------------
(***************************************************************************)
(* The self-updater: service/update.go and the processes that drive it.    *)
(*                                                                         *)
(* Durable state is one row (update_state), two files (the binary and its  *)
(* .old) and the database's migration version.  It is shared by one        *)
(* `tumika serve` process, whose update runner and API handler both call   *)
(* Apply, and by any number of `tumika update` processes, each with an     *)
(* updateService, and so a mutex, of its own.                              *)
(*                                                                         *)
(* One action is one access to durable state: a process can lose the       *)
(* processor, fail or be killed between any two of them.                   *)
(***************************************************************************)
EXTENDS Integers

CONSTANTS
    Builds,             \* published builds; a larger number supersedes a smaller
    Installed,          \* the build the installer put on the machine
    SchemaOf,           \* migrations each build embeds
    Bad,                \* builds that resolve their boot and then never serve
    MaxBootAttempts,    \* domain.MaxBootAttempts
    Handlers,           \* concurrent POST /v1/update/apply requests
    Clis,               \* concurrent `tumika update` processes
    Faults,             \* the kinds of failure this environment has
    MaxFaults           \* bound: failures per behaviour

NoBuild == 0            \* no file, or no process

ASSUME BuildsAssumption ==
    /\ Builds \subseteq Nat \ {NoBuild}
    /\ Installed \in Builds \ Bad
    /\ SchemaOf \in [Builds -> Nat]
ASSUME BootAttemptsAssumption == MaxBootAttempts \in Nat \ {0}
ASSUME ProcessesAssumption ==
    /\ {"daemon", "runner"} \cap (Handlers \cup Clis) = {}
    /\ Handlers \cap Clis = {}
ASSUME FaultsAssumption == MaxFaults \in Nat

VARIABLES
    row,        \* the single row of update_state
    binary,     \* the build at the binary path
    old,        \* the build at <binary>.old
    schema,     \* the migration version of the database
    daemon,     \* where the serve process is
    running,    \* the build each process executes (deps.Version)
    seen,       \* the row ConfirmBoot or Confirm read and acts on
    wanted,     \* whether the supervisor keeps the service up
    pc,         \* where each caller of Apply is
    target,     \* the version each caller of Apply is installing
    proven,     \* history: builds that have bound their listener
    faults      \* failures so far, at most MaxFaults

disk == <<binary, old>>
serve == <<daemon, running, seen, wanted>>
callers == <<pc, target>>
vars == <<row, disk, schema, serve, callers, proven, faults>>

Threads == {"runner"} \cup Handlers    \* the callers inside the serve process
Actors == Threads \cup Clis
Processes == {"daemon"} \cup Clis
ProcessOf(a) == IF a \in Clis THEN a ELSE "daemon"

Held == {"fetching", "swept", "staged", "preflighted", "recorded", "keeping",
         "swapping", "undoing"}
PcStates == Held \cup {"exited", "idle", "called", "applied", "restarting", "done"}
RollBackStates == {"resolving", "abandoning", "recording"}
DaemonStates == RollBackStates \cup
                {"down", "booting", "restoring", "opening", "starting", "listening",
                 "confirming", "cleaning", "serving", "draining"}
Statuses == {"idle", "pending", "confirmed", "rolled_back"}
Files == Builds \cup {NoBuild}
Rows == [status: Statuses, from: Files, to: Files, attempts: Nat]

EmptyRow == [status |-> "idle", from |-> NoBuild, to |-> NoBuild, attempts |-> 0]
Pending(f, t) == [status |-> "pending", from |-> f, to |-> t, attempts |-> 0]

TypeOK ==
    /\ row \in Rows
    /\ binary \in Files
    /\ old \in Files
    /\ schema \in Nat
    /\ daemon \in DaemonStates
    /\ running \in [Processes -> Files]
    /\ daemon # "down" => running["daemon"] \in Builds
    /\ seen \in Rows
    /\ wanted \in BOOLEAN
    /\ pc \in [Actors -> PcStates]
    /\ target \in [Actors -> Files]
    /\ \A a \in Actors :
          pc[a] \in Held \cup {"called"} =>
              target[a] \in Builds /\ running[ProcessOf(a)] \in Builds
    /\ \A c \in Clis : pc[c] # "exited" => running[c] \in Builds
    /\ proven \subseteq Builds
    /\ faults \in Nat

Init ==
    /\ row = EmptyRow
    /\ binary = Installed
    /\ old = NoBuild
    /\ schema = SchemaOf[Installed]
    /\ daemon = "down"
    /\ running = [p \in Processes |-> NoBuild]
    /\ seen = EmptyRow
    /\ wanted = TRUE
    /\ pc = [a \in Actors |-> IF a \in Clis THEN "exited" ELSE "idle"]
    /\ target = [a \in Actors |-> NoBuild]
    /\ proven = {Installed}
    /\ faults = 0

\* One failure of the given kind, where the environment has it.
Fault(kind) ==
    /\ kind \in Faults
    /\ faults < MaxFaults
    /\ faults' = faults + 1

(***************************************************************************)
(* Apply: the update runner, POST /v1/update/apply and `tumika update`.    *)
(***************************************************************************)

\* Mutant: no mutex, two callers of one process inside Apply at once.
LockedNever(p) == FALSE

\* updateService.mu: held from Apply's first statement to its return, and one
\* per process.
Locked(p) == \E a \in Actors : ProcessOf(a) = p /\ pc[a] \in Held

\* Apply returns: the deferred calls remove the staged file and unlock.  A
\* `tumika update` whose Apply failed ends there.
Return(a, to) ==
    /\ pc' = [pc EXCEPT ![a] = to]
    /\ target' = [target EXCEPT ![a] = NoBuild]
    /\ running' = IF to = "exited" THEN [running EXCEPT ![a] = NoBuild] ELSE running
    /\ UNCHANGED <<daemon, seen, wanted>>

ReturnError(a) == Return(a, IF a \in Clis THEN "exited" ELSE "idle")

Advance(a, to) ==
    /\ pc' = [pc EXCEPT ![a] = to]
    /\ UNCHANGED <<target, serve>>

\* Check offered version b, and Apply(b) is called: a tick of the runner with
\* auto-apply on, a request, or the command.
ApplyCalled(a, b) ==
    /\ pc[a] = "idle"
    /\ a \in Clis \/ daemon = "serving"
    /\ b > running[ProcessOf(a)]
    /\ pc' = [pc EXCEPT ![a] = "called"]
    /\ target' = [target EXCEPT ![a] = b]
    /\ UNCHANGED <<row, disk, schema, serve, proven, faults>>

\* Apply down to the start of the download: the head still ships the version
\* asked for, and the row is not pending.  The download sweeps the temporary
\* files of the directory, another process's download included.
ApplyBegin(a) ==
    /\ pc[a] = "called"
    /\ ~Locked(ProcessOf(a))
    /\ row.status # "pending"
    /\ pc' = [x \in Actors |-> IF x = a THEN "fetching"
                               ELSE IF pc[x] = "fetching" THEN "swept" ELSE pc[x]]
    /\ UNCHANGED <<row, disk, schema, serve, target, proven, faults>>

\* The head moved or could not be read, or the row is pending: ErrConflict.
ApplyRefused(a) ==
    /\ pc[a] = "called"
    /\ ~Locked(ProcessOf(a))
    /\ ReturnError(a)
    /\ UNCHANGED <<row, disk, schema, proven, faults>>

\* The bytes match the digest the signed document names, and are renamed onto
\* the staging name.
Fetch(a) ==
    /\ pc[a] = "fetching"
    /\ Advance(a, "staged")
    /\ UNCHANGED <<row, disk, schema, proven, faults>>

\* The network failed, the digest differs or the file was swept away.
FetchFails(a) ==
    /\ pc[a] \in {"fetching", "swept"}
    /\ ReturnError(a)
    /\ UNCHANGED <<row, disk, schema, proven, faults>>

\* Mutant: the pre-flight asks for the version only, not for the migrations.
PreflightVersionOnly(a) ==
    /\ pc[a] = "staged"
    /\ Advance(a, "preflighted")
    /\ UNCHANGED <<row, disk, schema, proven, faults>>

Preflight(a) ==
    /\ pc[a] = "staged"
    /\ SchemaOf[target[a]] >= schema
    /\ Advance(a, "preflighted")
    /\ UNCHANGED <<row, disk, schema, proven, faults>>

\* It does not run, reports another version, or embeds fewer migrations than
\* the database has applied.
PreflightRefuses(a) ==
    /\ pc[a] = "staged"
    /\ ReturnError(a)
    /\ UNCHANGED <<row, disk, schema, proven, faults>>

Record(a) ==
    /\ pc[a] = "preflighted"
    /\ row' = Pending(running[ProcessOf(a)], target[a])
    /\ Advance(a, "recorded")
    /\ UNCHANGED <<disk, schema, proven, faults>>

\* Mutant: the error of the write is dropped and Apply goes on to the swap.
RecordFailsUnseen(a) ==
    /\ pc[a] = "preflighted"
    /\ \/ a \in Threads /\ daemon = "draining" /\ UNCHANGED faults
       \/ Fault("db")
    /\ Advance(a, "recorded")
    /\ UNCHANGED <<row, disk, schema, proven>>

\* The write failed, or SIGTERM cancelled the context it runs under.
RecordFails(a) ==
    /\ pc[a] = "preflighted"
    /\ \/ a \in Threads /\ daemon = "draining" /\ UNCHANGED faults
       \/ Fault("db")
    /\ ReturnError(a)
    /\ UNCHANGED <<row, disk, schema, proven>>

\* os.Stat(<binary>.old)
StatOld(a) ==
    /\ pc[a] = "recorded"
    /\ IF old = NoBuild THEN Advance(a, "keeping") ELSE ReturnError(a)
    /\ UNCHANGED <<row, disk, schema, proven, faults>>

\* os.Rename(binary, <binary>.old)
KeepOld(a) ==
    /\ pc[a] = "keeping"
    /\ binary # NoBuild
    /\ old' = binary
    /\ binary' = NoBuild
    /\ Advance(a, "swapping")
    /\ UNCHANGED <<row, schema, proven, faults>>

KeepOldFails(a) ==
    /\ pc[a] = "keeping"
    /\ \/ binary = NoBuild /\ UNCHANGED faults
       \/ Fault("rename")
    /\ ReturnError(a)
    /\ UNCHANGED <<row, disk, schema, proven>>

\* os.Rename(staged, binary)
Swap(a) ==
    /\ pc[a] = "swapping"
    /\ binary' = target[a]
    /\ Return(a, "applied")
    /\ UNCHANGED <<row, old, schema, proven, faults>>

SwapFails(a) ==
    /\ pc[a] = "swapping"
    /\ Fault("rename")
    /\ Advance(a, "undoing")
    /\ UNCHANGED <<row, disk, schema, proven>>

\* os.Rename(<binary>.old, binary), and the failure it reports
Undo(a) ==
    /\ pc[a] = "undoing"
    /\ old # NoBuild
    /\ binary' = old
    /\ old' = NoBuild
    /\ ReturnError(a)
    /\ UNCHANGED <<row, schema, proven, faults>>

UndoFails(a) ==
    /\ pc[a] = "undoing"
    /\ \/ old = NoBuild /\ UNCHANGED faults
       \/ Fault("rename")
    /\ ReturnError(a)
    /\ UNCHANGED <<row, disk, schema, proven>>

(***************************************************************************)
(* After Apply: who tells the daemon to restart.                           *)
(***************************************************************************)

\* Mutant: nobody receives from the `applied` channel.
SignalLost == UNCHANGED daemon

\* UpdateApplied and the runner's Exit both end in the one `applied` channel.
SignalApplied ==
    daemon' = IF daemon = "serving" THEN "draining" ELSE daemon

\* The runner closes its exit channel and its loop ends.
RunnerSignals ==
    /\ pc["runner"] = "applied"
    /\ SignalApplied
    /\ pc' = [pc EXCEPT !["runner"] = "done"]
    /\ UNCHANGED <<row, disk, schema, running, seen, wanted, target, proven, faults>>

\* A handler reads the row, writes the response and calls UpdateApplied.
ApiReplies(h) ==
    /\ pc[h] = "applied"
    /\ SignalApplied
    /\ pc' = [pc EXCEPT ![h] = "idle"]
    /\ UNCHANGED <<row, disk, schema, running, seen, wanted, target, proven, faults>>

\* Reading the row failed: the handler returns before UpdateApplied.
ApiReplyFails(h) ==
    /\ pc[h] = "applied"
    /\ Fault("reply")
    /\ pc' = [pc EXCEPT ![h] = "idle"]
    /\ UNCHANGED <<row, disk, schema, serve, target, proven>>

\* withDaemon: a command opens the store and migrates it, without resolving
\* the boot.  A schema newer than the command's own stops it there.
CliStarts(c) ==
    /\ pc[c] = "exited"
    /\ binary # NoBuild
    /\ SchemaOf[binary] >= schema
    /\ schema' = SchemaOf[binary]
    /\ running' = [running EXCEPT ![c] = binary]
    /\ pc' = [pc EXCEPT ![c] = "idle"]
    /\ UNCHANGED <<row, disk, daemon, seen, wanted, target, proven, faults>>

\* Up to date, --check, or some other command.
CliExits(c) ==
    /\ pc[c] = "idle"
    /\ Return(c, "exited")
    /\ UNCHANGED <<row, disk, schema, proven, faults>>

\* restartService: stop the service only if the supervisor has it running.
CliStopsService(c) ==
    /\ pc[c] = "applied"
    /\ daemon \in {"serving", "draining"}
    /\ daemon' = "draining"
    /\ wanted' = FALSE
    /\ pc' = [pc EXCEPT ![c] = "restarting"]
    /\ UNCHANGED <<row, disk, schema, running, seen, target, proven, faults>>

\* --no-restart, or the service is not running.
CliLeavesService(c) ==
    /\ pc[c] = "applied"
    /\ Return(c, "exited")
    /\ UNCHANGED <<row, disk, schema, proven, faults>>

CliStartsService(c) ==
    /\ pc[c] = "restarting"
    /\ daemon = "down"
    /\ wanted' = TRUE
    /\ pc' = [pc EXCEPT ![c] = "exited"]
    /\ running' = [running EXCEPT ![c] = NoBuild]
    /\ UNCHANGED <<row, disk, schema, daemon, seen, target, proven, faults>>

CliKilled(c) ==
    /\ pc[c] # "exited"
    /\ Fault("kill")
    /\ Return(c, "exited")
    /\ UNCHANGED <<row, disk, schema, proven>>

(***************************************************************************)
(* The serve process: boot, confirmation, service and exit.                *)
(***************************************************************************)

\* Mutant: the process is gone and the callers inside it still count.
ExitLeavesCallers ==
    /\ daemon' = "down"
    /\ running' = [running EXCEPT !["daemon"] = NoBuild]
    /\ seen' = EmptyRow
    /\ UNCHANGED <<wanted, callers>>

\* The process ends, and the threads inside it with it.
Exit ==
    /\ daemon' = "down"
    /\ running' = [running EXCEPT !["daemon"] = NoBuild]
    /\ seen' = EmptyRow
    /\ pc' = [a \in Actors |-> IF a \in Threads THEN "idle" ELSE pc[a]]
    /\ target' = [a \in Actors |-> IF a \in Threads THEN NoBuild ELSE target[a]]
    /\ UNCHANGED wanted

\* A step of the boot returns; what it read of the row goes with it.
Goto(to) ==
    /\ daemon' = to
    /\ seen' = EmptyRow
    /\ UNCHANGED <<running, wanted, callers>>

\* Restart=always and KeepAlive: whatever is at the binary path is executed.
Exec ==
    /\ daemon = "down"
    /\ wanted
    /\ binary # NoBuild
    /\ daemon' = "booting"
    /\ running' = [running EXCEPT !["daemon"] = binary]
    /\ UNCHANGED <<row, disk, schema, seen, wanted, callers, proven, faults>>

\* ConfirmBoot: nothing is pending.
BootInert ==
    /\ daemon = "booting"
    /\ row.status # "pending"
    /\ Goto("opening")
    /\ UNCHANGED <<row, disk, schema, proven, faults>>

\* Mutant: the limit is one boot early.
BootCountedEarly ==
    /\ daemon = "booting"
    /\ row.status = "pending"
    /\ row' = [row EXCEPT !.attempts = @ + 1]
    /\ IF row.attempts + 1 >= MaxBootAttempts - 1
       THEN daemon' = "resolving" /\ seen' = row'
       ELSE daemon' = "opening" /\ UNCHANGED seen
    /\ UNCHANGED <<disk, schema, running, wanted, callers, proven, faults>>

\* Mutant: the count is not written back.
BootUncounted ==
    /\ daemon = "booting"
    /\ row.status = "pending"
    /\ IF row.attempts + 1 >= MaxBootAttempts
       THEN daemon' = "resolving" /\ seen' = [row EXCEPT !.attempts = @ + 1]
       ELSE daemon' = "opening" /\ UNCHANGED seen
    /\ UNCHANGED <<row, disk, schema, running, wanted, callers, proven, faults>>

\* ConfirmBoot: IncrementBootAttempts, in one statement, and ShouldRollBack on
\* the row it returned.  Other processes write the row only to record a pending
\* update, so the read before it commutes with them.
BootCounted ==
    /\ daemon = "booting"
    /\ row.status = "pending"
    /\ row' = [row EXCEPT !.attempts = @ + 1]
    /\ IF row.attempts + 1 >= MaxBootAttempts
       THEN daemon' = "resolving" /\ seen' = row'
       ELSE daemon' = "opening" /\ UNCHANGED seen
    /\ UNCHANGED <<disk, schema, running, wanted, callers, proven, faults>>

\* An error from ConfirmBoot is logged, and the boot goes on.
BootReadFails ==
    /\ daemon = "booting"
    /\ Fault("db")
    /\ Goto("opening")
    /\ UNCHANGED <<row, disk, schema, proven>>

\* rollBack: os.Stat(<binary>.old)
StatFallback ==
    /\ daemon = "resolving"
    /\ daemon' = IF old = NoBuild THEN "abandoning" ELSE "recording"
    /\ UNCHANGED <<row, disk, schema, running, seen, wanted, callers, proven, faults>>

\* Mutant: the rollback is recorded and the rename left out.
RollBackRecordedOnly ==
    /\ daemon \in {"abandoning", "recording"}
    /\ row' = [seen EXCEPT !.status = "rolled_back"]
    /\ Goto("opening")
    /\ UNCHANGED <<disk, schema, proven, faults>>

\* The rollback is recorded, with nothing to restore or before the rename.
RollBackRecorded ==
    /\ daemon \in {"abandoning", "recording"}
    /\ row' = [seen EXCEPT !.status = "rolled_back"]
    /\ Goto(IF daemon = "abandoning" THEN "opening" ELSE "restoring")
    /\ UNCHANGED <<disk, schema, proven, faults>>

RollBackRecordFails ==
    /\ daemon \in {"abandoning", "recording"}
    /\ Fault("db")
    /\ Goto("opening")
    /\ UNCHANGED <<row, disk, schema, proven>>

\* os.Rename(<binary>.old, binary); New returns ErrRestartRequired.
Restore ==
    /\ daemon = "restoring"
    /\ old # NoBuild
    /\ binary' = old
    /\ old' = NoBuild
    /\ Exit
    /\ UNCHANGED <<row, schema, proven, faults>>

RestoreFails ==
    /\ daemon = "restoring"
    /\ \/ old = NoBuild /\ UNCHANGED faults
       \/ Fault("rename")
    /\ Goto("opening")
    /\ UNCHANGED <<row, disk, schema, proven>>

\* Migrate refuses a database newer than the build.
SchemaTooNew ==
    /\ daemon = "opening"
    /\ schema > SchemaOf[running["daemon"]]
    /\ Exit
    /\ UNCHANGED <<row, disk, schema, proven, faults>>

\* Mutant: Confirm as soon as the database is open, before the listener is bound.
MigrateAndConfirm ==
    /\ daemon = "opening"
    /\ SchemaOf[running["daemon"]] >= schema
    /\ schema' = SchemaOf[running["daemon"]]
    /\ Goto("listening")
    /\ UNCHANGED <<row, disk, proven, faults>>

Migrate ==
    /\ daemon = "opening"
    /\ SchemaOf[running["daemon"]] >= schema
    /\ schema' = SchemaOf[running["daemon"]]
    /\ Goto("starting")
    /\ UNCHANGED <<row, disk, proven, faults>>

\* A bad migration before it, or key custody, the registry, the seed or the
\* listener after it.
BootFails ==
    /\ daemon \in {"opening", "starting"}
    /\ running["daemon"] \in Bad
    /\ Exit
    /\ UNCHANGED <<row, disk, schema, proven, faults>>

\* Everything up to the bound listener has succeeded.
Listen ==
    /\ daemon = "starting"
    /\ running["daemon"] \notin Bad
    /\ proven' = proven \cup {running["daemon"]}
    /\ Goto("listening")
    /\ UNCHANGED <<row, disk, schema, faults>>

\* Confirm: nothing is pending, or ErrNotTheUpdatedBuild, which is logged.
ConfirmInert ==
    /\ daemon = "listening"
    /\ row.status = "pending" => row.to # running["daemon"]
    /\ Goto("serving")
    /\ UNCHANGED <<row, disk, schema, proven, faults>>

\* Mutant: any serving build confirms the pending row.
ConfirmReadsAnyBuild ==
    /\ daemon = "listening"
    /\ row.status = "pending"
    /\ seen' = row
    /\ daemon' = "confirming"
    /\ UNCHANGED <<row, disk, schema, running, wanted, callers, proven, faults>>

ConfirmReads ==
    /\ daemon = "listening"
    /\ row.status = "pending"
    /\ row.to = running["daemon"]
    /\ seen' = row
    /\ daemon' = "confirming"
    /\ UNCHANGED <<row, disk, schema, running, wanted, callers, proven, faults>>

ConfirmRecords ==
    /\ daemon = "confirming"
    /\ row' = [seen EXCEPT !.status = "confirmed"]
    /\ Goto("cleaning")
    /\ UNCHANGED <<disk, schema, proven, faults>>

\* Mutant: .old is removed whether or not the confirmation was written.
ConfirmRecordFailsUnseen ==
    /\ daemon = "confirming"
    /\ Fault("db")
    /\ Goto("cleaning")
    /\ UNCHANGED <<row, disk, schema, proven>>

ConfirmRecordFails ==
    /\ daemon = "confirming"
    /\ Fault("db")
    /\ Goto("serving")
    /\ UNCHANGED <<row, disk, schema, proven>>

\* os.Remove(<binary>.old): a missing file is no failure.
RemoveOld ==
    /\ daemon = "cleaning"
    /\ old' = NoBuild
    /\ Goto("serving")
    /\ UNCHANGED <<row, binary, schema, proven, faults>>

\* ErrFallbackNotRemoved, which is logged.
RemoveOldFails ==
    /\ daemon = "cleaning"
    /\ old # NoBuild
    /\ Fault("rename")
    /\ Goto("serving")
    /\ UNCHANGED <<row, disk, schema, proven>>

\* SIGTERM: an operator, or a machine that reboots, stops a healthy service.
Terminated ==
    /\ daemon = "serving"
    /\ Goto("draining")
    /\ UNCHANGED <<row, disk, schema, proven, faults>>

\* Mutant: the join does not know that the runner ends after an update.
DrainedIdleOnly ==
    /\ daemon = "draining"
    /\ pc["runner"] = "idle"
    /\ \A h \in Handlers : pc[h] = "idle"
    /\ Exit
    /\ UNCHANGED <<row, disk, schema, proven, faults>>

\* ServeListener returns once the handlers have drained and the runner, which
\* is joined, has returned.
Drained ==
    /\ daemon = "draining"
    /\ pc["runner"] \in {"idle", "done"}
    /\ \A h \in Handlers : pc[h] = "idle"
    /\ Exit
    /\ UNCHANGED <<row, disk, schema, proven, faults>>

\* The grace period ends with a handler still inside Apply: it is not joined.
GraceExpires ==
    /\ daemon = "draining"
    /\ pc["runner"] \in {"idle", "done"}
    /\ \E h \in Handlers : pc[h] # "idle"
    /\ Fault("grace")
    /\ Exit
    /\ UNCHANGED <<row, disk, schema, proven>>

\* SIGKILL, a panic or a power cut, anywhere.
Killed ==
    /\ daemon # "down"
    /\ Fault("kill")
    /\ Exit
    /\ UNCHANGED <<row, disk, schema, proven>>

(***************************************************************************)
(* The specification                                                       *)
(***************************************************************************)

ApplyStep(a) ==
    \/ ApplyBegin(a) \/ ApplyRefused(a)
    \/ Fetch(a) \/ FetchFails(a)
    \/ Preflight(a) \/ PreflightRefuses(a)
    \/ Record(a)
    \/ StatOld(a)
    \/ KeepOld(a) \/ KeepOldFails(a)
    \/ Swap(a) \/ SwapFails(a)
    \/ Undo(a) \/ UndoFails(a)

ServeStep ==
    \/ Exec
    \/ BootInert \/ BootCounted \/ BootReadFails
    \/ StatFallback \/ RollBackRecorded \/ RollBackRecordFails
    \/ Restore \/ RestoreFails
    \/ SchemaTooNew \/ Migrate \/ BootFails \/ Listen
    \/ ConfirmInert \/ ConfirmReads \/ ConfirmRecords \/ ConfirmRecordFails
    \/ RemoveOld \/ RemoveOldFails
    \/ Drained

CliStep(c) ==
    \/ CliStopsService(c) \/ CliLeavesService(c) \/ CliStartsService(c)

Next ==
    \/ \E a \in Actors : \/ \E b \in Builds : ApplyCalled(a, b)
                         \/ RecordFails(a)
                         \/ ApplyStep(a)
    \/ RunnerSignals
    \/ \E h \in Handlers : ApiReplies(h) \/ ApiReplyFails(h)
    \/ ServeStep \/ Terminated \/ GraceExpires \/ Killed
    \/ \E c \in Clis : CliStarts(c) \/ CliExits(c) \/ CliStep(c) \/ CliKilled(c)

Spec == Init /\ [][Next]_vars

\* A call of Apply returns, the daemon's own steps are taken and the supervisor
\* restarts what stops.  Nobody has to ask for an update, or run a command.
Fairness ==
    /\ WF_vars(ServeStep)
    /\ \A a \in Actors : WF_vars(ApplyStep(a))
    /\ WF_vars(RunnerSignals)
    /\ \A h \in Handlers : WF_vars(ApiReplies(h))
    /\ \A c \in Clis : WF_vars(CliStep(c))

FairSpec == Spec /\ Fairness

(***************************************************************************)
(* Safety                                                                  *)
(***************************************************************************)

\* While an update is pending, whatever is not the build it replaced has that
\* build beside it as .old, and the build has served: the fallback cannot be
\* destroyed, and an empty binary path can be refilled (rollBack, KeepOld).
FallbackKept ==
    /\ row.status = "pending" /\ binary # row.from => old = row.from /\ old \in proven
    /\ binary = NoBuild => row.status = "pending"

\* A build that has never served is at the binary path only under a row that
\* names it, so a boot of it is counted or is already recorded as given up
\* (Apply records before it replaces; Confirm runs once the listener is bound).
UnprovenOnRecord ==
    binary \in Builds \ proven =>
        row.to = binary /\ row.status \in {"pending", "rolled_back"}

\* "confirmed" describes the machine: the build it names has served and is the
\* one the supervisor will start (Confirm, rollBack's order).
ConfirmedIsInstalled ==
    row.status = "confirmed" => row.to \in proven /\ binary = row.to

\* Unless an update was rolled back across a migration, the build at the binary
\* path can open the database (the schema half of the pre-flight).
SchemaFits ==
    row.status # "rolled_back" /\ binary # NoBuild => schema <= SchemaOf[binary]

\* The fallback goes only by being put back, or once the build that replaced it
\* has served and is recorded as confirmed (Confirm's two steps).
FallbackSpent ==
    [][old # NoBuild /\ old' # old =>
          \/ binary' = old
          \/ row.status = "confirmed" /\ row.to = binary /\ binary \in proven]_vars

\* A pending row ends in two ways, whichever processes interleave: confirmed by
\* a serving daemon that is the build it names, or rolled back once the counted
\* boots have reached the limit (ConfirmBoot, Confirm).
PendingEndsWell ==
    [][row.status = "pending" /\ row'.status # "pending" =>
          \/ /\ row'.status = "confirmed"
             /\ row'.to = running["daemon"]
             /\ row'.to \in proven
          \/ row'.status = "rolled_back" /\ row'.attempts >= MaxBootAttempts]_vars

\* What a rollback puts back is the build the update it gives up on replaced
\* (Apply: a record without a swap is resolved harmlessly).
RestoresReplaced == daemon = "restoring" => old = row.from

\* A build the record has given up on is not what the supervisor will start, once the
\* boot that recorded it has gone on (rollBack's write and rename, in this order).
GivenUpIsReplaced == row.status = "rolled_back" /\ daemon # "restoring" => binary # row.to

(***************************************************************************)
(* Liveness                                                                *)
(***************************************************************************)

\* The service always comes back, whatever was installed: a build that cannot
\* serve is replaced by the one before it.  The exception is the one Migrate's
\* comment names, a build put back in front of a schema newer than its own.
ServiceReturns == []<>(daemon = "serving" \/ (binary # NoBuild /\ schema > SchemaOf[binary]))

\* Once the failures are over, a service that `tumika update` stopped is started
\* again: the drain it waits for ends, and only a missing binary keeps the
\* supervisor from executing it (restartService's Stop and Start, the joins).
StoppedIsStarted ==
    \A c \in Clis :
        (pc[c] = "restarting" /\ faults = MaxFaults) ~>
            (wanted /\ (daemon # "down" \/ binary = NoBuild))

\* The daemon does not go on executing the build an update inside it replaced
\* (the runner's Exit, UpdateApplied, the drain).
InstalledRestarts ==
    (\E t \in Threads : pc[t] = "applied") ~> (daemon = "down")
=============================================================================
