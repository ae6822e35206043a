--------------------------- MODULE UpdaterProofs ---------------------------
(***************************************************************************)
(* Theorems about Updater, for every set of builds, schema history, number *)
(* of handlers and of `tumika update` processes, kind and number of        *)
(* failures.                                                               *)
(***************************************************************************)
EXTENDS Updater, TLAPS

\* Spec keeps every variable in its type, and a caller inside Apply belongs to a
\* live process and has a version to install (service/update.go, Apply).
LEMMA TypeInit == Init => TypeOK
BY BuildsAssumption, FaultsAssumption, ProcessesAssumption
   DEF Init, TypeOK, EmptyRow, Rows, Statuses, Files, PcStates, Held, DaemonStates, RollBackStates,
       Actors, Processes, Threads, NoBuild

LEMMA TypeStep == TypeOK /\ [Next]_vars => TypeOK'
<1> USE BuildsAssumption, BootAttemptsAssumption, ProcessesAssumption, FaultsAssumption
    DEF TypeOK, EmptyRow, Pending, Rows, Statuses, Files, PcStates, Held, DaemonStates,
        RollBackStates, Actors, Processes, Threads, NoBuild, ProcessOf, disk, serve, callers,
        Return, ReturnError, Advance, Goto, Exit, Fault, Locked, SignalApplied
<1> SUFFICES ASSUME TypeOK, [Next]_vars PROVE TypeOK'
    OBVIOUS
<1>1. CASE \E a \in Actors, b \in Builds : ApplyCalled(a, b)
    BY <1>1 DEF ApplyCalled
<1>2. CASE \E a \in Actors : RecordFails(a)
    BY <1>2 DEF RecordFails
<1>3. CASE \E a \in Actors : ApplyStep(a)
    <2> PICK a \in Actors : ApplyStep(a)
        BY <1>3
    <2>1. CASE ApplyBegin(a)
        BY <2>1 DEF ApplyBegin
    <2>2. CASE ApplyRefused(a)
        BY <2>2 DEF ApplyRefused
    <2>3. CASE Fetch(a)
        BY <2>3 DEF Fetch
    <2>12. CASE FetchFails(a)
        BY <2>12 DEF FetchFails
    <2>13. CASE Preflight(a)
        BY <2>13 DEF Preflight
    <2>14. CASE PreflightRefuses(a)
        BY <2>14 DEF PreflightRefuses
    <2>4. CASE Record(a)
        BY <2>4 DEF Record
    <2>5. CASE StatOld(a)
        <3>1. CASE Advance(a, "keeping")
            BY <2>5, <3>1 DEF StatOld
        <3>2. CASE ReturnError(a)
            BY <2>5, <3>2 DEF StatOld
        <3> QED
            BY <2>5, <3>1, <3>2 DEF StatOld
    <2>6. CASE KeepOld(a)
        BY <2>6 DEF KeepOld
    <2>7. CASE KeepOldFails(a)
        BY <2>7 DEF KeepOldFails
    <2>8. CASE Swap(a)
        BY <2>8 DEF Swap
    <2>9. CASE SwapFails(a)
        BY <2>9 DEF SwapFails
    <2>10. CASE Undo(a)
        BY <2>10 DEF Undo
    <2>11. CASE UndoFails(a)
        BY <2>11 DEF UndoFails
    <2> QED
        BY <2>1, <2>2, <2>3, <2>4, <2>5, <2>6, <2>7, <2>8, <2>9, <2>10, <2>11,
           <2>12, <2>13, <2>14 DEF ApplyStep
<1>4. CASE RunnerSignals \/ \E h \in Handlers : ApiReplies(h) \/ ApiReplyFails(h)
    <2>1. CASE RunnerSignals
        BY <2>1 DEF RunnerSignals
    <2>2. CASE \E h \in Handlers : ApiReplies(h)
        BY <2>2 DEF ApiReplies
    <2>3. CASE \E h \in Handlers : ApiReplyFails(h)
        BY <2>3 DEF ApiReplyFails
    <2> QED
        BY <1>4, <2>1, <2>2, <2>3
<1>5. CASE \E c \in Clis : CliStarts(c) \/ CliExits(c) \/ CliStep(c) \/ CliKilled(c)
    <2> PICK c \in Clis : CliStarts(c) \/ CliExits(c) \/ CliStep(c) \/ CliKilled(c)
        BY <1>5
    <2>1. CASE CliStarts(c)
        BY <2>1 DEF CliStarts
    <2>2. CASE CliExits(c)
        BY <2>2 DEF CliExits
    <2>3. CASE CliStopsService(c)
        BY <2>3 DEF CliStopsService
    <2>4. CASE CliLeavesService(c)
        BY <2>4 DEF CliLeavesService
    <2>5. CASE CliStartsService(c)
        BY <2>5 DEF CliStartsService
    <2>6. CASE CliKilled(c)
        BY <2>6 DEF CliKilled
    <2> QED
        BY <2>1, <2>2, <2>3, <2>4, <2>5, <2>6 DEF CliStep
<1>6. CASE ServeStep
    <2>1. CASE Exec \/ BootInert \/ BootCounted \/ BootReadFails
        BY <2>1 DEF Exec, BootInert, BootCounted, BootReadFails
    <2>2. CASE StatFallback \/ RollBackRecorded \/ RollBackRecordFails \/ Restore \/ RestoreFails
        BY <2>2 DEF StatFallback, RollBackRecorded, RollBackRecordFails, Restore, RestoreFails
    <2>3. CASE SchemaTooNew
        BY <2>3 DEF SchemaTooNew
    <2>8. CASE BootFails
        BY <2>8 DEF BootFails
    <2>6. CASE Migrate
        BY <2>6 DEF Migrate
    <2>7. CASE Listen
        BY <2>7 DEF Listen
    <2>4. CASE \/ ConfirmInert \/ ConfirmReads \/ ConfirmRecords \/ ConfirmRecordFails
               \/ RemoveOld \/ RemoveOldFails
        BY <2>4 DEF ConfirmInert, ConfirmReads, ConfirmRecords, ConfirmRecordFails,
                    RemoveOld, RemoveOldFails
    <2>5. CASE Drained
        BY <2>5 DEF Drained
    <2> QED
        BY <1>6, <2>1, <2>2, <2>3, <2>4, <2>5, <2>6, <2>7, <2>8 DEF ServeStep
<1>7. CASE Terminated \/ GraceExpires \/ Killed
    <2>1. CASE Terminated
        BY <2>1 DEF Terminated
    <2>2. CASE GraceExpires
        BY <2>2 DEF GraceExpires
    <2>3. CASE Killed
        BY <2>3 DEF Killed
    <2> QED
        BY <1>7, <2>1, <2>2, <2>3
<1>8. CASE UNCHANGED vars
    BY <1>8 DEF vars
<1> QED
    BY <1>1, <1>2, <1>3, <1>4, <1>5, <1>6, <1>7, <1>8 DEF Next

THEOREM TypeCorrect == Spec => []TypeOK
BY TypeInit, TypeStep, PTL DEF Spec

(***************************************************************************)
(* How a pending row ends, whichever processes run.                        *)
(***************************************************************************)

\* What a boot read of the row before it acts on it, and who is acting.
SeenGood ==
    /\ daemon \in RollBackStates => seen.attempts >= MaxBootAttempts
    /\ daemon = "confirming" => seen.to = running["daemon"]
    /\ daemon \in {"listening", "confirming"} => running["daemon"] \in proven

\* Apply, in whichever process, never touches the serve process but to leave it.
LEMMA ApplyLeavesServe ==
    ASSUME TypeOK, NEW a \in Actors,
           RecordFails(a) \/ ApplyStep(a) \/ \E b \in Builds : ApplyCalled(a, b)
    PROVE  /\ UNCHANGED <<schema, daemon, seen, wanted, proven>>
           /\ running'["daemon"] = running["daemon"]
BY ProcessesAssumption
   DEF TypeOK, Processes, Actors, RecordFails, ApplyStep, ApplyCalled, ApplyBegin, ApplyRefused,
       Fetch, FetchFails, Preflight, PreflightRefuses, Record, StatOld, KeepOld, KeepOldFails,
       Swap, SwapFails, Undo, UndoFails, Return, ReturnError, Advance, serve

\* A command stops the service or leaves it alone; it never boots it.
LEMMA CliLeavesServe ==
    ASSUME TypeOK, NEW c \in Clis, CliStarts(c) \/ CliExits(c) \/ CliStep(c) \/ CliKilled(c)
    PROVE  /\ UNCHANGED <<row, old, binary, seen, proven>>
           /\ running'["daemon"] = running["daemon"]
           /\ daemon' \in {daemon, "draining"}
BY ProcessesAssumption
   DEF TypeOK, Processes, CliStarts, CliExits, CliStep, CliStopsService, CliLeavesService,
       CliStartsService, CliKilled, Return, serve, disk

LEMMA SeenStep == ASSUME TypeOK, SeenGood, [Next]_vars PROVE SeenGood'
<1> USE BootAttemptsAssumption
    DEF SeenGood, RollBackStates, TypeOK, Rows, EmptyRow, serve, Goto, Exit, SignalApplied
<1>1. CASE \E a \in Actors : \/ RecordFails(a) \/ ApplyStep(a)
                             \/ \E b \in Builds : ApplyCalled(a, b)
    BY <1>1, ApplyLeavesServe
<1>2. CASE RunnerSignals \/ \E h \in Handlers : ApiReplies(h) \/ ApiReplyFails(h)
    BY <1>2 DEF RunnerSignals, ApiReplies, ApiReplyFails
<1>3. CASE \E c \in Clis : CliStarts(c) \/ CliExits(c) \/ CliStep(c) \/ CliKilled(c)
    BY <1>3, CliLeavesServe
<1>4. CASE ServeStep
    <2>1. CASE Exec \/ BootInert \/ BootReadFails
        BY <2>1 DEF Exec, BootInert, BootReadFails
    <2>2. CASE BootCounted
        BY <2>2 DEF BootCounted
    <2>3. CASE StatFallback \/ RollBackRecorded \/ RollBackRecordFails \/ Restore \/ RestoreFails
        BY <2>3 DEF StatFallback, RollBackRecorded, RollBackRecordFails, Restore, RestoreFails
    <2>4. CASE SchemaTooNew \/ Migrate \/ BootFails \/ Listen
        BY <2>4 DEF SchemaTooNew, Migrate, BootFails, Listen
    <2>5. CASE ConfirmInert \/ ConfirmReads \/ ConfirmRecords \/ ConfirmRecordFails
        BY <2>5 DEF ConfirmInert, ConfirmReads, ConfirmRecords, ConfirmRecordFails
    <2>6. CASE RemoveOld \/ RemoveOldFails \/ Drained
        BY <2>6 DEF RemoveOld, RemoveOldFails, Drained
    <2> QED
        BY <1>4, <2>1, <2>2, <2>3, <2>4, <2>5, <2>6 DEF ServeStep
<1>5. CASE Terminated \/ GraceExpires \/ Killed
    BY <1>5 DEF Terminated, GraceExpires, Killed
<1>6. CASE UNCHANGED vars
    BY <1>6 DEF vars
<1> QED
    BY <1>1, <1>2, <1>3, <1>4, <1>5, <1>6 DEF Next

\* Whoever else writes the row, a pending update is confirmed only by the serving
\* build it names and given up only at the limit (ConfirmBoot, Confirm).
THEOREM PendingAlwaysEndsWell == Spec => PendingEndsWell
<1>1. Init => SeenGood
    BY DEF Init, SeenGood, RollBackStates
<1>2. ASSUME TypeOK, SeenGood, [Next]_vars, row.status = "pending", row'.status # "pending"
      PROVE  \/ row'.status = "confirmed" /\ row'.to = running["daemon"] /\ row'.to \in proven
             \/ row'.status = "rolled_back" /\ row'.attempts >= MaxBootAttempts
    <2>1. CASE RollBackRecorded
        BY <1>2, <2>1 DEF RollBackRecorded, SeenGood, RollBackStates, TypeOK, Rows
    <2>2. CASE ConfirmRecords
        BY <1>2, <2>2 DEF ConfirmRecords, SeenGood, TypeOK, Rows
    <2>3. CASE BootCounted
        BY <1>2, <2>3 DEF BootCounted, TypeOK, Rows
    <2>4. CASE \E a \in Actors : Record(a)
        BY <1>2, <2>4 DEF Record, Pending
    <2>5. ASSUME ~RollBackRecorded, ~ConfirmRecords, ~BootCounted, ~\E a \in Actors : Record(a)
          PROVE  row' = row
        BY <1>2, <2>5
           DEF Next, ApplyStep, ServeStep, CliStep, vars, ApplyCalled, RecordFails, ApplyBegin,
               ApplyRefused, Fetch, FetchFails, Preflight, PreflightRefuses, StatOld, KeepOld,
               KeepOldFails, Swap, SwapFails, Undo, UndoFails, RunnerSignals, ApiReplies,
               ApiReplyFails, CliStarts, CliExits, CliStopsService, CliLeavesService,
               CliStartsService, CliKilled, Exec, BootInert, BootReadFails,
               StatFallback, RollBackRecordFails, Restore, RestoreFails, SchemaTooNew, Migrate, BootFails,
               Listen, ConfirmInert, ConfirmReads, ConfirmRecordFails, RemoveOld,
               RemoveOldFails, Drained, Terminated, GraceExpires, Killed
    <2> QED
        BY <1>2, <2>1, <2>2, <2>3, <2>4, <2>5
<1>3. TypeOK /\ SeenGood /\ [Next]_vars =>
        [row.status = "pending" /\ row'.status # "pending" =>
          \/ /\ row'.status = "confirmed"
             /\ row'.to = running["daemon"]
             /\ row'.to \in proven
          \/ row'.status = "rolled_back" /\ row'.attempts >= MaxBootAttempts]_vars
    BY <1>2
<1>4. TypeOK /\ SeenGood /\ [Next]_vars => (TypeOK /\ SeenGood)'
    BY TypeStep, SeenStep
<1> QED
    BY TypeInit, <1>1, <1>3, <1>4, PTL DEF Spec, PendingEndsWell

(***************************************************************************)
(* The serve process alone: no `tumika update` beside it.                  *)
(***************************************************************************)

\* Apply is only ever inside a daemon that serves or drains, one at a time.
CallersServed == \A a \in Threads : pc[a] # "idle" => daemon \in {"serving", "draining"}
OneInside == \A a, b \in Threads : pc[a] \in Held /\ pc[b] \in Held => a = b

\* The row is what the boot or the confirmation in progress read or wrote.
BootOwnsRow ==
    /\ daemon \in RollBackStates \cup {"confirming"} => seen = row /\ row.status = "pending"
    /\ daemon = "restoring" => row.status = "rolled_back"
    /\ daemon = "cleaning" => row.status = "confirmed" /\ row.to = running["daemon"]

\* The process executes what is installed, until an update inside it swaps.
RunsInstalled ==
    daemon # "down" /\ (daemon \in {"serving", "draining"} => row.status # "pending")
        => binary = running["daemon"]

\* A daemon that has bound its listener, and one that has opened the database.
ListenedServes ==
    daemon \in {"listening", "confirming", "cleaning", "serving", "draining"} =>
        running["daemon"] \in proven
OpenedFits ==
    daemon \in {"starting", "listening", "confirming", "cleaning", "serving", "draining"} =>
        schema = SchemaOf[running["daemon"]]

\* What the row and .old say of the builds they name.
PendingBuilds ==
    row.status = "pending" =>
        row.from \in proven /\ row.from # row.to /\ binary \in {row.from, row.to, NoBuild}
OldServed == old # NoBuild => old \in proven

\* Where a caller is inside Apply, and what it has done to the row and the files.
CallerPlace ==
    \A a \in Threads :
        /\ pc[a] \in Held \cup {"called"} => target[a] # running["daemon"]
        /\ pc[a] \in {"fetching", "swept", "staged", "preflighted"} => row.status # "pending"
        /\ pc[a] \in {"recorded", "keeping", "swapping", "undoing"} =>
              row.status = "pending" /\ row.from = running["daemon"] /\ row.to = target[a]
        /\ pc[a] \in {"recorded", "keeping"} => binary = running["daemon"]
        /\ pc[a] = "keeping" => old = NoBuild
        /\ pc[a] \in {"swapping", "undoing"} => binary = NoBuild /\ old = running["daemon"]
        /\ pc[a] \in Held \ {"fetching", "swept", "staged"} => schema <= SchemaOf[target[a]]

IInv ==
    /\ TypeOK /\ SeenGood
    /\ CallersServed /\ OneInside /\ CallerPlace
    /\ BootOwnsRow /\ RunsInstalled /\ ListenedServes /\ OpenedFits
    /\ PendingBuilds /\ OldServed
    /\ FallbackKept /\ UnprovenOnRecord /\ ConfirmedIsInstalled /\ SchemaFits

LEMMA IInvInit == Init => IInv
BY TypeInit, BuildsAssumption, ProcessesAssumption
   DEF Init, IInv, SeenGood, RollBackStates, CallersServed, OneInside, CallerPlace, BootOwnsRow, RunsInstalled,
       ListenedServes, OpenedFits, PendingBuilds, OldServed, FallbackKept,
       UnprovenOnRecord, ConfirmedIsInstalled, SchemaFits, TypeOK,
       EmptyRow, Threads, Actors, Held, NoBuild

\* Without a `tumika update` process, every step of the serve process, its callers
\* and its failures keeps the invariant.
LEMMA IInvStep == ASSUME Clis = {}, IInv, [Next]_vars PROVE IInv'
<1> USE BuildsAssumption, ProcessesAssumption
    DEF IInv, TypeOK, SeenGood, RollBackStates, CallersServed, OneInside, CallerPlace, BootOwnsRow, RunsInstalled,
        ListenedServes, OpenedFits, PendingBuilds, OldServed, FallbackKept,
        UnprovenOnRecord, ConfirmedIsInstalled, SchemaFits,
        EmptyRow, Pending, Rows, Statuses, Files, Held, Actors, Processes, Threads, NoBuild,
        ProcessOf, disk, serve, callers,
        Return, ReturnError, Advance, Goto, Exit, Fault, Locked, SignalApplied
<1>0. TypeOK' /\ SeenGood'
    BY TypeStep, SeenStep
<1>1. CASE \E a \in Actors, b \in Builds : ApplyCalled(a, b)
    BY <1>0, <1>1 DEF ApplyCalled
<1>2. CASE \E a \in Actors : RecordFails(a)
    BY <1>0, <1>2 DEF RecordFails
<1>3. CASE \E a \in Actors : ApplyStep(a)
    <2> PICK a \in Actors : ApplyStep(a)
        BY <1>3
    <2>1. CASE ApplyBegin(a)
        BY <1>0, <2>1 DEF ApplyBegin
    <2>2. CASE ApplyRefused(a)
        BY <1>0, <2>2 DEF ApplyRefused
    <2>3. CASE Fetch(a)
        BY <1>0, <2>3 DEF Fetch
    <2>4. CASE FetchFails(a)
        BY <1>0, <2>4 DEF FetchFails
    <2>5. CASE Preflight(a)
        BY <1>0, <2>5 DEF Preflight
    <2>6. CASE PreflightRefuses(a)
        BY <1>0, <2>6 DEF PreflightRefuses
    <2>7. CASE Record(a)
        BY <1>0, <2>7 DEF Record
    <2>8. CASE StatOld(a)
        BY <1>0, <2>8 DEF StatOld
    <2>9. CASE KeepOld(a)
        BY <1>0, <2>9 DEF KeepOld
    <2>10. CASE KeepOldFails(a)
        BY <1>0, <2>10 DEF KeepOldFails
    <2>11. CASE Swap(a)
        BY <1>0, <2>11 DEF Swap
    <2>12. CASE SwapFails(a)
        BY <1>0, <2>12 DEF SwapFails
    <2>13. CASE Undo(a)
        BY <1>0, <2>13 DEF Undo
    <2>14. CASE UndoFails(a)
        BY <1>0, <2>14 DEF UndoFails
    <2> QED
        BY <2>1, <2>2, <2>3, <2>4, <2>5, <2>6, <2>7, <2>8, <2>9, <2>10, <2>11, <2>12, <2>13, <2>14 DEF ApplyStep
<1>4. CASE RunnerSignals
    BY <1>0, <1>4 DEF RunnerSignals
<1>5. CASE \E h \in Handlers : ApiReplies(h)
    BY <1>0, <1>5 DEF ApiReplies
<1>6. CASE \E h \in Handlers : ApiReplyFails(h)
    BY <1>0, <1>6 DEF ApiReplyFails
<1>7. CASE ServeStep
    <2>1. CASE Exec
        BY <1>0, <2>1 DEF Exec
    <2>2. CASE BootInert
        BY <1>0, <2>2 DEF BootInert
    <2>3. CASE BootCounted
        BY <1>0, <2>3 DEF BootCounted
    <2>4. CASE BootReadFails
        BY <1>0, <2>4 DEF BootReadFails
    <2>20. CASE StatFallback
        BY <1>0, <2>20 DEF StatFallback
    <2>5. CASE RollBackRecorded
        BY <1>0, <2>5 DEF RollBackRecorded
    <2>6. CASE RollBackRecordFails
        BY <1>0, <2>6 DEF RollBackRecordFails
    <2>7. CASE Restore
        BY <1>0, <2>7 DEF Restore
    <2>8. CASE RestoreFails
        BY <1>0, <2>8 DEF RestoreFails
    <2>9. CASE SchemaTooNew
        BY <1>0, <2>9 DEF SchemaTooNew
    <2>10. CASE Migrate
        BY <1>0, <2>10 DEF Migrate
    <2>11. CASE BootFails
        BY <1>0, <2>11 DEF BootFails
    <2>12. CASE Listen
        BY <1>0, <2>12 DEF Listen
    <2>13. CASE ConfirmInert
        BY <1>0, <2>13 DEF ConfirmInert
    <2>14. CASE ConfirmReads
        BY <1>0, <2>14 DEF ConfirmReads
    <2>15. CASE ConfirmRecords
        BY <1>0, <2>15 DEF ConfirmRecords
    <2>16. CASE ConfirmRecordFails
        BY <1>0, <2>16 DEF ConfirmRecordFails
    <2>17. CASE RemoveOld
        BY <1>0, <2>17 DEF RemoveOld
    <2>18. CASE RemoveOldFails
        BY <1>0, <2>18 DEF RemoveOldFails
    <2>19. CASE Drained
        BY <1>0, <2>19 DEF Drained
    <2> QED
        BY <1>7, <2>1, <2>2, <2>3, <2>4, <2>5, <2>6, <2>7, <2>8, <2>9, <2>10, <2>11, <2>12, <2>13, <2>14, <2>15, <2>16, <2>17, <2>18, <2>19, <2>20 DEF ServeStep
<1>8. CASE Terminated
    BY <1>0, <1>8 DEF Terminated
<1>9. CASE GraceExpires
    BY <1>0, <1>9 DEF GraceExpires
<1>10. CASE Killed
    BY <1>0, <1>10 DEF Killed
<1>11. CASE UNCHANGED vars
    BY <1>0, <1>11 DEF vars
<1> QED
    BY <1>1, <1>2, <1>3, <1>4, <1>5, <1>6, <1>7, <1>8, <1>9, <1>10, <1>11 DEF Next

LEMMA IInvAlways == ASSUME Clis = {} PROVE Spec => []IInv
<1>1. IInv /\ [Next]_vars => IInv'
    BY IInvStep
<1> QED
    BY IInvInit, <1>1, PTL DEF Spec

\* While an update is pending, the build it replaced has served and is at the
\* binary path or beside it (Apply's order, the mutex, the pending guard).
THEOREM FallbackAlwaysKept == ASSUME Clis = {} PROVE Spec => []FallbackKept
<1>1. IInv => FallbackKept
    BY DEF IInv
<1> QED
    BY IInvAlways, <1>1, PTL

\* No boot of a build that has never served goes unrecorded (Apply records before
\* it replaces).
THEOREM UnprovenAlwaysOnRecord == ASSUME Clis = {} PROVE Spec => []UnprovenOnRecord
<1>1. IInv => UnprovenOnRecord
    BY DEF IInv
<1> QED
    BY IInvAlways, <1>1, PTL

\* "confirmed" names the build the supervisor will start, and it has served
\* (Confirm, rollBack's order).
THEOREM ConfirmedAlwaysInstalled == ASSUME Clis = {} PROVE Spec => []ConfirmedIsInstalled
<1>1. IInv => ConfirmedIsInstalled
    BY DEF IInv
<1> QED
    BY IInvAlways, <1>1, PTL

\* Outside a rollback, the installed build can open the database (preflight).
THEOREM SchemaAlwaysFits == ASSUME Clis = {} PROVE Spec => []SchemaFits
<1>1. IInv => SchemaFits
    BY DEF IInv
<1> QED
    BY IInvAlways, <1>1, PTL

\* .old goes only by being put back, or once the build that replaced it has served
\* and is confirmed (the stat before the first rename, Confirm's two steps).
THEOREM FallbackOnlySpent == ASSUME Clis = {} PROVE Spec => FallbackSpent
<1>1. ASSUME IInv, [Next]_vars, old # NoBuild, old' # old
      PROVE  \/ binary' = old
             \/ row.status = "confirmed" /\ row.to = binary /\ binary \in proven
    <2>1. CASE \E a \in Actors : KeepOld(a)
        BY <1>1, <2>1 DEF KeepOld, IInv, CallerPlace, Actors
    <2>2. CASE Restore \/ \E a \in Actors : Undo(a)
        BY <2>2 DEF Restore, Undo
    <2>3. CASE RemoveOld
        BY <1>1, <2>3 DEF RemoveOld, IInv, BootOwnsRow, ConfirmedIsInstalled
    <2>4. ASSUME ~Restore, ~RemoveOld, ~\E a \in Actors : KeepOld(a) \/ Undo(a)
          PROVE  old' = old
        BY <1>1, <2>4
           DEF Next, ApplyStep, ServeStep, CliStep, vars, disk, ApplyCalled, RecordFails,
               ApplyBegin, ApplyRefused, Fetch, FetchFails, Preflight, PreflightRefuses,
               Record, StatOld, KeepOldFails, Swap, SwapFails, UndoFails, RunnerSignals,
               ApiReplies, ApiReplyFails, CliStarts, CliExits, CliStopsService,
               CliLeavesService, CliStartsService, CliKilled, Exec, BootInert, BootCounted,
               BootReadFails, StatFallback, RollBackRecorded, RollBackRecordFails, RestoreFails,
               SchemaTooNew, Migrate, BootFails, Listen, ConfirmInert, ConfirmReads,
               ConfirmRecords, ConfirmRecordFails, RemoveOldFails, Drained, Terminated,
               GraceExpires, Killed
    <2> QED
        BY <1>1, <2>1, <2>2, <2>3, <2>4
<1>2. IInv /\ [Next]_vars =>
        [old # NoBuild /\ old' # old =>
          \/ binary' = old
          \/ row.status = "confirmed" /\ row.to = binary /\ binary \in proven]_vars
    BY <1>1
<1> QED
    BY IInvAlways, <1>2, PTL DEF Spec, FallbackSpent
=============================================================================
