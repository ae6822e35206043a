---------------------- MODULE UpdaterRefinementProofs ----------------------
(***************************************************************************)
(* Updater implements UpdatePromise where a process is never cut off       *)
(* between two accesses and no rename or removal fails: writes of the row  *)
(* may still fail, responses may be lost, builds may not boot.             *)
(***************************************************************************)
EXTENDS UpdaterRefinement, UpdaterProofs

Uninterrupted == Faults \cap {"kill", "rename", "grace"} = {}

\* A pending update is either still inside Apply or installed, beside the build it
\* replaced.
InsideOrInstalled ==
    row.status = "pending" =>
        \/ \E a \in Threads : pc[a] \in {"recorded", "keeping", "swapping"}
        \/ binary = row.to /\ old = row.from

\* .old exists for an update that is pending, being confirmed or being undone.
OldHasPurpose ==
    old # NoBuild => row.status = "pending" \/ daemon \in {"cleaning", "restoring"}

\* A rollback that is recorded is carried out by the same boot.
RollBackGoesOn ==
    /\ daemon # "abandoning"
    /\ daemon \in {"recording", "restoring"} =>
          binary = row.to /\ old = row.from /\ old \notin {row.to, NoBuild}
    /\ row.status = "rolled_back" /\ daemon # "restoring" => binary # row.to

\* Nothing is undone, and what has been recorded is still to be stored.
NothingUndone ==
    \A a \in Threads :
        /\ pc[a] # "undoing"
        /\ pc[a] \in {"recorded", "keeping"} => old = NoBuild

RInv == IInv /\ InsideOrInstalled /\ OldHasPurpose /\ RollBackGoesOn /\ NothingUndone

LEMMA RInvInit == Init => RInv
BY IInvInit
   DEF Init, RInv, InsideOrInstalled, OldHasPurpose, RollBackGoesOn, NothingUndone, EmptyRow,
       Threads, Actors

\* Every step of the serve process and its callers keeps it.
LEMMA RInvStep == ASSUME Clis = {}, Uninterrupted, RInv, [Next]_vars PROVE RInv'
<1> USE BuildsAssumption, BootAttemptsAssumption, ProcessesAssumption
    DEF Uninterrupted, RInv, InsideOrInstalled, OldHasPurpose, RollBackGoesOn, NothingUndone,
        IInv, TypeOK, SeenGood, RollBackStates, CallersServed, OneInside, CallerPlace,
        BootOwnsRow, RunsInstalled, ListenedServes, PendingBuilds, ConfirmedIsInstalled,
        EmptyRow, Pending, Rows, Files, Held, Actors, Processes, Threads, NoBuild, ProcessOf,
        disk, serve, callers, Return, ReturnError, Advance, Goto, Exit, Fault, Locked,
        SignalApplied
<1>0. IInv'
    BY IInvStep
<1>1. CASE \E a \in Actors, b \in Builds : ApplyCalled(a, b)
    BY <1>0, <1>1 DEF ApplyCalled
<1>2. CASE \E a \in Actors : RecordFails(a)
    BY <1>0, <1>2 DEF RecordFails
<1>3. CASE \E a \in Actors : ApplyStep(a)
    <2> PICK a \in Actors : ApplyStep(a)
        BY <1>3
    <2>1. CASE ApplyBegin(a)
        BY <1>0, <2>1 DEF ApplyBegin
    <2>2. CASE ApplyRefused(a)
        BY <1>0, <2>2 DEF ApplyRefused
    <2>3. CASE Fetch(a)
        BY <1>0, <2>3 DEF Fetch
    <2>4. CASE FetchFails(a)
        BY <1>0, <2>4 DEF FetchFails
    <2>5. CASE Preflight(a)
        BY <1>0, <2>5 DEF Preflight
    <2>6. CASE PreflightRefuses(a)
        BY <1>0, <2>6 DEF PreflightRefuses
    <2>7. CASE Record(a)
        BY <1>0, <2>7 DEF Record
    <2>8. CASE StatOld(a)
        BY <1>0, <2>8 DEF StatOld
    <2>9. CASE KeepOld(a)
        BY <1>0, <2>9 DEF KeepOld
    <2>10. CASE KeepOldFails(a)
        BY <1>0, <2>10 DEF KeepOldFails
    <2>11. CASE Swap(a)
        BY <1>0, <2>11 DEF Swap
    <2>12. CASE SwapFails(a)
        BY <1>0, <2>12 DEF SwapFails
    <2>13. CASE Undo(a)
        BY <1>0, <2>13 DEF Undo
    <2>14. CASE UndoFails(a)
        BY <1>0, <2>14 DEF UndoFails
    <2> QED
        BY <2>1, <2>2, <2>3, <2>4, <2>5, <2>6, <2>7, <2>8, <2>9, <2>10, <2>11, <2>12, <2>13, <2>14 DEF ApplyStep
<1>4. CASE RunnerSignals
    BY <1>0, <1>4 DEF RunnerSignals
<1>5. CASE \E h \in Handlers : ApiReplies(h)
    BY <1>0, <1>5 DEF ApiReplies
<1>6. CASE \E h \in Handlers : ApiReplyFails(h)
    BY <1>0, <1>6 DEF ApiReplyFails
<1>7. CASE ServeStep
    <2>1. CASE Exec
        BY <1>0, <2>1 DEF Exec
    <2>2. CASE BootInert
        BY <1>0, <2>2 DEF BootInert
    <2>3. CASE BootCounted
        BY <1>0, <2>3 DEF BootCounted
    <2>4. CASE BootReadFails
        BY <1>0, <2>4 DEF BootReadFails
    <2>5. CASE StatFallback
        BY <1>0, <2>5 DEF StatFallback
    <2>6. CASE RollBackRecorded
        BY <1>0, <2>6 DEF RollBackRecorded
    <2>7. CASE RollBackRecordFails
        BY <1>0, <2>7 DEF RollBackRecordFails
    <2>8. CASE Restore
        BY <1>0, <2>8 DEF Restore
    <2>9. CASE RestoreFails
        BY <1>0, <2>9 DEF RestoreFails
    <2>10. CASE SchemaTooNew
        BY <1>0, <2>10 DEF SchemaTooNew
    <2>11. CASE Migrate
        BY <1>0, <2>11 DEF Migrate
    <2>12. CASE BootFails
        BY <1>0, <2>12 DEF BootFails
    <2>13. CASE Listen
        BY <1>0, <2>13 DEF Listen
    <2>14. CASE ConfirmInert
        BY <1>0, <2>14 DEF ConfirmInert
    <2>15. CASE ConfirmReads
        BY <1>0, <2>15 DEF ConfirmReads
    <2>16. CASE ConfirmRecords
        BY <1>0, <2>16 DEF ConfirmRecords
    <2>17. CASE ConfirmRecordFails
        BY <1>0, <2>17 DEF ConfirmRecordFails
    <2>18. CASE RemoveOld
        BY <1>0, <2>18 DEF RemoveOld
    <2>19. CASE RemoveOldFails
        BY <1>0, <2>19 DEF RemoveOldFails
    <2>20. CASE Drained
        BY <1>0, <2>20 DEF Drained
    <2> QED
        BY <1>7, <2>1, <2>2, <2>3, <2>4, <2>5, <2>6, <2>7, <2>8, <2>9, <2>10, <2>11, <2>12, <2>13, <2>14, <2>15, <2>16, <2>17, <2>18, <2>19, <2>20 DEF ServeStep
<1>8. CASE Terminated
    BY <1>0, <1>8 DEF Terminated
<1>9. CASE GraceExpires
    BY <1>0, <1>9 DEF GraceExpires
<1>10. CASE Killed
    BY <1>0, <1>10 DEF Killed
<1>11. CASE UNCHANGED vars
    BY <1>0, <1>11 DEF vars
<1> QED
    BY <1>1, <1>2, <1>3, <1>4, <1>5, <1>6, <1>7, <1>8, <1>9, <1>10, <1>11 DEF Next

LEMMA RInvAlways == ASSUME Clis = {}, Uninterrupted PROVE Spec => []RInv
<1>1. RInv /\ [Next]_vars => RInv'
    BY RInvStep
<1> QED
    BY RInvInit, <1>1, PTL DEF Spec

\* What a rollback puts back is the build its update replaced: .old is never one that an
\* earlier confirmation could not remove (Confirm, Apply's os.Stat).
THEOREM AlwaysRestoresReplaced ==
    ASSUME Clis = {}, Uninterrupted PROVE Spec => []RestoresReplaced
<1>1. RInv => RestoresReplaced
    BY DEF RInv, RollBackGoesOn, RestoresReplaced
<1> QED
    BY RInvAlways, <1>1, PTL

\* A recorded rollback is carried out by the boot that recorded it (rollBack: "which the
\* next boot retries" is needed only where something is cut off).
THEOREM GivenUpAlwaysReplaced ==
    ASSUME Clis = {}, Uninterrupted PROVE Spec => []GivenUpIsReplaced
<1>1. RInv => GivenUpIsReplaced
    BY DEF RInv, RollBackGoesOn, GivenUpIsReplaced
<1> QED
    BY RInvAlways, <1>1, PTL

LEMMA RefinesInit == Init => Host!PromiseInit
BY BuildsAssumption
   DEF Init, EmptyRow, Host!PromiseInit, ActiveBuild, TrustedBuild, OnTrial, NoBuild

\* A step changes what the promise sees only by changing the row, the files or what
\* has served.
LEMMA Invisible ==
    ASSUME UNCHANGED <<row, disk, proven>> PROVE UNCHANGED Host!promiseVars
BY DEF disk, Host!promiseVars, ActiveBuild, TrustedBuild, OnTrial

\* Every step maps to a step of the promise, or leaves it alone.
LEMMA RefinesStep ==
    ASSUME Clis = {}, Uninterrupted, RInv, [Next]_vars
    PROVE  [Host!PromiseNext]_Host!promiseVars
<1> USE BuildsAssumption, ProcessesAssumption
    DEF RInv, IInv, TypeOK, Rows, Files, NoBuild, ActiveBuild, TrustedBuild, OnTrial,
        Host!promiseVars
<1>1. ASSUME NEW a \in Actors, ApplyStep(a) PROVE [Host!PromiseNext]_Host!promiseVars
    <2> USE DEF Actors, CallerPlace, ProcessOf
    <2>1. CASE Record(a)
        <3>1. UNCHANGED Host!promiseVars
            BY <2>1, <1>1 DEF Record, Pending, disk, Advance, serve, RollBackGoesOn,
                              CallersServed, RunsInstalled, Held
        <3> QED
            BY <3>1
    <2>2. CASE KeepOld(a)
        <3>1. UNCHANGED Host!promiseVars
            BY <2>2, <1>1 DEF KeepOld, Held
        <3> QED
            BY <3>1
    <2>3. CASE Swap(a)
        <3>1. Host!Install(target[a])
            BY <2>3, <1>1 DEF Swap, Host!Install, Held
        <3> QED
            BY <2>3, <3>1 DEF Host!PromiseNext, Swap, Held
    <2>4. CASE Undo(a)
        BY <2>4, <1>1 DEF Undo, NothingUndone
    <2>5. ASSUME ~Record(a), ~KeepOld(a), ~Swap(a), ~Undo(a)
          PROVE  UNCHANGED <<row, disk, proven>>
        BY <1>1, <2>5
           DEF ApplyStep, ApplyBegin, ApplyRefused, Fetch, FetchFails, Preflight,
               PreflightRefuses, StatOld, KeepOldFails, SwapFails, UndoFails
    <2> QED
        BY <2>1, <2>2, <2>3, <2>4, <2>5, Invisible
<1>2. CASE BootCounted
    <2>1. UNCHANGED Host!promiseVars
        BY <1>2 DEF BootCounted, disk
    <2> QED
        BY <2>1
<1>3. CASE RollBackRecorded
    <2>1. UNCHANGED Host!promiseVars
        BY <1>3 DEF RollBackRecorded, disk, BootOwnsRow, RollBackStates
    <2> QED
        BY <2>1
<1>4. CASE Restore
    <2>1. Host!GoBack
        BY <1>4 DEF Restore, Host!GoBack, BootOwnsRow, RollBackGoesOn, PendingBuilds
    <2> QED
        BY <2>1 DEF Host!PromiseNext
<1>5. CASE Listen
    <2>1. Host!Serve
        BY <1>5 DEF Listen, Host!Serve, RunsInstalled, disk
    <2> QED
        BY <2>1 DEF Host!PromiseNext
<1>6. CASE ConfirmRecords
    <2>1. Host!Accept
        BY <1>6 DEF ConfirmRecords, Host!Accept, RunsInstalled, disk, BootOwnsRow,
                    ListenedServes, SeenGood
    <2> QED
        BY <2>1 DEF Host!PromiseNext
<1>7. CASE RemoveOld
    <2>1. UNCHANGED Host!promiseVars
        BY <1>7 DEF RemoveOld, BootOwnsRow, RunsInstalled
    <2> QED
        BY <2>1
<1>8. ASSUME ~\E a \in Actors : ApplyStep(a), ~BootCounted, ~RollBackRecorded, ~Restore,
             ~Listen, ~ConfirmRecords, ~RemoveOld
      PROVE  UNCHANGED <<row, disk, proven>>
    BY <1>8
       DEF Next, ServeStep, CliStep, vars, ApplyCalled, RecordFails, RunnerSignals, ApiReplies,
           ApiReplyFails, Exec, BootInert, BootReadFails, StatFallback, RollBackRecordFails,
           RestoreFails, SchemaTooNew, Migrate, BootFails, ConfirmInert, ConfirmReads,
           ConfirmRecordFails, RemoveOldFails, Drained, Terminated, GraceExpires, Killed
<1> QED
    BY <1>1, <1>2, <1>3, <1>4, <1>5, <1>6, <1>7, <1>8, Invisible

\* The row and the two files keep the promise of UpdatePromise (service/update.go as a
\* whole): one trial at a time, ended by a build that has served or by going back to
\* the build trusted before it.
THEOREM PromiseKept == ASSUME Clis = {}, Uninterrupted PROVE Spec => KeepsPromise
<1>1. RInv /\ [Next]_vars => [Host!PromiseNext]_Host!promiseVars
    BY RefinesStep
<1> QED
    BY RInvAlways, RefinesInit, <1>1, PTL DEF Spec, KeepsPromise, Host!Promise

\* So a build that has served is always there to go back to: .old during a trial, the
\* binary itself otherwise (Apply's "the old binary is KEPT, not overwritten").
COROLLARY FallbackAlwaysServed ==
    ASSUME Clis = {}, Uninterrupted PROVE Spec => []Host!TrustedHasServed
BY PromiseKept, Host!TrustedAlwaysServed, PTL DEF KeepsPromise
=============================================================================
