----------------------------- MODULE Installer -----------------------------
(***************************************************************************)
(* The Claude Code installer: claudecode/install.go and release.go.        *)
(*                                                                         *)
(* A version is a directory under the providers root, published by one     *)
(* rename from a staging directory beside it.  Requests for a version join *)
(* the download their process already has in flight; processes share only  *)
(* the disk.  A process can be killed between any two accesses to it, and  *)
(* the power can go, which loses what was not flushed.                     *)
(***************************************************************************)
EXTENDS Naturals, FiniteSets

CONSTANTS
    Versions,           \* releases, a larger number the newer
    AsksFor,            \* bound: the versions each request may be for
    Pinned,             \* the version the driver executes, and protects from Prune
    Callers,            \* concurrent requests for an install
    ProcessOf,          \* the process each request runs in
    Retention,          \* how many versions Prune is asked to keep
    MaxFaults           \* bound: kills and power cuts per behaviour

ASSUME VersionsAssumption ==
    /\ Versions \subseteq Nat \ {0} /\ Pinned \in Versions
    /\ AsksFor \in [Callers -> SUBSET Versions]
ASSUME BoundsAssumption == Retention \in Nat /\ MaxFaults \in Nat

VARIABLES
    dir,            \* what is at <root>/<version>
    lasting,        \* what a power cut may make of that directory
    former,         \* what a power cut may put in its place: the root is not flushed
    pc,             \* where each request is
    following,      \* the leader whose done channel a request waits for
    job,            \* what each leader carries from one step to the next
    victims,        \* the versions a Prune under way is still to remove
    promised,       \* history: an install that downloaded the pinned version answered
    faults          \* failures so far, at most MaxFaults

disk == <<dir, lasting, former>>
vars == <<disk, pc, following, job, victims, promised, faults>>

\* "whole": the build of that version; "wrong": of another; "short": cut off, but
\* not empty; "unusable": a directory without a binary that can run.
Contents == {"none", "unusable", "short", "wrong", "whole"}
Builds == {"wrong", "whole"}
Working == {"checking", "fetching", "downloading", "syncing", "publishing", "flushing"}
Places == Working \cup {"idle", "joined", "ending", "closing"}
Jobs == [version : Versions \cup {0}, manifest : Versions \cup {0},
         staged : Builds \cup {"none"}, synced : BOOLEAN,
         result : {"none", "installed", "present", "error"}]
NoJob == [version |-> 0, manifest |-> 0, staged |-> "none", synced |-> FALSE,
          result |-> "none"]

TypeOK ==
    /\ dir \in [Versions -> Contents]
    /\ lasting \in [Versions -> SUBSET Contents]
    /\ former \in [Versions -> SUBSET Contents]
    /\ pc \in [Callers -> Places]
    /\ following \in [Callers -> Callers]
    /\ job \in [Callers -> Jobs]
    /\ \A c \in Callers : pc[c] # "idle" => job[c].version \in Versions
    /\ \A c \in Callers : pc[c] \in {"syncing", "publishing"} => job[c].staged \in Builds
    /\ victims \subseteq Versions
    /\ promised \in BOOLEAN
    /\ faults \in Nat

\* Other builds of the daemon, pinned to other versions, have been at work before.
Init ==
    /\ dir \in [Versions -> {"none", "unusable", "whole"}]
    /\ lasting = [v \in Versions |-> {dir[v]}]
    /\ former = [v \in Versions |-> {}]
    /\ pc = [c \in Callers |-> "idle"]
    /\ following = [c \in Callers |-> c]
    /\ job = [c \in Callers |-> NoJob]
    /\ victims = {}
    /\ promised = FALSE
    /\ faults = 0

Fault == faults < MaxFaults /\ faults' = faults + 1

\* usable: what is there is a regular file, not empty, and may be executed.
Usable(content) == content \in Builds \cup {"short"}

(***************************************************************************)
(* Install: one leader per version and process, which the others join      *)
(***************************************************************************)

\* Mutant: the download is registered when its manifest has been verified.
InFlightLate(l) == pc[l] \in Working \ {"checking", "fetching"}

\* The inflight map holds a leader until installOnce has returned.
InFlight(l) == pc[l] \in Working \cup {"ending"}

LeadersOf(c, v) ==
    {l \in Callers : ProcessOf[l] = ProcessOf[c] /\ InFlight(l) /\ job[l].version = v}

\* Mutant: an empty version is not refused.
InstallCalledUnvalidated(c, v) ==
    /\ pc[c] = "idle"
    /\ \E w \in {0, v} : job' = [job EXCEPT ![c] = [NoJob EXCEPT !.version = w]]
    /\ pc' = [pc EXCEPT ![c] = "checking"]
    /\ UNCHANGED <<disk, following, victims, promised, faults>>

\* The version is a release's name: anything else is refused.
InstallCalled(c, v) ==
    /\ pc[c] = "idle"
    /\ job' = [job EXCEPT ![c] = [NoJob EXCEPT !.version = v]]
    /\ IF LeadersOf(c, v) = {}
       THEN /\ pc' = [pc EXCEPT ![c] = "checking"]
            /\ UNCHANGED following
       ELSE \E l \in LeadersOf(c, v) :
                /\ pc' = [pc EXCEPT ![c] = "joined"]
                /\ following' = [following EXCEPT ![c] = l]
    /\ UNCHANGED <<disk, victims, promised, faults>>

\* The joined request's own context ends: the leader carries on.
GivesUp(c) ==
    /\ pc[c] = "joined"
    /\ pc' = [pc EXCEPT ![c] = "idle"]
    /\ job' = [job EXCEPT ![c] = NoJob]
    /\ following' = [following EXCEPT ![c] = c]
    /\ UNCHANGED <<disk, victims, promised, faults>>

Moves(c, from, to) == pc[c] = from /\ pc' = [pc EXCEPT ![c] = to]

\* installOnce returns, and its staging directory is removed.
Ends(c, outcome) ==
    /\ pc' = [pc EXCEPT ![c] = "ending"]
    /\ job' = [job EXCEPT ![c] = [NoJob EXCEPT !.version = job[c].version,
                                               !.result = outcome]]

\* The leader's entry leaves the map, then its channel is closed: a request that
\* comes between the two starts a download of its own.
Forget(c) ==
    /\ Moves(c, "ending", "closing")
    /\ UNCHANGED <<disk, following, job, victims, promised, faults>>

\* Mutant: the channel is closed when the download succeeded.
AwakenedIfInstalled(c) ==
    {c} \cup {d \in Callers : pc[d] = "joined" /\ following[d] = c
                              /\ job[c].result # "error"}

\* Who returns when c closes its channel, with c's result: those who joined it, too.
Awakened(c) == {c} \cup {d \in Callers : pc[d] = "joined" /\ following[d] = c}

Close(c) ==
    /\ pc[c] = "closing"
    /\ pc' = [d \in Callers |-> IF d \in Awakened(c) THEN "idle" ELSE pc[d]]
    /\ job' = [d \in Callers |-> IF d \in Awakened(c) THEN NoJob ELSE job[d]]
    /\ following' = [d \in Callers |-> IF d \in Awakened(c) THEN d ELSE following[d]]
    /\ promised' = (promised \/ (job[c].result = "installed" /\ job[c].version = Pinned))
    /\ UNCHANGED <<disk, victims, faults>>

(***************************************************************************)
(* installOnce                                                             *)
(***************************************************************************)

Check(c) ==
    /\ pc[c] = "checking"
    /\ IF Usable(dir[job[c].version])
       THEN Ends(c, "present")
       ELSE Moves(c, "checking", "fetching") /\ UNCHANGED job
    /\ UNCHANGED <<disk, following, victims, promised, faults>>

\* Mutant: a genuine manifest is trusted whatever version it describes.
FetchManifestOfAny(c) ==
    /\ Moves(c, "fetching", "downloading")
    /\ \E m \in Versions : job' = [job EXCEPT ![c].manifest = m]
    /\ UNCHANGED <<disk, following, victims, promised, faults>>

\* The bucket may serve the signed manifest of any release: an unsigned one, and
\* one for another version, are refused.
FetchManifest(c) ==
    /\ Moves(c, "fetching", "downloading")
    /\ \E m \in Versions : /\ m = job[c].version
                           /\ job' = [job EXCEPT ![c].manifest = m]
    /\ UNCHANGED <<disk, following, victims, promised, faults>>

\* The bytes, 0 for those of no release, must have the digest in the manifest.
Download(c) ==
    /\ Moves(c, "downloading", "syncing")
    /\ \E b \in Versions \cup {0} :
          /\ b = job[c].manifest
          /\ job' = [job EXCEPT ![c].staged =
                        IF b = job[c].version THEN "whole" ELSE "wrong"]
    /\ UNCHANGED <<disk, following, victims, promised, faults>>

\* The binary and its directory are flushed before the rename.
Sync(c) ==
    /\ Moves(c, "syncing", "publishing")
    /\ job' = [job EXCEPT ![c].synced = TRUE]
    /\ UNCHANGED <<disk, following, victims, promised, faults>>

\* The staging directory takes the version's name, which must be free.
Publish(c) ==
    LET v == job[c].version
        build == job[c].staged
    IN  /\ Moves(c, "publishing", "flushing")
        /\ dir[v] = "none"
        /\ dir' = [dir EXCEPT ![v] = build]
        /\ former' = [former EXCEPT ![v] = @ \cup lasting[v]]
        /\ lasting' = [lasting EXCEPT ![v] =
                          IF job[c].synced THEN {build} ELSE {build, "short", "unusable"}]
        /\ UNCHANGED <<following, job, victims, promised, faults>>

\* Mutant: whatever occupies the destination passes for an installed version.
PublishOccupiedByAny(c) ==
    /\ pc[c] = "publishing"
    /\ dir[job[c].version] # "none"
    /\ Ends(c, "present")
    /\ UNCHANGED <<disk, following, victims, promised, faults>>

\* The name is taken: by a build another process published, or by debris.
PublishOccupied(c) ==
    /\ pc[c] = "publishing"
    /\ dir[job[c].version] # "none"
    /\ Ends(c, IF Usable(dir[job[c].version]) THEN "present" ELSE "error")
    /\ UNCHANGED <<disk, following, victims, promised, faults>>

\* Mutant: the rename is left to the page cache.
FlushRootForgotten(c) ==
    /\ pc[c] = "flushing"
    /\ Ends(c, "installed")
    /\ UNCHANGED <<disk, following, victims, promised, faults>>

\* The rename is flushed, and every other entry of the root.
FlushRoot(c) ==
    /\ pc[c] = "flushing"
    /\ former' = [v \in Versions |-> {}]
    /\ Ends(c, "installed")
    /\ UNCHANGED <<dir, lasting, following, victims, promised, faults>>

\* The bucket, a signature, a digest, the disk, or the leader's own context: the
\* staging directory is removed, a directory already published stays.
Fails(c) ==
    /\ pc[c] \in Working \ {"checking"}
    /\ Ends(c, "error")
    /\ UNCHANGED <<disk, following, victims, promised, faults>>

LeaderStep(c) ==
    \/ Check(c) \/ FetchManifest(c) \/ Download(c) \/ Sync(c) \/ Publish(c)
    \/ PublishOccupied(c) \/ FlushRoot(c) \/ Fails(c) \/ Forget(c) \/ Close(c)

(***************************************************************************)
(* Prune                                                                   *)
(***************************************************************************)

Installed == {v \in Versions : Usable(dir[v])}

Kept == IF Retention < 1 THEN 1 ELSE Retention

\* Neither among the newest Kept, nor protected.
Surplus ==
    {v \in Installed : Cardinality({w \in Installed : w > v}) >= Kept} \ {Pinned}

PruneCalled ==
    /\ victims = {}
    /\ victims' = Surplus
    /\ UNCHANGED <<disk, pc, following, job, promised, faults>>

NextVictim(v) == v \in victims /\ \A w \in victims : w <= v

\* RemoveAll: the binary first, then the directory.
PruneRemovesBinary(v) ==
    /\ NextVictim(v)
    /\ Usable(dir[v])
    /\ dir' = [dir EXCEPT ![v] = "unusable"]
    /\ lasting' = [lasting EXCEPT ![v] = @ \cup {"unusable"}]
    /\ UNCHANGED <<former, pc, following, job, victims, promised, faults>>

PruneRemovesDir(v) ==
    /\ NextVictim(v)
    /\ ~Usable(dir[v])
    /\ dir' = [dir EXCEPT ![v] = "none"]
    /\ former' = [former EXCEPT ![v] = @ \cup lasting[v]]
    /\ lasting' = [lasting EXCEPT ![v] = {"none"}]
    /\ victims' = victims \ {v}
    /\ UNCHANGED <<pc, following, job, promised, faults>>

\* A removal fails: the rest of the list is left alone.
PruneFails ==
    /\ victims # {}
    /\ victims' = {}
    /\ UNCHANGED <<disk, pc, following, job, promised, faults>>

(***************************************************************************)
(* Kills and power cuts                                                    *)
(***************************************************************************)

Stopped(S) ==
    /\ pc' = [c \in Callers |-> IF c \in S THEN "idle" ELSE pc[c]]
    /\ job' = [c \in Callers |-> IF c \in S THEN NoJob ELSE job[c]]
    /\ following' = [c \in Callers |-> IF c \in S THEN c ELSE following[c]]

\* The staging directories stay, and nothing looks there again.
Kill(p) ==
    /\ Fault
    /\ Stopped({c \in Callers : ProcessOf[c] = p})
    /\ victims' \in {victims, {}}
    /\ UNCHANGED <<disk, promised>>

PowerCut ==
    /\ Fault
    /\ Stopped(Callers)
    /\ dir' \in [Versions -> Contents]
    /\ \A v \in Versions : dir'[v] \in lasting[v] \cup former[v]
    /\ lasting' = [v \in Versions |-> {dir'[v]}]
    /\ former' = [v \in Versions |-> {}]
    /\ victims' = {}
    /\ UNCHANGED promised

Next ==
    \/ \E c \in Callers :
          \/ \E v \in AsksFor[c] : InstallCalled(c, v)
          \/ GivesUp(c)
          \/ LeaderStep(c)
    \/ PruneCalled
    \/ \E v \in Versions : PruneRemovesBinary(v) \/ PruneRemovesDir(v)
    \/ PruneFails
    \/ \E c \in Callers : Kill(ProcessOf[c])
    \/ PowerCut

Spec == Init /\ [][Next]_vars

\* A leader always goes on: the HTTP client gives every call thirty minutes.
FairSpec == Spec /\ \A c \in Callers : WF_vars(LeaderStep(c))

(***************************************************************************)
(* Safety                                                                  *)
(***************************************************************************)

\* What usable() accepts is the complete build of the version it is filed under:
\* no power cut, replayed manifest, kill or Prune leaves anything else in its place
\* (Manifest's version check, Sync before Rename).
OnlyVerified == \A v \in Versions : Usable(dir[v]) => dir[v] = "whole"

\* No two requests of a process download the same version (inflight).
OneDownload ==
    \A c, d \in Callers :
        /\ c # d /\ ProcessOf[c] = ProcessOf[d] /\ job[c].version = job[d].version
        => ~(pc[c] \in Working /\ pc[d] \in Working)

\* A leader that is about to answer with success has the pinned version in its place,
\* whatever Prune and the other processes did meanwhile (PublishOccupied).
SuccessHonest ==
    \A c \in Callers :
        job[c].result \in {"installed", "present"} /\ job[c].version = Pinned =>
            dir[Pinned] = "whole"

\* Once an install that downloaded the pinned version has answered, the version is
\* there for good: no kill, power cut or Prune takes it away (syncDir, protected).
PinnedKept == promised => dir[Pinned] = "whole"

(***************************************************************************)
(* Liveness                                                                *)
(***************************************************************************)

\* A request that joined a download is answered, or gone, each time: the leader's
\* channel is closed whatever became of the download.
JoinersAnswered ==
    \A c \in Callers : []<>(pc[c] # "joined")
=============================================================================
