-------------------------- MODULE InstallerProofs --------------------------
(***************************************************************************)
(* What Installer guarantees for any versions, retention, requests,        *)
(* processes, kills and power cuts.                                        *)
(***************************************************************************)
EXTENDS Installer, TLAPS

(***************************************************************************)
(* The inductive invariant                                                 *)
(***************************************************************************)

\* A leader has the right manifest before it has bytes, and flushed bytes before
\* the rename.
JobsSound ==
    \A c \in Callers :
        /\ pc[c] = "downloading" => job[c].manifest = job[c].version
        /\ pc[c] \in {"syncing", "publishing"} => job[c].staged = "whole"
        /\ pc[c] = "publishing" => job[c].synced

\* No place under the root holds, or can come to hold, a build that is not whole.
Sound == {"none", "unusable", "whole"}
DiskSound ==
    \A v \in Versions : dir[v] \in Sound /\ lasting[v] \subseteq Sound
                                         /\ former[v] \subseteq Sound

OneLeader ==
    \A c, d \in Callers :
        /\ c # d /\ ProcessOf[c] = ProcessOf[d] /\ job[c].version = job[d].version
        => ~(InFlight(c) /\ InFlight(d))

\* The pinned version is in its place; a power cut leaves it there; no older entry
\* of the root can come back.
Placed == dir[Pinned] = "whole" /\ lasting[Pinned] = {"whole"}
Flushed == Placed /\ former[Pinned] = {}

PinnedSafe ==
    /\ promised => Flushed
    /\ Pinned \notin victims
    /\ \A c \in Callers :
          job[c].version = Pinned =>
              /\ pc[c] = "flushing" => Placed
              /\ job[c].result = "installed" => Flushed
              /\ job[c].result = "present" => dir[Pinned] = "whole"

IInv == TypeOK /\ JobsSound /\ DiskSound /\ OneLeader /\ PinnedSafe

LEMMA NoJobType == NoJob \in Jobs /\ NoJob.result = "none"
BY DEF NoJob, Jobs

LEMMA IInvInit == Init => IInv
<1> SUFFICES ASSUME Init PROVE IInv
    OBVIOUS
<1> USE DEF Init
<1>1. TypeOK
    <2>1. dir \in [Versions -> Contents] /\ lasting \in [Versions -> SUBSET Contents]
          /\ former \in [Versions -> SUBSET Contents]
        BY DEF Contents
    <2>2. pc \in [Callers -> Places] /\ \A c \in Callers : pc[c] = "idle"
        BY DEF Places
    <2> QED
        BY <2>1, <2>2, NoJobType, BoundsAssumption DEF TypeOK
<1>2. JobsSound /\ DiskSound /\ OneLeader
    BY DEF JobsSound, DiskSound, Sound, OneLeader, InFlight, Working
<1>3. PinnedSafe
    BY NoJobType DEF PinnedSafe
<1> QED
    BY <1>1, <1>2, <1>3 DEF IInv

\* A step of one request that leaves the disk, Prune and the promise alone.
LEMMA RequestLocal ==
    ASSUME IInv, NEW c \in Callers,
           UNCHANGED <<disk, victims, promised, faults>>,
           following' \in [Callers -> Callers],
           NEW to \in Places, NEW j \in Jobs,
           pc' = [pc EXCEPT ![c] = to], job' = [job EXCEPT ![c] = j],
           to # "idle" => j.version \in Versions,
           to = "downloading" => j.manifest = j.version,
           to \in {"syncing", "publishing"} => j.staged = "whole",
           to = "publishing" => j.synced,
           j.version = Pinned =>
              /\ to = "flushing" => Placed
              /\ j.result = "installed" => Flushed
              /\ j.result = "present" => dir[Pinned] = "whole",
           to \in Working \cup {"ending"} =>
              \A d \in Callers \ {c} :
                 ProcessOf[d] = ProcessOf[c] /\ job[d].version = j.version => ~InFlight(d)
    PROVE  IInv'
<1> USE DEF IInv, disk
<1>1. TypeOK'
    BY DEF TypeOK, Builds
<1>2. JobsSound'
    BY DEF JobsSound, TypeOK
<1>3. DiskSound'
    BY DEF DiskSound
<1>4. OneLeader'
    BY DEF OneLeader, InFlight, TypeOK
<1>5. PinnedSafe'
    BY DEF PinnedSafe, Placed, Flushed, TypeOK
<1> QED
    BY <1>1, <1>2, <1>3, <1>4, <1>5

LEMMA InstallCalledStep ==
    ASSUME IInv, NEW c \in Callers, NEW v \in Versions, InstallCalled(c, v)
    PROVE  IInv'
<1> DEFINE j == [NoJob EXCEPT !.version = v]
<1>1. j \in Jobs /\ j.version = v /\ j.result = "none"
    BY DEF NoJob, Jobs
<1>2. job' = [job EXCEPT ![c] = j]
    BY DEF InstallCalled
<1> HIDE DEF j
<1>3. following \in [Callers -> Callers]
    BY DEF IInv, TypeOK
<1>4. CASE LeadersOf(c, v) = {}
    <2>1. \A d \in Callers \ {c} :
             ProcessOf[d] = ProcessOf[c] /\ job[d].version = j.version => ~InFlight(d)
        BY <1>1, <1>4 DEF LeadersOf
    <2>2. pc' = [pc EXCEPT ![c] = "checking"] /\ following' = following
          /\ UNCHANGED <<disk, victims, promised, faults>>
        BY <1>4 DEF InstallCalled
    <2> QED
        BY <1>1, <1>2, <1>3, <2>1, <2>2, RequestLocal DEF Places, Working
<1>5. CASE LeadersOf(c, v) # {}
    <2>1. PICK l \in Callers : following' = [following EXCEPT ![c] = l]
        BY <1>5 DEF InstallCalled, LeadersOf
    <2>2. pc' = [pc EXCEPT ![c] = "joined"]
          /\ UNCHANGED <<disk, victims, promised, faults>>
        BY <1>5 DEF InstallCalled
    <2> QED
        BY <1>1, <1>2, <1>3, <2>1, <2>2, RequestLocal DEF Places, Working
<1> QED
    BY <1>4, <1>5

LEMMA GivesUpStep ==
    ASSUME IInv, NEW c \in Callers, GivesUp(c)
    PROVE  IInv'
<1>1. following' \in [Callers -> Callers]
    BY DEF GivesUp, IInv, TypeOK
<1> QED
    BY <1>1, NoJobType, RequestLocal DEF GivesUp, Places, Working

\* What is true of a leader, and of the others while it leads.
LEMMA Leading ==
    ASSUME IInv, NEW c \in Callers, InFlight(c)
    PROVE  /\ job[c] \in Jobs
           /\ job[c].version \in Versions
           /\ following \in [Callers -> Callers]
           /\ \A d \in Callers \ {c} :
                 ProcessOf[d] = ProcessOf[c] /\ job[d].version = job[c].version
                     => ~InFlight(d)
<1>1. pc[c] # "idle"
    BY DEF InFlight, Working
<1> QED
    BY <1>1 DEF IInv, TypeOK, OneLeader

\* A leader's step that ends installOnce.
LEMMA EndsStep ==
    ASSUME IInv, NEW c \in Callers, InFlight(c),
           NEW outcome \in {"installed", "present", "error"}, Ends(c, outcome),
           UNCHANGED <<disk, following, victims, promised, faults>>,
           job[c].version = Pinned =>
              /\ outcome = "installed" => Flushed
              /\ outcome = "present" => dir[Pinned] = "whole"
    PROVE  IInv'
<1> DEFINE j == [NoJob EXCEPT !.version = job[c].version, !.result = outcome]
<1>1. j \in Jobs /\ j.version = job[c].version /\ j.result = outcome
    BY Leading DEF NoJob, Jobs
<1>2. job' = [job EXCEPT ![c] = j] /\ pc' = [pc EXCEPT ![c] = "ending"]
    BY DEF Ends
<1> HIDE DEF j
<1> QED
    BY <1>1, <1>2, Leading, RequestLocal DEF Places, Working

\* A leader's step that neither ends installOnce nor writes the disk.
LEMMA MovesStep ==
    ASSUME IInv, NEW c \in Callers, InFlight(c), NEW to, NEW j,
           to \in Places, to # "idle", to # "flushing",
           pc' = [pc EXCEPT ![c] = to],
           j \in Jobs, job' = [job EXCEPT ![c] = j],
           j.version = job[c].version, j.result = job[c].result,
           to = "downloading" => j.manifest = j.version,
           to \in {"syncing", "publishing"} => j.staged = "whole",
           to = "publishing" => j.synced,
           UNCHANGED <<disk, following, victims, promised, faults>>
    PROVE  IInv'
<1>1. j.version = Pinned =>
         /\ j.result = "installed" => Flushed
         /\ j.result = "present" => dir[Pinned] = "whole"
    BY DEF IInv, PinnedSafe
<1> QED
    BY <1>1, Leading, RequestLocal

LEMMA CheckStep ==
    ASSUME IInv, NEW c \in Callers, Check(c)
    PROVE  IInv'
<1>1. InFlight(c)
    BY DEF Check, InFlight, Working
<1>2. CASE Usable(dir[job[c].version])
    <2>1. dir[job[c].version] = "whole"
        BY <1>1, <1>2, Leading DEF IInv, DiskSound, Sound, Usable, Builds
    <2> QED
        BY <1>1, <1>2, <2>1, EndsStep DEF Check
<1>3. CASE ~Usable(dir[job[c].version])
    <2>1. job[c] \in Jobs /\ job \in [Callers -> Jobs]
        BY DEF IInv, TypeOK
    <2>2. pc' = [pc EXCEPT ![c] = "fetching"] /\ job' = [job EXCEPT ![c] = job[c]]
          /\ UNCHANGED <<disk, following, victims, promised, faults>>
        BY <1>3, <2>1 DEF Check, Moves
    <2> QED
        BY <1>1, <2>1, <2>2, MovesStep DEF Places, Working
<1> QED
    BY <1>2, <1>3

LEMMA FetchManifestStep ==
    ASSUME IInv, NEW c \in Callers, FetchManifest(c)
    PROVE  IInv'
<1> DEFINE j == [job[c] EXCEPT !.manifest = job[c].version]
<1>1. InFlight(c)
    BY DEF FetchManifest, Moves, InFlight, Working
<1>2. /\ j \in Jobs /\ j.version = job[c].version /\ j.manifest = job[c].version
      /\ j.result = job[c].result
    BY <1>1, Leading DEF Jobs
<1>3. job' = [job EXCEPT ![c] = j] /\ pc' = [pc EXCEPT ![c] = "downloading"]
      /\ UNCHANGED <<disk, following, victims, promised, faults>>
    BY DEF FetchManifest, Moves
<1> HIDE DEF j
<1> QED
    BY <1>1, <1>2, <1>3, MovesStep DEF Places, Working

LEMMA DownloadStep ==
    ASSUME IInv, NEW c \in Callers, Download(c)
    PROVE  IInv'
<1> DEFINE j == [job[c] EXCEPT !.staged = "whole"]
<1>1. InFlight(c) /\ pc[c] = "downloading"
    BY DEF Download, Moves, InFlight, Working
<1>2. /\ j \in Jobs /\ j.version = job[c].version /\ j.staged = "whole"
      /\ j.result = job[c].result
    BY <1>1, Leading DEF Jobs, Builds
<1>3. job[c].manifest = job[c].version
    BY <1>1 DEF IInv, JobsSound
<1>4. job' = [job EXCEPT ![c] = j] /\ pc' = [pc EXCEPT ![c] = "syncing"]
      /\ UNCHANGED <<disk, following, victims, promised, faults>>
    BY <1>3 DEF Download, Moves
<1> HIDE DEF j
<1> QED
    BY <1>1, <1>2, <1>4, MovesStep DEF Places, Working

LEMMA SyncStep ==
    ASSUME IInv, NEW c \in Callers, Sync(c)
    PROVE  IInv'
<1> DEFINE j == [job[c] EXCEPT !.synced = TRUE]
<1>1. InFlight(c) /\ pc[c] = "syncing"
    BY DEF Sync, Moves, InFlight, Working
<1>2. /\ j \in Jobs /\ j.version = job[c].version /\ j.staged = job[c].staged /\ j.synced
      /\ j.result = job[c].result
    BY <1>1, Leading DEF Jobs
<1>3. job[c].staged = "whole"
    BY <1>1 DEF IInv, JobsSound
<1>4. job' = [job EXCEPT ![c] = j] /\ pc' = [pc EXCEPT ![c] = "publishing"]
      /\ UNCHANGED <<disk, following, victims, promised, faults>>
    BY DEF Sync, Moves
<1> HIDE DEF j
<1> QED
    BY <1>1, <1>2, <1>3, <1>4, MovesStep DEF Places, Working

LEMMA ForgetStep ==
    ASSUME IInv, NEW c \in Callers, Forget(c)
    PROVE  IInv'
<1>1. InFlight(c) /\ pc[c] = "ending"
    BY DEF Forget, Moves, InFlight
<1>2. job[c] \in Jobs /\ job \in [Callers -> Jobs]
    BY DEF IInv, TypeOK
<1>3. job' = [job EXCEPT ![c] = job[c]] /\ pc' = [pc EXCEPT ![c] = "closing"]
      /\ UNCHANGED <<disk, following, victims, promised, faults>>
    BY <1>2 DEF Forget, Moves
<1> QED
    BY <1>1, <1>2, <1>3, MovesStep DEF Places, Working

LEMMA PublishStep ==
    ASSUME IInv, NEW c \in Callers, Publish(c)
    PROVE  IInv'
<1> DEFINE v == job[c].version
<1>1. InFlight(c) /\ pc[c] = "publishing" /\ dir[v] = "none"
    BY DEF Publish, Moves, InFlight, Working
<1>2. job[c].staged = "whole" /\ job[c].synced /\ v \in Versions
    BY <1>1, Leading DEF IInv, JobsSound
<1>3. /\ dir' = [dir EXCEPT ![v] = "whole"]
      /\ former' = [former EXCEPT ![v] = @ \cup lasting[v]]
      /\ lasting' = [lasting EXCEPT ![v] = {"whole"}]
      /\ pc' = [pc EXCEPT ![c] = "flushing"]
      /\ UNCHANGED <<following, job, victims, promised, faults>>
    BY <1>2 DEF Publish, Moves
<1> HIDE DEF v
<1> USE DEF IInv
<1>4. TypeOK'
    <2>1. dir' \in [Versions -> Contents] /\ lasting' \in [Versions -> SUBSET Contents]
          /\ former' \in [Versions -> SUBSET Contents]
        BY <1>2, <1>3 DEF TypeOK, Contents
    <2>2. pc' \in [Callers -> Places]
        BY <1>3 DEF TypeOK, Places, Working
    <2> QED
        BY <1>1, <1>3, <2>1, <2>2 DEF TypeOK
<1>5. JobsSound' /\ DiskSound'
    BY <1>2, <1>3 DEF JobsSound, DiskSound, Sound, TypeOK
<1>6. OneLeader'
    BY <1>1, <1>3 DEF OneLeader, InFlight, Working, TypeOK
<1>7. PinnedSafe'
    <2>1. CASE v = Pinned
        <3>1. ~promised /\ \A d \in Callers : job[d].version = Pinned =>
                 job[d].result \notin {"installed", "present"} /\ pc[d] # "flushing"
            BY <1>1, <2>1 DEF PinnedSafe, Flushed, Placed, v
        <3>2. Placed'
            BY <1>2, <1>3, <2>1 DEF Placed, TypeOK
        <3> QED
            BY <1>3, <3>1, <3>2 DEF PinnedSafe
    <2>2. CASE v # Pinned
        BY <1>2, <1>3, <2>2 DEF PinnedSafe, Flushed, Placed, TypeOK, v
    <2> QED
        BY <2>1, <2>2
<1> QED
    BY <1>4, <1>5, <1>6, <1>7

LEMMA FlushRootStep ==
    ASSUME IInv, NEW c \in Callers, FlushRoot(c)
    PROVE  IInv'
<1> DEFINE j == [NoJob EXCEPT !.version = job[c].version, !.result = "installed"]
<1>1. InFlight(c) /\ pc[c] = "flushing"
    BY DEF FlushRoot, InFlight, Working
<1>2. j \in Jobs /\ j.version = job[c].version /\ j.version \in Versions
    BY <1>1, Leading DEF NoJob, Jobs
<1>3. /\ job' = [job EXCEPT ![c] = j] /\ pc' = [pc EXCEPT ![c] = "ending"]
      /\ former' = [v \in Versions |-> {}]
      /\ UNCHANGED <<dir, lasting, following, victims, promised, faults>>
    BY DEF FlushRoot, Ends
<1> HIDE DEF j
<1> USE DEF IInv
<1>4. TypeOK'
    <2>1. pc' \in [Callers -> Places] /\ job' \in [Callers -> Jobs]
        BY <1>2, <1>3 DEF TypeOK, Places
    <2> QED
        BY <1>2, <1>3, <2>1 DEF TypeOK
<1>5. JobsSound' /\ DiskSound'
    BY <1>2, <1>3 DEF JobsSound, DiskSound, Sound, TypeOK
<1>6. OneLeader'
    BY <1>1, <1>2, <1>3 DEF OneLeader, InFlight, Working, TypeOK
<1>7. PinnedSafe'
    <2>1. former'[Pinned] = {}
        BY <1>3, VersionsAssumption
    <2>2. Placed => Flushed'
        BY <1>3, <2>1 DEF Placed, Flushed
    <2>3. \A d \in Callers \ {c} : job'[d] = job[d] /\ pc'[d] = pc[d]
        BY <1>3 DEF TypeOK
    <2>4. job'[c] = j /\ pc'[c] = "ending"
        BY <1>3 DEF TypeOK
    <2>5. j.version = Pinned => Placed
        BY <1>1, <1>2 DEF PinnedSafe
    <2>6. UNCHANGED dir /\ UNCHANGED lasting /\ UNCHANGED victims /\ UNCHANGED promised
        BY <1>3
    <2> QED
        BY <2>1, <2>2, <2>3, <2>4, <2>5, <2>6 DEF PinnedSafe, Placed, Flushed
<1> QED
    BY <1>4, <1>5, <1>6, <1>7

\* Some requests return, or die with their process; the disk stays as it is.
LEMMA ReturnStep ==
    ASSUME IInv, NEW S \in SUBSET Callers,
           pc' = [d \in Callers |-> IF d \in S THEN "idle" ELSE pc[d]],
           job' = [d \in Callers |-> IF d \in S THEN NoJob ELSE job[d]],
           following' = [d \in Callers |-> IF d \in S THEN d ELSE following[d]],
           UNCHANGED disk, victims' \subseteq victims, faults' \in Nat,
           promised' \in BOOLEAN, promised' => Flushed
    PROVE  IInv'
<1> USE DEF IInv, disk
<1>1. \A d \in Callers : \/ pc'[d] = "idle" /\ job'[d] = NoJob
                         \/ pc'[d] = pc[d] /\ job'[d] = job[d]
    OBVIOUS
<1>2. TypeOK'
    BY NoJobType DEF TypeOK, Places, Builds
<1>3. JobsSound' /\ DiskSound'
    BY <1>1 DEF JobsSound, DiskSound
<1>4. OneLeader'
    <2>1. \A d \in Callers : InFlight(d)' => InFlight(d) /\ job'[d] = job[d]
        BY <1>1 DEF InFlight, Working
    <2> QED
        BY <2>1 DEF OneLeader
<1>5. PinnedSafe'
    BY <1>1, NoJobType DEF PinnedSafe, Placed, Flushed
<1> QED
    BY <1>2, <1>3, <1>4, <1>5

LEMMA CloseStep ==
    ASSUME IInv, NEW c \in Callers, Close(c)
    PROVE  IInv'
<1>1. Awakened(c) \in SUBSET Callers
    BY DEF Awakened
<1>2. promised' \in BOOLEAN /\ (promised' => Flushed)
    BY DEF Close, IInv, TypeOK, PinnedSafe
<1>3. UNCHANGED disk /\ victims' \subseteq victims /\ faults' \in Nat
    BY DEF Close, IInv, TypeOK
<1> QED
    BY <1>1, <1>2, <1>3, ReturnStep DEF Close

LEMMA KillStep ==
    ASSUME IInv, NEW p, Kill(p)
    PROVE  IInv'
<1>1. {c \in Callers : ProcessOf[c] = p} \in SUBSET Callers
    OBVIOUS
<1>2. UNCHANGED disk /\ victims' \subseteq victims /\ faults' \in Nat
    BY DEF Kill, Fault, IInv, TypeOK
<1>3. promised' \in BOOLEAN /\ (promised' => Flushed)
    BY DEF Kill, IInv, TypeOK, PinnedSafe
<1> QED
    BY <1>1, <1>2, <1>3, ReturnStep DEF Kill, Stopped

\* Prune never touches the pinned version, and works on the disk alone.
LEMMA PruneDisk ==
    ASSUME IInv, UNCHANGED <<pc, following, job, promised, faults>>,
           victims' \subseteq victims,
           NEW v \in victims, NEW content \in {"none", "unusable"},
           NEW left \in SUBSET Sound, NEW before \in SUBSET Sound,
           dir' = [dir EXCEPT ![v] = content],
           lasting' = [lasting EXCEPT ![v] = left],
           former' = [former EXCEPT ![v] = before]
    PROVE  IInv'
<1> USE DEF IInv
<1>1. v \in Versions /\ v # Pinned
    BY DEF TypeOK, PinnedSafe
<1>2. TypeOK'
    <2>1. dir' \in [Versions -> Contents] /\ lasting' \in [Versions -> SUBSET Contents]
          /\ former' \in [Versions -> SUBSET Contents]
        BY <1>1 DEF TypeOK, Contents, Sound
    <2> QED
        BY <2>1 DEF TypeOK
<1>3. DiskSound'
    BY <1>1 DEF DiskSound, Sound, TypeOK
<1>4. JobsSound' /\ OneLeader'
    BY DEF JobsSound, OneLeader, InFlight
<1>5. PinnedSafe'
    BY <1>1 DEF PinnedSafe, Placed, Flushed, TypeOK
<1> QED
    BY <1>2, <1>3, <1>4, <1>5

LEMMA PruneStep ==
    ASSUME IInv, NEW v \in Versions, PruneRemovesBinary(v) \/ PruneRemovesDir(v)
    PROVE  IInv'
<1>1. v \in victims /\ lasting[v] \in SUBSET Sound /\ former[v] \in SUBSET Sound
    BY DEF PruneRemovesBinary, PruneRemovesDir, NextVictim, IInv, DiskSound
<1>2. CASE PruneRemovesBinary(v)
    <2>1. lasting[v] \cup {"unusable"} \in SUBSET Sound
        BY <1>1 DEF Sound
    <2>2. former' = [former EXCEPT ![v] = former[v]]
        BY <1>2 DEF PruneRemovesBinary, IInv, TypeOK
    <2>3. /\ dir' = [dir EXCEPT ![v] = "unusable"]
          /\ lasting' = [lasting EXCEPT ![v] = lasting[v] \cup {"unusable"}]
          /\ UNCHANGED <<pc, following, job, promised, faults>>
          /\ victims' \subseteq victims
        BY <1>2 DEF PruneRemovesBinary
    <2> QED
        BY <1>1, <2>1, <2>2, <2>3, PruneDisk
<1>3. CASE PruneRemovesDir(v)
    <2>1. former[v] \cup lasting[v] \in SUBSET Sound /\ {"none"} \in SUBSET Sound
        BY <1>1 DEF Sound
    <2>2. /\ dir' = [dir EXCEPT ![v] = "none"]
          /\ lasting' = [lasting EXCEPT ![v] = {"none"}]
          /\ former' = [former EXCEPT ![v] = former[v] \cup lasting[v]]
          /\ UNCHANGED <<pc, following, job, promised, faults>>
          /\ victims' \subseteq victims
        BY <1>3 DEF PruneRemovesDir
    <2> QED
        BY <1>1, <2>1, <2>2, PruneDisk
<1> QED
    BY <1>2, <1>3

\* The list of a Prune that begins or gives up.
LEMMA VictimsStep ==
    ASSUME IInv, UNCHANGED <<disk, pc, following, job, promised, faults>>,
           victims' \subseteq Versions \ {Pinned}
    PROVE  IInv'
<1> USE DEF IInv, disk
<1>1. TypeOK'
    BY DEF TypeOK
<1>2. JobsSound' /\ DiskSound' /\ OneLeader'
    BY DEF JobsSound, DiskSound, OneLeader, InFlight
<1>3. PinnedSafe'
    BY DEF PinnedSafe, Placed, Flushed
<1> QED
    BY <1>1, <1>2, <1>3

LEMMA PowerCutStep ==
    ASSUME IInv, PowerCut
    PROVE  IInv'
<1> USE DEF IInv
<1>1. /\ pc' = [c \in Callers |-> "idle"] /\ job' = [c \in Callers |-> NoJob]
      /\ following' = [c \in Callers |-> c]
    BY DEF PowerCut, Stopped
<1>2. /\ dir' \in [Versions -> Contents]
      /\ \A v \in Versions : dir'[v] \in lasting[v] \cup former[v]
      /\ lasting' = [v \in Versions |-> {dir'[v]}]
      /\ former' = [v \in Versions |-> {}]
      /\ victims' = {} /\ promised' = promised /\ faults' \in Nat
    BY DEF PowerCut, Fault, TypeOK
<1>3. TypeOK'
    <2>1. lasting' \in [Versions -> SUBSET Contents] /\ former' \in [Versions -> SUBSET Contents]
        BY <1>2
    <2> QED
        BY <1>1, <1>2, <2>1, NoJobType DEF TypeOK, Places
<1>4. JobsSound' /\ OneLeader'
    BY <1>1 DEF JobsSound, OneLeader, InFlight, Working
<1>5. DiskSound'
    <2> SUFFICES ASSUME NEW v \in Versions
                 PROVE  dir'[v] \in Sound /\ lasting'[v] \subseteq Sound
                                          /\ former'[v] \subseteq Sound
        BY DEF DiskSound
    <2>1. dir'[v] \in Sound
        BY <1>2 DEF DiskSound
    <2> QED
        BY <1>2, <2>1
<1>6. PinnedSafe'
    <2>1. promised => Flushed'
        <3> SUFFICES ASSUME promised PROVE Flushed'
            OBVIOUS
        <3>1. lasting[Pinned] = {"whole"} /\ former[Pinned] = {}
            BY DEF PinnedSafe, Flushed, Placed
        <3> QED
            BY <1>2, <3>1, VersionsAssumption DEF Flushed, Placed
    <2> QED
        BY <1>1, <1>2, <2>1, NoJobType DEF PinnedSafe
<1> QED
    BY <1>3, <1>4, <1>5, <1>6

LEMMA IInvStep == IInv /\ [Next]_vars => IInv'
<1> SUFFICES ASSUME IInv, [Next]_vars PROVE IInv'
    OBVIOUS
<1>1. ASSUME NEW c \in Callers, NEW v \in AsksFor[c], InstallCalled(c, v) PROVE IInv'
    <2>1. v \in Versions
        BY <1>1, VersionsAssumption
    <2> QED
        BY <1>1, <2>1, InstallCalledStep
<1>2. ASSUME NEW c \in Callers, GivesUp(c) PROVE IInv'
    BY <1>2, GivesUpStep
<1>3. ASSUME NEW c \in Callers, LeaderStep(c) PROVE IInv'
    <2>1. CASE PublishOccupied(c)
        <3>1. InFlight(c)
            BY <2>1 DEF PublishOccupied, InFlight, Working
        <3>2. Usable(dir[job[c].version]) => dir[job[c].version] = "whole"
            BY <3>1, Leading DEF IInv, DiskSound, Sound, Usable, Builds
        <3>3. CASE Usable(dir[job[c].version])
            BY <2>1, <3>1, <3>2, <3>3, EndsStep DEF PublishOccupied
        <3>4. CASE ~Usable(dir[job[c].version])
            BY <2>1, <3>1, <3>4, EndsStep DEF PublishOccupied
        <3> QED
            BY <3>3, <3>4
    <2>2. CASE Fails(c)
        <3>1. InFlight(c)
            BY <2>2 DEF Fails, InFlight
        <3> QED
            BY <2>2, <3>1, EndsStep DEF Fails
    <2> QED
        BY <1>3, <2>1, <2>2, CheckStep, FetchManifestStep, DownloadStep, SyncStep, PublishStep,
           FlushRootStep, ForgetStep, CloseStep DEF LeaderStep
<1>4. CASE PruneCalled
    BY <1>4, VictimsStep DEF PruneCalled, Surplus, Installed
<1>5. ASSUME NEW v \in Versions, PruneRemovesBinary(v) \/ PruneRemovesDir(v) PROVE IInv'
    BY <1>5, PruneStep
<1>6. CASE PruneFails
    BY <1>6, VictimsStep DEF PruneFails
<1>7. ASSUME NEW c \in Callers, Kill(ProcessOf[c]) PROVE IInv'
    BY <1>7, KillStep
<1>8. CASE PowerCut
    BY <1>8, PowerCutStep
<1>9. CASE UNCHANGED vars
    BY <1>9 DEF vars, disk, IInv, TypeOK, JobsSound, DiskSound, OneLeader, InFlight,
       PinnedSafe, Placed, Flushed
<1> QED
    BY <1>1, <1>2, <1>3, <1>4, <1>5, <1>6, <1>7, <1>8, <1>9 DEF Next

LEMMA IInvAlways == Spec => []IInv
BY IInvInit, IInvStep, PTL DEF Spec

(***************************************************************************)
(* What the run checks, for every instance                                 *)
(***************************************************************************)

\* Every variable keeps its type, whatever fails and whoever dies (Install).
THEOREM TypeCorrect == Spec => []TypeOK
BY IInvAlways, PTL DEF IInv

\* Only a complete build of a version ever passes for that version: unverified and
\* unflushed bytes are never where usable() looks (installOnce).
THEOREM VerifiedOnly == Spec => []OnlyVerified
<1>1. IInv => OnlyVerified
    BY DEF IInv, DiskSound, Sound, OnlyVerified, Usable, Builds
<1> QED
    BY <1>1, IInvAlways, PTL

\* A process has one download of a version under way (Install, inflight).
THEOREM DownloadsJoin == Spec => []OneDownload
<1>1. IInv => OneDownload
    BY DEF IInv, OneLeader, InFlight, OneDownload
<1> QED
    BY <1>1, IInvAlways, PTL

\* A successful answer is true of the pinned version (installOnce).
THEOREM AnswersHonest == Spec => []SuccessHonest
<1>1. IInv => SuccessHonest
    BY DEF IInv, PinnedSafe, Flushed, Placed, SuccessHonest
<1> QED
    BY <1>1, IInvAlways, PTL

\* The pinned version, once installed and answered for, outlives kills, power cuts and
\* Prune (syncDir, Prune).
THEOREM PinnedStays == Spec => []PinnedKept
<1>1. IInv => PinnedKept
    BY DEF IInv, PinnedSafe, Flushed, Placed, PinnedKept
<1> QED
    BY <1>1, IInvAlways, PTL
=============================================================================
