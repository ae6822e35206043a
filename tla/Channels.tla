------------------------------ MODULE Channels ------------------------------
(***************************************************************************)
(* Which release a daemon takes: the channel heads bomgen publishes, the   *)
(* recency rule of service/update.go that Check and Apply share, and the   *)
(* watermark that stands in for a bill of materials that is gone.          *)
(*                                                                         *)
(* Releases are numbered in publication order, so a number is also a       *)
(* publication time; 0 is the zero time.  How a build is swapped in,       *)
(* booted and confirmed is Updater's subject: here it is one step.         *)
(***************************************************************************)
EXTENDS Integers, FiniteSetsExt

CONSTANTS
    Releases,       \* every release there will be, in publication order
    CutInto,        \* the channel each is cut into
    VersionOf,      \* the daemon version each names, ranked as semver ranks it
    Failing,        \* releases whose daemon does not come up
    MaxLies,        \* bound: answers of the host that hide a document or replay a head
    MaxSwitches,    \* bound: changes of update.channel
    MaxMishaps      \* bound: crashes between the record and the swap

Undated == 0
ChannelNames == <<"stable", "beta", "edge">>    \* most vetted first
EveryChannel == {"stable", "beta", "edge"}

ASSUME ReleasesAssumption ==
    /\ Releases \subseteq Nat \ {Undated}
    /\ CutInto \in [Releases -> EveryChannel]
    /\ VersionOf \in [Releases -> Nat]
    /\ \E r \in Releases : CutInto[r] = "stable" /\ \A s \in Releases : r <= s
ASSUME BoundsAssumption == MaxLies \in Nat /\ MaxSwitches \in Nat /\ MaxMishaps \in Nat

VARIABLES
    published,      \* releases the host has published
    channel,        \* update.channel
    binary,         \* the release whose build is at the binary path
    running,        \* deps.Release: the release stamped into the running build
    row,            \* update_state: status and to_version
    watermark,      \* update_state.to_published_at
    offered,        \* the version Check offered and Apply is to install, if any
    lies, switches, mishaps     \* counted against their bounds

host == <<published, lies>>
bounds == <<switches, mishaps>>
vars == <<host, channel, binary, running, row, watermark, offered, bounds>>

NoVersion == -1
Versions == {VersionOf[r] : r \in Releases}

(***************************************************************************)
(* bomgen: what the site serves.                                           *)
(***************************************************************************)

Permissiveness(c) == CHOOSE i \in DOMAIN ChannelNames : ChannelNames[i] = c
Receives(c, cut) == Permissiveness(c) >= Permissiveness(cut)
Received(c) == {r \in published : Receives(c, CutInto[r])}

\* The most recently published release the channel receives.
HeadOf(c) == Max(Received(c))

\* Mutant: the build carries no release label.
BuiltUnstamped(r) == Undated

\* The release that built the daemon r ships: r itself, or the one it carries the
\* component over from.  The build is stamped with the label of that release.
BuiltBy(r) == Min({s \in Releases : s <= r /\ VersionOf[s] = VersionOf[r]})

\* An honest answer, and one where the running release's own document is withheld or
\* an older head, genuine and signed, is replayed.
Honest == [head |-> HeadOf(channel), served |-> TRUE]
Answers == [head : Received(channel), served : BOOLEAN]
Answered(a) ==
    \/ a = Honest /\ UNCHANGED lies
    \/ a # Honest /\ lies < MaxLies /\ lies' = lies + 1

(***************************************************************************)
(* The rule Check and Apply decide by.                                     *)
(***************************************************************************)

\* It counts only while it belongs to the running build.
Floor ==
    IF row.to = VersionOf[running] /\ row.status \in {"pending", "confirmed"}
    THEN watermark
    ELSE Undated

\* Mutant: a document that is gone dates the build at nothing.
PublishedAtUnfloored(served) == IF served THEN running ELSE Undated

\* When the release the running build was shipped in was published.
PublishedAt(served) == IF served THEN running ELSE Floor

Later(candidate, current) == candidate # Undated /\ candidate > current

\* Mutant: every channel wants a greater version.
SupersedesBySemver(h, at) == Later(h, at) /\ VersionOf[h] > VersionOf[running]

\* Mutant: every channel follows the date.
SupersedesByDate(h, at) == Later(h, at)

Supersedes(h, at) ==
    /\ Later(h, at)
    /\ channel = "edge" \/ VersionOf[h] > VersionOf[running]

TypeOK ==
    /\ published \subseteq Releases
    /\ channel \in EveryChannel
    /\ binary \in Releases
    /\ running \in Releases
    /\ row \in [status : {"idle", "pending", "confirmed", "rolled_back"},
                to : Versions \cup {NoVersion}]
    /\ watermark \in Releases \cup {Undated}
    /\ offered \in Versions \cup {NoVersion}
    /\ lies \in 0..MaxLies /\ switches \in 0..MaxSwitches /\ mishaps \in 0..MaxMishaps

\* A machine installed from the first stable release.
Init ==
    /\ published = {Min(Releases)}
    /\ channel \in EveryChannel
    /\ binary = Min(Releases)
    /\ running = binary
    /\ row = [status |-> "idle", to |-> NoVersion]
    /\ watermark = Undated
    /\ offered = NoVersion
    /\ lies = 0 /\ switches = 0 /\ mishaps = 0

Publish ==
    /\ published # Releases
    /\ published' = published \cup {Min(Releases \ published)}
    /\ UNCHANGED <<lies, channel, binary, running, row, watermark, offered, bounds>>

SetChannel(c) ==
    /\ c # channel
    /\ switches < MaxSwitches
    /\ switches' = switches + 1
    /\ channel' = c
    /\ UNCHANGED <<host, binary, running, row, watermark, offered, mishaps>>

\* The runner's check offers the head it was answered.
Check ==
    /\ offered = NoVersion
    /\ \E a \in Answers :
          /\ Answered(a)
          /\ Supersedes(a.head, PublishedAt(a.served))
          /\ offered' = VersionOf[a.head]
    /\ UNCHANGED <<published, channel, binary, running, row, watermark, bounds>>

\* Apply asks again, and installs what the head ships now if that is the version it
\* was asked for: the row and the watermark in one transaction, then the swap.
Accepted(h, served) ==
    /\ VersionOf[h] = offered
    /\ Supersedes(h, PublishedAt(served))
    /\ row.status # "pending"

\* Mutant: the watermark is left for somebody else to write.
RecordRowOnly(h) ==
    /\ row' = [status |-> "pending", to |-> VersionOf[h]]
    /\ UNCHANGED watermark

Record(h) ==
    /\ row' = [status |-> "pending", to |-> VersionOf[h]]
    /\ watermark' = h

Apply ==
    /\ offered # NoVersion
    /\ \E a \in Answers :
          /\ Answered(a)
          /\ Accepted(a.head, a.served)
          /\ Record(a.head)
          /\ binary' = BuiltBy(a.head)
    /\ offered' = NoVersion
    /\ UNCHANGED <<published, channel, running, bounds>>

\* A crash between the record and the swap.
ApplyInterrupted ==
    /\ offered # NoVersion
    /\ mishaps < MaxMishaps
    /\ mishaps' = mishaps + 1
    /\ \E a \in Answers : Answered(a) /\ Accepted(a.head, a.served) /\ Record(a.head)
    /\ offered' = NoVersion
    /\ UNCHANGED <<published, channel, binary, running, switches>>

\* The head moved on, it no longer supersedes, or the row is pending.
ApplyRefused ==
    /\ offered # NoVersion
    /\ \E a \in Answers : Answered(a) /\ ~Accepted(a.head, a.served)
    /\ offered' = NoVersion
    /\ UNCHANGED <<published, channel, binary, running, row, watermark, bounds>>

\* The supervisor starts what is installed, and it confirms the row that names it.
BootConfirms ==
    /\ row.status = "pending"
    /\ row.to = VersionOf[binary]
    /\ binary \notin Failing
    /\ running' = binary
    /\ row' = [row EXCEPT !.status = "confirmed"]
    /\ offered' = NoVersion
    /\ UNCHANGED <<host, channel, binary, watermark, bounds>>

\* What is installed does not come up, or is not what the row names: after enough boots
\* the build before it, which is still the one Apply ran in, is back.
BootRollsBack ==
    /\ row.status = "pending"
    /\ row.to # VersionOf[binary] \/ binary \in Failing
    /\ binary' = running
    /\ row' = [row EXCEPT !.status = "rolled_back"]
    /\ offered' = NoVersion
    /\ UNCHANGED <<host, channel, running, watermark, bounds>>

Next ==
    \/ Publish
    \/ \E c \in EveryChannel : SetChannel(c)
    \/ Check
    \/ Apply \/ ApplyInterrupted \/ ApplyRefused
    \/ BootConfirms \/ BootRollsBack

Spec == Init /\ [][Next]_vars

\* The runner checks at every interval and applies what it is offered; the supervisor
\* restarts the daemon.  Nobody has to publish, or to change the channel.
Fairness == WF_vars(Check) /\ WF_vars(Apply \/ ApplyRefused) /\ WF_vars(BootConfirms \/ BootRollsBack)

FairSpec == Spec /\ Fairness

(***************************************************************************)
(* Properties                                                              *)
(***************************************************************************)

\* The watermark that may date the running build is never earlier than the release
\* that build was made for (Apply's one transaction, watermark's gate).
FloorBelongs ==
    row.to = VersionOf[running] /\ row.status \in {"pending", "confirmed"} =>
        watermark >= running

\* Whatever the host withholds or replays, a daemon that updates from a confirmed build
\* takes a release published after the one that build was made for: edge may lower the
\* version, never the date (supersedes, publishedAt, watermark).
NeverOlder ==
    [][row.status = "confirmed" /\ row'.status = "pending" => watermark' > running]_vars

\* The release a daemon last installed and confirmed is not installed a second time
\* (Later: "a release is later than itself, which would reinstall it forever").
NeverReinstalled ==
    [][row.status = "confirmed" /\ row'.status = "pending" => watermark' # watermark]_vars

\* A release is installed a second time only on edge, where its head carries the daemon
\* over from an earlier release, and then the build that runs is put back in its place
\* (supersedes, publishedAt; bomgen's carried-over components).
ReinstalledInKind ==
    [][row.status = "confirmed" /\ row'.status = "pending" /\ watermark' = watermark =>
          channel = "edge" /\ running < watermark /\ binary' = running]_vars

\* A daemon ends up with what its channel offers: on edge the head's version, whether
\* semver calls it newer or not; elsewhere no head that is later and greater is left
\* waiting (the ticker, supersedes).  A head that does not boot is outside this.
CatchesUp ==
    <>[](LET head == HeadOf(channel) IN
         head > running /\ head \notin Failing =>
             IF channel = "edge" THEN VersionOf[running] = VersionOf[head]
             ELSE VersionOf[running] >= VersionOf[head])
=============================================================================
