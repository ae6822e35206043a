--------------------------- MODULE ChannelsProofs ---------------------------
(***************************************************************************)
(* Theorems about Channels, for every publication history, every channel   *)
(* and any number of withheld documents, replayed heads, changes of        *)
(* channel and crashes.                                                    *)
(***************************************************************************)
EXTENDS Channels, WellFoundedInduction, TLAPS

\* A set of releases that is not empty has an earliest one.
LEMMA MinDefined ==
    ASSUME NEW S, S \subseteq Nat, S # {}
    PROVE  Min(S) \in S /\ \A s \in S : Min(S) <= s
<1>1. PICK x \in S : \A y \in S : ~(<<y, x>> \in OpToRel(<, Nat))
    BY NatLessThanWellFounded, WFMin
<1>2. ASSUME NEW y \in S PROVE x <= y
    <2>1. x \in Nat /\ y \in Nat
        OBVIOUS
    <2>2. y < x => <<y, x>> \in OpToRel(<, Nat)
        BY <2>1 DEF OpToRel
    <2>3. ~(y < x)
        BY <1>1, <2>2
    <2> QED
        BY <2>1, <2>3
<1>3. x \in S /\ \A y \in S : x <= y
    BY <1>2
<1> QED
    BY <1>3 DEF Min

\* The build a release ships is stamped with the first release of that version.
LEMMA BuiltByFirst ==
    ASSUME NEW r \in Releases
    PROVE  /\ BuiltBy(r) \in Releases
           /\ VersionOf[BuiltBy(r)] = VersionOf[r]
           /\ \A s \in Releases : VersionOf[s] = VersionOf[r] => BuiltBy(r) <= s
<1> DEFINE S == {s \in Releases : s <= r /\ VersionOf[s] = VersionOf[r]}
<1>0. Releases \subseteq Nat
    BY ReleasesAssumption
<1>1. S \subseteq Nat /\ r \in S
    <2>1. S \subseteq Nat
        BY <1>0
    <2>2. r \in Nat /\ r <= r
        BY <1>0
    <2> QED
        BY <2>1, <2>2
<1>2. Min(S) \in S /\ \A s \in S : Min(S) <= s
    BY <1>1, MinDefined
<1>3. BuiltBy(r) = Min(S)
    BY DEF BuiltBy
<1>4. ASSUME NEW s \in Releases, VersionOf[s] = VersionOf[r] PROVE BuiltBy(r) <= s
    <2>1. CASE s <= r
        BY <1>2, <1>3, <1>4, <2>1
    <2>2. CASE ~(s <= r)
        <3>1. BuiltBy(r) \in Nat /\ BuiltBy(r) <= r /\ r \in Nat /\ s \in Nat
            BY <1>0, <1>2, <1>3
        <3> QED
            BY <2>2, <3>1
    <2> QED
        BY <2>1, <2>2
<1> QED
    BY <1>2, <1>3, <1>4

LEMMA FirstRelease == Min(Releases) \in Releases /\ \A s \in Releases : Min(Releases) <= s
BY ReleasesAssumption, MinDefined

\* The stamp of a build is the first release of its version.
FirstOfItsVersion(r) == \A s \in Releases : VersionOf[s] = VersionOf[r] => r <= s

Stamps == FirstOfItsVersion(binary) /\ FirstOfItsVersion(running)

\* A row that has not been given up on carries the date of the version it names.
RowIsDated ==
    /\ row.status \in {"pending", "confirmed"} =>
          watermark \in Releases /\ row.to = VersionOf[watermark]
    /\ row.status = "confirmed" => row.to = VersionOf[running]
    /\ row.status # "pending" => binary = running

IInv == TypeOK /\ Stamps /\ RowIsDated

LEMMA IInvInit == Init => IInv
BY FirstRelease, ReleasesAssumption, BoundsAssumption
   DEF Init, IInv, TypeOK, Stamps, FirstOfItsVersion, RowIsDated, EveryChannel, NoVersion,
       Undated

LEMMA IInvStep == IInv /\ [Next]_vars => IInv'
<1> SUFFICES ASSUME IInv, [Next]_vars PROVE IInv'
    OBVIOUS
<1> USE ReleasesAssumption, BoundsAssumption
    DEF IInv, TypeOK, Stamps, FirstOfItsVersion, RowIsDated, Versions, NoVersion, Undated,
        host, bounds, Answers, Received, Answered, Record
<1>1. CASE Publish
    <2>1. Releases \ published \subseteq Nat /\ Releases \ published # {}
        BY <1>1 DEF Publish
    <2>2. Min(Releases \ published) \in Releases
        BY <2>1, MinDefined
    <2> QED
        BY <1>1, <2>2 DEF Publish
<1>2. CASE \E c \in EveryChannel : SetChannel(c)
    BY <1>2 DEF SetChannel
<1>3. CASE Check
    <2>1. PICK a \in Answers : offered' = VersionOf[a.head]
        BY <1>3 DEF Check
    <2>2. offered' \in Versions
        BY <2>1
    <2> QED
        BY <1>3, <2>2 DEF Check
<1>4. CASE Apply
    <2>1. PICK a \in Answers : /\ Answered(a) /\ Record(a.head)
                               /\ binary' = BuiltBy(a.head)
        BY <1>4 DEF Apply
    <2>2. a.head \in Releases
        BY <2>1
    <2>3. /\ binary' \in Releases
          /\ \A s \in Releases : VersionOf[s] = VersionOf[binary'] => binary' <= s
        BY <2>1, <2>2, BuiltByFirst
    <2>4. row'.status = "pending" /\ row'.to = VersionOf[watermark'] /\ watermark' \in Releases
        BY <2>1, <2>2
    <2>5. TypeOK'
        BY <1>4, <2>1, <2>2, <2>3 DEF Apply
    <2> QED
        BY <1>4, <2>3, <2>4, <2>5 DEF Apply
<1>5. CASE ApplyInterrupted
    BY <1>5 DEF ApplyInterrupted
<1>6. CASE ApplyRefused
    BY <1>6 DEF ApplyRefused
<1>7. CASE BootConfirms
    BY <1>7 DEF BootConfirms
<1>8. CASE BootRollsBack
    BY <1>8 DEF BootRollsBack
<1>9. CASE UNCHANGED vars
    BY <1>9 DEF vars
<1> QED
    BY <1>1, <1>2, <1>3, <1>4, <1>5, <1>6, <1>7, <1>8, <1>9 DEF Next

LEMMA IInvAlways == Spec => []IInv
BY IInvInit, IInvStep, PTL DEF Spec

\* Every variable keeps its type: what is installed is always a published build's label.
THEOREM TypeCorrect == Spec => []TypeOK
<1>1. IInv => TypeOK
    BY DEF IInv
<1> QED
    BY IInvAlways, <1>1, PTL

LEMMA FloorFromIInv == IInv => FloorBelongs
BY DEF IInv, TypeOK, Stamps, FirstOfItsVersion, RowIsDated, FloorBelongs

\* The watermark never dates the running build too early (Apply's one transaction).
THEOREM FloorAlwaysBelongs == Spec => []FloorBelongs
BY IInvAlways, FloorFromIInv, PTL

\* What an update of a confirmed build installs is a head that Apply accepted.
LEMMA ApplyChooses ==
    ASSUME IInv, [Next]_vars, row.status = "confirmed", row'.status = "pending"
    PROVE  \E a \in Answers :
               /\ Accepted(a.head, a.served)
               /\ watermark' = a.head /\ a.head \in Releases
               /\ binary' \in {binary, BuiltBy(a.head)}
BY ReleasesAssumption
   DEF Next, vars, host, Publish, SetChannel, Check, Apply, ApplyInterrupted,
       ApplyRefused, BootConfirms, BootRollsBack, Record, IInv, TypeOK, Answers, Received

\* Whatever the host withholds or replays, an update of a confirmed build is to a release
\* published after the one that build was made for (supersedes, publishedAt, watermark).
THEOREM AlwaysLater == Spec => NeverOlder
<1>1. ASSUME IInv, [Next]_vars, row.status = "confirmed", row'.status = "pending"
      PROVE  watermark' > running
    <2>1. PICK a \in Answers : Accepted(a.head, a.served) /\ watermark' = a.head
        BY <1>1, ApplyChooses
    <2>2. a.head > PublishedAt(a.served) /\ a.head \in Nat
        BY <1>1, <2>1, ReleasesAssumption
           DEF Accepted, Supersedes, Later, IInv, TypeOK, Answers, Received
    <2>3. PublishedAt(a.served) >= running
        BY <1>1, FloorFromIInv, ReleasesAssumption
           DEF PublishedAt, Floor, FloorBelongs, IInv, TypeOK, RowIsDated
    <2> QED
        BY <1>1, <2>1, <2>2, <2>3, ReleasesAssumption
           DEF IInv, TypeOK, PublishedAt, Floor, RowIsDated
<1>2. IInv /\ [Next]_vars =>
        [row.status = "confirmed" /\ row'.status = "pending" => watermark' > running]_vars
    BY <1>1
<1> QED
    BY IInvAlways, <1>2, PTL DEF Spec, NeverOlder

\* A repeated installation is edge's, of a head that carries the daemon over, and leaves
\* the build that runs at the binary path (supersedes, publishedAt).
LEMMA StepInKind ==
    ASSUME IInv, [Next]_vars, row.status = "confirmed", row'.status = "pending",
           watermark' = watermark
    PROVE  channel = "edge" /\ running < watermark /\ binary' = running
<1>1. PICK a \in Answers : /\ Accepted(a.head, a.served)
                           /\ watermark = a.head /\ a.head \in Releases
                           /\ binary' \in {binary, BuiltBy(a.head)}
    BY ApplyChooses
<1>2. /\ VersionOf[watermark] = VersionOf[running] /\ binary = running
      /\ running \in Nat /\ watermark \in Nat /\ VersionOf[running] \in Nat
    BY <1>1, ReleasesAssumption DEF IInv, TypeOK, RowIsDated
<1>3. channel = "edge" /\ watermark > PublishedAt(a.served)
    BY <1>1, <1>2 DEF Accepted, Supersedes, Later
<1>4. PublishedAt(a.served) = running
    BY <1>2, <1>3 DEF PublishedAt, Floor, IInv, RowIsDated
<1>5. BuiltBy(watermark) = running
    <2>1. BuiltBy(watermark) \in Nat /\ BuiltBy(watermark) <= running
        BY <1>1, <1>2, BuiltByFirst, ReleasesAssumption DEF IInv, TypeOK
    <2>2. running <= BuiltBy(watermark)
        BY <1>1, <1>2, BuiltByFirst DEF IInv, Stamps, FirstOfItsVersion
    <2> QED
        BY <1>2, <2>1, <2>2
<1> QED
    BY <1>1, <1>2, <1>3, <1>4, <1>5

\* What a second installation of a release comes to, whatever the host answers.
THEOREM AlwaysInKind == Spec => ReinstalledInKind
<1>1. IInv /\ [Next]_vars =>
        [row.status = "confirmed" /\ row'.status = "pending" /\ watermark' = watermark =>
            channel = "edge" /\ running < watermark /\ binary' = running]_vars
    BY StepInKind
<1> QED
    BY IInvAlways, <1>1, PTL DEF Spec, ReinstalledInKind

\* Where every release ships a daemon of its own, none is installed twice: what a
\* carried-over daemon does on edge is the only exception (Later).
THEOREM NeverTwice ==
    ASSUME \A r, s \in Releases : VersionOf[r] = VersionOf[s] => r = s
    PROVE  Spec => NeverReinstalled
<1>1. ASSUME IInv, [Next]_vars, row.status = "confirmed", row'.status = "pending",
             watermark' = watermark
      PROVE  FALSE
    <2>1. running < watermark
        BY <1>1, StepInKind
    <2>2. running \in Nat /\ watermark = running
        BY <1>1, ReleasesAssumption DEF IInv, TypeOK, RowIsDated
    <2> QED
        BY <2>1, <2>2
<1>2. IInv /\ [Next]_vars =>
        [row.status = "confirmed" /\ row'.status = "pending" => watermark' # watermark]_vars
    BY <1>1
<1> QED
    BY IInvAlways, <1>2, PTL DEF Spec, NeverReinstalled
=============================================================================
