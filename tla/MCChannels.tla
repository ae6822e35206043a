----------------------------- MODULE MCChannels -----------------------------
(***************************************************************************)
(* Instances of Channels for TLC.                                          *)
(***************************************************************************)
EXTENDS Channels

\* A hotfix below the edge build before it, an edge head that carries that build over, an
\* edge build below everything, a beta that does not boot, and a stable head that carries
\* the hotfix over.
SevenReleases == 1..7
CutIntoAll == <<"stable", "edge", "edge", "stable", "beta", "edge", "stable">>
VersionsOfAll == <<2, 4, 4, 3, 5, 1, 3>>

\* The second release carries the daemon over: it ships another component.
TwoReleases == 1..2
CutIntoStable == <<"stable", "stable">>
VersionsCarried == <<1, 1>>
=============================================================================
