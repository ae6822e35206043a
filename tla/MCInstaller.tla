---------------------------- MODULE MCInstaller ----------------------------
(***************************************************************************)
(* Instances of Installer for TLC: where requests run, and what they ask   *)
(* for.                                                                    *)
(***************************************************************************)
EXTENDS Installer

\* Requests a and b of one daemon, and a third of another process on the same disk.
TwoProcesses == [c \in Callers |-> IF c = "c" THEN "other" ELSE "daemon"]

\* All ask for the pinned version, one of them for another, too.
Asked == [c \in Callers |-> IF c = "b" THEN {1, 2} ELSE {Pinned}]
=============================================================================
