------------------------- MODULE UpdaterRefinement -------------------------
(***************************************************************************)
(* Updater implements UpdatePromise: the row and the two files together    *)
(* say which build is active, which is trusted and whether there is a      *)
(* trial.                                                                  *)
(***************************************************************************)
EXTENDS Updater

\* Between Apply's two renames nothing is at the binary path, and the build it
\* held is the one .old holds.
ActiveBuild == IF binary = NoBuild THEN old ELSE binary

\* The build the last update installed is on trial until it is confirmed or is
\* no longer there.
OnTrial == binary = row.to /\ row.status \in {"pending", "rolled_back"}

TrustedBuild == IF OnTrial THEN old ELSE ActiveBuild

Host == INSTANCE UpdatePromise WITH
    active <- ActiveBuild,
    trusted <- TrustedBuild,
    trial <- OnTrial,
    served <- proven

\* Every step of the daemon's boots, updates, confirmations and rollbacks is a
\* step of the promise or leaves it alone (service/update.go as a whole).
KeepsPromise == Host!Promise
=============================================================================
