----------------------------- MODULE MCUpdater -----------------------------
(***************************************************************************)
(* Instances of Updater for TLC: the published builds, so that an update   *)
(* can follow an update, and the number of migrations each embeds.         *)
(***************************************************************************)
EXTENDS UpdaterRefinement

ThreeBuilds == 1..3
FourBuilds == 1..4

\* Build 4 was cut from a branch without the migration of builds 2 and 3.
SchemaBranched == <<1, 2, 2, 1>>

\* No migration in any update.
SchemaFlat == [b \in Builds |-> 1]
=============================================================================
