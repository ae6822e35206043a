----------------------------- MODULE MCKeyFile -----------------------------
(***************************************************************************)
(* Instances of KeyFile for TLC.                                           *)
(***************************************************************************)
EXTENDS KeyFile, TLC

\* Whoever meets an empty file is alone.
OneAtATime == {{p} : p \in Processes}

\* Processes are interchangeable, and so are keys.
Symmetric == Permutations(Processes) \cup Permutations(Keys)
=============================================================================
