------------------------------ MODULE KeyFile ------------------------------
(***************************************************************************)
(* Minting the master key of a host: platform/secrets, the two stores that *)
(* keep it in a file.  newFileKeyStore loads or creates the key file;      *)
(* SealMasterKey creates the blob only systemd can open, and what uses it  *)
(* opens it afterwards.                                                    *)
(*                                                                         *)
(* Any number of processes come at once: a daemon that is restarted during *)
(* its first run, a command beside it, two installs.  One action is one    *)
(* access to the file; a process can end between any two of them.          *)
(***************************************************************************)
EXTENDS FiniteSets

CONSTANTS
    Processes,      \* whatever opens the key
    Keys,           \* keys there are to mint; bound: each is minted once
    Stores,         \* the stores a run looks at, among "file" and "blob"
    Debris          \* the crowds that may meet an empty file

ASSUME StoresAssumption == Stores \subseteq {"file", "blob"}
ASSUME KeysAssumption == {"none", "empty"} \cap Keys = {}
ASSUME DebrisAssumption == Debris \subseteq SUBSET Processes

VARIABLES
    store,          \* which of the two algorithms runs: never changes
    crowd,          \* the processes that come, again and again: never changes
    file,           \* what is at the path: "none", "empty" or a key
    pc,             \* where each process is
    staged,         \* the key in each process's temporary file
    key,            \* the key each process goes on with
    minted,         \* keys that were ever made
    sealed          \* history: keys something was sealed under

vars == <<store, crowd, file, pc, staged, key, minted, sealed>>

Places == {"idle", "load", "inspect", "clear", "mint", "link", "relink", "reload", "open"}

TypeOK ==
    /\ store \in Stores
    /\ crowd \subseteq Processes
    /\ file \in Keys \cup {"none", "empty"}
    /\ pc \in [Processes -> Places]
    /\ staged \in [Processes -> Keys \cup {"none"}]
    /\ key \in [Processes -> Keys \cup {"none"}]
    /\ \A p \in Processes :
          /\ pc[p] \in {"link", "relink"} => staged[p] \in Keys
          /\ pc[p] = "open" => key[p] \in Keys
    /\ minted \subseteq Keys
    /\ sealed \subseteq Keys

Init ==
    /\ store \in Stores
    /\ crowd \in SUBSET Processes \ {{}}
    /\ file \in Keys \cup {"none"} \cup (IF crowd \in Debris THEN {"empty"} ELSE {})
    /\ pc = [p \in Processes |-> "idle"]
    /\ staged = [p \in Processes |-> "none"]
    /\ key = [p \in Processes |-> "none"]
    /\ minted = {file} \cap Keys
    /\ sealed = {}

Goes(p, place) == pc' = [pc EXCEPT ![p] = place] /\ UNCHANGED <<staged, key>>

Opened(p, k) ==
    /\ pc' = [pc EXCEPT ![p] = "open"]
    /\ key' = [key EXCEPT ![p] = k]
    /\ staged' = [staged EXCEPT ![p] = "none"]

\* An error, a kill or the end of a process: its temporary file is never looked at.
Gone(p) ==
    /\ pc' = [pc EXCEPT ![p] = "idle"]
    /\ key' = [key EXCEPT ![p] = "none"]
    /\ staged' = [staged EXCEPT ![p] = "none"]

Starts(p) ==
    /\ p \in crowd /\ pc[p] = "idle"
    /\ Goes(p, IF store = "file" THEN "load" ELSE "inspect")
    /\ UNCHANGED <<store, crowd, file, minted, sealed>>

\* newFileKeyStore's first load: an empty file is as good as none.
Load(p) ==
    /\ pc[p] = "load"
    /\ IF file \in Keys THEN Opened(p, file) ELSE Goes(p, "mint")
    /\ UNCHANGED <<store, crowd, file, minted, sealed>>

\* A key, complete and flushed in a temporary file beside the path.
Mint(p) ==
    /\ pc[p] = "mint"
    /\ \E k \in Keys \ minted :
          /\ staged' = [staged EXCEPT ![p] = k]
          /\ minted' = minted \cup {k}
    /\ pc' = [pc EXCEPT ![p] = "link"]
    /\ UNCHANGED <<store, crowd, file, key, sealed>>

\* Mutant: the temporary file is renamed onto the path.
LinkReplaces(p) ==
    /\ pc[p] = "link"
    /\ file' = staged[p]
    /\ IF store = "file" THEN Opened(p, staged[p]) ELSE Goes(p, "reload")
    /\ UNCHANGED <<store, crowd, minted, sealed>>

\* os.Link, which fails on a path that is taken.  The creator of the key file goes on
\* with the key it made, an install with whatever is at the path.
Link(p) ==
    /\ pc[p] = "link"
    /\ IF file = "none"
       THEN /\ file' = staged[p]
            /\ IF store = "file" THEN Opened(p, staged[p]) ELSE Goes(p, "reload")
       ELSE /\ UNCHANGED file
            /\ Goes(p, IF store = "file" THEN "inspect" ELSE "reload")
    /\ UNCHANGED <<store, crowd, minted, sealed>>

\* Mutant: whatever occupies the path is cleared.
InspectClearsAny(p) ==
    /\ pc[p] = "inspect"
    /\ Goes(p, IF file = "none" THEN "mint" ELSE "clear")
    /\ UNCHANGED <<store, crowd, file, minted, sealed>>

\* os.Stat: fileKeyStore.create asks it of a path that was taken, SealMasterKey first.
Inspect(p) ==
    /\ pc[p] = "inspect"
    /\ Goes(p, CASE file = "empty" -> "clear"
                 [] file = "none" /\ store = "blob" -> "mint"
                 [] OTHER -> "reload")
    /\ UNCHANGED <<store, crowd, file, minted, sealed>>

\* os.Remove, of whatever is there by now.  A path that is gone is ErrExist to the file
\* store, which loads, and an error to SealMasterKey.
Clear(p) ==
    /\ pc[p] = "clear"
    /\ file' = "none"
    /\ IF file = "none"
       THEN IF store = "file" THEN Goes(p, "reload") ELSE Gone(p)
       ELSE Goes(p, IF store = "file" THEN "relink" ELSE "mint")
    /\ UNCHANGED <<store, crowd, minted, sealed>>

\* The file store's second link: the error it wraps is ErrExist again.
Relink(p) ==
    /\ pc[p] = "relink"
    /\ IF file = "none"
       THEN file' = staged[p] /\ Opened(p, staged[p])
       ELSE UNCHANGED file /\ Goes(p, "reload")
    /\ UNCHANGED <<store, crowd, minted, sealed>>

\* The winner's key is the key; there has to be one by now.
Reload(p) ==
    /\ pc[p] = "reload"
    /\ IF file \in Keys THEN Opened(p, file) ELSE Gone(p)
    /\ UNCHANGED <<store, crowd, file, minted, sealed>>

\* A credential is stored.
Seals(p) ==
    /\ pc[p] = "open"
    /\ sealed' = sealed \cup {key[p]}
    /\ UNCHANGED <<store, crowd, file, pc, staged, key, minted>>

Ends(p) ==
    /\ pc[p] # "idle"
    /\ Gone(p)
    /\ UNCHANGED <<store, crowd, file, minted, sealed>>

Step(p) ==
    \/ Load(p) \/ Mint(p) \/ Link(p) \/ Inspect(p) \/ Clear(p) \/ Relink(p) \/ Reload(p)

Next == \E p \in Processes : Starts(p) \/ Step(p) \/ Seals(p) \/ Ends(p)

Spec == Init /\ [][Next]_vars

(***************************************************************************)
(* Safety                                                                  *)
(***************************************************************************)

\* Whoever has opened the key, and whatever was sealed, goes by the key a later start
\* will load, however many first runs cross and wherever they are cut off
\* (keystore_recovery_test.go, "must agree on one key"; SealMasterKey, "two installs racing
\* must not each seal a key").
Agreed ==
    /\ \A p \in Processes : pc[p] = "open" => key[p] = file
    /\ \A k \in sealed : k = file

\* The loser of a race never finds nothing to load: it is not turned away by a race
\* (newFileKeyStore, "would report a race as corruption").
LoserLoads == \A p \in Processes : pc[p] = "reload" => file \in Keys
=============================================================================
