--------------------------- MODULE KeyFileProofs ---------------------------
(***************************************************************************)
(* Theorems about KeyFile, for any number of processes, starts and kills.  *)
(***************************************************************************)
EXTENDS KeyFile, TLAPS

\* What a process carries from one access to the next.
Carried ==
    \A p \in Processes :
        /\ pc[p] = "load" => store = "file"
        /\ pc[p] \in {"inspect", "clear"} /\ store = "file" => staged[p] \in Keys

\* A process goes on with a key, and with a temporary file where it links one, whatever
\* else happens to the path: an empty file in it included.
THEOREM TypeCorrect == Spec => []TypeOK
<1> USE StoresAssumption, KeysAssumption, DebrisAssumption
<1>1. Init => TypeOK /\ Carried
    BY DEF Init, TypeOK, Places, Carried
<1>2. ASSUME TypeOK, Carried, [Next]_vars PROVE TypeOK' /\ Carried'
    <2> USE <1>2 DEF TypeOK, Places, Carried, Goes, Opened, Gone
    <2>1. CASE UNCHANGED vars
        BY <2>1 DEF vars
    <2>2. ASSUME NEW p \in Processes, Starts(p) \/ Seals(p) \/ Ends(p) PROVE TypeOK' /\ Carried'
        BY <2>2 DEF Starts, Seals, Ends
    <2>3. ASSUME NEW p \in Processes, Load(p) \/ Mint(p) \/ Reload(p) PROVE TypeOK' /\ Carried'
        BY <2>3 DEF Load, Mint, Reload
    <2>4. ASSUME NEW p \in Processes, Link(p) \/ Relink(p) PROVE TypeOK' /\ Carried'
        BY <2>4 DEF Link, Relink
    <2>5. ASSUME NEW p \in Processes, Inspect(p) PROVE TypeOK' /\ Carried'
        <3>1. \E place \in {"clear", "mint", "reload"} :
                 /\ pc' = [pc EXCEPT ![p] = place]
                 /\ place = "clear" => pc[p] = "inspect"
                 /\ UNCHANGED <<store, crowd, file, staged, key, minted, sealed>>
            BY <2>5 DEF Inspect
        <3> QED
            BY <3>1
    <2>6. ASSUME NEW p \in Processes, Clear(p) PROVE TypeOK' /\ Carried'
        BY <2>6 DEF Clear
    <2> QED
        BY <2>1, <2>2, <2>3, <2>4, <2>5, <2>6 DEF Next, Step
<1>3. TypeOK /\ Carried /\ [Next]_vars => (TypeOK /\ Carried)'
    BY <1>2
<1> QED
    BY <1>1, <1>3, PTL DEF Spec

\* Where the two stores keep their word: there is no empty file to clear, or nobody to
\* clear it at the same time.
Clean == \A c \in Debris : \A p, q \in c : p = q

\* What a process knows, from where it is, of the path and of its temporary file.
PlaceTells ==
    \A p \in Processes :
        /\ pc[p] = "load" => store = "file"
        /\ pc[p] = "clear" => file = "empty"
        /\ pc[p] = "relink" => file = "none"
        /\ pc[p] = "inspect" /\ store = "file" => file # "none"
        /\ pc[p] \in {"inspect", "clear"} /\ store = "file" => staged[p] \in Keys
        /\ pc[p] \in {"mint", "link"} /\ store = "blob" => file # "empty"

\* Only an empty file is ever cleared, and nobody else is there.
NothingCleared ==
    /\ crowd \notin Debris =>
          file # "empty" /\ \A p \in Processes : pc[p] \notin {"clear", "relink"}
    /\ \A p \in Processes : pc[p] # "idle" => p \in crowd

IInv == TypeOK /\ Agreed /\ LoserLoads /\ PlaceTells /\ NothingCleared

LEMMA IInvInit == Init => IInv
BY StoresAssumption, KeysAssumption, DebrisAssumption
   DEF Init, IInv, TypeOK, Places, Agreed, LoserLoads, PlaceTells, NothingCleared

\* A process goes on to a place that is true of the path, which stays as it is.
LEMMA GoesOn ==
    ASSUME IInv, NEW p \in Processes, p \in crowd,
           NEW place \in {"load", "inspect", "clear", "mint", "relink", "reload"},
           Goes(p, place), UNCHANGED <<store, crowd, file, minted, sealed>>,
           place = "clear" => file = "empty",
           place = "relink" => file = "none" /\ staged[p] \in Keys /\ crowd \in Debris,
           place = "load" => store = "file",
           place = "inspect" /\ store = "file" => file # "none",
           place \in {"inspect", "clear"} /\ store = "file" => staged[p] \in Keys,
           place = "mint" /\ store = "blob" => file # "empty",
           place = "reload" => file \in Keys
    PROVE  IInv'
<1> USE DebrisAssumption DEF IInv, Goes
<1>1. TypeOK'
    BY DEF TypeOK, Places
<1>2. Agreed' /\ LoserLoads'
    BY DEF Agreed, LoserLoads, TypeOK
<1>3. PlaceTells'
    BY DEF PlaceTells, TypeOK
<1>4. NothingCleared'
    BY DEF NothingCleared, TypeOK
<1> QED
    BY <1>1, <1>2, <1>3, <1>4

\* A process goes on with the key at the path.
LEMMA OpensWinner ==
    ASSUME IInv, NEW p \in Processes, p \in crowd, file \in Keys, Opened(p, file),
           UNCHANGED <<store, crowd, file, minted, sealed>>
    PROVE  IInv'
<1> USE DEF IInv, Opened
<1>1. TypeOK'
    BY DEF TypeOK, Places
<1>2. Agreed' /\ LoserLoads'
    BY DEF Agreed, LoserLoads, TypeOK
<1>3. PlaceTells' /\ NothingCleared'
    BY DEF PlaceTells, NothingCleared, TypeOK
<1> QED
    BY <1>1, <1>2, <1>3

\* A process that is gone knows nothing of the path.
LEMMA GoneKeeps ==
    ASSUME IInv, NEW p \in Processes, Gone(p), UNCHANGED <<store, crowd, file, minted, sealed>>
    PROVE  IInv'
BY DEF IInv, Gone, TypeOK, Places, Agreed, LoserLoads, PlaceTells, NothingCleared

\* A first run takes the free path: nobody is at odds with it, since whoever relies on
\* a key at the path would have found one.
LEMMA TakesPath ==
    ASSUME Clean, IInv, NEW p \in Processes, pc[p] \in {"link", "relink"}, file = "none",
           file' = staged[p], UNCHANGED <<store, crowd, minted, sealed>>,
           Opened(p, staged[p]) \/ Goes(p, "reload")
    PROVE  IInv'
<1> USE StoresAssumption, KeysAssumption, DebrisAssumption DEF IInv, Opened, Goes
<1>1. sealed = {} /\ \A q \in Processes : pc[q] \notin {"open", "reload", "clear"}
    BY DEF TypeOK, Agreed, LoserLoads, PlaceTells
<1>2. \A q \in Processes : q # p => pc[q] # "relink"
    BY DEF Clean, NothingCleared
<1>3. TypeOK'
    BY DEF TypeOK, Places
<1>4. Agreed' /\ LoserLoads'
    BY <1>1 DEF Agreed, LoserLoads, TypeOK
<1>5. PlaceTells'
    BY <1>1, <1>2 DEF PlaceTells, TypeOK
<1>6. NothingCleared'
    BY DEF NothingCleared, TypeOK
<1> QED
    BY <1>3, <1>4, <1>5, <1>6

LEMMA IInvStep == ASSUME Clean, IInv, [Next]_vars PROVE IInv'
<1> USE StoresAssumption, KeysAssumption, DebrisAssumption DEF IInv
<1>1. CASE UNCHANGED vars
    BY <1>1 DEF vars, TypeOK, Agreed, LoserLoads, PlaceTells, NothingCleared
<1>2. ASSUME NEW p \in Processes, Starts(p) \/ Step(p) \/ Seals(p) \/ Ends(p) PROVE IInv'
    <2>0. Starts(p) \/ Step(p) => p \in crowd
        BY DEF NothingCleared, Starts, Step, Load, Mint, Link, Inspect, Clear, Relink, Reload
    <2>1. CASE Starts(p)
        <3>1. CASE store = "file"
            BY <2>0, <2>1, <3>1, GoesOn DEF Starts
        <3>2. CASE store # "file"
            BY <2>0, <2>1, <3>2, GoesOn DEF Starts
        <3> QED
            BY <3>1, <3>2
    <2>2. CASE Load(p)
        <3>1. CASE file \in Keys
            BY <2>0, <2>2, <3>1, OpensWinner DEF Load, Step
        <3>2. CASE file \notin Keys
            BY <2>0, <2>2, <3>2, GoesOn DEF Load, PlaceTells, Step
        <3> QED
            BY <3>1, <3>2
    <2>3. CASE Mint(p)
        BY <2>3 DEF Mint, TypeOK, Places, Agreed, LoserLoads, PlaceTells, NothingCleared
    <2>4. CASE Link(p)
        <3>1. CASE file = "none"
            BY <2>4, <3>1, TakesPath DEF Link
        <3>2. CASE file # "none" /\ store = "file"
            BY <2>0, <2>4, <3>2, GoesOn DEF Link, TypeOK, Step
        <3>3. CASE file # "none" /\ store # "file"
            <4>1. file \in Keys
                BY <2>4, <3>3 DEF Link, TypeOK, PlaceTells
            <4> QED
                BY <2>0, <2>4, <3>3, <4>1, GoesOn DEF Link, Step
        <3> QED
            BY <3>1, <3>2, <3>3
    <2>5. CASE Inspect(p)
        <3>1. CASE file = "empty"
            BY <2>0, <2>5, <3>1, GoesOn DEF Inspect, PlaceTells, Step
        <3>2. CASE file = "none" /\ store = "blob"
            BY <2>0, <2>5, <3>2, GoesOn DEF Inspect, Step
        <3>3. CASE file # "empty" /\ ~(file = "none" /\ store = "blob")
            <4>1. Goes(p, "reload") /\ file \in Keys
                BY <2>5, <3>3 DEF Inspect, TypeOK, PlaceTells
            <4> QED
                BY <2>0, <2>5, <4>1, GoesOn DEF Inspect, Step
        <3> QED
            BY <3>1, <3>2, <3>3
    <2>6. CASE Clear(p)
        <3>1. /\ file = "empty" /\ crowd \in Debris /\ pc[p] = "clear"
              /\ sealed = {} /\ store \in {"file", "blob"}
              /\ store = "file" => staged[p] \in Keys
              /\ \A q \in Processes : q # p => pc[q] = "idle"
            BY <2>6 DEF Clear, Clean, PlaceTells, NothingCleared, TypeOK, Agreed
        <3>2. /\ file' = "none" /\ UNCHANGED <<store, crowd, staged, key, minted, sealed>>
              /\ pc' = [pc EXCEPT ![p] = IF store = "file" THEN "relink" ELSE "mint"]
            BY <2>6, <3>1 DEF Clear, Goes
        <3>3. TypeOK'
            BY <3>1, <3>2 DEF TypeOK, Places
        <3> QED
            BY <3>1, <3>2, <3>3 DEF TypeOK, Agreed, LoserLoads, PlaceTells, NothingCleared
    <2>7. CASE Relink(p)
        BY <2>7, TakesPath DEF Relink, PlaceTells
    <2>8. CASE Reload(p)
        BY <2>0, <2>8, OpensWinner DEF Reload, LoserLoads, Step
    <2>9. CASE Seals(p)
        BY <2>9 DEF Seals, TypeOK, Agreed, LoserLoads, PlaceTells, NothingCleared
    <2>10. CASE Ends(p)
        BY <2>10, GoneKeeps DEF Ends
    <2> QED
        BY <1>2, <2>1, <2>2, <2>3, <2>4, <2>5, <2>6, <2>7, <2>8, <2>9, <2>10 DEF Step
<1> QED
    BY <1>1, <1>2 DEF Next

LEMMA IInvAlways == ASSUME Clean PROVE Spec => []IInv
<1>1. IInv /\ [Next]_vars => IInv'
    BY IInvStep
<1> QED
    BY IInvInit, <1>1, PTL DEF Spec

\* However many first runs cross, and wherever they are cut off, all go on with the key
\* at the path, and it is never replaced while something is sealed under it (create's
\* link, SealMasterKey's): unless several of them meet an empty file.
THEOREM AlwaysAgreed == ASSUME Clean PROVE Spec => []Agreed
<1>1. IInv => Agreed
    BY DEF IInv
<1> QED
    BY IInvAlways, <1>1, PTL

\* A process that lost the race always finds the winner's key (newFileKeyStore's second
\* load, openSealedDirectly after SealMasterKey).
THEOREM LoserAlwaysLoads == ASSUME Clean PROVE Spec => []LoserLoads
<1>1. IInv => LoserLoads
    BY DEF IInv
<1> QED
    BY IInvAlways, <1>1, PTL
=============================================================================
