------------------------- MODULE ProvisioningProofs -------------------------
(***************************************************************************)
(* What Provisioning guarantees for any hosts, homes, commands, kills,     *)
(* failures and reboots; and what it guarantees where commands and service *)
(* share a home.                                                           *)
(***************************************************************************)
EXTENDS ProvisioningRefinement, TLAPS

LEMMA BlankType == /\ Blank \in Carried /\ Launched \in Carried
                   /\ Blank.at = "idle" /\ Launched.at = "launch"
<1>1. Blank \in Carried /\ Blank.at = "idle"
    BY DEF Blank, Carried, Places
<1>2. Launched \in Carried /\ Launched.at = "launch"
    BY <1>1 DEF Launched, Carried, Places, Serving
<1> QED
    BY <1>1, <1>2

LEMMA InstallIsOne == "install" \in Commands /\ "serve" \in Processes
                      /\ "install" \in Processes /\ "serve" \notin Commands
                      /\ "install" \notin Rotators /\ "free" \notin Commands
BY NamesAssumption DEF Commands, Processes

LEMMA TypeInit == Init => TypeOK
<1> SUFFICES ASSUME Init PROVE TypeOK
    OBVIOUS
<1> USE DEF Init
<1>1. host.key \in Nat
    BY HostsAssumption
<1>2. FilesOK
    <2>1. home \in [Homes -> [blob : Nat, own : Nat, hash : Nat]]
          /\ minted \in [keys : Nat, tokens : Nat]
        BY <1>1
    <2> QED
        BY <2>1 DEF FilesOK, Units
<1>3. ProcessesOK
    <2>1. proc \in [Processes -> Carried] /\ \A p \in Processes : At(p) = "idle"
        BY BlankType DEF At
    <2>2. \A p \in Processes : "idle" \in PlacesOf(p)
        BY InstallIsOne DEF PlacesOf, Places, Serving, Processes
    <2>3. lock \in Commands \cup {"free"} /\ lock = "free"
        OBVIOUS
    <2> QED
        BY <2>1, <2>2, <2>3 DEF ProcessesOK
<1> QED
    BY <1>2, <1>3 DEF TypeOK

\* A step that puts one process where it may be, and holds no lock elsewhere.
LEMMA OneMoves ==
    ASSUME ProcessesOK, NEW p, NEW r, p \in Processes, r \in Carried,
           r.at \in PlacesOf(p), proc' = [proc EXCEPT ![p] = r],
           lock' \in {lock, p, "free"},
           lock' = p => p \in Commands /\ r.at \in {"mint", "store"}
    PROVE  ProcessesOK'
<1> USE DEF ProcessesOK, At
<1>1. proc' \in [Processes -> Carried]
    OBVIOUS
<1>2. \A q \in Processes : proc'[q].at \in PlacesOf(q)
    OBVIOUS
<1>3. lock' \in Commands \cup {"free"}
      /\ (lock' # "free" => proc'[lock'].at \in {"mint", "store"})
    BY InstallIsOne DEF Processes
<1> QED
    BY <1>1, <1>2, <1>3

\* The same of a step that leaves the locks alone, by a process that holds none.
LEMMA Moved ==
    ASSUME ProcessesOK, NEW p, NEW place, p \in Processes, Moves(p, place),
           place \in PlacesOf(p), place \in Places,
           At(p) \notin {"mint", "store"}, UNCHANGED lock
    PROVE  ProcessesOK'
<1> DEFINE r == [proc[p] EXCEPT !.at = place]
<1>1. r \in Carried /\ r.at = place /\ proc' = [proc EXCEPT ![p] = r]
    BY DEF ProcessesOK, Carried, Moves
<1>2. lock # p
    BY InstallIsOne DEF ProcessesOK, Processes
<1> HIDE DEF r
<1> QED
    BY <1>1, <1>2, OneMoves DEF ProcessesOK

LEMMA LeftBehindType ==
    ASSUME TypeOK, NEW P \in SUBSET Commands
    PROVE  LeftBehind(P) \in [tokens : SUBSET Nat, copies : SUBSET Nat, blob : BOOLEAN]
<1>1. \A p \in P : proc[p].token \in Nat
    BY DEF TypeOK, ProcessesOK, Carried, Processes
<1> QED
    BY <1>1 DEF LeftBehind, TypeOK, FilesOK

LEMMA FilesNext == TypeOK /\ [Next]_vars => FilesOK'
<1> SUFFICES ASSUME TypeOK, [Next]_vars PROVE FilesOK'
    OBVIOUS
<1> USE DEF TypeOK, FilesOK, files, service, history, Units, Faulty
<1>1. ASSUME NEW p \in Commands, Called(p) PROVE FilesOK'
    BY <1>1 DEF Called
<1>2. ASSUME CopyBinary PROVE FilesOK'
    BY <1>2 DEF CopyBinary
<1>3. ASSUME Prepare PROVE FilesOK'
    BY <1>3 DEF Prepare
<1>4. ASSUME Look PROVE FilesOK'
    BY <1>4 DEF Look
<1>5. ASSUME Seal PROVE FilesOK'
    BY <1>5 DEF Seal
<1>6. ASSUME ProbeDelivers PROVE FilesOK'
    BY <1>6 DEF ProbeDelivers
<1>7. ASSUME ProbeFails PROVE FilesOK'
    BY <1>7 DEF ProbeFails
<1>8. ASSUME Unseal PROVE FilesOK'
    BY <1>8 DEF Unseal
<1>9. ASSUME NEW p \in Processes, Choose(p) PROVE FilesOK'
    BY <1>9 DEF Choose
<1>10. ASSUME NEW p \in Processes, Open(p) PROVE FilesOK'
    BY <1>10 DEF Open
<1>11. ASSUME NEW p \in Processes, Load(p) PROVE FilesOK'
    BY <1>11 DEF Load
<1>12. ASSUME NEW p \in Processes, Link(p) PROVE FilesOK'
    BY <1>12 DEF Link
<1>13. ASSUME Ask PROVE FilesOK'
    BY <1>13 DEF Ask
<1>14. ASSUME NEW p \in Commands, Acquire(p) PROVE FilesOK'
    BY <1>14 DEF Acquire
<1>15. ASSUME NEW p \in Commands, Mint(p) PROVE FilesOK'
    <2>1. home' \in [Homes -> [blob : Nat, own : Nat, hash : Nat]]
        <3>1. home' = [home EXCEPT ![Home(p)].hash = minted.tokens + 1]
            BY <1>15 DEF Mint
        <3>2. minted.tokens + 1 \in Nat
            OBVIOUS
        <3> QED
            BY <3>1, <3>2
    <2>2. minted' \in [keys : Nat, tokens : Nat]
        BY <1>15 DEF Mint
    <2> QED
        BY <1>15, <2>1, <2>2 DEF Mint
<1>16. ASSUME NEW p \in Commands, Store(p) PROVE FilesOK'
    BY <1>16 DEF Store, ProcessesOK, Carried, Processes
<1>17. ASSUME NEW p \in Commands, PrintToken(p) PROVE FilesOK'
    BY <1>17 DEF PrintToken, ProcessesOK, Carried, Processes
<1>18. ASSUME WriteUnit PROVE FilesOK'
    BY <1>18 DEF WriteUnit
<1>19. ASSUME Reload PROVE FilesOK'
    BY <1>19 DEF Reload
<1>20. ASSUME Enable PROVE FilesOK'
    BY <1>20 DEF Enable
<1>21. ASSUME Restart PROVE FilesOK'
    BY <1>21 DEF Restart
<1>22. ASSUME Bootout PROVE FilesOK'
    BY <1>22 DEF Bootout
<1>23. ASSUME Bootstrap PROVE FilesOK'
    BY <1>23 DEF Bootstrap
<1>24. ASSUME Uninstall PROVE FilesOK'
    <2>1. faults' \in Nat
        BY <1>24 DEF Uninstall
    <2> QED
        BY <1>24, <2>1 DEF Uninstall
<1>25. ASSUME Stop PROVE FilesOK'
    BY <1>25 DEF Stop
<1>26. ASSUME Start PROVE FilesOK'
    BY <1>26 DEF Start
<1>27. ASSUME Launch PROVE FilesOK'
    BY <1>27 DEF Launch
<1>28. ASSUME Check PROVE FilesOK'
    BY <1>28 DEF Check
<1>29. ASSUME Submitted PROVE FilesOK'
    <2>1. proc["serve"].key \in Nat
        BY InstallIsOne DEF ProcessesOK, Carried
    <2> QED
        BY <1>29, <2>1 DEF Submitted
<1>30. ASSUME Relaunch PROVE FilesOK'
    BY <1>30 DEF Relaunch
<1>31. ASSUME Crash PROVE FilesOK'
    BY <1>31 DEF Crash
<1>32. ASSUME NEW p \in Commands, Fails(p) PROVE FilesOK'
    <2>1. cut' \in [tokens : SUBSET Nat, copies : SUBSET Nat, blob : BOOLEAN]
        BY <1>32 DEF Fails
    <2> QED
        BY <1>32, <2>1 DEF Fails
<1>33. ASSUME NEW p \in Commands, Kill(p) PROVE FilesOK'
    BY <1>33, LeftBehindType DEF Kill, Commands
<1>34. ASSUME Reboot PROVE FilesOK'
    BY <1>34, LeftBehindType DEF Reboot
<1> QED
    BY <1>1, <1>2, <1>3, <1>4, <1>5, <1>6, <1>7, <1>8, <1>9, <1>10, <1>11, <1>12, <1>13, <1>14, <1>15, <1>16, <1>17, <1>18, <1>19, <1>20, <1>21, <1>22, <1>23, <1>24, <1>25, <1>26, <1>27, <1>28, <1>29, <1>30, <1>31, <1>32, <1>33, <1>34
    DEF Next, Opens, Rotates, Installs, Operates, Serves, vars

LEMMA MayBe ==
    /\ PlacesOf("install") = Places \ Serving
    /\ PlacesOf("serve") = {"idle", "choose", "load", "link"} \cup Serving
    /\ \A p \in Rotators : PlacesOf(p) = {"idle"} \cup Opening \cup Rotating
    /\ \A p \in Processes : PlacesOf(p) \subseteq Places
    /\ \A p \in Commands : {"idle"} \cup Opening \cup Rotating \subseteq PlacesOf(p)
    /\ \A p \in Processes : AfterOpening(p) \in PlacesOf(p)
BY InstallIsOne DEF PlacesOf, Commands, Processes, Places, Serving, Opening, Rotating,
    Installing, AfterOpening

\* A process that ends, or is to be relaunched, without a lock or giving it up.
LEMMA EndedMoves ==
    ASSUME ProcessesOK, NEW p, p \in Processes, Ended(p),
           \/ UNCHANGED lock /\ At(p) \notin {"mint", "store"}
           \/ lock' = Unlocked(p)
    PROVE  ProcessesOK'
<1> DEFINE r == IF p = "serve" THEN [Blank EXCEPT !.at = "wait"] ELSE Blank
<1>1. r \in Carried /\ r.at = IF p = "serve" THEN "wait" ELSE "idle"
    BY BlankType DEF Carried, Places, Serving
<1>2. r.at \in PlacesOf(p)
    BY <1>1, BlankType, MayBe DEF Serving, Processes
<1>3. proc' = [proc EXCEPT ![p] = r]
    BY DEF Ended
<1>4. lock' \in {lock, "free"} /\ lock' # p
    BY InstallIsOne DEF ProcessesOK, Processes, Unlocked
<1> HIDE DEF r
<1> QED
    BY <1>1, <1>2, <1>3, <1>4, OneMoves

\* A key found or minted.
LEMMA OpenedMoves ==
    ASSUME ProcessesOK, NEW p, NEW k, p \in Processes, k \in Nat, Opened(p, k),
           At(p) \in Opening, UNCHANGED lock
    PROVE  ProcessesOK'
<1> DEFINE r == [proc[p] EXCEPT !.key = k, !.at = AfterOpening(p)]
<1>1. AfterOpening(p) \in PlacesOf(p) /\ AfterOpening(p) \in Places
    BY MayBe
<1>2. /\ r \in Carried /\ r.at = AfterOpening(p)
      /\ proc' = [proc EXCEPT ![p] = r]
    BY <1>1 DEF Opened, ProcessesOK, Carried
<1>3. lock # p
    BY InstallIsOne DEF ProcessesOK, Processes, Opening
<1> HIDE DEF r
<1> QED
    BY <1>1, <1>2, <1>3, OneMoves DEF ProcessesOK

LEMMA OpensOK ==
    ASSUME TypeOK, NEW p \in Processes, Opens(p)
    PROVE  ProcessesOK'
<1> USE DEF TypeOK
<1>1. /\ Home(p) \in Homes
      /\ home[Home(p)].blob \in Nat /\ home[Home(p)].own \in Nat
      /\ minted.keys + 1 \in Nat
    BY HomesAssumption DEF Home, FilesOK
<1>2. p # "serve" => "open" \in PlacesOf(p)
    BY MayBe DEF Processes, Opening
<1>3. {"load", "link"} \subseteq PlacesOf(p)
    BY MayBe DEF Processes, Commands, Opening
<1>4. {"open", "load", "link"} \subseteq Places
    BY DEF Places, Opening
<1>5. CASE Choose(p)
    BY <1>2, <1>3, <1>4, <1>5, Moved, EndedMoves DEF Choose
<1>6. CASE Open(p)
    BY <1>1, <1>6, OpenedMoves, EndedMoves DEF Open, Opening
<1>7. CASE Load(p)
    BY <1>1, <1>3, <1>4, <1>7, OpenedMoves, Moved DEF Load, Opening
<1>8. CASE Link(p)
    BY <1>1, <1>8, OpenedMoves DEF Link, Opening
<1> QED
    BY <1>5, <1>6, <1>7, <1>8 DEF Opens

LEMMA RotatesOK ==
    ASSUME TypeOK, NEW p \in Commands, Rotates(p)
    PROVE  ProcessesOK'
<1> USE DEF TypeOK
<1>1. Home(p) \in Homes /\ minted.tokens + 1 \in Nat
    BY HomesAssumption DEF Home, FilesOK
<1>2. p \in Processes /\ {"mint", "store", "print"} \subseteq PlacesOf(p)
      /\ {"mint", "store", "print"} \subseteq Places /\ p # "free" /\ p # "serve"
    BY MayBe, InstallIsOne DEF Processes, Rotating, Places
<1>3. ASSUME Acquire(p) PROVE ProcessesOK'
    <2> DEFINE r == [proc[p] EXCEPT !.at = "mint"]
    <2>1. r \in Carried /\ r.at = "mint" /\ proc' = [proc EXCEPT ![p] = r]
        BY <1>2, <1>3 DEF Acquire, Moves, ProcessesOK, Carried
    <2> HIDE DEF r
    <2> QED
        BY <1>2, <1>3, <2>1, OneMoves DEF Acquire
<1>4. ASSUME Mint(p) PROVE ProcessesOK'
    <2> DEFINE r == [proc[p] EXCEPT !.at = "store", !.token = minted.tokens + 1]
    <2>1. r \in Carried /\ r.at = "store" /\ proc' = [proc EXCEPT ![p] = r]
        BY <1>1, <1>2, <1>4 DEF Mint, ProcessesOK, Carried
    <2>2. UNCHANGED lock
        BY <1>4 DEF Mint
    <2> HIDE DEF r
    <2> QED
        BY <1>2, <2>1, <2>2, OneMoves
<1>5. ASSUME Store(p) PROVE ProcessesOK'
    <2> DEFINE r == [proc[p] EXCEPT !.at = "print"]
    <2>1. r \in Carried /\ r.at = "print" /\ proc' = [proc EXCEPT ![p] = r]
        BY <1>2, <1>5 DEF Store, Moves, ProcessesOK, Carried
    <2> HIDE DEF r
    <2> QED
        BY <1>2, <1>5, <2>1, OneMoves DEF Store, Unlocked
<1>6. ASSUME PrintToken(p) PROVE ProcessesOK'
    <2> DEFINE r == IF p = "install" THEN [proc[p] EXCEPT !.at = "unit"] ELSE Blank
    <2>1. r \in Carried /\ r.at \in PlacesOf(p) /\ proc' = [proc EXCEPT ![p] = r]
        BY <1>2, <1>6, BlankType, MayBe
        DEF PrintToken, ProcessesOK, Carried, Places, Installing, Serving
    <2>2. lock # p
        BY <1>2, <1>6 DEF PrintToken, ProcessesOK
    <2> HIDE DEF r
    <2> QED
        BY <1>2, <1>6, <2>1, <2>2, OneMoves DEF PrintToken
<1> QED
    BY <1>3, <1>4, <1>5, <1>6 DEF Rotates

\* A step that puts the install and the service where they may be.
LEMMA BothMove ==
    ASSUME ProcessesOK, NEW r, NEW t, r \in Carried, t \in Carried,
           r.at \in PlacesOf("install"), t.at \in PlacesOf("serve"),
           proc' = [proc EXCEPT !["install"] = r, !["serve"] = t],
           At("install") \notin {"mint", "store"}, UNCHANGED lock
    PROVE  ProcessesOK'
<1> USE DEF ProcessesOK, At
<1>1. proc' \in [Processes -> Carried]
    OBVIOUS
<1>2. \A q \in Processes : proc'[q].at \in PlacesOf(q)
    BY InstallIsOne
<1>3. lock # "install" /\ lock # "serve"
    BY InstallIsOne
<1>4. lock' \in Commands \cup {"free"}
    OBVIOUS
<1>5. lock' # "free" => proc'[lock'].at \in {"mint", "store"}
    BY <1>3, InstallIsOne DEF Processes
<1> QED
    BY <1>1, <1>2, <1>4, <1>5

LEMMA InstallsOK ==
    ASSUME TypeOK, Installs
    PROVE  ProcessesOK'
<1> USE DEF TypeOK
<1>1. /\ "install" \in Processes /\ proc["install"] \in Carried
      /\ PlacesOf("install") = Places \ Serving
    BY InstallIsOne, MayBe DEF ProcessesOK
<1>2. \A place \in {"idle", "choose", "seal", "probe", "unseal", "prepare", "look",
                     "lock", "unit", "reload", "enable", "restart", "bootout", "bootstrap"} :
          place \in Places /\ place \in PlacesOf("install")
    BY <1>1 DEF Places, Opening, Sealing, Installing, Serving, Rotating
<1>3. CASE CopyBinary \/ Prepare \/ Seal \/ ProbeFails \/ Unseal \/ Ask \/ WriteUnit \/ Reload
    <2> USE <1>3 DEF CopyBinary, Prepare, Seal, ProbeFails, Unseal, Ask, WriteUnit, Reload
    <2>1. PICK place \in {"choose", "probe", "unseal", "prepare", "look", "lock", "unit",
                          "reload", "enable", "bootout"} : Moves("install", place)
        OBVIOUS
    <2>2. At("install") \notin {"mint", "store"} /\ UNCHANGED lock
        OBVIOUS
    <2> QED
        BY <1>1, <1>2, <2>1, <2>2, Moved
<1>4. ASSUME Look \/ ProbeDelivers PROVE ProcessesOK'
    <2>1. PICK place \in {"seal", "choose"}, b \in BOOLEAN :
             proc' = [proc EXCEPT !["install"].at = place, !["install"].sealed = b]
        BY <1>4 DEF Look, ProbeDelivers, Linux
    <2> DEFINE r == [proc["install"] EXCEPT !.at = place, !.sealed = b]
    <2>2. r \in Carried /\ r.at = place /\ proc' = [proc EXCEPT !["install"] = r]
        BY <1>1, <1>2, <2>1 DEF Carried, ProcessesOK
    <2>3. lock # "install" /\ UNCHANGED lock
        BY <1>4, InstallIsOne DEF Look, ProbeDelivers, ProcessesOK
    <2> HIDE DEF r
    <2> QED
        BY <1>1, <1>2, <2>2, <2>3, OneMoves
<1>5. CASE Enable
    BY <1>1, <1>2, <1>5, Moved, EndedMoves DEF Enable
<1>6. ASSUME Restart \/ Bootout \/ Bootstrap PROVE ProcessesOK'
    <2>1. PICK place \in {"idle", "bootstrap", "enable"}, t \in {Blank, Launched} :
             \/ proc' = [proc EXCEPT !["install"] = Blank, !["serve"] = t]
             \/ proc' = [proc EXCEPT !["install"].at = place, !["serve"] = t]
        BY <1>6 DEF Restart, Bootout, Bootstrap
    <2> DEFINE s == [proc["install"] EXCEPT !.at = place]
    <2>2. s \in Carried /\ s.at = place
          /\ (proc' = [proc EXCEPT !["install"].at = place, !["serve"] = t]
                => proc' = [proc EXCEPT !["install"] = s, !["serve"] = t])
        BY <1>1, <1>2 DEF Carried, ProcessesOK
    <2>3. t \in Carried /\ t.at \in PlacesOf("serve")
        BY BlankType, MayBe DEF Serving
    <2>4. At("install") \notin {"mint", "store"} /\ UNCHANGED lock
        BY <1>6 DEF Restart, Bootout, Bootstrap
    <2> HIDE DEF s
    <2> QED
        BY <1>2, <2>1, <2>2, <2>3, <2>4, BlankType, BothMove
<1> QED
    BY <1>3, <1>4, <1>5, <1>6 DEF Installs

LEMMA ServiceOK ==
    ASSUME TypeOK, Operates \/ Serves
    PROVE  ProcessesOK'
<1> USE DEF TypeOK
<1>1. /\ "serve" \in Processes /\ lock # "serve"
      /\ \A place \in Serving \cup {"idle", "choose"} :
            place \in PlacesOf("serve") /\ place \in Places
    BY InstallIsOne, MayBe DEF ProcessesOK, Places, Opening, Serving
<1>2. ASSUME NEW t, t \in Carried, t.at \in Serving \cup {"idle", "choose"},
             proc' = [proc EXCEPT !["serve"] = t], UNCHANGED lock
      PROVE  ProcessesOK'
    BY <1>1, <1>2, OneMoves
<1>3. CASE Uninstall \/ Stop \/ Start \/ Relaunch
    BY <1>2, <1>3, BlankType DEF Uninstall, Stop, Start, Relaunch, ProcessesOK, At, Serving
<1>4. CASE Crash
    BY <1>1, <1>4, EndedMoves DEF Crash, Running, ProcessesOK, Serving, PlacesOf, At
<1>5. CASE Submitted
    BY <1>5 DEF Submitted, ProcessesOK, At
<1>6. CASE Check
    BY <1>1, <1>6, EndedMoves, Moved DEF Check, Serving
<1>7. CASE Launch
    <2> DEFINE handed == loaded = "sealed" /\ host.delivers
               t == [Blank EXCEPT !.build = bin, !.sealed = loaded = "sealed",
                       !.key = IF handed THEN home[ServiceHome].blob ELSE 0,
                       !.at = IF handed THEN "check" ELSE "choose"]
    <2>1. home[ServiceHome].blob \in Nat /\ bin \in Nat
        BY HomesAssumption DEF FilesOK
    <2>2. t \in Carried /\ t.at \in Serving \cup {"idle", "choose"}
        BY <2>1, <1>1, BlankType DEF Carried, Serving
    <2>3. Ended("serve") \/ proc' = [proc EXCEPT !["serve"] = t]
        BY <1>7 DEF Launch
    <2>4. At("serve") \notin {"mint", "store"} /\ UNCHANGED lock
        BY <1>7 DEF Launch
    <2> HIDE DEF t
    <2> QED
        BY <1>1, <1>2, <2>2, <2>3, <2>4, EndedMoves
<1> QED
    BY <1>3, <1>4, <1>5, <1>6, <1>7 DEF Operates, Serves

LEMMA EndsOK ==
    ASSUME TypeOK, NEW p \in Commands, Fails(p) \/ Kill(p)
    PROVE  ProcessesOK'
BY EndedMoves DEF Fails, Kill, Processes, TypeOK

LEMMA RebootOK ==
    ASSUME TypeOK, Reboot
    PROVE  ProcessesOK'
<1>1. \A t \in {Blank, Launched} : t \in Carried /\ t.at \in {"idle", "launch"}
    BY BlankType
<1>2. /\ \A p \in Processes : "idle" \in PlacesOf(p)
      /\ "launch" \in PlacesOf("serve")
    BY MayBe, InstallIsOne DEF Processes, Places, Serving
<1> QED
    BY <1>1, <1>2, BlankType DEF Reboot, ProcessesOK, At

LEMMA CalledOK ==
    ASSUME TypeOK, NEW p \in Commands, Called(p)
    PROVE  ProcessesOK'
<1>1. /\ "choose" \in PlacesOf(p) /\ "choose" \in Places
      /\ "copy" \in PlacesOf("install") /\ "copy" \in Places
    BY MayBe DEF Opening, Places, Installing, Serving
<1> QED
    BY <1>1, Moved DEF Called, TypeOK, Processes

\* In every state each variable holds what its declaration says, every process is at
\* a place of its own kind of command, and the rotation lock is held by a rotation
\* between its two writes (filelock, authService.Rotate).
THEOREM TypeCorrect == Spec => []TypeOK
<1>1. TypeOK /\ [Next]_vars => TypeOK'
    <2> SUFFICES ASSUME TypeOK, [Next]_vars PROVE ProcessesOK'
        BY FilesNext DEF TypeOK
    <2>1. CASE UNCHANGED vars
        BY <2>1 DEF vars, TypeOK, ProcessesOK, At
    <2>2. CASE Next
        BY <2>2, OpensOK, CalledOK, RotatesOK, EndsOK, InstallsOK, ServiceOK, RebootOK DEF Next
    <2> QED
        BY <2>1, <2>2
<1> QED
    BY <1>1, TypeInit, PTL DEF Spec

-----------------------------------------------------------------------------
(* The token.  Only a rotation's own steps, and the early end of one, touch *)
(* what the rotation lock protects; every other step is quiet.              *)

Busy == {"mint", "store", "print"}

QuietFiles ==
    /\ UNCHANGED <<host, custody, lock, shown>>
    /\ cut'.tokens = cut.tokens /\ cut'.copies = cut.copies
    /\ \A h \in Homes : home'[h].hash = home[h].hash
QuietProcesses ==
    \A q \in Commands : proc[q].at \in Busy \/ proc'[q].at \in Busy => proc'[q] = proc[q]

LEMMA OneQuiet ==
    ASSUME ProcessesOK, NEW p, NEW r, p \in Processes,
           proc' = [proc EXCEPT ![p] = r], proc[p].at \notin Busy, r.at \notin Busy
    PROVE  QuietProcesses
BY DEF ProcessesOK, QuietProcesses, Processes

LEMMA BothQuiet ==
    ASSUME ProcessesOK, NEW r, NEW t, proc' = [proc EXCEPT !["install"] = r, !["serve"] = t],
           proc["install"].at \notin Busy, r.at \notin Busy
    PROVE  QuietProcesses
BY InstallIsOne DEF ProcessesOK, QuietProcesses, Processes

LEMMA MovedQuiet ==
    ASSUME ProcessesOK, NEW p, NEW place, p \in Processes, Moves(p, place),
           proc[p].at \notin Busy, place \notin Busy
    PROVE  QuietProcesses
<1> DEFINE r == [proc[p] EXCEPT !.at = place]
<1>1. r.at = place /\ proc' = [proc EXCEPT ![p] = r]
    BY DEF ProcessesOK, Carried, Moves
<1> HIDE DEF r
<1> QED
    BY <1>1, OneQuiet

LEMMA EndedQuiet ==
    ASSUME ProcessesOK, NEW p, p \in Processes, Ended(p), proc[p].at \notin Busy
    PROVE  QuietProcesses
<1> DEFINE r == IF p = "serve" THEN [Blank EXCEPT !.at = "wait"] ELSE Blank
<1>1. r.at \notin Busy /\ proc' = [proc EXCEPT ![p] = r]
    BY BlankType DEF Ended, Carried, Busy
<1> HIDE DEF r
<1> QED
    BY <1>1, OneQuiet

LEMMA OpenedQuiet ==
    ASSUME ProcessesOK, NEW p, NEW k, p \in Processes, Opened(p, k), proc[p].at \notin Busy
    PROVE  QuietProcesses
<1> DEFINE r == [proc[p] EXCEPT !.key = k, !.at = AfterOpening(p)]
<1>1. r.at \notin Busy /\ proc' = [proc EXCEPT ![p] = r]
    BY DEF Opened, ProcessesOK, Carried, AfterOpening, Busy
<1> HIDE DEF r
<1> QED
    BY <1>1, OneQuiet

\* The service is no command: what it does is quiet.
LEMMA ServiceQuiet ==
    ASSUME ProcessesOK, NEW r, proc' = [proc EXCEPT !["serve"] = r]
    PROVE  QuietProcesses
BY InstallIsOne DEF ProcessesOK, QuietProcesses, Processes

LEMMA QuietOnFiles ==
    ASSUME TypeOK,
           \/ \E p \in Commands : Called(p)
           \/ \E p \in Processes : Opens(p)
           \/ Installs \/ Operates \/ Serves
    PROVE  QuietFiles
<1> USE DEF TypeOK, FilesOK, files, service, history, QuietFiles
<1>1. CASE \E p \in Commands : Called(p)
    BY <1>1 DEF Called
<1>2. ASSUME NEW p \in Processes, Opens(p) PROVE QuietFiles
    <2>1. CASE Choose(p) \/ Open(p) \/ Load(p)
        BY <2>1 DEF Choose, Open, Load
    <2>2. CASE Link(p)
        BY <2>2 DEF Link
    <2> QED
        BY <1>2, <2>1, <2>2 DEF Opens
<1>3. CASE Seal
    BY <1>3 DEF Seal
<1>4. CASE Unseal
    BY <1>4 DEF Unseal
<1>5. CASE CopyBinary \/ Prepare \/ Look \/ ProbeDelivers \/ ProbeFails \/ Ask \/ WriteUnit
    BY <1>5 DEF CopyBinary, Prepare, Look, ProbeDelivers, ProbeFails, Ask, WriteUnit
<1>6. CASE Reload \/ Enable \/ Restart \/ Bootout \/ Bootstrap
    BY <1>6 DEF Reload, Enable, Restart, Bootout, Bootstrap
<1>7. CASE Operates
    BY <1>7 DEF Operates, Uninstall, Stop, Start
<1>8. CASE Serves
    BY <1>8 DEF Serves, Launch, Check, Submitted, Relaunch, Crash
<1> QED
    BY <1>1, <1>2, <1>3, <1>4, <1>5, <1>6, <1>7, <1>8 DEF Installs

LEMMA QuietOnProcesses ==
    ASSUME TypeOK,
           \/ \E p \in Commands : Called(p)
           \/ \E p \in Processes : Opens(p)
           \/ Installs \/ Operates \/ Serves
    PROVE  QuietProcesses
<1> USE DEF TypeOK, At
<1>0. /\ Blank.at \notin Busy /\ Launched.at \notin Busy /\ "install" \in Processes
      /\ "serve" \in Processes /\ Commands \subseteq Processes
      /\ \A place \in Opening \cup Sealing \cup Installing \cup Serving \cup {"idle", "lock"} :
            place \notin Busy
    BY BlankType, InstallIsOne DEF Processes, Opening, Sealing, Installing, Serving, Busy
<1>1. CASE \E p \in Commands : Called(p)
    BY <1>0, <1>1, MovedQuiet DEF Called, Installing, Opening
<1>2. ASSUME NEW p \in Processes, Opens(p) PROVE QuietProcesses
    <2>1. proc[p].at \notin Busy
        BY <1>0, <1>2 DEF Opens, Choose, Open, Load, Link, Opening
    <2>2. \/ Ended(p) \/ \E k : Opened(p, k)
          \/ \E place \in Opening : Moves(p, place)
        BY <1>2 DEF Opens, Choose, Open, Load, Link, Opening
    <2> QED
        BY <1>0, <2>1, <2>2, EndedQuiet, OpenedQuiet, MovedQuiet
<1>3. ASSUME Look \/ ProbeDelivers PROVE QuietProcesses
    <2>1. proc["install"].at \notin Busy
        BY <1>0, <1>3 DEF Look, ProbeDelivers, Installing, Sealing
    <2>2. PICK place \in {"seal", "choose"}, b \in BOOLEAN :
             proc' = [proc EXCEPT !["install"].at = place, !["install"].sealed = b]
        BY <1>3 DEF Look, ProbeDelivers
    <2> DEFINE r == [proc["install"] EXCEPT !.at = place, !.sealed = b]
    <2>3. r.at \notin Busy /\ proc' = [proc EXCEPT !["install"] = r]
        BY <1>0, <2>2 DEF ProcessesOK, Carried, Sealing, Opening
    <2> HIDE DEF r
    <2> QED
        BY <1>0, <2>1, <2>3, OneQuiet
<1>4. ASSUME Restart \/ Bootout \/ Bootstrap PROVE QuietProcesses
    <2>1. proc["install"].at \notin Busy
        BY <1>0, <1>4 DEF Restart, Bootout, Bootstrap, Installing
    <2>2. PICK place \in {"bootstrap", "enable"}, t \in {Blank, Launched} :
             \/ proc' = [proc EXCEPT !["install"] = Blank, !["serve"] = t]
             \/ proc' = [proc EXCEPT !["install"].at = place, !["serve"] = t]
        BY <1>4 DEF Restart, Bootout, Bootstrap
    <2> DEFINE r == [proc["install"] EXCEPT !.at = place]
    <2>3. /\ r.at \notin Busy
          /\ \/ proc' = [proc EXCEPT !["install"] = Blank, !["serve"] = t]
             \/ proc' = [proc EXCEPT !["install"] = r, !["serve"] = t]
        BY <1>0, <2>2 DEF ProcessesOK, Carried, Installing
    <2> HIDE DEF r
    <2> QED
        BY <1>0, <2>1, <2>3, BothQuiet
<1>5. ASSUME Installs, ~(Look \/ ProbeDelivers \/ Restart \/ Bootout \/ Bootstrap)
      PROVE  QuietProcesses
    <2>1. /\ proc["install"].at \in Installing \cup Sealing
          /\ \/ Ended("install")
             \/ \E place \in Opening \cup Sealing \cup Installing \cup {"lock"} :
                    Moves("install", place)
        BY <1>5 DEF Installs, CopyBinary, Prepare, Seal, ProbeFails, Unseal, Ask,
                    WriteUnit, Reload, Enable, Opening, Sealing, Installing
    <2> QED
        BY <1>0, <2>1, EndedQuiet, MovedQuiet
<1>6. CASE Operates \/ Serves
    <2>1. \/ UNCHANGED proc \/ \E r : proc' = [proc EXCEPT !["serve"] = r]
        BY <1>6 DEF Operates, Uninstall, Stop, Start, Serves, Launch, Check, Submitted,
                    Relaunch, Crash, Ended, Moves
    <2> QED
        BY <2>1, ServiceQuiet DEF QuietProcesses
<1> QED
    BY <1>1, <1>2, <1>3, <1>4, <1>5, <1>6

\* What the lock and the tokens are about: a rotation between its two writes holds the
\* lock, so the hash it wrote is still the one when it stores its token.
LockHeld == \A p \in Commands : At(p) \in {"mint", "store"} => lock = p
TokenFresh == \A p \in Commands : At(p) = "store" => proc[p].token = home[CliHome].hash

Rotation == LockHeld /\ TokenFresh /\ CustodyAgrees /\ AcceptedIsShown

LEMMA RotationQuiet ==
    ASSUME TypeOK, Rotation, QuietFiles, QuietProcesses
    PROVE  Rotation'
<1> USE DEF QuietFiles, QuietProcesses, Busy, At
<1>1. LockHeld' /\ TokenFresh'
    BY HomesAssumption DEF Rotation, LockHeld, TokenFresh
<1>2. CustodyAgrees'
    BY HomesAssumption DEF Rotation, CustodyAgrees, Linux
<1>3. AcceptedIsShown'
    BY DEF Rotation, AcceptedIsShown
<1> QED
    BY <1>1, <1>2, <1>3 DEF Rotation

LEMMA RotationRotates ==
    ASSUME TypeOK, Rotation, NEW p, p \in Commands, Rotates(p)
    PROVE  Rotation'
<1> USE DEF TypeOK, FilesOK, ProcessesOK, Rotation, At
<1>0. /\ p \in Processes /\ Home(p) = CliHome /\ CliHome \in Homes /\ "free" \notin Commands
      /\ p # "serve" /\ Commands \subseteq Processes /\ Blank.at = "idle"
    BY HomesAssumption, InstallIsOne, BlankType DEF Home, Processes
<1> HIDE DEF Blank
<1>1. ASSUME Acquire(p) PROVE Rotation'
    <2> USE <1>0, <1>1 DEF Acquire, Moves, files, service, history
    <2>1. LockHeld' /\ TokenFresh'
        BY DEF LockHeld, TokenFresh
    <2>2. CustodyAgrees' /\ AcceptedIsShown'
        BY DEF CustodyAgrees, AcceptedIsShown, Linux
    <2> QED
        BY <2>1, <2>2
<1>2. ASSUME Mint(p) PROVE Rotation'
    <2> USE <1>0, <1>2 DEF Mint, service, history
    <2>1. /\ proc'[p].at = "store" /\ proc'[p].token = home'[CliHome].hash
          /\ \A q \in Commands : q # p => proc'[q] = proc[q] /\ At(q) \notin {"mint", "store"}
          /\ \A h \in Homes : h # CliHome => home'[h].hash = home[h].hash
        BY DEF LockHeld
    <2>2. LockHeld' /\ TokenFresh'
        BY <2>1 DEF LockHeld, TokenFresh
    <2>3. CustodyAgrees'
        BY <2>1 DEF CustodyAgrees
    <2>4. AcceptedIsShown'
        <3>1. ASSUME NEW h \in Homes, h # CliHome
              PROVE  \/ home'[h].hash \in {0} \cup shown' \cup cut'.tokens
                     \/ \E q \in Commands : proc'[q].at \in {"store", "print"}
                                           /\ proc'[q].token = home'[h].hash
            <4>1. CASE home[h].hash \in {0} \cup shown \cup cut.tokens
                BY <2>1, <3>1, <4>1
            <4>2. ASSUME NEW q \in Commands, At(q) \in {"store", "print"},
                         proc[q].token = home[h].hash
                  PROVE  proc'[q].at \in {"store", "print"} /\ proc'[q].token = home'[h].hash
                BY <2>1, <3>1, <4>2
            <4> QED
                BY <3>1, <4>1, <4>2 DEF AcceptedIsShown
        <3> QED
            BY <2>1, <3>1 DEF AcceptedIsShown
    <2> QED
        BY <2>2, <2>3, <2>4
<1>3. ASSUME Store(p) PROVE Rotation'
    <2> USE <1>0, <1>3 DEF Store, Moves, Unlocked, service
    <2>1. /\ proc'[p].at = "print" /\ proc'[p].token = proc[p].token
          /\ proc[p].token = home[CliHome].hash /\ UNCHANGED <<home, shown, host>>
          /\ \A q \in Commands : q # p => proc'[q] = proc[q] /\ At(q) \notin {"mint", "store"}
          /\ cut'.tokens = cut.tokens
        BY DEF LockHeld, TokenFresh
    <2>2. LockHeld' /\ TokenFresh'
        BY <2>1 DEF LockHeld, TokenFresh
    <2>3. CustodyAgrees'
        BY <2>1 DEF CustodyAgrees, Linux
    <2>4. AcceptedIsShown'
        <3>1. \A q \in Commands : At(q) \in {"store", "print"} =>
                 proc'[q].at \in {"store", "print"} /\ proc'[q].token = proc[q].token
            BY <2>1
        <3> QED
            BY <2>1, <3>1 DEF AcceptedIsShown
    <2> QED
        BY <2>2, <2>3, <2>4
<1>4. ASSUME PrintToken(p) PROVE Rotation'
    <2> USE <1>0, <1>4 DEF PrintToken, files, service
    <2>1. /\ proc'[p].at \notin {"mint", "store", "print"} /\ proc[p].at = "print"
          /\ \A q \in Commands : q # p => proc'[q] = proc[q]
          /\ UNCHANGED <<home, custody, cut, host, lock>>
          /\ shown' = shown \cup {proc[p].token}
        OBVIOUS
    <2>2. LockHeld' /\ TokenFresh'
        BY <2>1 DEF LockHeld, TokenFresh
    <2>3. CustodyAgrees' /\ AcceptedIsShown'
        BY <2>1 DEF CustodyAgrees, AcceptedIsShown, Linux
    <2> QED
        BY <2>2, <2>3
<1> QED
    BY <1>1, <1>2, <1>3, <1>4 DEF Rotates

LEMMA RotationEnds ==
    ASSUME TypeOK, Rotation, NEW p, p \in Commands, Fails(p) \/ Kill(p)
    PROVE  Rotation'
<1> USE DEF TypeOK, FilesOK, ProcessesOK, Rotation, At
<1>1. /\ proc'[p].at = "idle" /\ UNCHANGED <<home, custody, shown, host>>
      /\ \A q \in Commands : q # p => proc'[q] = proc[q]
      /\ lock' = IF lock = p THEN "free" ELSE lock
    BY InstallIsOne, BlankType
    DEF Fails, Kill, Ended, Unlocked, files, Processes
<1>2. /\ cut.tokens \subseteq cut'.tokens /\ cut.copies \subseteq cut'.copies
      /\ At(p) = "store" => proc[p].token \in cut'.tokens \cap cut'.copies
      /\ At(p) = "print" => proc[p].token \in cut'.tokens
    BY DEF Fails, Kill, LeftBehind, Fallible, Opening
<1>3. LockHeld' /\ TokenFresh'
    BY <1>1, InstallIsOne DEF LockHeld, TokenFresh
<1>4. CustodyAgrees'
    BY <1>1, <1>2 DEF CustodyAgrees, Linux
<1>5. AcceptedIsShown'
    BY <1>1, <1>2 DEF AcceptedIsShown
<1> QED
    BY <1>3, <1>4, <1>5

LEMMA RotationReboot ==
    ASSUME TypeOK, Rotation, Reboot
    PROVE  Rotation'
<1> USE DEF TypeOK, FilesOK, ProcessesOK, Rotation, At
<1>1. /\ \A q \in Commands : proc'[q].at = "idle"
      /\ UNCHANGED <<home, custody, shown, host>>
    BY InstallIsOne, BlankType DEF Reboot, files, Processes
<1>2. /\ cut.tokens \subseteq cut'.tokens /\ cut.copies \subseteq cut'.copies
      /\ \A q \in Commands :
            /\ At(q) = "store" => proc[q].token \in cut'.tokens \cap cut'.copies
            /\ At(q) = "print" => proc[q].token \in cut'.tokens
    BY DEF Reboot, LeftBehind
<1>3. LockHeld' /\ TokenFresh'
    BY <1>1 DEF LockHeld, TokenFresh
<1>4. CustodyAgrees'
    BY <1>1, <1>2 DEF CustodyAgrees, Linux
<1>5. AcceptedIsShown'
    BY <1>1, <1>2 DEF AcceptedIsShown
<1> QED
    BY <1>3, <1>4, <1>5

LEMMA RotationInvariant == Spec => []Rotation
<1>1. Init => Rotation
    BY InstallIsOne, HomesAssumption, BlankType
    DEF Init, Rotation, LockHeld, TokenFresh, CustodyAgrees, AcceptedIsShown, At, Processes
<1>2. TypeOK /\ Rotation /\ [Next]_vars => Rotation'
    <2> SUFFICES ASSUME TypeOK, Rotation, [Next]_vars PROVE Rotation'
        OBVIOUS
    <2>1. CASE UNCHANGED vars
        <3>1. UNCHANGED <<host, home, custody, lock, proc, shown, cut>>
            BY <2>1 DEF vars, files, history
        <3> QED
            BY <3>1, RotationQuiet DEF QuietFiles, QuietProcesses
    <2>2. CASE \E p \in Commands : Rotates(p) \/ Fails(p) \/ Kill(p)
        BY <2>2, RotationRotates, RotationEnds
    <2>3. CASE Reboot
        BY <2>3, RotationReboot
    <2>4. CASE \/ \E p \in Commands : Called(p)
               \/ \E p \in Processes : Opens(p)
               \/ Installs \/ Operates \/ Serves
        BY <2>4, QuietOnFiles, QuietOnProcesses, RotationQuiet
    <2> QED
        BY <2>1, <2>2, <2>3, <2>4 DEF Next
<1> QED
    BY <1>1, <1>2, TypeCorrect, PTL DEF Spec

\* Whatever is killed or fails, and however installs and rotations interleave, the
\* Keychain's token is the accepted one unless its own rotation was cut between the two
\* writes (authService.Rotate under filelock).
THEOREM TokensAgree == Spec => []CustodyAgrees
BY RotationInvariant, PTL DEF Rotation

\* No failure after the token exists loses it: it was printed, is about to be, or its
\* command was killed (printToken, "before anything that can fail").
THEOREM TokensShown == Spec => []AcceptedIsShown
BY RotationInvariant, PTL DEF Rotation

-----------------------------------------------------------------------------
(* The service: what it finds when it is launched.                          *)

Ending(p) == Fails(p) \/ Kill(p)

\* A step of a command, or of the daemon's opening, moves nobody else and leaves the
\* service manager alone.
LEMMA Alone ==
    ASSUME TypeOK, NEW p, p \in Processes, Called(p) \/ Opens(p) \/ Rotates(p) \/ Ending(p)
    PROVE  /\ \A q \in Processes : q # p => proc'[q] = proc[q]
           /\ UNCHANGED <<host, unit, loaded, enabled, account, bin>>
<1> USE DEF TypeOK, ProcessesOK, service, Moves, Ended, Opened
<1>1. CASE Called(p)
    BY <1>1 DEF Called
<1>2. CASE Opens(p)
    BY <1>2 DEF Opens, Choose, Open, Load, Link
<1>3. CASE Rotates(p)
    BY <1>3 DEF Rotates, Acquire, Mint, Store, PrintToken
<1>4. CASE Ending(p)
    BY <1>4 DEF Ending, Fails, Kill
<1> QED
    BY <1>1, <1>2, <1>3, <1>4

\* Where a command goes from where it is.
LEMMA GoesTo ==
    ASSUME TypeOK, NEW p, p \in Commands
    PROVE  /\ Called(p) => At(p) = "idle" /\ proc'[p].at \in {"copy", "choose"}
           /\ Opens(p) => At(p) \in Opening /\ proc'[p].at \in Opening \cup {"idle", "ask", "lock"}
           /\ Acquire(p) => At(p) = "lock" /\ proc'[p].at = "mint"
           /\ Mint(p) => At(p) = "mint" /\ proc'[p].at = "store"
           /\ Store(p) => At(p) = "store" /\ proc'[p].at = "print"
           /\ PrintToken(p) => At(p) = "print" /\ proc'[p].at \in {"unit", "idle"}
           /\ Ending(p) => At(p) # "idle" /\ proc'[p].at = "idle"
<1> USE DEF TypeOK, ProcessesOK, Moves, At
<1>0. p \in Processes /\ p # "serve" /\ Blank.at = "idle"
    BY InstallIsOne, BlankType DEF Processes
<1> HIDE DEF Blank
<1>1. Called(p) => At(p) = "idle" /\ proc'[p].at \in {"copy", "choose"}
    BY <1>0 DEF Called
<1>2. ASSUME Opens(p)
      PROVE  At(p) \in Opening /\ proc'[p].at \in Opening \cup {"idle", "ask", "lock"}
    <2>1. AfterOpening(p) \in {"ask", "lock"}
        BY <1>0 DEF AfterOpening
    <2>2. \/ Ended(p) \/ \E k : Opened(p, k)
          \/ \E place \in Opening : Moves(p, place)
        BY <1>2 DEF Opens, Choose, Open, Load, Link, Opening
    <2>3. At(p) \in Opening
        BY <1>2 DEF Opens, Choose, Open, Load, Link, Opening
    <2> QED
        BY <1>0, <2>1, <2>2, <2>3 DEF Ended, Opened, Carried
<1>3. Acquire(p) => At(p) = "lock" /\ proc'[p].at = "mint"
    BY <1>0 DEF Acquire, Carried
<1>4. ASSUME Mint(p) PROVE At(p) = "mint" /\ proc'[p].at = "store"
    <2> DEFINE r == [proc[p] EXCEPT !.at = "store", !.token = minted.tokens + 1]
    <2>1. r.at = "store" /\ proc' = [proc EXCEPT ![p] = r]
        BY <1>0, <1>4 DEF Mint, Carried
    <2> HIDE DEF r
    <2> QED
        BY <1>0, <1>4, <2>1 DEF Mint
<1>5. Store(p) => At(p) = "store" /\ proc'[p].at = "print"
    BY <1>0 DEF Store
<1>6. PrintToken(p) => At(p) = "print" /\ proc'[p].at \in {"unit", "idle"}
    BY <1>0 DEF PrintToken
<1>7. Ending(p) => At(p) # "idle" /\ proc'[p].at = "idle"
    BY <1>0 DEF Ending, Fails, Kill, Ended, Fallible, Opening
<1> QED
    BY <1>1, <1>2, <1>3, <1>4, <1>5, <1>6, <1>7

\* A token exists before there is anything for a supervisor to start.
Placed == \/ unit # "none" \/ loaded # "none" \/ enabled \/ At("serve") # "idle"
          \/ At("install") \in {"store", "print", "unit", "reload", "enable", "restart",
                               "bootout", "bootstrap"}
Tokened == Placed => home[CliHome].hash # 0

LEMMA HashStays ==
    ASSUME TypeOK, Next, home[CliHome].hash # 0
    PROVE  home'[CliHome].hash # 0
<1> USE HomesAssumption DEF TypeOK, FilesOK, files
<1>1. CASE \/ \E p \in Commands : Called(p)
           \/ \E p \in Processes : Opens(p)
           \/ Installs \/ Operates \/ Serves
    BY <1>1, QuietOnFiles DEF QuietFiles
<1>2. CASE \E p \in Commands : Rotates(p)
    BY <1>2 DEF Rotates, Acquire, Mint, Store, PrintToken
<1>3. CASE Reboot \/ \E p \in Commands : Fails(p) \/ Kill(p)
    BY <1>3 DEF Reboot, Fails, Kill
<1> QED
    BY <1>1, <1>2, <1>3 DEF Next

LEMMA PlacedLate ==
    ASSUME TypeOK, Next, ~Placed, Placed'
    PROVE  home'[CliHome].hash # 0
<1> USE DEF Placed, At
<1>0. /\ proc \in [Processes -> Carried] /\ Blank.at = "idle"
      /\ "install" \in Commands /\ "install" \in Processes /\ "serve" \in Processes
      /\ "serve" \notin Commands /\ Commands \subseteq Processes
    BY InstallIsOne, BlankType DEF TypeOK, ProcessesOK, Processes
<1> HIDE DEF Blank
<1>1. ASSUME NEW p \in Commands, Called(p) \/ Opens(p) \/ Rotates(p) \/ Ending(p)
      PROVE  p = "install" /\ Mint(p)
    <2>1. p = "install"
        BY <1>0, <1>1, Alone
    <2>2. ~(Called(p) \/ Opens(p) \/ Acquire(p) \/ Store(p) \/ PrintToken(p) \/ Ending(p))
        BY <1>0, <2>1, Alone, GoesTo DEF Opening, Rotates
    <2> QED
        BY <1>1, <2>1, <2>2 DEF Rotates
<1>2. ASSUME Mint("install") PROVE home'[CliHome].hash # 0
    BY <1>0, <1>2, InstallIsOne, HomesAssumption DEF Mint, Home, TypeOK, FilesOK
<1>3. CASE Installs
    <2>1. ASSUME Ask PROVE home'[CliHome].hash # 0
        <3>1. home[CliHome].hash = 0 => proc'["install"].at = "lock"
            BY <1>0, <2>1 DEF Ask, Moves, Home, Carried
        <3>2. home[CliHome].hash = 0 => ~Placed'
            BY <1>0, <2>1, <3>1 DEF Ask, Moves, service
        <3> QED
            BY <2>1, <3>2 DEF Ask, files
    <2>2. CASE Look \/ ProbeDelivers
        <3>1. PICK place \in {"seal", "choose"}, b \in BOOLEAN :
                 proc' = [proc EXCEPT !["install"].at = place, !["install"].sealed = b]
            BY <2>2 DEF Look, ProbeDelivers
        <3> DEFINE r == [proc["install"] EXCEPT !.at = place, !.sealed = b]
        <3>2. r.at = place /\ proc' = [proc EXCEPT !["install"] = r]
            BY <1>0, <3>1 DEF Carried
        <3>3. UNCHANGED service
            BY <2>2 DEF Look, ProbeDelivers
        <3> HIDE DEF r
        <3> QED
            BY <1>0, <3>1, <3>2, <3>3 DEF service
    <2>3. CASE CopyBinary \/ Prepare \/ Seal \/ ProbeFails \/ Unseal
        <3>1. PICK place \in {"prepare", "look", "probe", "unseal", "choose"} :
                 Moves("install", place)
            BY <2>3 DEF CopyBinary, Prepare, Seal, ProbeFails, Unseal
        <3>2. UNCHANGED <<unit, loaded, enabled>>
            BY <2>3 DEF CopyBinary, Prepare, Seal, ProbeFails, Unseal, service
        <3> QED
            BY <1>0, <3>1, <3>2 DEF Moves, Carried
    <2> QED
        BY <1>3, <2>1, <2>2, <2>3
        DEF Installs, WriteUnit, Reload, Enable, Restart, Bootout, Bootstrap
<1>4. CASE Operates \/ Serves \/ Opens("serve")
    BY <1>4 DEF Operates, Uninstall, Stop, Start, Serves, Launch, Check, Submitted, Relaunch,
                Crash, Running, Opens, Choose, Open, Load, Link
<1>5. CASE Reboot
    BY <1>0, <1>5 DEF Reboot
<1> QED
    BY <1>1, <1>2, <1>3, <1>4, <1>5 DEF Next, Ending, Processes

OneHome == CliHome = ServiceHome

\* Where the commands open the service's own home, a started service always finds a
\* token, whatever was reinstalled, killed or removed (ensureAPIToken before Install).
THEOREM ServiceFindsToken ==
    ASSUME OneHome
    PROVE  Spec => []NeverRefused
<1>1. Init => Tokened
    BY BlankType, InstallIsOne DEF Init, Tokened, Placed, At, Processes
<1>2. TypeOK /\ Tokened /\ [Next]_vars => Tokened'
    <2>1. TypeOK /\ Tokened /\ Next => Tokened'
        BY HashStays, PlacedLate DEF Tokened
    <2>2. Tokened /\ UNCHANGED vars => Tokened'
        BY DEF Tokened, Placed, At, vars, files, service
    <2> QED
        BY <2>1, <2>2
<1>3. Tokened => NeverRefused
    BY OneHome DEF Tokened, Placed, NeverRefused, OneHome
<1> QED
    BY <1>1, <1>2, <1>3, TypeCorrect, PTL DEF Spec

-----------------------------------------------------------------------------
(* What runs after an install that reported success.                        *)

\* The service, if it runs, is the one install just put in place.
Installed ==
    /\ loaded = unit
    /\ Running => proc["serve"].build = bin /\ (proc["serve"].sealed <=> unit = "sealed")

Fresh ==
    /\ reported => At("install") = "idle" /\ Installed
    /\ At("install") \in {"enable", "restart"} => loaded = unit
    /\ At("install") = "reload" => Linux
    /\ At("install") = "enable" /\ ~Linux => Installed

\* The daemon's record, along its own steps: where it goes, as what.
LEMMA ServeKeeps ==
    ASSUME TypeOK, Opens("serve") \/ Check \/ Submitted \/ Relaunch \/ Crash
    PROVE  /\ proc' = [proc EXCEPT !["serve"] = proc'["serve"]]
           /\ \/ proc'["serve"].at \in {"wait", "idle", "launch"}
              \/ /\ Running
                 /\ proc'["serve"].build = proc["serve"].build
                 /\ proc'["serve"].sealed = proc["serve"].sealed
           /\ UNCHANGED <<unit, loaded, enabled, bin, host, reported>>
<1> USE DEF TypeOK, ProcessesOK, At, service, history, Carried
<1>0. /\ Blank.at = "idle" /\ Launched.at = "launch" /\ [Blank EXCEPT !.at = "wait"].at = "wait"
      /\ "serve" \in Processes
    BY BlankType, InstallIsOne
<1> HIDE DEF Blank
<1>1. CASE Relaunch \/ Crash
    BY <1>0, <1>1 DEF Relaunch, Crash, Ended
<1>2. CASE Submitted
    BY <1>0, <1>2 DEF Submitted, Running
<1>3. ASSUME Opens("serve") \/ Check
      PROVE  /\ Running
             /\ UNCHANGED <<unit, loaded, enabled, bin, host, reported>>
             /\ \/ Ended("serve") \/ \E k : Opened("serve", k)
                \/ \E place \in Places : Moves("serve", place)
    BY <1>3 DEF Opens, Choose, Open, Load, Link, Check, Running, Places, Opening, Serving
<1>4. CASE Opens("serve") \/ Check
    <2>1. ASSUME Ended("serve")
          PROVE  proc' = [proc EXCEPT !["serve"] = proc'["serve"]] /\ proc'["serve"].at = "wait"
        BY <1>0, <2>1 DEF Ended
    <2>2. ASSUME NEW k, Opened("serve", k)
          PROVE  /\ proc' = [proc EXCEPT !["serve"] = proc'["serve"]]
                 /\ proc'["serve"].build = proc["serve"].build
                 /\ proc'["serve"].sealed = proc["serve"].sealed
        BY <1>0, <2>2 DEF Opened
    <2>3. ASSUME NEW place, Moves("serve", place)
          PROVE  /\ proc' = [proc EXCEPT !["serve"] = proc'["serve"]]
                 /\ proc'["serve"].build = proc["serve"].build
                 /\ proc'["serve"].sealed = proc["serve"].sealed
        BY <1>0, <2>3 DEF Moves
    <2> QED
        BY <1>3, <1>4, <2>1, <2>2, <2>3
<1> QED
    BY <1>1, <1>2, <1>4

LEMMA FreshInstalls ==
    ASSUME TypeOK, Fresh, Installs
    PROVE  Fresh'
<1> USE DEF TypeOK, ProcessesOK, At, Moves, service, history, Linux
<1>0. /\ Blank.at = "idle" /\ Launched.at = "launch"
      /\ "install" \in Processes /\ "serve" \in Processes
    BY BlankType, InstallIsOne
<1> HIDE DEF Blank, Launched
<1>1. At("install") # "idle"
    BY DEF Installs, CopyBinary, Prepare, Look, Seal, ProbeDelivers, ProbeFails, Unseal,
           Ask, WriteUnit, Reload, Enable, Restart, Bootout, Bootstrap
<1>2. ~reported
    BY <1>1 DEF Fresh
<1>3. CASE CopyBinary \/ Prepare \/ Seal \/ ProbeFails \/ Unseal \/ Ask
    <2>1. PICK place \in {"prepare", "look", "probe", "unseal", "choose", "lock", "unit"} :
             Moves("install", place)
        BY <1>3 DEF CopyBinary, Prepare, Seal, ProbeFails, Unseal, Ask
    <2>2. UNCHANGED reported
        BY <1>3 DEF CopyBinary, Prepare, Seal, ProbeFails, Unseal, Ask
    <2> QED
        BY <1>0, <1>2, <2>1, <2>2 DEF Fresh, Carried
<1>4. CASE Look \/ ProbeDelivers
    <2>1. PICK place \in {"seal", "choose"}, b \in BOOLEAN :
             proc' = [proc EXCEPT !["install"].at = place, !["install"].sealed = b]
        BY <1>4 DEF Look, ProbeDelivers
    <2> DEFINE r == [proc["install"] EXCEPT !.at = place, !.sealed = b]
    <2>2. r.at = place /\ proc' = [proc EXCEPT !["install"] = r]
        BY <1>0, <2>1 DEF Carried
    <2>3. UNCHANGED reported
        BY <1>4 DEF Look, ProbeDelivers
    <2> HIDE DEF r
    <2> QED
        BY <1>0, <1>2, <2>1, <2>2, <2>3 DEF Fresh
<1>5. CASE WriteUnit
    BY <1>0, <1>2, <1>5 DEF WriteUnit, Fresh, Carried
<1>6. CASE Reload
    BY <1>0, <1>2, <1>6 DEF Reload, Fresh, Carried
<1>7. CASE Enable
    <2>1. CASE Linux
        BY <1>0, <1>2, <1>7, <2>1 DEF Enable, Fresh, Carried
    <2>2. CASE ~Linux
        BY <1>0, <1>7, <2>2 DEF Enable, Ended, Fresh, Installed, Running
    <2> QED
        BY <2>1, <2>2
<1>8. CASE Restart
    BY <1>0, <1>8 DEF Restart, Fresh, Installed, Running
<1>9. CASE Bootout
    BY <1>0, <1>2, <1>9 DEF Bootout, Fresh, Carried
<1>10. CASE Bootstrap
    BY <1>0, <1>2, <1>10 DEF Bootstrap, Fresh, Installed, Running, Carried
<1> QED
    BY <1>3, <1>4, <1>5, <1>6, <1>7, <1>8, <1>9, <1>10 DEF Installs

LEMMA FreshCommands ==
    ASSUME TypeOK, Fresh, NEW p, p \in Commands,
           Called(p) \/ Opens(p) \/ Rotates(p) \/ Ending(p)
    PROVE  Fresh'
<1> USE DEF At, Linux
<1>0. p \in Processes /\ "install" \in Processes /\ "serve" \in Processes /\ p # "serve"
    BY InstallIsOne DEF Processes
<1>1. /\ \A q \in Processes : q # p => proc'[q] = proc[q]
      /\ UNCHANGED <<host, unit, loaded, bin>>
    BY <1>0, Alone
<1>2. \/ UNCHANGED reported /\ At(p) # "idle"
      \/ reported' = (reported /\ p # "install")
    BY DEF Called, Opens, Choose, Open, Load, Link, Rotates, Acquire, Mint, Store, PrintToken,
           Ending, Fails, Kill, history, Fallible, Opening
<1>3. Installed' = Installed
    BY <1>0, <1>1 DEF Installed, Running
<1>4. ASSUME p # "install" PROVE Fresh'
    <2>1. UNCHANGED <<reported, unit, loaded, host>> /\ proc'["install"] = proc["install"]
        BY <1>0, <1>1, <1>2, <1>4 DEF TypeOK, FilesOK
    <2> QED
        BY <1>3, <2>1 DEF Fresh
<1>5. CASE p = "install"
    <2>1. ~reported'
        BY <1>2, <1>5 DEF Fresh
    <2>2. proc'["install"].at \notin {"reload", "enable", "restart"}
        BY <1>5, GoesTo, InstallIsOne DEF Opening, Rotates
    <2> QED
        BY <2>1, <2>2 DEF Fresh
<1> QED
    BY <1>4, <1>5

LEMMA FreshService ==
    ASSUME TypeOK, Fresh, Operates \/ Serves \/ Opens("serve")
    PROVE  Fresh'
<1> USE DEF TypeOK, ProcessesOK, At, Linux, service, history
<1>0. /\ Blank.at = "idle" /\ Launched.at = "launch"
      /\ "install" \in Processes /\ "serve" \in Processes
    BY BlankType, InstallIsOne
<1>1. CASE Operates
    <2> HIDE DEF Blank, Launched
    <2>1. CASE Uninstall \/ Stop
        BY <1>0, <2>1 DEF Uninstall, Stop, Fresh
    <2>2. CASE Start
        BY <1>0, <2>2 DEF Start, Fresh, Installed, Running
    <2> QED
        BY <1>1, <2>1, <2>2 DEF Operates
<1>2. CASE Launch
    <2> DEFINE handed == loaded = "sealed" /\ host.delivers
               t == [Blank EXCEPT !.build = bin, !.sealed = loaded = "sealed",
                       !.key = IF handed THEN home[ServiceHome].blob ELSE 0,
                       !.at = IF handed THEN "check" ELSE "choose"]
    <2>1. t.build = bin /\ (t.sealed <=> loaded = "sealed")
        BY DEF Blank
    <2>2. /\ \/ Ended("serve") \/ proc' = [proc EXCEPT !["serve"] = t]
          /\ UNCHANGED <<unit, loaded, bin, host, reported>>
        BY <1>2 DEF Launch
    <2>3. [Blank EXCEPT !.at = "wait"].at = "wait"
        BY DEF Blank
    <2> HIDE DEF t
    <2>4. CASE Ended("serve")
        BY <1>0, <2>2, <2>3, <2>4 DEF Ended, Fresh, Installed, Running
    <2>5. CASE proc' = [proc EXCEPT !["serve"] = t]
        BY <1>0, <2>1, <2>2, <2>5 DEF Fresh, Installed, Running
    <2> QED
        BY <2>2, <2>4, <2>5
<1>3. ASSUME Opens("serve") \/ Check \/ Submitted \/ Relaunch \/ Crash PROVE Fresh'
    BY <1>0, <1>3, ServeKeeps DEF Fresh, Installed, Running
<1> QED
    BY <1>1, <1>2, <1>3 DEF Serves

LEMMA FreshReboot ==
    ASSUME TypeOK, Fresh, Reboot
    PROVE  Fresh'
<1>1. /\ \A p \in Processes : proc'[p].at \in {"idle", "launch"}
      /\ proc'["install"].at = "idle"
    BY BlankType, InstallIsOne DEF Reboot
<1> QED
    BY <1>1, InstallIsOne DEF Reboot, Fresh, Installed, Running, At, Linux

\* After an install that reported success the service that runs is the build it copied,
\* under the unit it wrote, on any host and whatever was running before (systemd.go
\* Install, "restart, NOT `enable --now`"; launchd.go's bootout and bootstrap).
THEOREM InstalledRuns == Spec => []RunsInstalled
<1>1. Init => Fresh
    BY BlankType, InstallIsOne DEF Init, Fresh, At, Processes
<1>2. TypeOK /\ Fresh /\ [Next]_vars => Fresh'
    <2>1. ASSUME TypeOK, Fresh, Next PROVE Fresh'
        BY <2>1, FreshInstalls, FreshCommands, FreshService, FreshReboot, InstallIsOne
        DEF Next, Ending, Processes
    <2>2. Fresh /\ UNCHANGED vars => Fresh'
        BY DEF Fresh, Installed, Running, At, Linux, vars, service, history
    <2> QED
        BY <2>1, <2>2
<1>3. Fresh => RunsInstalled
    BY DEF Fresh, Installed, RunsInstalled
<1> QED
    BY <1>1, <1>2, <1>3, TypeCorrect, PTL DEF Spec

-----------------------------------------------------------------------------
(* The master key: settled before anything can be sealed under it.          *)

\* The key of this home, wherever it is kept.
Blob == home[ServiceHome].blob
Own == home[ServiceHome].own

\* Macs that have their Keychain item: its creation is a race the system does not settle.
MacsKeyed == \A h \in Hosts : h.os = "darwin" => h.key # 0

Past == {"ask", "lock", "mint", "store", "print", "unit", "reload", "enable", "restart",
         "bootout", "bootstrap"}

\* Something depends on the key, or is about to.
Settled == \/ sealed # {} \/ unit # "none" \/ loaded # "none" \/ enabled
           \/ At("serve") # "idle" \/ At("install") \in Past

MacKeyed == ~Linux =>
    /\ Own # 0 /\ Blob = 0 /\ At("install") \notin Sealing
    /\ \A p \in Processes : At(p) # "link"
KeySettled == Settled => NextKey # 0 /\ At("install") \notin Sealing
ServeKey ==
    /\ At("serve") \in {"load", "link"} => Blob = 0
    /\ At("serve") \in {"check", "serving"} => proc["serve"].key = NextKey

Keyed == MacKeyed /\ KeySettled /\ ServeKey /\ Readable

LEMMA KeyFiles ==
    ASSUME TypeOK, Next
    PROVE  \/ Blob' = Blob /\ Own' = Own
           \/ Seal \/ Unseal \/ \E p \in Processes : Link(p)
<1> USE HomesAssumption DEF TypeOK, FilesOK, files, Blob, Own
<1>1. CASE \E p \in Commands : Called(p) \/ Fails(p) \/ Kill(p)
    BY <1>1 DEF Called, Fails, Kill
<1>2. CASE \E p \in Commands : Rotates(p)
    BY <1>2 DEF Rotates, Acquire, Mint, Store, PrintToken
<1>3. CASE \E p \in Processes : Choose(p) \/ Open(p) \/ Load(p)
    BY <1>3 DEF Choose, Open, Load
<1>4. CASE CopyBinary \/ Prepare \/ Look \/ ProbeDelivers \/ ProbeFails \/ Ask \/ WriteUnit
    BY <1>4 DEF CopyBinary, Prepare, Look, ProbeDelivers, ProbeFails, Ask, WriteUnit
<1>5. CASE Reload \/ Enable \/ Restart \/ Bootout \/ Bootstrap
    BY <1>5 DEF Reload, Enable, Restart, Bootout, Bootstrap
<1>6. CASE Operates
    BY <1>6 DEF Operates, Uninstall, Stop, Start
<1>7. CASE Serves \/ Reboot
    BY <1>7 DEF Serves, Launch, Check, Submitted, Relaunch, Crash, Reboot
<1> QED
    BY <1>1, <1>2, <1>3, <1>4, <1>5, <1>6, <1>7 DEF Next, Opens, Installs

LEMMA HostStays == TypeOK /\ Next => UNCHANGED host
<1> SUFFICES ASSUME TypeOK, Next PROVE UNCHANGED host
    OBVIOUS
<1>1. CASE \/ \E p \in Commands : Called(p)
           \/ \E p \in Processes : Opens(p)
           \/ Installs \/ Operates \/ Serves
    BY <1>1, QuietOnFiles DEF QuietFiles
<1>2. CASE Reboot \/ \E p \in Commands : Rotates(p) \/ Fails(p) \/ Kill(p)
    BY <1>2 DEF Reboot, Fails, Kill, Rotates, Acquire, Mint, Store, PrintToken
<1> QED
    BY <1>1, <1>2 DEF Next

LEMMA KeyStays ==
    ASSUME OneHome, TypeOK, Keyed, Next, Settled
    PROVE  NextKey' = NextKey /\ Blob' = Blob
<1> USE HomesAssumption DEF TypeOK, FilesOK, Blob, Own, NextKey
<1>1. NextKey # 0 /\ At("install") \notin Sealing
    BY DEF Keyed, KeySettled
<1>2. CASE Blob' = Blob /\ Own' = Own
    BY <1>2
<1>3. CASE Seal \/ Unseal
    BY <1>1, <1>3 DEF Seal, Unseal, Sealing
<1>4. ASSUME NEW p \in Processes, Link(p) PROVE NextKey' = NextKey /\ Blob' = Blob
    <2>1. Linux /\ Home(p) = ServiceHome
        BY <1>4 DEF Link, Keyed, MacKeyed, Home, OneHome
    <2> QED
        BY <1>1, <1>4, <2>1 DEF Link
<1> QED
    BY <1>2, <1>3, <1>4, KeyFiles DEF Blob, Own

\* A process comes to create a key only where it found none; install to seal one, too.
LEMMA LinkLate ==
    ASSUME OneHome, TypeOK, Next, NEW p, p \in Processes,
           At(p) # "link", proc'[p].at = "link"
    PROVE  Own = 0
<1> USE DEF At, Own
<1>0. /\ proc \in [Processes -> Carried] /\ Blank.at = "idle" /\ Launched.at = "launch"
      /\ [Blank EXCEPT !.at = "wait"].at = "wait"
      /\ "install" \in Processes /\ "serve" \in Processes /\ "install" \in Commands
      /\ "serve" \notin Commands /\ Commands \subseteq Processes
      /\ Home(p) = ServiceHome
    BY InstallIsOne, BlankType DEF TypeOK, ProcessesOK, Processes, Carried, Home, OneHome
<1> HIDE DEF Blank, Launched
<1>1. ASSUME NEW q \in Commands, Called(q) \/ Rotates(q) \/ Ending(q) PROVE FALSE
    <2>1. proc'[q].at # "link"
        BY <1>1, GoesTo DEF Rotates
    <2> QED
        BY <1>0, <1>1, <2>1, Alone
<1>2. ASSUME NEW q \in Processes, Opens(q) PROVE Own = 0
    <2>1. q = p
        BY <1>2, Alone
    <2>2. /\ ~Ended(p)
          /\ \A k : ~Opened(p, k)
        <3>1. AfterOpening(p) # "link"
            BY DEF AfterOpening
        <3>2. ASSUME NEW k, Opened(p, k) PROVE FALSE
            <4> DEFINE r == [proc[p] EXCEPT !.key = k, !.at = AfterOpening(p)]
            <4>1. r.at = AfterOpening(p) /\ proc' = [proc EXCEPT ![p] = r]
                BY <1>0, <3>2 DEF Opened, Carried
            <4> HIDE DEF r
            <4> QED
                BY <1>0, <3>1, <4>1
        <3>3. ~Ended(p)
            BY <1>0 DEF Ended
        <3> QED
            BY <3>2, <3>3
    <2>3. CASE Load(p)
        BY <1>0, <2>2, <2>3 DEF Load
    <2>4. CASE Choose(p)
        BY <1>0, <2>2, <2>4 DEF Choose, Moves, Carried
    <2>5. CASE Open(p) \/ Link(p)
        BY <2>2, <2>5 DEF Open, Link
    <2> QED
        BY <1>2, <2>1, <2>3, <2>4, <2>5 DEF Opens
<1>3. ASSUME Look \/ ProbeDelivers PROVE FALSE
    <2>1. PICK place \in {"seal", "choose"}, b \in BOOLEAN :
             proc' = [proc EXCEPT !["install"].at = place, !["install"].sealed = b]
        BY <1>3 DEF Look, ProbeDelivers
    <2> DEFINE r == [proc["install"] EXCEPT !.at = place, !.sealed = b]
    <2>2. r.at = place /\ proc' = [proc EXCEPT !["install"] = r]
        BY <1>0, <2>1 DEF Carried
    <2> HIDE DEF r
    <2> QED
        BY <1>0, <2>1, <2>2
<1>4. ASSUME Restart \/ Bootout \/ Bootstrap PROVE FALSE
    <2>1. PICK place \in {"bootstrap", "enable"}, t \in {Blank, Launched} :
             \/ proc' = [proc EXCEPT !["install"] = Blank, !["serve"] = t]
             \/ proc' = [proc EXCEPT !["install"].at = place, !["serve"] = t]
        BY <1>4 DEF Restart, Bootout, Bootstrap
    <2> DEFINE r == [proc["install"] EXCEPT !.at = place]
    <2>2. /\ r.at = place
          /\ \/ proc' = [proc EXCEPT !["install"] = Blank, !["serve"] = t]
             \/ proc' = [proc EXCEPT !["install"] = r, !["serve"] = t]
        BY <1>0, <2>1 DEF Carried
    <2> HIDE DEF r
    <2> QED
        BY <1>0, <2>1, <2>2
<1>5. ASSUME Installs, ~(Look \/ ProbeDelivers \/ Restart \/ Bootout \/ Bootstrap) PROVE FALSE
    <2>1. \/ Ended("install")
          \/ \E place \in {"prepare", "look", "probe", "unseal", "choose", "lock", "unit", "reload",
                           "enable", "restart", "bootout"} : Moves("install", place)
        BY <1>5 DEF Installs, CopyBinary, Prepare, Seal, ProbeFails, Unseal, Ask,
                    WriteUnit, Reload, Enable
    <2> QED
        BY <1>0, <2>1 DEF Ended, Moves, Carried
<1>6. ASSUME Operates \/ Relaunch \/ Crash \/ Submitted \/ Check PROVE FALSE
    BY <1>0, <1>6 DEF Operates, Uninstall, Stop, Start, Relaunch, Crash, Submitted, Check,
                      Ended, Moves, Carried
<1>7. ASSUME Launch PROVE FALSE
    <2> DEFINE handed == loaded = "sealed" /\ host.delivers
               t == [Blank EXCEPT !.build = bin, !.sealed = loaded = "sealed",
                       !.key = IF handed THEN home[ServiceHome].blob ELSE 0,
                       !.at = IF handed THEN "check" ELSE "choose"]
    <2>1. t.at # "link"
        BY BlankType DEF Carried
    <2>2. Ended("serve") \/ proc' = [proc EXCEPT !["serve"] = t]
        BY <1>7 DEF Launch
    <2> HIDE DEF t
    <2> QED
        BY <1>0, <2>1, <2>2 DEF Ended
<1>8. ASSUME Reboot PROVE FALSE
    BY <1>0, <1>8 DEF Reboot
<1> QED
    BY <1>1, <1>2, <1>3, <1>4, <1>5, <1>6, <1>7, <1>8 DEF Next, Ending, Serves

\* Install's own steps: past the key only from past it, sealing only on finding none,
\* and the service, if touched at all, is stopped or launched.
LEMMA InstallGoes ==
    ASSUME TypeOK, Installs
    PROVE  /\ At("install") \in Past \/ proc'["install"].at \notin Past
           /\ proc'["install"].at \in Sealing =>
                At("install") \in Sealing \/ (MaySeal /\ UNCHANGED home)
           /\ proc'["serve"] = proc["serve"] \/ proc'["serve"].at \in {"idle", "launch"}
           /\ At("install") \in Past \/ proc'["serve"] = proc["serve"]
           /\ At("install") \in Past \/ UNCHANGED <<sealed, unit, loaded, enabled>>
<1> USE DEF At, Past, Sealing
<1>0. /\ proc \in [Processes -> Carried] /\ Blank.at = "idle" /\ Launched.at = "launch"
      /\ "install" \in Processes /\ "serve" \in Processes
    BY InstallIsOne, BlankType DEF TypeOK, ProcessesOK, Processes
<1> HIDE DEF Blank, Launched
<1>1. CASE Look
    <2>1. PICK place, b :
             /\ proc' = [proc EXCEPT !["install"].at = place, !["install"].sealed = b]
             /\ place = IF MaySeal THEN "seal" ELSE "choose"
        BY <1>1 DEF Look
    <2> DEFINE r == [proc["install"] EXCEPT !.at = place, !.sealed = b]
    <2>2. r.at = place /\ proc' = [proc EXCEPT !["install"] = r]
        BY <1>0, <2>1 DEF Carried
    <2>3. UNCHANGED <<home, sealed, unit, loaded, enabled>>
        BY <1>1 DEF Look, files, service
    <2> HIDE DEF r
    <2> QED
        BY <1>0, <2>1, <2>2, <2>3
<1>2. CASE ProbeDelivers
    <2> DEFINE r == [proc["install"] EXCEPT !.at = "choose", !.sealed = TRUE]
    <2>2. r.at = "choose" /\ proc' = [proc EXCEPT !["install"] = r]
        BY <1>0, <1>2 DEF ProbeDelivers, Carried
    <2>3. UNCHANGED <<sealed, unit, loaded, enabled>>
        BY <1>2 DEF ProbeDelivers, files, service
    <2> HIDE DEF r
    <2> QED
        BY <1>0, <2>2, <2>3
<1>3. CASE CopyBinary \/ Prepare \/ Seal \/ ProbeFails \/ Unseal
    <2>1. PICK place \in {"prepare", "look", "probe", "unseal", "choose"} :
             /\ Moves("install", place)
             /\ place \in Sealing => At("install") \in Sealing
        BY <1>3 DEF CopyBinary, Prepare, Seal, ProbeFails, Unseal
    <2>2. UNCHANGED <<sealed, unit, loaded, enabled>>
        BY <1>3 DEF CopyBinary, Prepare, Seal, ProbeFails, Unseal, files, service
    <2> QED
        BY <1>0, <2>1, <2>2 DEF Moves, Carried
<1>4. CASE Ask \/ WriteUnit \/ Reload \/ Enable
    <2>1. /\ At("install") \in Past
          /\ \/ Ended("install")
             \/ \E place \in {"lock", "unit", "reload", "bootout", "enable", "restart"} :
                    Moves("install", place)
        BY <1>4 DEF Ask, WriteUnit, Reload, Enable
    <2> QED
        BY <1>0, <2>1 DEF Ended, Moves, Carried
<1>5. CASE Restart \/ Bootout \/ Bootstrap
    <2>1. PICK place \in {"bootstrap", "enable"}, t \in {Blank, Launched} :
             \/ proc' = [proc EXCEPT !["install"] = Blank, !["serve"] = t]
             \/ proc' = [proc EXCEPT !["install"].at = place, !["serve"] = t]
        BY <1>5 DEF Restart, Bootout, Bootstrap
    <2> DEFINE r == [proc["install"] EXCEPT !.at = place]
    <2>2. /\ r.at = place
          /\ \/ proc' = [proc EXCEPT !["install"] = Blank, !["serve"] = t]
             \/ proc' = [proc EXCEPT !["install"] = r, !["serve"] = t]
        BY <1>0, <2>1 DEF Carried
    <2>3. At("install") \in Past
        BY <1>5 DEF Restart, Bootout, Bootstrap
    <2> HIDE DEF r
    <2> QED
        BY <1>0, <2>1, <2>2, <2>3
<1> QED
    BY <1>1, <1>2, <1>3, <1>4, <1>5 DEF Installs

\* Opening a home gives a key only where there is one: there is one ever after.
LEMMA OpeningSettles ==
    ASSUME OneHome, TypeOK, MacKeyed, Opens("install"), proc'["install"].at \in {"ask", "lock"}
    PROVE  NextKey' # 0
<1> USE HomesAssumption DEF TypeOK, FilesOK, NextKey, files, At
<1>0. /\ "install" \in Processes /\ Home("install") = ServiceHome /\ Blank.at = "idle"
      /\ proc \in [Processes -> Carried] /\ "install" # "serve"
    BY InstallIsOne, BlankType DEF Home, OneHome, ProcessesOK
<1> HIDE DEF Blank
<1>1. CASE Choose("install")
    BY <1>0, <1>1 DEF Choose, Moves, Carried, Ended
<1>2. CASE Open("install")
    BY <1>0, <1>2 DEF Open, Ended
<1>3. CASE Load("install")
    BY <1>0, <1>3 DEF Load, Moves, Carried
<1>4. CASE Link("install")
    BY <1>0, <1>4 DEF Link, MacKeyed, Own, Blob
<1> QED
    BY <1>1, <1>2, <1>3, <1>4 DEF Opens

LEMMA SettledLate ==
    ASSUME OneHome, TypeOK, Keyed, Next, ~Settled, Settled'
    PROVE  NextKey' # 0 /\ proc'["install"].at \in {"ask", "lock"}
<1> USE DEF Settled, At
<1>0. /\ Blank.at = "idle" /\ "install" \in Commands
      /\ "install" \in Processes /\ "serve" \in Processes
      /\ "serve" \notin Commands /\ Commands \subseteq Processes
    BY InstallIsOne, BlankType DEF Processes
<1> HIDE DEF Blank
<1>1. ASSUME NEW p \in Commands, Called(p) \/ Opens(p) \/ Rotates(p) \/ Ending(p)
      PROVE  p = "install" /\ Opens(p) /\ proc'[p].at \in {"ask", "lock"}
    <2>0. UNCHANGED sealed
        BY <1>1 DEF Called, Opens, Choose, Open, Load, Link, Rotates, Acquire, Mint, Store,
                    PrintToken, Ending, Fails, Kill, files
    <2>1. p = "install"
        BY <1>0, <1>1, <2>0, Alone
    <2>2. proc'[p].at \in Past
        BY <1>0, <1>1, <2>0, <2>1, Alone
    <2>3. ~(Called(p) \/ Rotates(p) \/ Ending(p))
        BY <1>0, <2>1, <2>2, GoesTo DEF Past, Rotates
    <2> QED
        BY <1>1, <2>1, <2>2, <2>3, GoesTo DEF Past, Opening
<1>2. ASSUME Opens("install"), proc'["install"].at \in {"ask", "lock"} PROVE NextKey' # 0
    BY <1>2, OpeningSettles DEF Keyed
<1>3. ~Installs
    BY InstallGoes
<1>4. ~(Operates \/ Serves \/ Opens("serve"))
    BY DEF Operates, Uninstall, Stop, Start, Serves, Launch, Check, Submitted, Relaunch,
           Crash, Running, Opens, Choose, Open, Load, Link
<1>5. ~Reboot
    BY <1>0 DEF Reboot, Past, files
<1> QED
    BY <1>1, <1>2, <1>3, <1>4, <1>5 DEF Next, Ending, Processes

LEMMA SealLate ==
    ASSUME TypeOK, Next, At("install") \notin Sealing, proc'["install"].at \in Sealing
    PROVE  MaySeal /\ UNCHANGED home
<1> USE DEF At
<1>0. /\ Blank.at = "idle" /\ "install" \in Commands
      /\ "install" \in Processes /\ "serve" \in Processes
      /\ "serve" \notin Commands /\ Commands \subseteq Processes
      /\ proc \in [Processes -> Carried]
    BY InstallIsOne, BlankType DEF Processes, TypeOK, ProcessesOK
<1> HIDE DEF Blank
<1>1. ASSUME NEW p \in Commands, Called(p) \/ Opens(p) \/ Rotates(p) \/ Ending(p)
      PROVE  FALSE
    <2>1. proc'[p].at \notin Sealing
        BY <1>1, GoesTo DEF Rotates, Sealing, Opening
    <2> QED
        BY <1>0, <1>1, <2>1, Alone
<1>2. CASE Installs
    BY <1>2, InstallGoes
<1>3. ASSUME Operates \/ Serves \/ Opens("serve") PROVE FALSE
    <2>1. UNCHANGED proc \/ \E r : proc' = [proc EXCEPT !["serve"] = r]
        <3>1. CASE Operates \/ Serves
            BY <3>1 DEF Operates, Uninstall, Stop, Start, Serves, Launch, Check, Submitted,
                        Relaunch, Crash, Ended, Moves
        <3>2. CASE Opens("serve")
            <4>1. \A q \in Processes : q # "serve" => proc'[q] = proc[q]
                BY <1>0, <3>2, Alone
            <4> QED
                BY <1>0, <4>1, InstallIsOne
        <3> QED
            BY <1>3, <3>1, <3>2
    <2> QED
        BY <1>0, <2>1, InstallIsOne
<1>4. ASSUME Reboot PROVE FALSE
    BY <1>0, <1>4, InstallIsOne DEF Reboot, Sealing
<1> QED
    BY <1>1, <1>2, <1>3, <1>4 DEF Next, Ending, Processes

LEMMA MacKeyedNext ==
    ASSUME OneHome, TypeOK, Keyed, Next
    PROVE  MacKeyed'
<1> SUFFICES ASSUME ~Linux' PROVE MacKeyed'
    BY DEF MacKeyed
<1>1. ~Linux /\ Own # 0 /\ Blob = 0 /\ At("install") \notin Sealing
      /\ \A p \in Processes : At(p) # "link"
    BY HostStays DEF Linux, Keyed, MacKeyed
<1>2. Blob' = Blob /\ Own' = Own
    BY <1>1, KeyFiles DEF Seal, Unseal, Link, Sealing
<1>3. proc'["install"].at \notin Sealing
    BY <1>1, SealLate DEF MaySeal
<1>4. \A p \in Processes : proc'[p].at # "link"
    BY <1>1, LinkLate
<1> QED
    BY <1>1, <1>2, <1>3, <1>4 DEF MacKeyed, At

LEMMA KeySettledNext ==
    ASSUME OneHome, TypeOK, Keyed, Next
    PROVE  KeySettled'
<1> SUFFICES ASSUME Settled' PROVE NextKey' # 0 /\ proc'["install"].at \notin Sealing
    BY DEF KeySettled, At
<1>1. CASE Settled
    <2>1. NextKey # 0 /\ At("install") \notin Sealing
        BY <1>1 DEF Keyed, KeySettled
    <2>2. NextKey' # 0
        BY <1>1, <2>1, KeyStays
    <2>3. ~MaySeal
        BY <2>1 DEF MaySeal, NextKey
    <2> QED
        BY <2>1, <2>2, <2>3, SealLate
<1>2. CASE ~Settled
    BY <1>2, SettledLate DEF Sealing
<1> QED
    BY <1>1, <1>2

\* How the daemon comes to where it has a key, or looks for one.
LEMMA ServeComes ==
    ASSUME OneHome, TypeOK, Keyed, Next
    PROVE  \/ proc'["serve"] = proc["serve"]
           \/ proc'["serve"].at \in {"idle", "launch", "wait", "choose"}
           \/ /\ At("serve") # "idle"
              /\ proc'["serve"].at = "load" => Blob = 0
              /\ proc'["serve"].at = "link" => Blob = 0
              /\ proc'["serve"].at \in {"check", "serving"} => proc'["serve"].key = NextKey
<1> DEFINE Goal == \/ proc'["serve"] = proc["serve"]
                   \/ proc'["serve"].at \in {"idle", "launch", "wait", "choose"}
                   \/ /\ At("serve") # "idle"
                      /\ proc'["serve"].at = "load" => Blob = 0
                      /\ proc'["serve"].at = "link" => Blob = 0
                      /\ proc'["serve"].at \in {"check", "serving"} =>
                            proc'["serve"].key = NextKey
<1> USE DEF At
<1>0. /\ Blank.at = "idle" /\ Launched.at = "launch" /\ [Blank EXCEPT !.at = "wait"].at = "wait"
      /\ "serve" \in Processes /\ "serve" \notin Commands /\ Commands \subseteq Processes
      /\ proc \in [Processes -> Carried] /\ Home("serve") = ServiceHome
    BY InstallIsOne, BlankType DEF Processes, TypeOK, ProcessesOK, Carried, Home
<1> HIDE DEF Launched
<1>1. ASSUME NEW p \in Commands, Called(p) \/ Opens(p) \/ Rotates(p) \/ Ending(p) PROVE Goal
    BY <1>0, <1>1, Alone
<1>2. CASE Installs
    BY <1>2, InstallGoes
<1>3. CASE Operates \/ Relaunch \/ Crash \/ Submitted
    <2>1. \/ UNCHANGED proc
          \/ \E t \in {Blank, Launched, [Blank EXCEPT !.at = "wait"]} :
                proc' = [proc EXCEPT !["serve"] = t]
        BY <1>3 DEF Operates, Uninstall, Stop, Start, Relaunch, Crash, Submitted, Ended
    <2> HIDE DEF Blank
    <2> QED
        BY <1>0, <2>1
<1>4. CASE Reboot
    <2>1. proc'["serve"] \in {Blank, Launched}
        BY <1>0, <1>4 DEF Reboot
    <2> QED
        BY <1>0, <2>1
<1>5. ASSUME Ended("serve") PROVE proc'["serve"].at = "wait"
    BY <1>0, <1>5 DEF Ended
<1>6. ASSUME NEW k, Opened("serve", k), At("serve") # "idle", k = NextKey PROVE Goal
    <2>1. proc'["serve"].key = k /\ proc'["serve"].at = "check"
        BY <1>0, <1>6, InstallIsOne DEF Opened, AfterOpening, Carried
    <2> QED
        BY <1>6, <2>1
<1>7. ASSUME NEW place, Moves("serve", place)
      PROVE  proc'["serve"].at = place /\ proc'["serve"].key = proc["serve"].key
    BY <1>0, <1>7 DEF Moves, Carried
<1>8. CASE Choose("serve")
    BY <1>0, <1>5, <1>7, <1>8 DEF Choose, Keyed, MacKeyed, Blob
<1>9. CASE Load("serve")
    <2>1. Blob = 0 /\ At("serve") = "load"
        BY <1>9 DEF Load, Keyed, ServeKey
    <2>2. Own # 0 => Opened("serve", Own) /\ Own = NextKey
        BY <1>0, <1>9, <2>1 DEF Load, Own, NextKey, Blob
    <2>3. Own = 0 => Moves("serve", "link")
        BY <1>0, <1>9 DEF Load, Own
    <2> QED
        BY <1>6, <1>7, <2>1, <2>2, <2>3
<1>10. CASE Link("serve")
    <2>1. Blob = 0 /\ Linux /\ At("serve") = "link" /\ NextKey # 0
        BY <1>0, <1>10 DEF Link, Keyed, ServeKey, MacKeyed, KeySettled, Settled
    <2>2. Own # 0 /\ Own = NextKey
        BY <2>1 DEF Own, Blob, NextKey
    <2>3. Opened("serve", Own)
        BY <1>0, <1>10, <2>1, <2>2 DEF Link, Own
    <2> QED
        BY <1>6, <2>1, <2>2, <2>3
<1>11. CASE Check
    BY <1>5, <1>7, <1>11 DEF Check, Keyed, ServeKey
<1>12. CASE Launch
    <2> DEFINE handed == loaded = "sealed" /\ host.delivers
               t == [Blank EXCEPT !.build = bin, !.sealed = loaded = "sealed",
                       !.key = IF handed THEN home[ServiceHome].blob ELSE 0,
                       !.at = IF handed THEN "check" ELSE "choose"]
    <2>1. /\ t.at = IF handed THEN "check" ELSE "choose"
          /\ handed => t.key = Blob
        BY DEF Blank, Blob
    <2>2. /\ At("serve") = "launch"
          /\ \/ Ended("serve")
             \/ proc' = [proc EXCEPT !["serve"] = t] /\ (loaded = "sealed" => Blob # 0)
        BY <1>12 DEF Launch, Blob
    <2> HIDE DEF t
    <2>3. CASE proc' = [proc EXCEPT !["serve"] = t] /\ (loaded = "sealed" => Blob # 0)
        BY <1>0, <2>1, <2>2, <2>3 DEF NextKey, Blob
    <2> QED
        BY <1>5, <2>2, <2>3
<1>13. ~Open("serve")
    BY InstallIsOne DEF Open, TypeOK, ProcessesOK, PlacesOf, Serving
<1> QED
    BY <1>1, <1>2, <1>3, <1>4, <1>8, <1>9, <1>10, <1>11, <1>12, <1>13
    DEF Next, Ending, Processes, Serves, Opens

LEMMA ServeKeyNext ==
    ASSUME OneHome, TypeOK, Keyed, Next
    PROVE  ServeKey'
<1> USE DEF At
<1>1. CASE At("serve") = "idle"
    BY <1>1, ServeComes DEF ServeKey
<1>2. CASE At("serve") # "idle"
    <2>1. NextKey' = NextKey /\ Blob' = Blob
        BY <1>2, KeyStays DEF Settled
    <2> QED
        BY <2>1, ServeComes DEF ServeKey, Keyed
<1> QED
    BY <1>1, <1>2

\* Only the daemon seals.
LEMMA SealedStays ==
    ASSUME Next, ~Submitted
    PROVE  UNCHANGED sealed
<1>1. CASE Operates \/ Reboot \/ Serves
    BY <1>1 DEF Operates, Uninstall, Stop, Start, Serves, Launch, Check, Relaunch,
                      Crash, Reboot, files
<1>2. CASE \E p \in Commands : Called(p) \/ Rotates(p) \/ Fails(p) \/ Kill(p)
    BY <1>2 DEF Called, Rotates, Acquire, Mint, Store, PrintToken, Fails, Kill, files
<1>3. CASE \E p \in Processes : Opens(p)
    BY <1>3 DEF Opens, Choose, Open, Load, Link, files
<1>4. CASE Installs
    BY <1>4 DEF Installs, CopyBinary, Prepare, Look, Seal, ProbeDelivers, ProbeFails, Unseal,
                Ask, WriteUnit, Reload, Enable, Restart, Bootout, Bootstrap, files
<1> QED
    BY <1>1, <1>2, <1>3, <1>4 DEF Next

LEMMA ReadableNext ==
    ASSUME OneHome, TypeOK, Keyed, Next
    PROVE  Readable'
<1>1. ASSUME Submitted PROVE Readable'
    <2>1. proc["serve"].key = NextKey /\ Settled
        BY <1>1 DEF Submitted, Keyed, ServeKey, Settled, At
    <2>2. NextKey' = NextKey
        BY <2>1, KeyStays
    <2> QED
        BY <1>1, <2>1, <2>2 DEF Submitted, Keyed, Readable
<1>2. ASSUME ~Submitted PROVE UNCHANGED sealed
    BY <1>2, SealedStays
<1>3. ASSUME UNCHANGED sealed PROVE Readable'
    <2>1. sealed # {} => NextKey' = NextKey
        BY KeyStays DEF Settled
    <2> QED
        BY <1>3, <2>1 DEF Readable, Keyed
<1> QED
    BY <1>1, <1>2, <1>3

LEMMA KeyedInvariant ==
    ASSUME OneHome, MacsKeyed
    PROVE  Spec => []Keyed
<1>1. Init => Keyed
    <2> SUFFICES ASSUME Init PROVE Keyed
        OBVIOUS
    <2>1. /\ Own = host.key /\ Blob = 0 /\ (~Linux => host.key # 0)
          /\ \A p \in Processes : At(p) = "idle"
        BY HostsAssumption, HomesAssumption, MacsKeyed, BlankType
        DEF Init, Own, Blob, Linux, MacsKeyed, At
    <2> QED
        BY <2>1, InstallIsOne
        DEF Init, Keyed, MacKeyed, KeySettled, ServeKey, Readable, Settled, Past, Sealing
<1>2. TypeOK /\ Keyed /\ [Next]_vars => Keyed'
    <2>1. ASSUME TypeOK, Keyed, Next PROVE Keyed'
        BY <2>1, MacKeyedNext, KeySettledNext, ServeKeyNext, ReadableNext DEF Keyed
    <2>2. Keyed /\ UNCHANGED vars => Keyed'
        BY DEF Keyed, MacKeyed, KeySettled, ServeKey, Readable, Settled, NextKey, Own, Blob,
               Linux, At, vars, files, service
    <2> QED
        BY <2>1, <2>2
<1> QED
    BY <1>1, <1>2, TypeCorrect, PTL DEF Spec

\* Where the commands open the service's own home, and a Mac has its Keychain item, every
\* stored credential stays under the key the service gets at its next start, however
\* installs, removals, rotations, kills and reboots interleave (sealKeyIfSupported,
\* chooseKeyStore).
THEOREM CredentialsStayReadable ==
    ASSUME OneHome, MacsKeyed
    PROVE  Spec => []Readable
<1>1. Keyed => Readable
    BY DEF Keyed
<1> QED
    BY <1>1, KeyedInvariant, PTL

-----------------------------------------------------------------------------
(* The promise of HostPromise, step by step.                                *)

\* A token's number names it: no two rotations carry the same one, and the next is new.
TokensNamed ==
    /\ \A t \in shown \cup cut.tokens \cup Unseen : t <= minted.tokens
    /\ \A p, q \in Carriers : p # q => proc[p].token # proc[q].token

Quietly == \/ \E p \in Commands : Called(p)
           \/ \E p \in Processes : Opens(p)
           \/ Installs \/ Operates \/ Serves

LEMMA QuietKeepsTokens ==
    ASSUME TypeOK, Quietly
    PROVE  /\ UNCHANGED <<Carriers, Unseen, shown, custody, minted.tokens>>
           /\ cut'.tokens = cut.tokens
           /\ \A p \in Carriers : proc'[p] = proc[p]
           /\ \A h \in Homes : home'[h].hash = home[h].hash
<1>1. QuietFiles /\ QuietProcesses
    BY QuietOnFiles, QuietOnProcesses DEF Quietly
<1>2. Carriers' = Carriers /\ \A p \in Carriers : proc'[p] = proc[p]
    BY <1>1 DEF Carriers, QuietProcesses, Busy, At
<1>3. Unseen' = Unseen
    BY <1>2 DEF Unseen
<1>4. minted'.tokens = minted.tokens
    <2> USE DEF TypeOK, FilesOK
    <2>1. CASE Seal
        BY <2>1 DEF Seal
    <2>2. CASE \E p \in Processes : Link(p)
        BY <2>2 DEF Link
    <2>3. CASE \E p \in Processes : Choose(p) \/ Open(p) \/ Load(p)
        BY <2>3 DEF Choose, Open, Load
    <2>4. CASE \E p \in Commands : Called(p)
        BY <2>4 DEF Called
    <2>5. CASE Installs /\ ~Seal
        BY <2>5 DEF Installs, CopyBinary, Prepare, Look, ProbeDelivers, ProbeFails, Unseal,
                    Ask, WriteUnit, Reload, Enable, Restart, Bootout, Bootstrap
    <2>6. CASE Operates \/ Serves
        BY <2>6 DEF Operates, Uninstall, Stop, Start, Serves, Launch, Check, Submitted,
                    Relaunch, Crash
    <2> QED
        BY <2>1, <2>2, <2>3, <2>4, <2>5, <2>6 DEF Quietly, Opens
<1> QED
    BY <1>1, <1>2, <1>3, <1>4 DEF QuietFiles

\* What a rotation, the early end of a command and a reboot do to the tokens.
LEMMA TokensMove ==
    ASSUME TypeOK, NEW p, p \in Commands
    PROVE  /\ Acquire(p) => /\ Carriers' = Carriers
                            /\ \A q \in Carriers : proc'[q] = proc[q]
           /\ Mint(p) => /\ p \notin Carriers /\ Carriers' = Carriers \cup {p}
                         /\ \A q \in Carriers : proc'[q] = proc[q]
                         /\ proc'[p].token = minted'.tokens
                         /\ minted'.tokens = minted.tokens + 1
           /\ Store(p) => /\ p \in Carriers /\ Carriers' = Carriers
                          /\ \A q \in Carriers : proc'[q].token = proc[q].token
                          /\ cut'.tokens = cut.tokens
           /\ PrintToken(p) \/ Ending(p) => /\ Carriers' = Carriers \ {p}
                                            /\ \A q \in Carriers' : proc'[q] = proc[q]
<1> USE DEF Carriers, At
<1>0. /\ proc \in [Processes -> Carried] /\ p \in Processes /\ Commands \subseteq Processes
      /\ minted.tokens \in Nat /\ minted \in [keys : Nat, tokens : Nat]
    BY InstallIsOne DEF TypeOK, ProcessesOK, FilesOK, Processes
<1>1. ASSUME Acquire(p) \/ Mint(p) \/ Store(p) \/ PrintToken(p) \/ Ending(p)
      PROVE  \A q \in Commands : q # p => proc'[q] = proc[q]
    BY <1>0, <1>1, Alone DEF Rotates
<1>2. Acquire(p) => Carriers' = Carriers /\ \A q \in Carriers : proc'[q] = proc[q]
    BY <1>1, GoesTo
<1>3. ASSUME Mint(p)
      PROVE  /\ p \notin Carriers /\ Carriers' = Carriers \cup {p}
             /\ \A q \in Carriers : proc'[q] = proc[q]
             /\ proc'[p].token = minted'.tokens
             /\ minted'.tokens = minted.tokens + 1
    <2> DEFINE r == [proc[p] EXCEPT !.at = "store", !.token = minted.tokens + 1]
    <2>1. r.token = minted.tokens + 1 /\ proc' = [proc EXCEPT ![p] = r]
        BY <1>0, <1>3 DEF Mint, Carried
    <2> HIDE DEF r
    <2>2. minted'.tokens = minted.tokens + 1 /\ proc'[p].token = minted.tokens + 1
        BY <1>0, <1>3, <2>1 DEF Mint
    <2>3. p \notin Carriers /\ Carriers' = Carriers \cup {p}
          /\ \A q \in Carriers : proc'[q] = proc[q]
        BY <1>1, <1>3, GoesTo
    <2> QED
        BY <2>2, <2>3
<1>4. ASSUME Store(p)
      PROVE  /\ p \in Carriers /\ Carriers' = Carriers
             /\ \A q \in Carriers : proc'[q].token = proc[q].token
             /\ cut'.tokens = cut.tokens
    <2>1. proc'[p].token = proc[p].token
        BY <1>0, <1>4 DEF Store, Moves, Carried
    <2>2. cut'.tokens = cut.tokens
        BY <1>4 DEF Store, TypeOK, FilesOK
    <2>3. p \in Carriers /\ Carriers' = Carriers
        BY <1>1, <1>4, GoesTo
    <2> QED
        BY <1>1, <1>4, <2>1, <2>2, <2>3
<1>5. PrintToken(p) \/ Ending(p) =>
         Carriers' = Carriers \ {p} /\ \A q \in Carriers' : proc'[q] = proc[q]
    BY <1>1, GoesTo
<1> QED
    BY <1>2, <1>3, <1>4, <1>5

LEMMA TokensType ==
    ASSUME TypeOK
    PROVE  /\ minted.tokens \in Nat /\ shown \cup cut.tokens \cup Unseen \subseteq Nat
           /\ \A p \in Carriers : proc[p].token \in Unseen
<1>1. minted.tokens \in Nat /\ shown \cup cut.tokens \subseteq Nat
    BY DEF TypeOK, FilesOK
<1>2. \A p \in Carriers : proc[p].token \in Nat
    BY DEF TypeOK, ProcessesOK, Carriers, Carried, Processes
<1> QED
    BY <1>1, <1>2 DEF Unseen

\* A rotation that ends early takes its token with it, any other command none.
LEMMA EndingLoses ==
    ASSUME TypeOK, NEW p, p \in Commands, Ending(p)
    PROVE  /\ cut'.tokens = cut.tokens \cup {proc[q].token : q \in Carriers \cap {p}}
           /\ UNCHANGED <<host, files, minted, shown>>
<1>1. CASE Fails(p)
    <2>1. p \notin Carriers
        BY <1>1 DEF Fails, Fallible, Carriers, Opening
    <2>2. cut'.tokens = cut.tokens
        BY <1>1 DEF Fails, TypeOK, FilesOK
    <2> QED
        BY <1>1, <2>1, <2>2 DEF Fails
<1>2. CASE Kill(p)
    <2>1. {q \in {p} : At(q) \in {"store", "print"}} = Carriers \cap {p}
        BY DEF Carriers
    <2> QED
        BY <1>2, <2>1 DEF Kill, LeftBehind
<1> QED
    BY <1>1, <1>2 DEF Ending

LEMMA RebootLoses ==
    ASSUME TypeOK, Reboot
    PROVE  /\ cut'.tokens = cut.tokens \cup Unseen /\ Carriers' = {}
           /\ UNCHANGED <<host, files, minted, shown>> /\ proc'["serve"].at # "serving"
<1>1. cut'.tokens = cut.tokens \cup Unseen
    BY DEF Reboot, LeftBehind, Unseen, Carriers
<1>2. \A q \in Processes : proc'[q].at \in {"idle", "launch"}
    BY BlankType DEF Reboot
<1>3. Carriers' = {} /\ proc'["serve"].at # "serving"
    BY <1>2, InstallIsOne DEF Carriers, At, Processes
<1> QED
    BY <1>1, <1>3 DEF Reboot

LEMMA TokensNamedNext ==
    ASSUME TypeOK, TokensNamed, Next
    PROVE  TokensNamed'
<1> USE DEF TokensNamed
<1>0. /\ minted.tokens \in Nat /\ shown \cup cut.tokens \cup Unseen \subseteq Nat
      /\ \A p \in Carriers : proc[p].token \in Unseen
    BY TokensType
<1>1. CASE Quietly
    BY <1>1, QuietKeepsTokens
<1>2. ASSUME NEW p \in Commands, Acquire(p) PROVE TokensNamed'
    <2>1. Unseen' = Unseen
        BY <1>2, TokensMove DEF Unseen
    <2>2. UNCHANGED <<shown, cut, minted>>
        BY <1>2 DEF Acquire, history
    <2> QED
        BY <1>2, <2>1, <2>2, TokensMove
<1>3. ASSUME NEW p \in Commands, Mint(p) PROVE TokensNamed'
    <2>1. Unseen' = Unseen \cup {minted'.tokens}
        BY <1>3, TokensMove DEF Unseen
    <2>2. UNCHANGED <<shown, cut>> /\ minted'.tokens = minted.tokens + 1
        BY <1>3, TokensMove DEF Mint, history
    <2>3. \A t \in shown \cup cut.tokens \cup Unseen : t < minted'.tokens
        BY <1>0, <2>2
    <2>4. \A q \in Carriers : proc'[q] = proc[q] /\ proc'[q].token # minted'.tokens
        BY <1>0, <1>3, <2>3, TokensMove
    <2> QED
        BY <1>0, <1>3, <2>1, <2>2, <2>3, <2>4, TokensMove
<1>4. ASSUME NEW p \in Commands, Store(p) PROVE TokensNamed'
    <2>1. Unseen' = Unseen
        BY <1>4, TokensMove DEF Unseen
    <2>2. UNCHANGED <<shown, minted>>
        BY <1>4 DEF Store
    <2> QED
        BY <1>4, <2>1, <2>2, TokensMove
<1>5. ASSUME NEW p \in Commands, PrintToken(p) PROVE TokensNamed'
    <2>1. Unseen' \subseteq Unseen /\ p \in Carriers
        BY <1>5, TokensMove DEF Unseen, PrintToken, Carriers
    <2>2. shown' = shown \cup {proc[p].token} /\ UNCHANGED <<cut, minted>>
        BY <1>5 DEF PrintToken
    <2> QED
        BY <1>0, <1>5, <2>1, <2>2, TokensMove
<1>6. ASSUME NEW p \in Commands, Ending(p) PROVE TokensNamed'
    <2>1. Unseen' \subseteq Unseen
        BY <1>6, TokensMove DEF Unseen
    <2>2. cut'.tokens \subseteq cut.tokens \cup Unseen /\ UNCHANGED <<shown, minted>>
        BY <1>0, <1>6, EndingLoses
    <2> QED
        BY <1>6, <2>1, <2>2, TokensMove
<1>7. CASE Reboot
    BY <1>7, RebootLoses DEF Unseen
<1> QED
    BY <1>1, <1>2, <1>3, <1>4, <1>5, <1>6, <1>7 DEF Next, Quietly, Rotates, Ending

LEMMA ServingLate ==
    ASSUME OneHome, TypeOK, Keyed, Next, At("serve") # "serving", proc'["serve"].at = "serving"
    PROVE  Check
<1> USE DEF At
<1>0. /\ Blank.at = "idle" /\ Launched.at = "launch" /\ [Blank EXCEPT !.at = "wait"].at = "wait"
      /\ "serve" \in Processes /\ "serve" \notin Commands /\ Commands \subseteq Processes
      /\ proc \in [Processes -> Carried]
    BY InstallIsOne, BlankType DEF Processes, TypeOK, ProcessesOK, Carried
<1> HIDE DEF Launched
<1>1. ASSUME NEW p \in Commands, Called(p) \/ Opens(p) \/ Rotates(p) \/ Ending(p) PROVE FALSE
    BY <1>0, <1>1, Alone
<1>2. ~Installs /\ ~Reboot
    BY <1>0, InstallGoes, RebootLoses
<1>3. ~(Operates \/ Relaunch \/ Crash \/ Submitted)
    <2> HIDE DEF Blank
    <2> QED
        BY <1>0 DEF Operates, Uninstall, Stop, Start, Relaunch, Crash, Submitted, Ended
<1>4. ASSUME Opens("serve") PROVE FALSE
    <2>1. \/ Ended("serve") \/ \E k : Opened("serve", k)
          \/ \E place \in Opening : Moves("serve", place)
        BY <1>4 DEF Opens, Choose, Open, Load, Link, Opening
    <2>2. ASSUME NEW k, Opened("serve", k) PROVE proc'["serve"].at = "check"
        BY <1>0, <2>2, InstallIsOne DEF Opened, AfterOpening, Carried
    <2>3. ASSUME NEW place \in Opening, Moves("serve", place) PROVE proc'["serve"].at = place
        BY <1>0, <2>3 DEF Moves, Carried
    <2>4. Ended("serve") => proc'["serve"].at = "wait"
        BY <1>0 DEF Ended
    <2> QED
        BY <2>1, <2>2, <2>3, <2>4 DEF Opening
<1>5. ASSUME Launch PROVE FALSE
    <2> DEFINE t == [Blank EXCEPT !.build = bin, !.sealed = loaded = "sealed",
                       !.key = IF loaded = "sealed" /\ host.delivers
                               THEN home[ServiceHome].blob ELSE 0,
                       !.at = IF loaded = "sealed" /\ host.delivers THEN "check" ELSE "choose"]
    <2>1. t.at # "serving"
        BY DEF Blank
    <2>2. Ended("serve") \/ proc' = [proc EXCEPT !["serve"] = t]
        BY <1>5 DEF Launch
    <2> HIDE DEF t, Blank
    <2> QED
        BY <1>0, <2>1, <2>2 DEF Ended
<1> QED
    BY <1>1, <1>2, <1>3, <1>4, <1>5 DEF Next, Ending, Processes, Serves

\* A step that carries no token is the daemon's or a key store's.
LEMMA PromisesQuietly ==
    ASSUME OneHome, TypeOK, TypeOK', Keyed, Next, Quietly
    PROVE  [Host!PromiseNext]_Host!promiseVars
<1> DEFINE serving == At("serve") = "serving"
<1>0. /\ home'[ServiceHome].hash = home[ServiceHome].hash
      /\ UNCHANGED <<custody, shown, Unseen>> /\ cut'.tokens = cut.tokens
    BY QuietKeepsTokens, HomesAssumption
<1>1. CASE Submitted
    <2>1. /\ serving /\ sealed' = sealed \cup {NextKey}
          /\ UNCHANGED <<NextKey, proc>>
        BY <1>1 DEF Submitted, Keyed, ServeKey, NextKey
    <2>2. Host!Rely
        BY <1>0, <2>1 DEF Host!Rely, Host!tokens, At
    <2> QED
        BY <2>2 DEF Host!PromiseNext
<1>2. CASE ~Submitted /\ NextKey' # NextKey
    <2>1. sealed = {} /\ At("serve") = "idle" /\ sealed' = sealed
        BY <1>2, KeyStays, SealedStays DEF Settled
    <2>2. ~serving /\ ~serving'
        BY <2>1, ServingLate DEF Check, At
    <2>3. NextKey' \in Nat
        BY HomesAssumption DEF NextKey, TypeOK, FilesOK
    <2>4. Host!Move
        BY <1>0, <2>1, <2>2, <2>3 DEF Host!Move, Host!tokens
    <2> QED
        BY <2>4 DEF Host!PromiseNext
<1>3. CASE ~Submitted /\ NextKey' = NextKey
    <2>1. sealed' = sealed
        BY <1>3, SealedStays
    <2>2. CASE serving' /\ ~serving
        <3>1. Check
            BY <2>2, ServingLate DEF At
        <3>2. home[ServiceHome].hash # 0
            <4>1. Ended("serve") => proc'["serve"].at = "wait"
                BY InstallIsOne, BlankType DEF Ended, TypeOK, ProcessesOK, Carried
            <4> QED
                BY <2>2, <3>1, <4>1 DEF Check, At
        <3>3. NextKey # 0
            BY <3>1 DEF Check, Keyed, KeySettled, Settled
        <3>4. Host!Serve
            BY <1>0, <1>3, <2>1, <2>2, <3>2, <3>3 DEF Host!Serve, Host!keys, Host!tokens
        <3> QED
            BY <3>4 DEF Host!PromiseNext
    <2>3. CASE ~serving' \/ serving
        <3>1. Host!Interrupt({})
            BY <1>0, <1>3, <2>1, <2>3 DEF Host!Interrupt, Host!keys
        <3> QED
            BY <3>1 DEF Host!PromiseNext
    <2> QED
        BY <2>2, <2>3
<1> QED
    BY <1>1, <1>2, <1>3

\* A command carries its token from the hash to the terminal, or is cut off with it.
LEMMA PromisesRotation ==
    ASSUME OneHome, TypeOK, TypeOK', Rotation, TokensNamed, NEW p, p \in Commands,
           Rotates(p) \/ Ending(p)
    PROVE  [Host!PromiseNext]_Host!promiseVars
<1>0. /\ Home(p) = ServiceHome /\ ServiceHome \in Homes /\ CliHome = ServiceHome
      /\ proc'["serve"] = proc["serve"] /\ p # "serve"
      /\ p \in Processes
    BY Alone, HomesAssumption, InstallIsOne DEF Home, OneHome, Processes
<1>1. CASE Acquire(p)
    <2>1. Unseen' = Unseen
        BY <1>1, TokensMove DEF Unseen
    <2>2. UNCHANGED <<home, custody, sealed, shown, cut>>
        BY <1>1 DEF Acquire, files, history
    <2> QED
        BY <1>0, <2>1, <2>2 DEF Host!promiseVars, Host!keys, Host!tokens, NextKey, At
<1>2. CASE Mint(p)
    <2>1. /\ home'[ServiceHome].hash = minted'.tokens
          /\ NextKey' = NextKey
          /\ UNCHANGED <<custody, sealed, shown, cut>>
        BY <1>0, <1>2, TokensMove DEF Mint, history, NextKey, TypeOK, FilesOK
    <2>2. Unseen' = Unseen \cup {minted'.tokens}
        BY <1>2, TokensMove DEF Unseen
    <2>3. minted'.tokens \in Nat \ ({0} \cup shown \cup Unseen \cup cut.tokens)
        <3>1. minted'.tokens = minted.tokens + 1
            BY <1>2, TokensMove
        <3> QED
            BY <3>1, TokensType DEF TokensNamed
    <2>4. Host!Rotate
        BY <1>0, <2>1, <2>2, <2>3 DEF Host!Rotate, Host!keys, At
    <2> QED
        BY <2>4 DEF Host!PromiseNext
<1>3. CASE Store(p)
    <2>1. Unseen' = Unseen /\ p \in Carriers
        BY <1>3, TokensMove DEF Unseen
    <2>2. UNCHANGED <<home, sealed, shown>> /\ cut'.tokens = cut.tokens
        BY <1>3, TokensMove DEF Store
    <2>3. custody' \in {custody, home[ServiceHome].hash}
        BY <1>0, <1>3 DEF Store, Rotation, TokenFresh
    <2>4. home[ServiceHome].hash \in Unseen
        BY <1>0, <1>3, <2>1 DEF Store, Rotation, TokenFresh, Unseen
    <2>5. CASE custody' = custody
        BY <1>0, <2>1, <2>2, <2>5 DEF Host!promiseVars, Host!keys, Host!tokens, NextKey, At
    <2>6. CASE custody' = home[ServiceHome].hash
        <3>1. Host!Keep
            BY <1>0, <2>1, <2>2, <2>4, <2>6 DEF Host!Keep, Host!keys, NextKey, At
        <3> QED
            BY <3>1 DEF Host!PromiseNext
    <2> QED
        BY <2>3, <2>5, <2>6
<1>4. CASE PrintToken(p)
    <2>1. p \in Carriers /\ shown' = shown \cup {proc[p].token}
        BY <1>4 DEF PrintToken, Carriers
    <2>2. UNCHANGED <<home, custody, sealed, cut>>
        BY <1>4 DEF PrintToken, files
    <2>3. Unseen' = Unseen \ {proc[p].token}
        BY <1>4, <2>1, TokensMove DEF Unseen, TokensNamed
    <2>4. Host!Show(proc[p].token) /\ proc[p].token \in Unseen
        BY <1>0, <2>1, <2>2, <2>3 DEF Host!Show, Host!keys, NextKey, At, Unseen
    <2> QED
        BY <2>4 DEF Host!PromiseNext
<1>5. CASE Ending(p)
    <2> DEFINE T == {proc[q].token : q \in Carriers \cap {p}}
    <2>1. Unseen' = Unseen \ T /\ T \subseteq Unseen
        BY <1>5, TokensMove DEF Unseen, TokensNamed
    <2>2. cut'.tokens = cut.tokens \cup T /\ UNCHANGED <<home, custody, sealed, shown>>
        BY <1>5, EndingLoses DEF files
    <2>3. PICK S \in SUBSET Unseen : S = T
        BY <2>1
    <2>4. Host!Interrupt(S)
        BY <1>0, <2>1, <2>2, <2>3 DEF Host!Interrupt, Host!keys, NextKey, At
    <2> QED
        BY <2>4 DEF Host!PromiseNext
<1> QED
    BY <1>1, <1>2, <1>3, <1>4, <1>5 DEF Rotates

LEMMA PromisesReboot ==
    ASSUME TypeOK, Reboot
    PROVE  Host!PromiseNext
<1>1. PICK S \in SUBSET Unseen : S = Unseen
    OBVIOUS
<1>2. Unseen' = {}
    BY RebootLoses DEF Unseen
<1>3. Host!Interrupt(S)
    BY <1>1, <1>2, RebootLoses DEF Host!Interrupt, Host!keys, NextKey, At, files
<1> QED
    BY <1>3 DEF Host!PromiseNext

\* Where commands and service share a home, and a Mac has its Keychain item, setting a
\* host up, removing it and rotating its token, killed or rebooted anywhere, keeps what
\* the operator is promised of the key and the token (sealKeyIfSupported,
\* chooseKeyStore, authService.Rotate, printToken).
THEOREM PromiseKept ==
    ASSUME OneHome, MacsKeyed
    PROVE  Spec => KeepsPromise
<1>1. Init => TokensNamed /\ Host!PromiseInit
    <2> SUFFICES ASSUME Init PROVE TokensNamed /\ Host!PromiseInit
        OBVIOUS
    <2>1. Carriers = {} /\ At("serve") = "idle"
        BY BlankType, InstallIsOne DEF Init, Carriers, At, Processes
    <2>2. NextKey \in Nat /\ home[ServiceHome].hash = 0
        BY HostsAssumption, HomesAssumption DEF Init, NextKey
    <2> QED
        BY <2>1, <2>2 DEF Init, Unseen, TokensNamed, Host!PromiseInit
<1>2. TypeOK /\ TokensNamed /\ [Next]_vars => TokensNamed'
    <2>1. TokensNamed /\ UNCHANGED vars => TokensNamed'
        BY DEF TokensNamed, Unseen, Carriers, At, vars, history
    <2> QED
        BY <2>1, TokensNamedNext
<1>3. TypeOK /\ TypeOK' /\ Keyed /\ Rotation /\ TokensNamed /\ [Next]_vars
      => [Host!PromiseNext]_Host!promiseVars
    <2> SUFFICES ASSUME TypeOK, TypeOK', Keyed, Rotation, TokensNamed, [Next]_vars
                 PROVE  [Host!PromiseNext]_Host!promiseVars
        OBVIOUS
    <2>1. CASE UNCHANGED vars
        BY <2>1 DEF vars, files, history, Host!promiseVars, Host!keys, Host!tokens, NextKey,
                    Unseen, Carriers, At
    <2>2. CASE Next /\ Quietly
        BY <2>2, PromisesQuietly
    <2>3. CASE \E p \in Commands : Rotates(p) \/ Ending(p)
        BY <2>3, PromisesRotation
    <2>4. CASE Reboot
        BY <2>4, PromisesReboot
    <2> QED
        BY <2>1, <2>2, <2>3, <2>4 DEF Next, Quietly, Ending
<1>4. Spec => []TokensNamed
    BY <1>1, <1>2, TypeCorrect, PTL DEF Spec
<1> QED
    BY <1>1, <1>3, <1>4, TypeCorrect, KeyedInvariant, RotationInvariant, PTL
    DEF Spec, KeepsPromise, Host!Promise
=============================================================================
