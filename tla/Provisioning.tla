---------------------------- MODULE Provisioning ----------------------------
(***************************************************************************)
(* Setting a host up: `tumika install` (cli/service.go), what it needs of  *)
(* the key stores (platform/secrets), the token service (service/auth.go)  *)
(* and the service managers, beside `tumika token rotate` and the daemon   *)
(* the supervisor runs.                                                    *)
(*                                                                         *)
(* Every command, and the daemon itself, opens the master key of its home  *)
(* through daemon.New; whoever comes first on a host mints it.  One        *)
(* install runs at a time; rotations run beside it and beside the service. *)
(***************************************************************************)
EXTENDS Naturals

CONSTANTS
    Hosts,          \* the machines install may meet: system, abilities, a key of old
    Homes,          \* home directories
    ServiceHome,    \* servicePaths: where install puts the unit, the binary, the sealed key
    CliHome,        \* globals.Paths: where withDaemon opens the database and the key
    Rotators,       \* concurrent `token rotate` commands
    MaxCommands,    \* bound: commands started per behaviour
    MaxFaults       \* bound: kills, failures and reboots per behaviour

ASSUME HostsAssumption == Hosts \subseteq
    [os : {"linux", "darwin"}, seals : BOOLEAN, delivers : BOOLEAN, key : Nat]
ASSUME HomesAssumption == {ServiceHome, CliHome} \subseteq Homes
ASSUME NamesAssumption == {"install", "serve", "free"} \cap Rotators = {}
ASSUME BoundsAssumption == MaxCommands \in Nat /\ MaxFaults \in Nat

VARIABLES
    host,       \* the machine: never changes
    home,       \* per home: the sealed key, the store's own key, the token's hash
    custody,    \* the token in the login Keychain
    lock,       \* who holds token-rotate.lock: every rotation runs in CliHome
    unit,       \* the unit or plist on disk
    loaded,     \* the one the supervisor goes by
    enabled,    \* whether the service starts at boot
    account,    \* whether the service account exists
    bin,        \* the managed binary: how many times install has copied one
    proc,       \* where each process is, and what it carries
    sealed,     \* the keys under which stored credentials are sealed
    minted,     \* how many keys and tokens were minted: the number names them
    shown,      \* history: the tokens printed
    cut,        \* history: tokens and blobs left behind by a process that ended early
    reported,   \* history: install said "Installed and started" and nothing was asked since
    commands,   \* commands started, at most MaxCommands
    faults      \* failures so far, at most MaxFaults

files == <<home, custody, sealed>>
service == <<unit, loaded, enabled, account, bin>>
history == <<shown, cut, reported>>
vars == <<host, files, service, lock, proc, minted, history, commands, faults>>

Commands == Rotators \cup {"install"}
Processes == Commands \cup {"serve"}
Opening == {"choose", "open", "load", "link"}
Rotating == {"lock", "mint", "store", "print"}
Sealing == {"seal", "probe", "unseal"}
Installing == {"copy", "prepare", "look", "ask", "unit", "reload", "enable", "restart",
               "bootout", "bootstrap"}
Serving == {"launch", "check", "serving", "wait"}
Places == Opening \cup Rotating \cup Sealing \cup Installing \cup Serving \cup {"idle"}

\* What a process carries: its key and token, cfg.SealedKey and the build it executes.
Carried == [at : Places, key : Nat, token : Nat, sealed : BOOLEAN, build : Nat]
Blank == [at |-> "idle", key |-> 0, token |-> 0, sealed |-> FALSE, build |-> 0]

\* No unit; the plain one; one that says LoadCredentialEncrypted=.
Units == {"none", "plain", "sealed"}

At(p) == proc[p].at
Running == At("serve") \notin {"idle", "wait", "launch"}

FilesOK ==
    /\ host \in Hosts
    /\ home \in [Homes -> [blob : Nat, own : Nat, hash : Nat]]
    /\ custody \in Nat /\ sealed \subseteq Nat
    /\ unit \in Units /\ loaded \in Units
    /\ enabled \in BOOLEAN /\ account \in BOOLEAN /\ bin \in Nat
    /\ minted \in [keys : Nat, tokens : Nat]
    /\ shown \subseteq Nat
    /\ cut \in [tokens : SUBSET Nat, copies : SUBSET Nat, blob : BOOLEAN]
    /\ reported \in BOOLEAN
    /\ commands \in Nat /\ faults \in Nat

PlacesOf(p) == CASE p = "serve" -> {"idle", "choose", "load", "link"} \cup Serving
                 [] p = "install" -> Places \ Serving
                 [] OTHER -> {"idle"} \cup Opening \cup Rotating

ProcessesOK ==
    /\ proc \in [Processes -> Carried]
    /\ \A p \in Processes : At(p) \in PlacesOf(p)
    /\ lock \in Commands \cup {"free"}
    /\ lock # "free" => At(lock) \in {"mint", "store"}

TypeOK == FilesOK /\ ProcessesOK

Init ==
    /\ host \in Hosts
    /\ home = [h \in Homes |-> [blob |-> 0, own |-> host.key, hash |-> 0]]
    /\ custody = 0 /\ sealed = {}
    /\ lock = "free"
    /\ unit = "none" /\ loaded = "none"
    /\ enabled = FALSE /\ account = FALSE /\ bin = 0
    /\ proc = [p \in Processes |-> Blank]
    /\ minted = [keys |-> host.key, tokens |-> 0]
    /\ shown = {} /\ reported = FALSE
    /\ cut = [tokens |-> {}, copies |-> {}, blob |-> FALSE]
    /\ commands = 0 /\ faults = 0

-----------------------------------------------------------------------------

Linux == host.os = "linux"

\* Mutant: on Linux withDaemon resolves a home of its own, as it does without --home.
HomeResolvedAnew(p) == IF p = "serve" \/ ~Linux THEN ServiceHome
                       ELSE CHOOSE h \in Homes : h # ServiceHome

Home(p) == IF p = "serve" THEN ServiceHome ELSE CliHome

Moves(p, place) == proc' = [proc EXCEPT ![p].at = place]

\* A process that cannot go on: the supervisor relaunches the daemon, nobody a command.
Ended(p) == proc' = [proc EXCEPT ![p] = IF p = "serve" THEN [Blank EXCEPT !.at = "wait"]
                                        ELSE Blank]
Launched == [Blank EXCEPT !.at = "launch"]
Faulty == faults < MaxFaults /\ faults' = faults + 1

Called(p) ==
    /\ p \in Commands /\ At(p) = "idle" /\ commands < MaxCommands
    /\ commands' = commands + 1
    /\ Moves(p, IF p = "install" THEN "copy" ELSE "choose")
    /\ reported' = (reported /\ p # "install")
    /\ UNCHANGED <<host, files, service, lock, minted, shown, cut, faults>>

-----------------------------------------------------------------------------
(* Install, as far as the key: the binary, the account, the sealed key.    *)

CopyBinary ==
    /\ At("install") = "copy"
    /\ bin' = bin + 1
    /\ Moves("install", "prepare")
    /\ UNCHANGED <<host, files, unit, loaded, enabled, account, lock, minted, history,
                   commands, faults>>

Prepare ==
    /\ At("install") = "prepare"
    /\ account' = (account \/ Linux)
    /\ Moves("install", "look")
    /\ UNCHANGED <<host, files, unit, loaded, enabled, bin, lock, minted, history,
                   commands, faults>>

\* Mutant: the key file beside the database is not looked for.
MaySealAnyway == Linux /\ home[ServiceHome].blob = 0 /\ host.seals

MaySeal == Linux /\ home[ServiceHome].blob = 0 /\ home[ServiceHome].own = 0 /\ host.seals

\* A blob found is adopted as it is; a key in the file store stays where it is.
Look ==
    /\ At("install") = "look"
    /\ proc' = [proc EXCEPT !["install"].at = IF MaySeal THEN "seal" ELSE "choose",
                            !["install"].sealed = Linux /\ home[ServiceHome].blob # 0]
    /\ UNCHANGED <<host, files, service, lock, minted, history, commands, faults>>

\* Linked, never renamed: a blob already there is the key.
Seal ==
    /\ At("install") = "seal"
    /\ IF home[ServiceHome].blob = 0
       THEN /\ home' = [home EXCEPT ![ServiceHome].blob = minted.keys + 1]
            /\ minted' = [minted EXCEPT !.keys = @ + 1]
       ELSE UNCHANGED <<home, minted>>
    /\ Moves("install", "probe")
    /\ UNCHANGED <<host, custody, sealed, service, lock, history, commands, faults>>

\* Mutant: a key that can be sealed is taken to be one that is delivered.
ProbeDeliversAssumed ==
    /\ At("install") = "probe"
    /\ proc' = [proc EXCEPT !["install"].at = "choose", !["install"].sealed = TRUE]
    /\ UNCHANGED <<host, files, service, lock, minted, history, commands, faults>>

ProbeDelivers ==
    /\ At("install") = "probe"
    /\ host.delivers /\ account
    /\ proc' = [proc EXCEPT !["install"].at = "choose", !["install"].sealed = TRUE]
    /\ UNCHANGED <<host, files, service, lock, minted, history, commands, faults>>

\* Not delivered; or the transient unit did not answer in time.
ProbeFails ==
    /\ At("install") = "probe"
    /\ IF host.delivers /\ account THEN Faulty ELSE UNCHANGED faults
    /\ Moves("install", "unseal")
    /\ UNCHANGED <<host, files, service, lock, minted, history, commands>>

Unseal ==
    /\ At("install") = "unseal"
    /\ home' = [home EXCEPT ![ServiceHome].blob = 0]
    /\ Moves("install", "choose")
    /\ UNCHANGED <<host, custody, sealed, service, lock, minted, history, commands, faults>>

-----------------------------------------------------------------------------
(* The master key of a home: chooseKeyStore, in every process.             *)

AfterOpening(p) == CASE p = "install" -> "ask"
                     [] p = "serve" -> "check"
                     [] OTHER -> "lock"
Opened(p, k) == proc' = [proc EXCEPT ![p].key = k, ![p].at = AfterOpening(p)]

\* A sealed key the supervisor did not hand over opens for root only: the daemon fails.
Choose(p) ==
    /\ At(p) = "choose"
    /\ IF Linux /\ home[Home(p)].blob # 0
       THEN IF p = "serve" THEN Ended(p) ELSE Moves(p, "open")
       ELSE Moves(p, "load")
    /\ UNCHANGED <<host, files, service, lock, minted, history, commands, faults>>

\* The blob may have been taken away since it was seen.
Open(p) ==
    /\ At(p) = "open"
    /\ IF home[Home(p)].blob # 0 THEN Opened(p, home[Home(p)].blob) ELSE Ended(p)
    /\ UNCHANGED <<host, files, service, lock, minted, history, commands, faults>>

Load(p) ==
    /\ At(p) = "load"
    /\ IF home[Home(p)].own # 0 THEN Opened(p, home[Home(p)].own) ELSE Moves(p, "link")
    /\ UNCHANGED <<host, files, service, lock, minted, history, commands, faults>>

\* Mutant: the key file is renamed onto its place.
LinkReplaces(p) ==
    /\ At(p) = "link"
    /\ home' = [home EXCEPT ![Home(p)].own = minted.keys + 1]
    /\ minted' = [minted EXCEPT !.keys = @ + 1]
    /\ Opened(p, minted.keys + 1)
    /\ UNCHANGED <<host, custody, sealed, service, lock, history, commands, faults>>

\* The key file is linked and the loser of a race loads the winner's; the Keychain's
\* item is set, over whatever another process has set since it was looked for.
Link(p) ==
    /\ At(p) = "link"
    /\ IF home[Home(p)].own # 0 /\ Linux
       THEN Opened(p, home[Home(p)].own) /\ UNCHANGED <<home, minted>>
       ELSE /\ home' = [home EXCEPT ![Home(p)].own = minted.keys + 1]
            /\ minted' = [minted EXCEPT !.keys = @ + 1]
            /\ Opened(p, minted.keys + 1)
    /\ UNCHANGED <<host, custody, sealed, service, lock, history, commands, faults>>

-----------------------------------------------------------------------------
(* The token: ensureAPIToken asks, Rotate mints under the lock.            *)

\* Mutant: a return without the deferred unlock.
UnlockedNever(p) == lock

\* The lock goes with the call that took it, however that ends.
Unlocked(p) == IF lock = p THEN "free" ELSE lock

\* Asked outside the rotation lock.
Ask ==
    /\ At("install") = "ask"
    /\ Moves("install", IF home[Home("install")].hash = 0 THEN "lock" ELSE "unit")
    /\ UNCHANGED <<host, files, service, lock, minted, history, commands, faults>>

\* Mutant: one lock to each process.
AcquireOwn(p) ==
    /\ At(p) = "lock"
    /\ Moves(p, "mint")
    /\ UNCHANGED <<host, files, service, lock, minted, history, commands, faults>>

Acquire(p) ==
    /\ At(p) = "lock" /\ lock = "free"
    /\ lock' = p
    /\ Moves(p, "mint")
    /\ UNCHANGED <<host, files, service, minted, history, commands, faults>>

\* The hash first, so that custody never holds a token the daemon does not accept.
Mint(p) ==
    /\ At(p) = "mint"
    /\ minted' = [minted EXCEPT !.tokens = @ + 1]
    /\ home' = [home EXCEPT ![Home(p)].hash = minted.tokens + 1]
    /\ proc' = [proc EXCEPT ![p].at = "store", ![p].token = minted.tokens + 1]
    /\ UNCHANGED <<host, custody, sealed, service, lock, history, commands, faults>>

\* Only macOS keeps a copy.  A failure to rides in the result; the lock goes either way.
Store(p) ==
    /\ At(p) = "store"
    /\ \/ custody' = (IF Linux THEN custody ELSE proc[p].token)
          /\ UNCHANGED <<cut, faults>>
       \/ ~Linux /\ Faulty
          /\ cut' = [cut EXCEPT !.copies = @ \cup {proc[p].token}]
          /\ UNCHANGED custody
    /\ lock' = Unlocked(p)
    /\ Moves(p, "print")
    /\ UNCHANGED <<host, home, sealed, service, minted, shown, reported, commands>>

\* Mutant: install keeps its token for the end, when the service is up.
PrintTokenLater(p) ==
    /\ At(p) = "print"
    /\ shown' = IF p = "install" THEN shown ELSE shown \cup {proc[p].token}
    /\ proc' = [proc EXCEPT ![p] = IF p = "install" THEN [@ EXCEPT !.at = "unit"] ELSE Blank]
    /\ UNCHANGED <<host, files, service, lock, minted, cut, reported, commands, faults>>

\* As soon as it exists, and before anything that can fail.
PrintToken(p) ==
    /\ At(p) = "print"
    /\ shown' = shown \cup {proc[p].token}
    /\ proc' = [proc EXCEPT ![p] = IF p = "install" THEN [@ EXCEPT !.at = "unit"] ELSE Blank]
    /\ UNCHANGED <<host, files, service, lock, minted, cut, reported, commands, faults>>

-----------------------------------------------------------------------------
(* The service manager: systemd's steps, and launchd's.                    *)

WriteUnit ==
    /\ At("install") = "unit"
    /\ unit' = IF proc["install"].sealed THEN "sealed" ELSE "plain"
    /\ Moves("install", IF Linux THEN "reload" ELSE "bootout")
    /\ UNCHANGED <<host, files, loaded, enabled, account, bin, lock, minted, history,
                   commands, faults>>

Reload ==
    /\ At("install") = "reload"
    /\ loaded' = unit
    /\ Moves("install", "enable")
    /\ UNCHANGED <<host, files, unit, enabled, account, bin, lock, minted, history,
                   commands, faults>>

\* systemd's second step, launchd's last.
Enable ==
    /\ At("install") = "enable"
    /\ enabled' = TRUE
    /\ IF Linux THEN Moves("install", "restart") ELSE Ended("install")
    /\ reported' = ~Linux
    /\ UNCHANGED <<host, files, unit, loaded, account, bin, lock, minted, shown, cut,
                   commands, faults>>

\* Mutant: `enable --now`, which leaves a running service as it is.
RestartIfStopped ==
    /\ At("install") = "restart"
    /\ proc' = [proc EXCEPT !["install"] = Blank,
                            !["serve"] = IF Running THEN @ ELSE Launched]
    /\ reported' = TRUE
    /\ UNCHANGED <<host, files, service, lock, minted, shown, cut, commands, faults>>

Restart ==
    /\ At("install") = "restart"
    /\ proc' = [proc EXCEPT !["install"] = Blank, !["serve"] = Launched]
    /\ reported' = TRUE
    /\ UNCHANGED <<host, files, service, lock, minted, shown, cut, commands, faults>>

Bootout ==
    /\ At("install") = "bootout"
    /\ loaded' = "none"
    /\ proc' = [proc EXCEPT !["install"].at = "bootstrap", !["serve"] = Blank]
    /\ UNCHANGED <<host, files, unit, enabled, account, bin, lock, minted, history,
                   commands, faults>>

Bootstrap ==
    /\ At("install") = "bootstrap"
    /\ loaded' = unit
    /\ proc' = [proc EXCEPT !["install"].at = "enable", !["serve"] = Launched]
    /\ UNCHANGED <<host, files, unit, enabled, account, bin, lock, minted, history,
                   commands, faults>>

\* The data stays.  A service that cannot be stopped is warned of, and survives.
Uninstall ==
    /\ At("install") = "idle" /\ unit # "none"
    /\ unit' = "none" /\ loaded' = "none" /\ enabled' = FALSE
    /\ \/ proc' = [proc EXCEPT !["serve"] = Blank] /\ UNCHANGED faults
       \/ Faulty /\ Running /\ UNCHANGED proc
    /\ reported' = FALSE
    /\ UNCHANGED <<host, files, account, bin, lock, minted, shown, cut, commands>>

\* launchd unloads what it stops: KeepAlive would bring it back.
Stop ==
    /\ At("install") = "idle" /\ unit # "none"
    /\ loaded' = IF Linux THEN loaded ELSE "none"
    /\ proc' = [proc EXCEPT !["serve"] = Blank]
    /\ reported' = FALSE
    /\ UNCHANGED <<host, files, unit, enabled, account, bin, lock, minted, shown, cut,
                   commands, faults>>

Start ==
    /\ At("install") = "idle" /\ unit # "none" /\ At("serve") = "idle"
    /\ loaded' = IF loaded = "none" THEN unit ELSE loaded
    /\ proc' = [proc EXCEPT !["serve"] = Launched]
    /\ UNCHANGED <<host, files, unit, enabled, account, bin, lock, minted, history,
                   commands, faults>>

-----------------------------------------------------------------------------
(* The daemon, as far as it depends on what install left.                  *)

\* The supervisor decrypts a sealed key and hands it over, where the host can.
Launch ==
    /\ At("serve") = "launch"
    /\ IF bin = 0 \/ (Linux /\ ~account) \/ (loaded = "sealed" /\ home[ServiceHome].blob = 0)
       THEN Ended("serve")
       ELSE proc' = [proc EXCEPT !["serve"] =
              [Blank EXCEPT !.build = bin, !.sealed = loaded = "sealed",
                 !.key = IF loaded = "sealed" /\ host.delivers
                         THEN home[ServiceHome].blob ELSE 0,
                 !.at = IF loaded = "sealed" /\ host.delivers THEN "check" ELSE "choose"]]
    /\ UNCHANGED <<host, files, service, lock, minted, history, commands, faults>>

\* Without a token the daemon refuses to serve, and is relaunched to refuse again.
Check ==
    /\ At("serve") = "check"
    /\ IF home[ServiceHome].hash = 0 THEN Ended("serve") ELSE Moves("serve", "serving")
    /\ UNCHANGED <<host, files, service, lock, minted, history, commands, faults>>

Submitted ==
    /\ At("serve") = "serving"
    /\ sealed' = sealed \cup {proc["serve"].key}
    /\ UNCHANGED <<host, home, custody, service, lock, proc, minted, history, commands,
                   faults>>

\* Restart=always, KeepAlive; a process that outlived its unit has nobody.
Relaunch ==
    /\ At("serve") = "wait"
    /\ proc' = [proc EXCEPT !["serve"] = IF loaded = "none" THEN Blank ELSE Launched]
    /\ UNCHANGED <<host, files, service, lock, minted, history, commands, faults>>

Crash ==
    /\ Running /\ Faulty
    /\ Ended("serve")
    /\ UNCHANGED <<host, files, service, lock, minted, history, commands>>

-----------------------------------------------------------------------------
(* A command that ends early: an error return, a kill, a reboot.           *)

\* Steps that return their error.  A failed copy to custody does not, nor does printing.
Fallible == {"copy", "prepare", "seal", "unseal", "lock", "mint", "ask", "unit", "reload",
             "enable", "restart", "bootstrap"} \cup Opening

Fails(p) ==
    /\ p \in Commands /\ At(p) \in Fallible /\ Faulty
    /\ Ended(p)
    /\ lock' = Unlocked(p)
    /\ cut' = [cut EXCEPT !.blob = @ \/ At(p) = "unseal"]
    /\ UNCHANGED <<host, files, service, minted, shown, reported, commands>>

LeftBehind(P) ==
    [tokens |-> cut.tokens \cup {proc[p].token : p \in {q \in P : At(q) \in {"store", "print"}}},
     copies |-> cut.copies \cup {proc[p].token : p \in {q \in P : At(q) = "store"}},
     blob |-> cut.blob \/ \E p \in P : At(p) \in {"probe", "unseal"}]

\* The kernel gives up the lock of a process that dies.
Kill(p) ==
    /\ p \in Commands /\ At(p) # "idle" /\ Faulty
    /\ Ended(p)
    /\ lock' = Unlocked(p)
    /\ cut' = LeftBehind({p})
    /\ UNCHANGED <<host, files, service, minted, shown, reported, commands>>

Reboot ==
    /\ Faulty
    /\ loaded' = unit
    /\ proc' = [p \in Processes |-> IF p = "serve" /\ enabled THEN Launched ELSE Blank]
    /\ lock' = "free"
    /\ cut' = LeftBehind(Commands)
    /\ UNCHANGED <<host, files, unit, enabled, account, bin, minted, shown, reported,
                   commands>>

-----------------------------------------------------------------------------

Opens(p) == Choose(p) \/ Open(p) \/ Load(p) \/ Link(p)
Rotates(p) == Acquire(p) \/ Mint(p) \/ Store(p) \/ PrintToken(p)
Installs == \/ CopyBinary \/ Prepare \/ Look \/ Seal \/ ProbeDelivers \/ ProbeFails
            \/ Unseal \/ Ask \/ WriteUnit \/ Reload \/ Enable \/ Restart \/ Bootout
            \/ Bootstrap
Operates == Uninstall \/ Stop \/ Start
Serves == Launch \/ Check \/ Submitted \/ Relaunch \/ Crash

Next ==
    \/ \E p \in Processes : Opens(p)
    \/ \E p \in Commands : Called(p) \/ Rotates(p) \/ Fails(p) \/ Kill(p)
    \/ Installs \/ Operates \/ Serves \/ Reboot

Spec == Init /\ [][Next]_vars

\* The supervisor launches and relaunches the service, and the daemon runs.
FairSpec == Spec /\ WF_vars(Launch \/ Check \/ Relaunch \/ Opens("serve"))

-----------------------------------------------------------------------------

\* The key the next start of the service gets, if it gets one: chooseKeyStore.
NextKey == IF home[ServiceHome].blob # 0 THEN home[ServiceHome].blob
           ELSE home[ServiceHome].own

\* No credential is ever sealed under a key that a later start does not get: install,
\* reinstall, removal and the commands beside them never move the service from one
\* key store to the other (sealKeyIfSupported, chooseKeyStore, newFileKeyStore).
Readable == \A k \in sealed : k = NextKey

\* A service that is launched finds a token: install mints one before it starts the
\* unit, and no reinstall, crash or failure in between undoes that (service.go,
\* "Restart=always turns that refusal into a crash loop").
NeverRefused == At("serve") = "check" => home[ServiceHome].hash # 0

\* The token the daemon accepts has been printed, or is about to be by a command that
\* still runs, or was minted by one that was killed: no failure of a later step of
\* install loses it (service.go, "a token nobody has ever seen").
AcceptedIsShown == \A h \in Homes :
    \/ home[h].hash \in {0} \cup shown \cup cut.tokens
    \/ \E p \in Commands : At(p) \in {"store", "print"} /\ proc[p].token = home[h].hash

\* On macOS the token in the Keychain is the one the daemon accepts, however rotations
\* and installs interleave, unless it could not be stored or a kill came between the
\* two writes of Rotate (auth.go, "one rotation at a time, across processes").
CustodyAgrees == ~Linux =>
    \/ custody = home[CliHome].hash
    \/ home[CliHome].hash \in cut.copies
    \/ \E p \in Commands : At(p) = "store" /\ proc[p].token = home[CliHome].hash

\* After an install that reported success the service runs the binary it copied under
\* the unit it wrote, also on a host where an older build was running (systemd.go,
\* "restart, NOT `enable --now`").
RunsInstalled == reported /\ Running =>
    proc["serve"].build = bin /\ (proc["serve"].sealed <=> unit = "sealed")

\* An install that reported success leaves a service that gets to serve, unless an
\* install was cut short between sealing a key and learning whether the host delivers
\* it: that blob is adopted unprobed (sealKeyIfSupported's first return).
InstalledServes ==
    reported /\ ~cut.blob ~> At("serve") = "serving" \/ ~reported
=============================================================================
