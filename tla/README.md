# Verification of tumika

tumika is a daemon (`source/daemon`, Go) that a supervisor (systemd or launchd) keeps
running on an operator's machine, with a CLI that is the same binary, a desktop app beside
it (`source/desktop`), and a generator (`bomgen`) for the signed documents it updates
itself from. These modules model its core state machines, check them with TLC and prove
theorems about them with TLAPS.

Paths below are relative to `source/daemon/internal/` unless they say otherwise.

## Inventory

| Component | State | Operations | What is hard | What makes it correct |
|---|---|---|---|---|
| Self-updater: `service/update.go`, `runner/update.go`, `api/update.go`, `cli/update.go`, `daemon/daemon.go` | the `update_state` row, the binary, `<binary>.old`, the migration version; which build each process executes | Check, Apply, ConfirmBoot, Confirm; boot, drain, restart | three kinds of caller in two kinds of process; a crash between any two writes; failed renames; a build that never serves | the fallback survives, a bad build is given up on, the row describes the machine, the service comes back |
| Channels and recency: `bomgen/`, `platform/release/`, `service/update.go` | published releases, heads, `update.channel`, the watermark | Generate, Head, ReleaseBOM, supersedes, watermark | a host that withholds or replays; versions that go down on edge; the head moving between check and apply | never an older release; every daemon catches up; nothing is installed twice |
| Provider credentials: `service/provider.go`, `repository/queries/credentials.sql` | credential rows with a status, at most one live per kind | submit, replace, verify, delete, seed, select | the provider is called outside every transaction, so verdicts arrive late and out of order | a working credential is not lost to an outage or a bad replacement; a revoked one stays revoked |
| API token: `service/auth.go`, `platform/filelock/`, `platform/tokencustody/` | the hash in settings, the copy in custody, a lock file | Rotate, Verify, mint on install | two writes, several processes, a crash between | what custody holds, the daemon accepts |
| Key custody: `platform/secrets/` | the key file, the systemd credential, the variable | choose, load, create, seal, hand over | two first runs at once; debris of a crash; a supervisor too old for the hand-over | one key per machine, never replaced while data is sealed under it |
| Claude Code installer: `platform/provider/claudecode/install.go` | installed versions, staging directories, installs in flight | Install (joined), Prune, Installed | joined callers and cancellation; publication by rename; prune beside an install | a listed version is complete and verified |
| Configuration: `service/config.go` | settings rows | Set, Reset, ReadSecret, WriteSecret | a batch with one bad value | all or nothing |
| Service managers and `tumika install`: `platform/servicemgr/`, `cli/service.go`, `cli/pathlink.go` | unit file, service state, managed copy, PATH link | Install, Uninstall, Start, Stop, Status | a failure half-way; what an earlier install left | re-running converges |
| HTTP API, health, logging, paths, login sessions | none, or rows nobody drives yet | | | out of scope, see below |
| Desktop app (`source/desktop/src-tauri`), scripts (`scripts/`) | paired release, tray status; shell | poll, pair, install | a separate program over HTTP | later, if at all |

The updater's callers meet in four shared places. The row is reached through SQLite, whose
statements and transactions serialise processes. The two files are reached by `rename`,
`stat` and `remove`. `updateService.mu` is one mutex *per process*. The `applied` channel of
`ServeListener` ends the process, and the supervisor starts whatever is then at the binary
path. `tumika update` is not an HTTP client: it opens the same database and files from a
process of its own (`cli/daemonhelper.go`), with `SkipUpdateBoot`.

`PROJECT.json` lists every component and, under `hazards`, every place found so far
where this code can go wrong in a way a unit test would hardly reach.

## Modules

| Module | Models |
|---|---|
| `Updater` | the update state machine and everything that drives it |
| `UpdatePromise` | what the updater promises, with neither row, file nor process; its own theorem |
| `UpdaterRefinement` | the mapping from `Updater` to `UpdatePromise` |
| `Channels` | which release a daemon takes |
| `Credentials` | provider credentials, under concurrent requests and any verdict |
| `Installer` | installing and pruning Claude Code versions |
| `CredentialPromise` | what the credential store promises, without requests, verdicts on the way or a table |
| `CredentialsRefinement` | the mapping from `Credentials` to `CredentialPromise` |
| `Provisioning` | `tumika install`: key, token, unit and service, beside rotations and the daemon |
| `HostPromise` | what a host that was set up promises: a key that does not move, tokens that are shown |
| `ProvisioningRefinement` | the mapping from `Provisioning` to `HostPromise` |
| `KeyFile` | minting the master key in a file, access by access, under any number of first runs |
| `MCUpdater`, `MCChannels`, `MCCredentials`, `MCInstaller`, `MCProvisioning`, `MCKeyFile` | instances for TLC |
| `UpdaterProofs`, `UpdaterRefinementProofs`, `ChannelsProofs`, `CredentialsProofs`, `InstallerProofs`, `ProvisioningProofs`, `KeyFileProofs` | theorems and their proofs |

### Updater

One action is one access to durable state, so a kill, another process or another thread can
come between any two of them.

| Variable | In the code |
|---|---|
| `row` | the single row of `update_state` (`domain.UpdateState`) |
| `binary`, `old` | the builds at `UpdateDeps.Binary` and at `<binary>.old`; `NoBuild` is no file |
| `schema` | `sqlite.SchemaVersion` |
| `daemon`, `wanted` | where the serve process is; whether the supervisor keeps it up |
| `running` | `deps.Version` of each process: what it *executes*, which after a swap is not what is installed |
| `seen` | the row ConfirmBoot or Confirm read and later writes back |
| `pc`, `target` | where each caller of Apply is, and the version it installs |
| `proven`, `faults` | history: builds that bound their listener; failures so far |

Apply is `ApplyBegin` (lock, head, pending guard, download started), `Fetch`, `Preflight`,
`Record`, `StatOld`, `KeepOld`, `Swap`, and `Undo` when the second rename fails, each with its
error path. A caller is the runner, a request (`Handlers`) or a `tumika update` process
(`Clis`); `Locked` is the per-process mutex. A boot is `Exec`, then `BootCounted` (one
increment and `ShouldRollBack`) or `BootInert`, perhaps `StatFallback`, `RollBackRecorded`
and `Restore`, then `Migrate`, `Listen`, `ConfirmReads`, `ConfirmRecords`, `RemoveOld` and
service. The process ends by `Drained`, `GraceExpires`, `BootFails`, `SchemaTooNew`,
`Restore` or `Killed`. `CliStopsService` and `CliStartsService` are the two halves of
`restartService`.

Abstractions:

- Builds are numbered, and a larger number supersedes a smaller one. The rule itself is
  `Channels`' subject. `Check` only reads, so it is part of `ApplyCalled`, which also stands
  for a request that names a version.
- ConfirmBoot's read and increment are one step: other processes write the row only to
  record a pending update, and the two orders give the same result.
- Staged and temporary files are not modelled, except that a download sweeps the temporary
  file of another process's download (`sweepStagingFiles`), which then fails.
- A bad build reaches ConfirmBoot and fails after it. One that fails earlier (opening the
  store) is outside what the design claims, as the comment in `daemon.New` says.
- `tumika update` treats a daemon that is still booting as not running.
- No caller of the same process is inside Apply when ConfirmBoot or Confirm runs, because
  the server and the runner start after both. Their locking is therefore not an action.

### Channels

Releases are numbered in publication order, so a number is also a publication time. A
release names a daemon version and is cut into a channel. `HeadOf` is bomgen's choice,
`BuiltBy` the release whose bytes a carried-over component points at, and so the label
stamped into the build. `Answers` are what a host without the signing key can say: the true
head or an older genuine one, with the running release's document or a 404. `Floor`,
`PublishedAt`, `Later` and `Supersedes` are the functions of `service/update.go` and
`platform/release` that Check and Apply share. Booting is one step, `BootConfirms` or
`BootRollsBack`. A version is built once: `scripts/check-release-monotonic.sh` and the edge
suffix of `publishedVersion` see to that. Development builds, whose updates are disabled,
and a host that does not answer, which changes nothing, are left out.

### Credentials

| Variable | In the code |
|---|---|
| `rows` | the `provider_credentials` table: status, provider, secret, expiry, last error |
| `pc`, `req` | where each request is, and the local variables of `store`, `verify`, `openLive` |
| `valid` | what the providers honour at the moment; it may change |
| `wasValid`, `wasInvalid`, `deleted` | history |

A submission is `Submit` (shape, expiry, sealing), `Lookup` of an incumbent outside every
transaction, then either `Insert` and `Check`, or `Prove` and `Swap`. A verification is
`VerifyCalled`, perhaps `OpenLatest`, then `Check`. `Record` and `RecordDiscarded` are the two
ends of `verify`'s transaction, guarded by the SQL's `status != 'revoked'` and the partial
unique index. The provider's answer is any that its state allows; `HttpVerdict` and
`CliVerdict` are the two drivers' classifications of it, the second with both of its stages
(which credential the CLI resolved, then what the turn said). A request can be abandoned
between any two steps. Each driver accepts one kind of credential, so the loops over
`credentialKinds` and the index per kind become one slot per provider. The ciphertext, the
hint and the account are not told apart by any property; that a row opens under the key it
was sealed with is Provisioning's `Readable`.

`CredentialPromise` knows one slot per provider. `Try` puts an untested credential into an empty
slot, `Settle` one that was honoured into any, `Drop` empties a slot whose secret was refused,
`Dismiss` is the operator's delete, and what was retired never returns. The mapping reads the
slot off the live row, `retired` off the revoked rows and `trusted` off the active ones, so a
request between two of its steps is invisible, and a swap is one step.

### Installer

`dir` is what lies at `<root>/<version>`. `lasting` and `former` say what a power cut may make
of it: the contents as far as they were flushed, and the entries that were there before the
root was. `Sync`, `Publish` and `FlushRoot` are the three orders `installOnce` gives the disk.
Requests of one process join (`LeadersOf`, `Awakened`); `Forget` and `Close` are two steps,
because the entry leaves the map before the channel is closed. Several processes share only
the directory (the daemon and a second one on the same home). The bucket serves the signed
manifest and the bytes of any release, so what keeps a version honest is the comparison in
`FetchManifest` and the digest in `Download`. `Prune` computes its victims once and removes
them step by step, newest first, beside everything else. No production code calls it yet; it
is part of the driver's interface.

### Provisioning

One command, one process. `install` goes `copy`, `prepare`, `look`, `seal`, `probe`, `unseal`
(as the host allows), opens the key store like every other process (`Choose`, `Open`, `Load`,
`Link`), asks for a token, mints one under the lock if there is none (`Acquire`, `Mint`,
`Store`, `PrintToken`), writes the unit and takes the steps of systemd (`Reload`, `Enable`,
`Restart`) or of launchd (`Bootout`, `Bootstrap`, `Enable`). `token rotate` is the middle part
alone. The service is `Launch`, the same key choice, `Check` for the token, and serving, where
a submitted credential is sealed under the key it holds. Keys and tokens are numbered as they
are minted; a binary is how many times one was copied.

| Variable | In the code |
|---|---|
| `host` | what the machine can do: seal (`SystemdCredsUsable`), deliver (`HandoverWorks`), a key of old |
| `home` | per home directory: sealed blob, own key (file or Keychain item), token hash |
| `custody`, `lock` | the token in the login Keychain; `token-rotate.lock` |
| `unit`, `loaded`, `enabled`, `account`, `bin` | unit on disk, unit the supervisor goes by, start at boot, service account, managed binary |
| `proc` | every process: place, key, token, `cfg.SealedKey`, the build it executes |
| `sealed`, `shown`, `cut`, `reported` | history |

Abstractions: one install runs at a time; the key from `TUMIKA_MASTER_KEY`, unusable key files
and a locked Keychain end a process and change nothing, as `Fails` does; ownership of the home,
the PATH link and `Status` are left out. `ServiceHome` and `CliHome` are constants: the home the
unit names (`servicePaths`) and the one the commands open (`globals.Paths`).

`HostPromise` knows no command, unit, key store or lock. `opens` is the key the next start gets,
`depends` the keys something is stored under, `unseen` the tokens on their way to a terminal.
`Move` changes the key only while nothing depends on it and nothing serves, `Rely` stores under
the key that opens, `Serve` needs a key and a token, `Rotate` takes a token nobody has had,
`Keep` gives custody only the token accepted at that moment, `Show` and `Interrupt` are the two
ways a token's journey ends. The mapping reads `opens` off the two key stores (`NextKey`) and
`unseen` off the rotations between hash and terminal (`Carriers`); most steps of an install are
then invisible.

### KeyFile

`newFileKeyStore` and `SealMasterKey` meet other processes at one path. One action is one access
to it: `Load`, `Mint` (a temporary file, complete and flushed), `Link`, and where the path is
taken `Inspect`, `Clear`, `Relink`, `Reload`; `Ends` cuts a process off anywhere. `file` is what
is at the path: nothing, an empty file or a key. `store` picks the algorithm and never changes,
`crowd` the processes that come. The two stores share the places and differ where the code does:
`SealMasterKey` looks before it makes a key and opens whatever won, the file store goes on with
the key it linked. `Debris` says which crowds may meet an empty file, which only an older release
or a full disk leaves behind. A key file of the wrong mode or length is an error and changes
nothing. `Provisioning` takes the outcome of this race (`Link`: the loser loads) as one step.

## What the runs check

| Run | Properties | Bounds |
|---|---|---|
| `updater_daemon` | `TypeOK FallbackKept UnprovenOnRecord ConfirmedIsInstalled SchemaFits FallbackSpent` | 4 builds, one bad, one cut from a branch without a migration; runner and 2 requests; 4 failures of any kind |
| `updater_live` | `GivenUpIsReplaced KeepsPromise ServiceReturns InstalledRestarts` | 4 builds, one bad; runner and 1 request; 2 failed writes |
| `updater_cli` | `PendingEndsWell StoppedIsStarted` | 3 builds, one bad; runner and 1 `tumika update`; 1 kill, failed rename or failed write |
| `channels_rule` | `TypeOK FloorBelongs NeverOlder ReinstalledInKind CatchesUp` | 7 releases over 3 channels; 3 lies, 1 change of channel, 1 crash |
| `credentials` | `TypeOK OneLive VerdictsEarned MetaHonest CredentialKept RevokedStays KeepsPromise` | 2 concurrent requests, a CLI and an HTTP provider, 2 tokens and a key, 3 rows ever stored; 1 failed write or change of mind |
| `installer` | `TypeOK OnlyVerified OneDownload SuccessHonest PinnedKept JoinersAnswered` | 3 versions, the pinned one the oldest; 3 requests in 2 processes; retention 1; 1 kill or power cut |
| `provisioning` | `TypeOK Readable NeverRefused AcceptedIsShown CustodyAgrees RunsInstalled InstalledServes KeepsPromise` | 5 kinds of host; 3 commands, installs one at a time and a rotation beside; 2 kills, failures or reboots |
| `keyfile` | `Agreed LoserLoads` | both stores; up to 3 processes, any number of starts and kills; 4 keys to mint; an empty file only before a lone process |
| `provisioning_home` | `NeverRefused` is violated | 1 install, no failure, commands and unit in different homes |
| `updater_two_processes` | `FallbackKept` is violated | runner and 1 `tumika update`, no failure |
| `updater_stale_fallback` | `RestoresReplaced` is violated | 1 failed removal |
| `channels_carried_over` | `NeverReinstalled` is violated | 2 releases that ship the same daemon, an honest host |

Four builds are enough for an update that follows an update, a bad build among them and a
downgrade of the schema; three boots is the code's own limit. Four failures allow a failed
confirmation, a leftover `.old`, a refused update and a kill in one behaviour. In Channels
seven releases include a stable hotfix below the edge build before it, an edge build below
every other version, a beta that does not boot, and two heads that carry a daemon over, one on
edge and one on stable; the lies are enough to withhold a document, replay a head, and do it
again at Apply.

In Credentials two requests are what it takes to cross a lookup with a swap, a verdict with a
deletion, two insertions; three rows are a replacement of a replacement. In Installer a request
joins, a third comes from the other process, and the pinned version is the one Prune would take
first. In Provisioning the five hosts are the branches of the key choice (no sealing; sealing
without delivery; both; both over an old key file; a Mac), three commands are install, rotation
and reinstall, and the faults are enough to fail one install and the next, or to reboot after. In KeyFile the third
process comes while one links and another loads what was linked; kills need no bound, because
only a minted key is ever used up, and four are one for every process and one for a retry.

The runs of Updater, Channels and Provisioning set `CHECK_DEADLOCK FALSE` because the system may
stop: nobody has to publish another build or run another command, and a kill between Apply's
two renames leaves nothing to start.

### Fairness

`Updater`: the daemon's own steps (`ServeStep`, which includes the supervisor's restart:
`Restart=always`, `KeepAlive`), every call of Apply, which has a timeout or a local file
behind each step, the runner's and a handler's signal, and a command that has begun. Asking
for an update, starting a command, SIGTERM and every failure are not fair. `Channels`: the
ticker's check, Apply, and the supervisor; not publication and not an operator. `Installer`:
each leader's own steps, since the HTTP client's thirty minutes end every call and the rest is
local; not a new request, not Prune. `Provisioning`: the supervisor's launch and relaunch and
the daemon's start; a command may hang or be killed anywhere, so `InstalledServes` speaks of
installs that have reported success. `Credentials` states no fairness: its properties are safety.

### What the violations show

1. **The mutex does not reach another process.** The runner and `tumika update` pass the
   pending guard and the `.old` check together; the fallback ends up holding the new build.
2. **A leftover `.old` turns a refused update into a wrong rollback.** Apply records
   pending, refuses because `.old` exists, and three ordinary restarts later puts that older
   build over the good one.
3. **A carried-over daemon is reinstalled for ever on edge.** Its stamp is the earlier
   release, so the head that carries it stays later than it. `ReinstalledInKind` says how far
   that goes: only on edge, and what is put in place is the build that runs.
4. **A plain `sudo tumika install` on Linux mints the token where the service does not look.**
   The unit names `/var/lib/tumika` (`servicePaths`), the token goes to the home `globals.Paths`
   resolves for root. Outside a container, without `--home` and `TUMIKA_HOME`, the service
   refuses to serve and is relaunched for ever. The test harness asks only what the unit names.

Two more disagreements have no run of their own, and each follows from a run by one constant:

- With `"kill"` among the `Faults` of `Updater_live.cfg`, `GivenUpIsReplaced` fails: `rollBack`
  writes `rolled_back` before the rename, its comment says the next boot retries
  (`update.go:591`), and ConfirmBoot leaves every row that is not pending alone.
- With `Debris` every crowd of `KeyFile.cfg`, `Agreed` and `LoserLoads` fail: two first runs that
  meet an empty key file can each remove what the other has just linked, and go on with two keys, against
  "must agree on one key" (`keystore_recovery_test.go:32`).

With a `tumika update` beside the daemon the other safety invariants fail as the first does,
which is why `updater_cli` checks only what survives it, and why their theorems assume
`Clis = {}`. Some behaviours the code documents are not counted as findings: no binary
after a kill between the renames (`daemon.go:467`), a rollback across a migration
(`migrate.go:14`), a watermark that is lost with a rolled-back update (`update.go:253`).

## What is proved

All theorems hold for every value of the constants that the modules' `ASSUME`s allow: any
set of builds, any limit, any number of requests, any kinds and number of failures.

- `UpdaterProofs!TypeCorrect` and `PendingAlwaysEndsWell` hold for any number of `tumika
  update` processes. The second rests on what the daemon carries in `seen` between reading
  the row and writing it back (`SeenGood`): a row it will write as given up has reached the
  limit, and one it will write as confirmed names the build it runs.
- `FallbackAlwaysKept`, `UnprovenAlwaysOnRecord`, `ConfirmedAlwaysInstalled`,
  `SchemaAlwaysFits` and `FallbackOnlySpent` assume `Clis = {}`. None of these invariants is
  inductive alone: that a swap is safe depends on the row and `.old` at the moment of the
  rename. `IInv` adds that callers exist only while the daemon serves or drains
  (`CallersServed`), that one is inside Apply at a time (`OneInside`), what row and files each
  place of Apply implies (`CallerPlace`), that while a boot is being resolved the row is the
  one that was read (`BootOwnsRow`), which build runs and has proved what (`RunsInstalled`,
  `ListenedServes`, `OpenedFits`), that a pending row names two builds (`PendingBuilds`) and
  that what is in `.old` has served (`OldServed`).
- `UpdaterRefinementProofs!PromiseKept` proves the refinement under `Uninterrupted` (no kill,
  no failed rename) and `Clis = {}`: a rollback that is recorded and not carried out, and
  the first violation, are steps the promise does not have. `FallbackAlwaysServed` carries the
  promise's own theorem, `UpdatePromise!TrustedAlwaysServed`, down to the row and the files. From
  the same invariant and under the same conditions come `AlwaysRestoresReplaced` (the fallback a
  rollback renames is the build the row says was replaced) and `GivenUpAlwaysReplaced`.
- `ChannelsProofs!AlwaysLater` proves the recency rule against a host that withholds and
  replays, for any publication history. Its invariant says that a build's stamp is the first
  release of its version (`Stamps`) and that a row not given up on is dated by a release of the
  version it names (`RowIsDated`), which gives `FloorAlwaysBelongs`. `AlwaysInKind` adds, for
  every history, what a second installation of a release can be; `NeverTwice` that there is none
  where every release ships a daemon of its own (`VersionOf` is injective). Both need that while
  no row is pending, what runs is what is installed (`RowIsDated`'s last part).
- `CredentialsProofs` proves every property of its run for any providers, secrets, rows and
  requests. What makes them inductive is what a request in flight may believe: the secret and
  the provider it carries are those of the row it will write (`RowsCarried`), a token it carries
  has an expiry (`ExpiryCarried`), and a verdict it holds was once true (`VerdictsCarried`). `OneCredential` needs no more than the index and that `Swap`
  retires and inserts in one step. `PromiseKept` is the refinement, with no further hypothesis:
  one lemma per action that changes the table (`RefinesInsert`, `RefinesSwap`, `RefinesRecord`,
  `RefinesDelete`), over what an assignment to one row does to a slot (`SlotSet`); every other
  step leaves the promise alone or changes only what providers honour (`RefinesOutside`).
- `InstallerProofs` proves the five invariants of its run for any versions, requests, processes
  and retention. The strengthening follows the bytes: a staged build is whole because its
  manifest is for the version asked (`JobsSound`), what a power cut may leave (`lasting`, `former`)
  is whole or not usable (`DiskSound`), and the pinned version is never among the victims of a
  Prune and is flushed before anybody is told of it (`PinnedSafe`).
- `ProvisioningProofs` proves every invariant of its run. `TokensAgree`, `TokensShown` and
  `InstalledRuns` hold in general. `ServiceFindsToken` and `CredentialsStayReadable` assume
  `OneHome` (`CliHome = ServiceHome`), without which the fourth violation occurs, and the second
  also `MacsKeyed`: two first runs on a Mac would overwrite each other's Keychain item, which is
  set, not created. The argument is in four parts: who writes custody holds the lock and
  carries the newest token (`Rotation`), a hash exists before there is anything to start
  (`Tokened`), what the supervisor goes by is what install wrote last (`Fresh`), and once
  anything depends on the key no step moves it or mints another (`Keyed`). `PromiseKept` is the refinement
  of `HostPromise`, under the same two conditions. It needs one invariant more, that a token's
  number names it (`TokensNamed`): otherwise printing one could show another's, and a new one
  could have been seen. Steps that carry no token are the daemon's or a key store's
  (`PromisesQuietly`), a rotation and its early end move the tokens (`PromisesRotation`), and a
  reboot loses all that are on their way (`PromisesReboot`).
- `KeyFileProofs` proves `AlwaysAgreed` and `LoserAlwaysLoads` for any number of processes, keys,
  starts and kills, where crowds that meet an empty file are of one process (`Clean`);
  `TypeCorrect` needs no condition, and is not checked by the run. `Agreed` alone is not inductive: it needs what each place
  knows of the path (`PlaceTells`: whoever clears it has just seen an empty file there, whoever
  reloads a key) and that nobody clears anything else (`NothingCleared`).

Only model-checked: everything under fairness (`ServiceReturns`, `InstalledRestarts`,
`StoppedIsStarted`, `CatchesUp`, `JoinersAnswered`, `InstalledServes`), which is out of the
prover's reach. `NeverReinstalled`, `RestoresReplaced` and `FallbackKept` are false in general,
as the violations show; the theorems about them carry the hypothesis that excludes exactly that.

## Not modelled

Signatures, digests, encryption and document parsing (data the models take as given); staged
files and temporary directories left behind, which take space only; login sessions (a repository
with no service yet); logging redaction and build information (pure functions); the HTTP layer,
which keeps no state; the settings' validation and their batch writes, each one transaction; the
PATH link and the ownership of the home, which nothing else in the models reads; two installs at
once, and two first runs on a Mac (listed as hazards); the desktop app,
the scripts and the workflows, which are other programs.

Deleting a provider's credential retires its live rows. A row that is already `invalid` is left
as it is, and a later verification can make it active again; the hazard list has it, and no
property forbids it.

## Plan

1. Done: `Updater`, `UpdatePromise`, their composition, `Channels`, and their theorems.
2. Done: `Credentials`, `Installer`, `Provisioning`, and their theorems.
3. Done: `KeyFile`, the first-run races of the key stores; `CredentialPromise` and its refinement.
4. Done: `HostPromise` and the refinement of it by `Provisioning`.
5. A composition of `Updater` and `Channels`, so that a rollback is seen by the recency rule.
6. Two installs at once in `Provisioning`.
7. The desktop app's pairing and update decision.
