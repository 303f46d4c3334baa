# DiMonitorin: TLA+ models, checks and proofs

DiMonitorin is a monitor for a single host: one Go process samples the host,
keeps the samples and a feed of events in SQLite, and serves a dashboard behind
a login. Around it are a command line (init, create-admin, reset-password,
config, backup, service), a shell installer with a daily auto-update, and
systemd.

This directory models the parts whose correctness depends on interleaving, on
failures or on the order of steps. `PROJECT.json` lists the runs, the source
lines behind each definition, the hazards, the mutants and the theorems.

Contents: 1 inventory, 2 modules and how they correspond to the code, 3 runs,
4 bounds, 5 fairness, 6 proofs, 7 disagreements between code and documentation,
8 what is not modelled, 9 plan.

## 1. Inventory

### Sampling loop and readers (`internal/web/server.go`, `cmdRun`)

* **State**: `previous` (the snapshot events are computed against), a sample
  ticker and a prune ticker, a context cancelled by SIGTERM; the rows of
  `metric_samples` and `events`.
* **Operations**: `BootstrapSample` before anything else runs; `StartBackground`
  (collect, insert, emit events one by one, advance `previous`; prune in two
  statements); `latestSnapshot` in every handler, which reads the newest sample
  and, on an empty table, collects and inserts one itself.
* **Interaction**: handlers and the loop share the tables and nothing else.
  `cmdRun` closes the store without waiting for either, so the one connection is
  closed only if it is idle at that moment. systemd restarts the process, which takes
  its first baseline from the table.
* **Hard**: a context cancelled between two statements or during a collection; a
  crash between the sample and its events; handlers that insert late; failing
  statements whose error is dropped; two tickers in one `select`.
* **Correct when** the feed and the stored history agree, readers do not go back
  in time, a degraded snapshot never becomes a baseline, sampling always comes
  back, and old rows go.

### Collector (`internal/monitor/collector.go`, `internal/app/types.go`)

* **State**: the configuration; previous network counters and their time, under
  a mutex.
* **Operations**: `Collect` (probes, thresholds, aggregates), `collectNetwork`,
  `EmitEvents`, `OverallStatus`.
* **Interaction**: called by the loop and by handlers at the same time.
* **Hard**: each probe can fail by itself and leaves a zero value, or, for the CPU,
  give an empty list and no error, which counts as 0 percent; worst-of
  aggregation with "unknown" in between; services compared by name against a
  snapshot of another configuration; unsigned differences of counters read
  before the lock.
* **Correct when** nothing whose probe reported an error counts as healthy, an
  alarm is never hidden, an event exists exactly where two snapshots differ, and
  a rate belongs to the readings it was computed from.

### Store (`internal/db/db.go`, `internal/db/backup.go`)

* **State**: tables `admins`, `sessions`, `metric_samples`, `events`,
  `audit_logs`; a main file and a write-ahead log.
* **Operations**: one statement per method, two in `Prune`; `ExportBackup`, which
  archives the configuration and the main file.
* **Interaction**: one connection per process; commands open the same files
  beside the server.
* **Hard**: one statement of several failing; copying a file that another process
  writes; the log, which only the last connection to close folds in; a process that
  ends with its connection in use and so closes nothing.

### Login throttle, sessions, audit (`internal/auth/auth.go`, `internal/web/server.go`)

* **State**: `byIP` under a mutex; session rows; audit rows; the session in a
  request's context.
* **Operations**: `Check`, `Fail`, `Success`; `CreateSession`, `requireAuth`,
  logout, theme switch, purge, `AddAudit`.
* **Hard**: the mutex is not held while the password is compared; window and
  lock end at different instants; a handler uses a session that another request
  has ended; statements of one handler fail or are cut by a restart.
* **Correct when** guesses are bounded however they race, locks are earned and
  kept but not for ever, the log tells the truth, and a session ends exactly when
  it should.

### Configuration and command line (`internal/config/config.go`, `cmd/dimonitorin/main.go`)

* **State**: `config.yaml`, `admins`. **Operations**: `Load`, `Set`, `Validate`,
  `Save`; init, create-admin, reset-password, config set, backup export, doctor.
* **Hard**: no lock on the file; `os.WriteFile` truncates before it writes; a
  command can wait at a prompt between looking and writing; NaN.
* **Correct when** what was reported as saved is what is loaded later, and no
  accepted configuration is out of order.

### Installer, release, systemd (`scripts/`, `release.yml`, rendered units)

* **State**: the origin's archives and `latest.json`; binary, units, a copy of
  the installer; the running build.
* **Operations**: install, daily update, uninstall, publish, start.
* **Interaction**: nothing keeps runs apart. People and the timer start them at any
  moment, an uninstall as well, and two release workflows may publish at once.
* **Hard**: a release published between two downloads; two runs that copy to
  BIN_PATH at once, or one that a `latest.json` read earlier takes back to an older
  build; an uninstall between two commands of an install; `set -e` (and where bash
  suspends it) ending a run anywhere, inside the copy of the binary or of the installer
  too; a copy of a file onto itself.
* **Correct when** only announced builds are installed or run, no unit points to a
  file that is not there unless the run that left it so failed or said so, and the
  daily run brings the announced build to the host at last.

### Views and browser scripts

Rendering of a snapshot, without state of their own. Not modelled.

## 2. Modules

| Module | Models | Used by |
| --- | --- | --- |
| `EventFeed` | abstract: what the two metric tables promise | refined by `Sampler` |
| `Sampler` | bootstrap, loop, handlers, pruning, signals, crashes, restart | `MCSampler`, `SamplerProofs` |
| `Health` | thresholds, aggregates, `OverallStatus`, `EmitEvents` by name | `MCHealth`, `HealthProofs` |
| `NetRate` | `collectNetwork` with two collections at once | `MCNetRate`, `NetRateProofs` |
| `LoginProtector` | `Check`, `Fail`, `Success` around the password comparison | `LoginProtectorProofs` |
| `SessionStore` | abstract: what sessions and the audit log promise | refined by `Sessions` |
| `Sessions` | session and audit rows under concurrent requests | `SessionsProofs` |
| `AppDir` | `config.yaml` and `admins` under overlapping commands | `MCAppDir`, `AppDirProofs` |
| `Backup` | main file, log, connections and the export | `BackupProofs` |
| `Installer` | `install.sh`, the origin, the units, with runs that overlap | `InstallerProofs` |

The `MC` modules give constants their values and define symmetry; a module without
one is checked as it is, with the values in its `.cfg`. Operators that
a comment calls "Mutant of X" are no part of a specification: each is what X
would be with a plausible bug, and each breaks one property of one run.

**Sampler.** A process is `Main` (`cmdRun` up to the bootstrap sample), `Bg`
(`StartBackground`) or a handler; `pc` names the point between two calls at which
others can run. `read`, `collect`, `insert` are the three parts of
`latestSnapshot`, and the last two also the body of the sample branch, followed
by `emit`; `prune` is between the two statements of `Prune`. `phase` is how far
the process has come. One SQL statement is one step, since the pool has one
connection. `Collect` starts by taking `CollectedAt` and ends later with any
observation; if its context was cancelled meanwhile the snapshot says so
(`ctx`, history). `Fails` lets a statement fail for free under a cancelled
context or while the store is closing, and otherwise spends a fault. A snapshot
is what `EmitEvents` compares: one observation per subject. `gap` is history: the
subjects of which an event was lost or whose baseline was replaced by a sample
the loop did not see, which is what the feed properties have to except.

**Health** computes what `Sampler` takes as given: readings (or `Failed`, a probe that
returned an error) become levels, aggregates and the comparison. The CPU has one more
reading, `Empty`: a list without a percentage and no error, to which neither branch of
`Collect` applies, so that it is evaluated from 0. A state is a pair of snapshots. What is
compared has a subject, the kind and the source of the event, so that a service
called "cpu" is not the processor.

**NetRate.** `ReadCounters`, `TakeTime` and `Store` are the three points of
`collectNetwork`; counters are `W` units wide and wrap. History: the bytes really
carried at each reading.

**LoginProtector.** `Check` and `Fail`/`Succeed` are critical sections of their
own, with the comparison between. `failures` is history.

**Sessions.** One action per statement of a handler; `session` is the session in
the request's context, which can be gone from the table. `Purge` is the statement
that the prune ticker runs; it may fail, and a theme switch that was let in before
the expiry may write to its row afterwards. `SessionStore` is what they amount to
without themes and statements.

**AppDir.** `Truncate` and `Write` are the two halves of `os.WriteFile`; `cfg` is
what a command has in memory. Four keys stand for all: `port` for keys with a
value of their own, `secret` for what `Default` draws anew, and a pair of
thresholds. A file cut short keeps its first keys, each whole or not at all. `told`,
history, is what a command has reported; it is set with the write, just before the
report is printed, so that a command killed between the two is held to more than it
has said.

**Backup.** `db` is the committed content, `main` that of the main file. The
difference is the log. The server's connection is idle, with a statement under way, or
in the checkpoint of a commit. `Close` is that of an idle connection: the last one makes
the two files equal, or fails on the way. A process that is killed, or a server whose
`cmdRun` returns while a handler or the loop has the connection, leaves without it
(`Drop`). `left` is history: how the last process to leave did. SQLite is external and
modelled from this use.

**Installer.** One action per command that can be the last one of a run; a fault
ends the run (`Abort`), except inside `stage_binary`, whose command substitution
suspends `set -e`. Each person and the daily unit is a process with a run of its
own (`pc`, `run`); systemd starts a oneshot unit once at a time, so there is one
`Daily`. The copy to BIN_PATH takes two steps, between which `bin` names the process
that copies and everybody else finds an unfinished file. So does the copy that
`persist_local_installer` keeps of the script (`installer`, `Persist`, `CopyInstaller`):
a copy that was there is unlinked first, and a run that ends in between leaves one that
is `Broken`, with which neither the daily unit nor a person starts a run. `syncing` holds the releases
whose archives are uploaded and whose `latest.json` is not yet, one or more. `mixed`
is history: an uninstall has met another run under way.

## 3. Runs

| Run | Question | Result |
| --- | --- | --- |
| `sampler_feed` | do events and samples agree in both directions, and do the tables implement `EventFeed`, with two faults; does a client ever see time go back | pass |
| `sampler_live` | does sampling come back, is a tick served, do old rows go | pass |
| `health` | are aggregates the most severe level, is what failed with an error never healthy, are events exactly the differences | pass |
| `netrate` | which bytes and which time does a rate belong to | pass |
| `protector` | how far can racing guesses overshoot, and how many fit into one window; is a lock earned, kept, and over at last | pass |
| `sessions` | does the log tell the truth, do rows only age, does only a logout end a session, do the two tables implement `SessionStore`, do expired rows go although a purge may fail | pass |
| `appdir` | is what was saved what is loaded; are thresholds in order | pass |
| `backup` | is the main file complete when the last connection was really closed, is a backup taken then exact, whatever was killed or stopped before | pass |
| `installer` | with installs, updates, uninstalls and publishing workflows that overlap: are only announced builds installed or run, do units have targets, does the announced build arrive | pass |
| `installer_update`, `appdir_nan`, `backup_export` | what the documentation, or a check in the code, says | violated, see 7 |

What some passing properties teach besides holding:

* A handler's sample can be stored after a newer one. Clients still never go back
  (`MonotonicReads`), because a handler collects only on an empty table, and a
  stored sample leaves it only past retention.
* `CountBounded` is the exact overshoot: with *n* requests at once an address gets
  at most `maxFails + n - 1` guesses before it is locked.
* `GuessesBounded` is exact too. The window of the code is fixed at the first failure
  and a late answer can replace a locked record, so that one stretch of 15 minutes
  holds more guesses than `maxFails + n - 1`, but never more than
  `2 * (maxFails + n - 2)`.
* `LockKept` has to except requests already past `Check`. One that fails after the
  window is over replaces the record and thereby ends the lock.
* `AuditTruthful` has to except a logout whose DELETE failed: its error is
  dropped, so the log says "logout" of a session that is still valid. Of a theme
  change it says only that the session had been stored: the row may be gone, or the
  UPDATE have failed, and the switch is audited all the same.
* `BlindNotHealthy` speaks of probes that return an error. An empty list of CPU
  percentages is no error to `Collect`, and the processor then counts as healthy at 0
  percent; the property names that reading as its exception.
* `CleanStopComplete` and `QuietExact` say "closed" and not "stopped". SIGTERM alone
  does not bring the log back, since the connection may be in use when `cmdRun` returns;
  a command that opens the database afterwards and closes it last does. An export taken
  right after such a stop can therefore lack commits; one taken after that cannot, if
  the first closed its connection, successfully, as the last one.
* `RateExact` and `RateTimely` have to except a reset of the counters, readings
  stored in the opposite order, and a change of interface in between, where the
  code computes rates from unrelated readings.
* `SettingsKept` has to except commands that overlap, and one killed in a write.
* Two installs that overlap cannot leave a unit without its target, since each of
  them writes its units last; an uninstall that overlaps an install can, so
  `UnitsHaveTargets` excepts it (`mixed`).
* A second install by hand over an auto-update setup that ends inside the copy of the
  installer leaves an update unit whose script is not whole, and no warning.
  `UnitsHaveTargets` admits this after a fault only; `UpdateInstalls` makes its promise
  only while the copy is whole (`Offered`), because nothing but an install by a person
  repairs it. What a piped install leaves, a unit without any copy, was warned of.
* A run that read `latest.json` before a release can put the older build back after
  another run has installed the newer one. The older build was announced, so
  `OnlyAnnounced` holds, and the next daily run finds the checksums different and
  installs the newer build again: that is what `UpdateInstalls` says.
* `OnlyAnnounced` has to except what a failing `tar` has left, which goes unnoticed
  in the command substitution and is installed.

## 4. Bounds

Every bound is a constant named `Max...` and is used in guards only.

* `Sampler`: time up to 3 with a retention of 1, so that rows are sampled, expire
  and are pruned while a later one exists; two faults (a crash and a failing
  statement, or two of either); two subjects for the feed, one of them the
  collector, since subjects do not interact but in their order. One client, since
  the loop is the other inserter that can overtake it; `ReadsAreMonotonic` is proved
  for any number. No request starts after `MaxClock`, which ends the race of
  collections.
* `Health`: a warning and a critical threshold; one reading below both for memory and
  disks, one on the warning threshold for disks, and a failure; a failed and an empty
  CPU reading, since the CPU goes through the same `Level` as the disks otherwise; two
  disks in every order; two services, up or failed (the critical level), added, dropped and reordered; all
  pairs of snapshots.
* `NetRate`: `W = 2` so that counters wrap at once; two bytes per interface, three
  instants, a reset.
* `LoginProtector`: `MaxFails = 2` and two requests, so that one overshoots; a window
  of five instants, as long as the lock as in `NewLoginProtector`. In five instants an
  address could fail five times, which is one more than `GuessesBounded` admits, and
  TLC reaches the four it does admit: a record at its limit, a late answer past its
  window that starts another, and two more. Two addresses; a restart.
* `Sessions`: two requests on two sessions, so that one request can end or let
  expire what another one holds; `TTL = 2`, time past two expiries; two faults, so
  that a purge can fail after a statement of a handler has.
* `AppDir`: three commands (two that overlap and one that loads the outcome), one
  killed. `Backup`: two pages, enough for a torn copy; three transactions, two
  exports, two faults (kills, failing copies or closes, full disks); stops by SIGTERM,
  in the middle of a statement or not, cost none. `Installer`: two people and the
  daily unit, so that three runs overlap; two builds under two versions, so that a
  version is published again or a newer one follows; two runs by people, any number
  of daily ones; a fault, which ends any run anywhere.

`MaxTime` does not end a behaviour with an open obligation: in `Sampler` only
time and the sample ticker stop there, and `OldRowsGo` speaks of rows that are
past retention by then.

Deadlock is checked but where the system really ends: `AppDir` (all commands are
over), `Installer` (all runs are over), `LoginProtector` (nobody is let in after
`MaxTime`).

## 5. Fairness

`Sampler!FairSpec`: weak fairness of each goroutine's next step (the Go scheduler),
of `Start` (`Restart=always` in the rendered unit), of `Exit` after SIGTERM (the
shutdown has a timeout of five seconds) and of the prune ticker; strong fairness of
the two ticker branches of `select`, which the language specification chooses by a
uniform pseudo-random selection. Faults, signals, requests and disconnections are
never fair.

`LoginProtector!FairSpec`: time passes.

`Sessions!FairSpec`: weak fairness of `Purge`. The ticker starts anew with each
process, so this needs a process that stays up for six hours at last; restarts are
faults here, and bounded. That statements end needs no fairness: requests may stop
anywhere.

`Installer!FairSpec`: weak fairness of the daily run's start and of its commands. The
timer is `OnCalendar=daily` with `Persistent=true`, so a run that was missed is made
up for. That its commands end is an assumption about the network, since the script
gives `curl` no time limit. People and release workflows are never fair, and
`UpdateInstalls` only speaks of a build as long as it is offered.

## 6. Proofs

Checked by TLAPS, for every value of the constants the named assumptions admit.

**`SamplerProofs`**: `TypeCorrect`, `SamplesAreClean` (`NoDegradedSample`),
`ReadsAreMonotonic` (`MonotonicReads`) and `Refinement` (`ImplementsFeed`, from
`Spec` to `EventFeed!Spec`). One inductive invariant, `IInv`:

* `Instants`: stored timestamps are in the past, and each snapshot under way has
  one that no row and no other process has. Without it `Record` of `EventFeed`
  (distinct timestamps) cannot be shown.
* `Complete`: a collected snapshot says something of every subject, and was
  collected under a live context unless its context is cancelled by now. This is
  why the insert, refused under a cancelled context, keeps the table clean.
* `Booting`: nothing else runs until `BootstrapSample` returns.
* `Emitting`: the loop reports about a sample that is still stored, the feed has
  not gone past it, and the pending subjects are later than those reported. It
  needs a retention of at least one unit.
* `Clients`: for each client the table holds a sample as new as what it was
  shown, or that is past retention. Hence a late insert cannot take a client back.

In the same module, `ChainsUnbroken` (`FeedChains`) and `HistoryReported`
(`FeedComplete`), from `IInv` and a second invariant, `Faithful`. As long as some
subject is not in `gap`, no handler has stored a sample, so the loop's samples come
one after the other and Prune takes the same prefix from both tables (`Unique`,
`Phases`, `Ordered`). For each such subject the events form a chain (`Chain`) that
ends in what has been reported, which is `previous` while its event is pending and
the newest sample's observation afterwards (`Baseline`), and every transition between
neighbouring rows is in the feed or is the pending one, from `previous` (`Told`).
Between two processes the chain ends in the newest sample, which is why the next
process may start from it. `Kinds` splits a step into those the feed does not notice
(`Quiet`), those it does (`Heard`), with a lemma for each, and the end of the process.

**`LoginProtectorProofs`**: `TypeCorrect`, `CountIsBounded`, `GuessesAreBounded`,
`LocksAreEarned`, `LocksAreKept`. The argument for the bound is `Outlasting`: a record at its limit is
locked until after its own window (this is where lockout >= window is used), so
whoever finds it unlocked forgets it, and only requests already past `Check` can add
to it. `Covered` ties counts and locks to the failures that earned them. `Paced` is
what bounds the guesses in one window, although the window of the code is fixed at
the first failure and a stretch of that length can meet two records: the older one
leaves at most `Rest = MaxFails + Cardinality(Requests) - 3` failures in the window of
the next, because its first failure is outside, and because it was either forgotten
below its limit, or with a lockout that had outlasted the window of all its failures,
or replaced by a request that was still under way and so not yet counted. With the
default of five and n requests at once that is `2 * (n + 3)` guesses in 15 minutes.

**`BackupProofs`**: `TypeCorrect`, `CleanStops` (`CleanStopComplete`), `QuietBackups`
(`QuietExact`). The premise of both is a last connection that was closed and not
dropped, whatever was dropped earlier. `CleanStops` holds because only a successful
`Close` of the last connection sets `left` to "closed" with nobody left. `Copying` says
that nothing moves while a quiet backup copies; `CleanStopComplete` makes the main file
it copies complete.

**`SessionsProofs`**: `TypeCorrect`, `LogTellsTruth` (`AuditTruthful`), `RowsAgeOnly`
(`RowsOnlyAge`), `OnlyLogoutEnds` (`EndedOnlyByLogout`). `Fresh` says that the id a
request is about to store is found nowhere else, which needs that every id in use
was drawn (`Drawn`); `Truthful`, that the session of every request past its
INSERT or requireAuth had been stored, and that a logout about to be audited has ended
it or its DELETE failed.
`Refinement` (`ImplementsStore`) maps each statement to a step of `SessionStore` or to
none: an INSERT is `Open`, requireAuth `Enter`, a DELETE `Close`, the purge `Expire`, an
audit `LogLogin` or `Leave`; an UPDATE of the theme is none, because it leaves id and
expiry alone (`UpdateFacts`). `Serves` maps the pcs of a request to the id it is served
for; `Served` says that this id was stored once, so that a logout whose session was
taken from under it by another request is still logged about one that has ended.

**`AppDirProofs`**: `TypeCorrect`, `ThresholdsInOrder` (`ThresholdsSane`),
`SettingsAreKept` (`SettingsKept`). `Prepared`: what a command is about to save has
passed `Validate`, whatever others write meanwhile. `Settled`: until two writers have
overlapped there is at most one, it holds what was reported as saved but for the key
it sets (`Holds`), and when nobody writes the file says the same (`FileSays`).

**`NetRateProofs`**: `TypeCorrect`, `RatesAreExact` (`RateExact`), `RatesAreTimely`
(`RateTimely`). `AllHonest`: each counter shows the bytes carried since its reset
modulo `W`. `Wrap` is the arithmetic: the difference of two counters modulo `W` is that
of the bytes if these are at most `W - 1` apart. `TimeOfOne`: the shared `prevTime` is
that of the last reading of some interface.

**`HealthProofs`**: `TypeCorrect`, `WorstAlwaysShown` (`WorstShown`),
`BlindNeverHealthy` (`BlindNotHealthy`), `FeedAlwaysFaithful` (`FeedFaithful`), for
lists of any length. The invariant is `Collected`: a snapshot was computed by
`Snapshot` from some readings, or is the zero one that comes first. The rest is about
loops, written as `FoldLeft`: `FoldDefined` and `FoldSteps` give the fold element by
element, and `NatSet`, an induction over an explicit set of numbers from the
least-element principle, carries `WorstFound` (the running maximum is a member, none
ranks above) and `ChangesKept` (the events are the differing items, each once and in
order) along it. `SubjectsCompared` and `OnlySubjectsCompared` tie the compared items
to the subjects of the two snapshots.

**`InstallerProofs`**: `TypeCorrect`, `OnlyAnnouncedInstalled` (`OnlyAnnounced`),
`TargetsStay` (`UnitsHaveTargets`), for any number of people. `ManifestKnown` and
`RunsKnown`: `latest.json` and each run past its checksum name an announced build, or
a fault was spent. `Unmixed`: until an uninstall has met another run, one under way is
alone (`Alone`) and removes units before what they point to (`Order`), and a run past
`Persist` has put a copy of the installer there or warned. `InstallerKnown` says what
that copy can be: whole, being copied by a run that is at "keep", or broken by a fault.

Assumptions on constants: a retention and a number of subjects of at least one;
"absent" is no status; `main` and `bg` are no clients; `maxFails >= 2`, a positive
window, lockout >= window, finitely many requests and at least one; no ActiveState
called "absent"; lists of names for tracked services; at least one page; sessions that
live for at least one unit; counters of at least one value; at least one command, and
a default port that is valid; the daily unit is no person, and processes are no
numbers. Assumptions of the models: two collections never take the same instant (the
timestamp has nanoseconds); the wall clock is not stepped back; `Fail` takes its
instant in the critical section; random session ids never repeat.

Only model-checked: all liveness (`ComesUp`, `TickServed`, `OldRowsGo`, `Unlocks`,
`ExpiredGo`, `UpdateInstalls`), which the prover does not handle under fairness.
Induction theorems that take an operator cannot be instantiated by the installed
provers; where an induction is needed it is stated over a set (`NatSet` of
`HealthProofs`), which is why the loops of `Health` are folds and not `SelectSeq` or
recursive operators.

## 7. Disagreements between code and documentation

* `installer_update`: the update unit runs the kept copy of `install.sh`, whose
  `install SELF_PATH target` refuses to copy a file onto itself. The run ends after
  the binary was replaced and before the service is restarted. INSTALL.md says
  that it is restarted.
* `appdir_nan`: a threshold of NaN passes `Validate` and is saved.
* `backup_export`: an export beside a running server lacks what is in the log.
  DEVELOPMENT.md says that the archive contains the database.

Two more differences are built into `AppDir` and have no run of their own. Two runs of
init can both find no configuration, and the later one then overwrites the other's
(`InitStat`, `Truncate`), although DEVELOPMENT.md says that init stops if one exists.
reset-password of an unknown name creates an administrator (`EnsureAdmin`), although
DEVELOPMENT.md says that it resets an existing password.

## 8. Not modelled

Rendering, CSS and browser scripts; probing of the host itself (`/proc`,
`systemctl`, `ps`); the list of processes, which feeds nothing but a page; Argon2
and the random generator; flag parsing, prompts and formatting; building and
packaging of releases; `doctor`, which only reads. CSRF and cookie checks appear as
requests that change nothing.

Of the installer: `--version` and override artifacts, which do not read
`latest.json`, so that nothing is announced to compare with; `--dry-run`, which
changes nothing; `--purge`, which removes the app directory after the last command
of `Installer`; the installation of dependencies.

The login form as a whole (`LoginProtector` and `Sessions` composed): the two halves
of `handleLogin` share no state but the request itself, and neither reads what the
other writes, so the composition has no interleaving that the two modules lack. The
password comes from `admins`, whose changes by commands are in `AppDir`; a request
reads it once.

`static/js/app.js` loads the chart of a time range without cancelling the request for
the range chosen before, so that the two answers may arrive in the opposite order and
the chart show the wrong range. The next refresh, 20 seconds later, puts it right; the
script has no other state, and a module for it would be that one sentence.

## 9. Plan

Done: the core (`Sampler` with `EventFeed`), then the modules it takes values from
(`Health`, `NetRate`), the request side (`LoginProtector`, `Sessions` with `SessionStore`), the command
line and the host (`AppDir`, `Backup`, `Installer`, runs that overlap included), and
proofs of every safety property of the passing runs.

What could follow: `Sampler` and `Sessions` with the prune ticker related to time. It
starts anew with each process, so a server that restarts more often than every six
hours never prunes; the models say so only by their fairness. How often a server may
restart before retention is no longer kept would be a statement of its own.
