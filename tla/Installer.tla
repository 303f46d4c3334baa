------------------------------ MODULE Installer ------------------------------
(***************************************************************************)
(* scripts/install.sh against the download origin and systemd.  A run      *)
(* reads latest.json, downloads and verifies the archive, replaces the     *)
(* binary, keeps a copy of itself, writes the units, and restarts the      *)
(* service if it was started by the daily update unit.  Nothing keeps runs *)
(* apart: people and the timer start them at any moment, and an uninstall  *)
(* as well.  Releases are published at any moment, each with its archives  *)
(* first and latest.json last; two workflows may publish at once.  Any     *)
(* command of a run may fail or the host may go down; `set -e` then ends   *)
(* the run where it is.                                                    *)
(* Left out: --version and the override artifact, --dry-run, --purge.      *)
(*                                                                         *)
(* stage_binary runs in a command substitution, where bash forgets         *)
(* `set -e`: a failing tar goes unnoticed there and what it has extracted  *)
(* so far is staged.                                                       *)
(***************************************************************************)
EXTENDS Integers

CONSTANTS Operators,  \* people that run the script, one run at a time each
          Daily,      \* the update unit: systemd runs a oneshot unit once at a time
          MaxBuilds,  \* bound: archives ever published
          MaxVersion, \* bound: versions they are published under
          MaxRuns,    \* bound: runs of the script by people
          MaxFaults   \* bound: commands that fail

ASSUME InstallerAssumption ==
  /\ Daily \notin Operators /\ \A p \in Operators \cup {Daily} : p \notin Int
  /\ MaxBuilds \in Nat /\ MaxVersion \in Nat /\ MaxRuns \in Nat /\ MaxFaults \in Nat

Procs == Operators \cup {Daily}

VARIABLES
  archives,  \* the origin: build stored under each version, 0 if none
  builds,    \* number of builds published so far
  syncing,   \* releases whose archives are uploaded and latest.json is not
  manifest,  \* latest.json: version and build (its sha256)
  bin,       \* build at BIN_PATH, 0 if none, a process while that copies it
  files,     \* which of Files are there
  installer, \* the copy of the script that a run has kept: 0 if none, Whole,
             \* Broken, or a process while that copies it
  running,   \* build the service runs, 0 if it is stopped
  pc,        \* next command of each process
  run,       \* how its run was started and what it has found out
  runs,      \* runs started by people
  faults,    \* faults spent
  announced, \* history: builds latest.json has ever named
  warned,    \* history: 1 once a run kept no copy of itself where there is none
  mixed,     \* history: 1 once an uninstall met another run under way
  replaced   \* history: 1 from an update run replacing the binary until the
             \* service is started from it

origin == <<archives, builds, syncing, manifest, announced>>
host == <<bin, files, installer, running, warned, replaced>>
vars == <<origin, host, pc, run, runs, faults, mixed>>

Versions == 1 .. MaxVersion
NoRelease == [version |-> 0, build |-> 0]

\* "updater": the update service and timer; "timer": the link that enables the
\* timer.
Files == {"unit", "updater", "timer"}

Broken == -1  \* what a copy or an extraction that failed leaves behind: no
              \* file, or one that does not execute
Whole == 1

\* The service or a run can execute what is at BIN_PATH.
Executes(file) == file \in 1 .. MaxBuilds

\* trigger: "update" for the unit's ExecStart, "local" for the same copy of the
\* script run by hand, "manual" for a script elsewhere, "piped" for one that is
\* no file; auto: --auto-update; build: the one announced, then what is staged.
Triggers == {"manual", "piped", "local", "update"}
NewRun(trigger, auto) ==
  [trigger |-> trigger, auto |-> auto, version |-> 0, build |-> 0, updated |-> 0]
NoRun == NewRun("manual", 0)

Init ==
  /\ archives = [v \in Versions |-> 0]
  /\ builds = 0 /\ syncing = {}
  /\ manifest = NoRelease
  /\ bin = 0 /\ files = {} /\ installer = 0 /\ running = 0
  /\ pc = [p \in Procs |-> "idle"] /\ run = [p \in Procs |-> NoRun]
  /\ runs = 0 /\ faults = 0
  /\ announced = {} /\ warned = 0 /\ mixed = 0 /\ replaced = 0

At(p, command) == pc' = [pc EXCEPT ![p] = command]
End(p) == At(p, "idle") /\ run' = [run EXCEPT ![p] = NoRun]
Fails == faults < MaxFaults /\ faults' = faults + 1

-----------------------------------------------------------------------------
\* release.yml: `aws s3 sync` of the version's archives, then latest.json with
\* the checksums of what this workflow has built.

PublishArchive(v) ==
  /\ builds < MaxBuilds
  /\ builds' = builds + 1
  /\ archives' = [archives EXCEPT ![v] = builds + 1]
  /\ syncing' = syncing \cup {[version |-> v, build |-> builds + 1]}
  /\ UNCHANGED <<manifest, announced, host, pc, run, runs, faults, mixed>>

PublishManifest(release) ==
  /\ manifest' = release
  /\ announced' = announced \cup {release.build}
  /\ syncing' = syncing \ {release}
  /\ UNCHANGED <<archives, builds, host, pc, run, runs, faults, mixed>>

-----------------------------------------------------------------------------
\* install_flow, one action per command that can be the last one.

Uninstalling == {"disable", "stop", "rmUpdater", "rmUnit", "rmBinary", "rmInstaller"}

\* A run can start; starting it, an uninstall and another run meet if the one
\* under way or the new one is an uninstall.
Starts(p, command) ==
  /\ pc[p] = "idle"
  /\ IF p = Daily THEN UNCHANGED runs ELSE runs < MaxRuns /\ runs' = runs + 1
  /\ At(p, command)
  /\ mixed' = IF \E q \in Procs \ {p} : pc[q] # "idle" /\ {pc[q], command} \cap Uninstalling # {}
                THEN 1 ELSE mixed

\* What a copy that is not whole does when it is started is left out: systemd cannot
\* execute it, and bash meets its end before the last line, the call of main.
Begin(p, trigger, auto) ==
  /\ trigger = "update" <=> p = Daily
  /\ trigger = "update" => {"timer", "updater"} \subseteq files /\ auto = 0
  /\ trigger \in {"local", "update"} => installer = Whole
  /\ Starts(p, "manifest")
  /\ run' = [run EXCEPT ![p] = NewRun(trigger, auto)]
  /\ UNCHANGED <<origin, host, faults>>

\* stage_binary: latest.json must name a version, an artifact and a checksum.
FetchManifest(p) ==
  /\ pc[p] = "manifest"
  /\ IF manifest = NoRelease
       THEN End(p)
       ELSE /\ At(p, "download")
            /\ run' = [run EXCEPT ![p].version = manifest.version, ![p].build = manifest.build]
  /\ UNCHANGED <<origin, host, runs, faults, mixed>>

\* What is staged; the version is of no use any more.
Stage(p, build) ==
  /\ At(p, "binary")
  /\ run' = [run EXCEPT ![p].version = 0, ![p].build = build]

\* Mutant of Download: the checksum is not compared.
DownloadUnverified(p) ==
  /\ pc[p] = "download"
  /\ Stage(p, archives[run[p].version])
  /\ UNCHANGED <<origin, host, runs, faults, mixed>>

\* stage_binary: the archive of that version, if its checksum is the announced
\* one, and the binary that tar extracts from it, to the end or not.
Download(p) ==
  /\ pc[p] = "download"
  /\ \/ /\ archives[run[p].version] # run[p].build
        /\ End(p) /\ UNCHANGED faults
     \/ /\ archives[run[p].version] = run[p].build
        /\ \/ Stage(p, run[p].build) /\ UNCHANGED faults
           \/ Stage(p, Broken) /\ Fails
  /\ UNCHANGED <<origin, host, runs, mixed>>

\* Mutant of InstallBinary: a binary that is there is kept.
InstallOnce(p) ==
  /\ pc[p] = "binary"
  /\ \/ bin # 0 /\ At(p, "persist") /\ UNCHANGED bin
     \/ bin = 0 /\ At(p, "copy") /\ bin' = p
  /\ UNCHANGED <<origin, files, installer, running, warned, replaced, run, runs, faults, mixed>>

\* install_binary: nothing if the checksums agree, which those of two broken files
\* need not; otherwise `install` unlinks what is there and creates a file of its
\* own, which does not execute yet.
InstallBinary(p) ==
  /\ pc[p] = "binary"
  /\ \/ bin = run[p].build /\ At(p, "persist") /\ UNCHANGED bin
     \/ (bin # run[p].build \/ bin = Broken) /\ At(p, "copy") /\ bin' = p
  /\ UNCHANGED <<origin, files, installer, running, warned, replaced, run, runs, faults, mixed>>

\* ... and copies into it, unless another run has unlinked it since.
CopyBinary(p) ==
  /\ pc[p] = "copy"
  /\ IF bin = p
       THEN bin' = run[p].build /\ replaced' = IF p = Daily THEN 1 ELSE 0
       ELSE UNCHANGED <<bin, replaced>>
  /\ run' = [run EXCEPT ![p].updated = 1]
  /\ At(p, "persist")
  /\ UNCHANGED <<origin, files, installer, running, warned, runs, faults, mixed>>

\* persist_local_installer: a script that is no file, or no longer, is not kept.
\* `install SELF_PATH target` unlinks a copy that is there and creates a file of its
\* own, which is empty yet; and it refuses to copy a file onto itself, which is what
\* the update unit asks for: the run ends here.
Persist(p) ==
  LET trigger == run[p].trigger
      own == trigger \in {"local", "update"}
  IN
  /\ pc[p] = "persist"
  /\ \/ /\ trigger = "manual"
        /\ installer' = p /\ At(p, "keep")
        /\ UNCHANGED <<run, warned>>
     \/ /\ trigger = "piped" \/ (own /\ installer \in {0, Broken})
        /\ warned' = IF installer = 0 THEN 1 ELSE warned
        /\ At(p, "service") /\ UNCHANGED <<installer, run>>
     \/ /\ own /\ installer # 0
        /\ End(p) /\ UNCHANGED <<installer, warned>>
  /\ UNCHANGED <<origin, bin, files, running, replaced, runs, faults, mixed>>

\* ... and copies into it, unless another run has unlinked it since.
CopyInstaller(p) ==
  /\ pc[p] = "keep"
  /\ installer' = IF installer = p THEN Whole ELSE installer
  /\ At(p, "service")
  /\ UNCHANGED <<origin, bin, files, running, warned, replaced, run, runs, faults, mixed>>

\* install_main_service: the new binary writes the unit, if it executes.
InstallService(p) ==
  /\ pc[p] = "service"
  /\ IF Executes(bin)
       THEN /\ files' = files \cup {"unit"}
            /\ At(p, IF run[p].auto = 1 THEN "updater" ELSE "restart")
            /\ UNCHANGED run
       ELSE End(p) /\ UNCHANGED files
  /\ UNCHANGED <<origin, bin, installer, running, warned, replaced, runs, faults, mixed>>

\* install_auto_update: the two files, then `systemctl enable --now`, which needs
\* them.
InstallUpdater(p) ==
  /\ \/ /\ pc[p] = "updater"
        /\ files' = files \cup {"updater"}
        /\ At(p, "enable") /\ UNCHANGED run
     \/ /\ pc[p] = "enable" /\ "updater" \in files
        /\ files' = files \cup {"timer"}
        /\ At(p, "restart") /\ UNCHANGED run
     \/ /\ pc[p] = "enable" /\ "updater" \notin files
        /\ End(p) /\ UNCHANGED files
  /\ UNCHANGED <<origin, bin, installer, running, warned, replaced, runs, faults, mixed>>

\* restart_if_auto_update_changed_binary
RestartIfUpdated(p) ==
  /\ pc[p] = "restart"
  /\ running' = IF run[p].updated = 1 /\ run[p].trigger = "update" /\ running # 0
                  THEN IF Executes(bin) THEN bin ELSE 0
                  ELSE running
  /\ replaced' = IF running' = bin THEN 0 ELSE replaced
  /\ End(p)
  /\ UNCHANGED <<origin, bin, files, installer, warned, runs, faults, mixed>>

-----------------------------------------------------------------------------
\* uninstall_flow: `systemctl disable` and `stop` may fail, then the files go one
\* by one.

BeginUninstall(p) ==
  /\ p # Daily
  /\ Starts(p, "disable")
  /\ UNCHANGED <<origin, host, run, faults>>

DisableTimer(p) ==
  /\ pc[p] = "disable" /\ At(p, "stop")
  /\ \/ files' = files \ {"timer"} /\ UNCHANGED faults
     \/ Fails /\ UNCHANGED files
  /\ UNCHANGED <<origin, bin, installer, running, warned, replaced, run, runs, mixed>>

StopService(p) ==
  /\ pc[p] = "stop" /\ At(p, "rmUpdater")
  /\ \/ running' = 0 /\ UNCHANGED faults
     \/ Fails /\ UNCHANGED running
  /\ UNCHANGED <<origin, bin, files, installer, warned, replaced, run, runs, mixed>>

\* Mutant of Remove: the binary and the copy of the installer go first.
RemoveTargetsFirst(p) ==
  /\ \/ /\ pc[p] = "rmUpdater" /\ At(p, "rmInstaller")
        /\ bin' = 0 /\ installer' = 0 /\ UNCHANGED files
     \/ /\ pc[p] = "rmInstaller" /\ At(p, "idle")
        /\ files' = {} /\ UNCHANGED <<bin, installer>>
  /\ UNCHANGED <<origin, running, warned, replaced, run, runs, faults, mixed>>

Remove(p) ==
  /\ \/ /\ pc[p] = "rmUpdater" /\ At(p, "rmUnit")
        /\ files' = files \ {"updater"} /\ warned' = 0
        /\ UNCHANGED <<bin, installer, replaced>>
     \/ /\ pc[p] = "rmUnit" /\ At(p, "rmBinary")
        /\ files' = files \ {"unit"} /\ UNCHANGED <<bin, installer, warned, replaced>>
     \/ /\ pc[p] = "rmBinary" /\ At(p, "rmInstaller")
        /\ bin' = 0 /\ replaced' = 0 /\ UNCHANGED <<files, installer, warned>>
     \/ /\ pc[p] = "rmInstaller" /\ At(p, "idle")
        /\ installer' = 0 /\ UNCHANGED <<bin, files, warned, replaced>>
  /\ UNCHANGED <<origin, running, run, runs, faults, mixed>>

-----------------------------------------------------------------------------
\* The host.

\* What is left of a file if these processes end.
Interrupted(file, procs) == IF file \in procs THEN Broken ELSE file

\* A command of a run fails, or the run is killed.
Abort(p) ==
  /\ pc[p] # "idle"
  /\ Fails
  /\ End(p)
  /\ bin' = Interrupted(bin, {p}) /\ installer' = Interrupted(installer, {p})
  /\ UNCHANGED <<origin, files, running, warned, replaced, runs, mixed>>

\* All runs and the service end at once.
HostDown ==
  /\ Fails
  /\ pc' = [p \in Procs |-> "idle"] /\ run' = [p \in Procs |-> NoRun]
  /\ bin' = Interrupted(bin, Procs) /\ installer' = Interrupted(installer, Procs)
  /\ running' = 0
  /\ UNCHANGED <<origin, files, warned, replaced, runs, mixed>>

\* Mutant of StartService: the service is up whatever is there to run.
StartServiceUnchecked ==
  /\ "unit" \in files /\ running # bin
  /\ running' = bin
  /\ replaced' = 0
  /\ UNCHANGED <<origin, bin, files, installer, warned, pc, run, runs, faults, mixed>>

\* systemctl start, a crash followed by Restart=always, or a boot: whatever is
\* at BIN_PATH is run.
StartService ==
  /\ "unit" \in files /\ running # bin
  /\ running' = IF Executes(bin) THEN bin ELSE 0
  /\ replaced' = 0
  /\ UNCHANGED <<origin, bin, files, installer, warned, pc, run, runs, faults, mixed>>

Install(p) ==
  \/ FetchManifest(p) \/ Download(p) \/ InstallBinary(p) \/ CopyBinary(p)
  \/ Persist(p) \/ CopyInstaller(p)
  \/ InstallService(p) \/ InstallUpdater(p) \/ RestartIfUpdated(p)

Next ==
  \/ \E v \in Versions : PublishArchive(v)
  \/ \E release \in syncing : PublishManifest(release)
  \/ \E p \in Procs :
       \/ \E trigger \in Triggers, auto \in {0, 1} : Begin(p, trigger, auto)
       \/ Install(p)
       \/ BeginUninstall(p) \/ DisableTimer(p) \/ StopService(p) \/ Remove(p)
       \/ Abort(p)
  \/ HostDown \/ StartService

Spec == Init /\ [][Next]_vars

\* The timer fires again and again (OnCalendar=daily, Persistent=true), and the
\* commands of the unit's run end.  Nothing makes a person or a release workflow
\* go on.
FairSpec == Spec /\ WF_vars(Begin(Daily, "update", 0)) /\ WF_vars(Install(Daily))

-----------------------------------------------------------------------------
\* Properties.

Build == 0 .. MaxBuilds
Releases == [version : Versions, build : Build \ {0}]
Commands == Uninstalling \cup
  {"idle", "manifest", "download", "binary", "copy", "persist", "keep", "service",
   "updater", "enable", "restart"}
Runs == [trigger : Triggers, auto : {0, 1}, version : 0 .. MaxVersion,
         build : Build \cup {Broken}, updated : {0, 1}]

TypeOK ==
  /\ archives \in [Versions -> Build]
  /\ builds \in Build /\ syncing \subseteq Releases
  /\ manifest \in Releases \cup {NoRelease}
  /\ bin \in Build \cup {Broken} \cup Procs /\ running \in Build
  /\ files \subseteq Files /\ installer \in {0, Whole, Broken} \cup Procs
  /\ pc \in [Procs -> Commands] /\ run \in [Procs -> Runs]
  /\ runs \in 0 .. MaxRuns /\ faults \in 0 .. MaxFaults
  /\ announced \subseteq Build \ {0} /\ {warned, mixed, replaced} \subseteq {0, 1}

\* Only a build that latest.json has announced is installed or run, even when its
\* archive is replaced between the two downloads of a run, releases are published
\* at once or runs replace the binary at once; only a command that failed can
\* leave anything else at BIN_PATH, and only a run that is copying can have an
\* unfinished file there.
OnlyAnnounced ==
  /\ running \in announced \cup {0}
  /\ \/ bin \in announced \cup {0}
     \/ bin = Broken /\ faults > 0
     \/ \E p \in Procs : bin = p /\ pc[p] = "copy"

\* A unit never points to a file that was removed or not yet put there, wherever
\* the runs stop and however installs overlap: the service has its binary (or what
\* a copy has left of it so far), and the update unit its copy of the installer, in
\* whole, unless a run has warned that it kept none, is just copying one, or has
\* failed doing so.  Only an uninstall that overlaps another run may leave such a
\* unit.
UnitsHaveTargets ==
  mixed = 0 =>
    /\ "unit" \in files => bin # 0
    /\ "updater" \in files =>
         \/ installer = Whole \/ warned = 1
         \/ \E p \in Procs : installer = p /\ pc[p] = "keep"
         \/ installer = Broken /\ faults > 0

\* latest.json names this build, its archive is there, and the timer is in place
\* with a whole installer to run.
Offered(build) ==
  /\ manifest.build = build /\ archives[manifest.version] = build
  /\ {"timer", "updater"} \subseteq files /\ installer = Whole

\* docs/INSTALL.md, auto-update mode: the daily run brings the announced build to
\* the host, whatever was there: an older or newer one, a broken one, none, or the
\* one that a person's run has since put there from an older latest.json.  A copy of
\* the installer that was broken off ends this until a person installs again.
UpdateInstalls ==
  \A build \in 1 .. MaxBuilds :
    Offered(build) ~> (bin = build \/ ~Offered(build))

\* docs/INSTALL.md: "When the installer is triggered by the auto-update service and
\* the binary changes, `dimonitorin.service` is restarted automatically."
UpdateRestarts ==
  (\A p \in Procs : pc[p] = "idle") /\ faults = 0 /\ mixed = 0 /\ replaced = 1
    => running \in {0, bin}
=============================================================================
