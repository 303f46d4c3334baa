--------------------------- MODULE InstallerProofs ---------------------------
(***************************************************************************)
(* Theorems about Installer for any number of people that run the script   *)
(* at once, releases, runs and faults: type correctness, that only         *)
(* announced builds are installed or run, and that units have targets      *)
(* unless an uninstall has met another run.                                *)
(***************************************************************************)
EXTENDS Installer, TLAPS

\* What latest.json names is announced, and what a run has found out is announced
\* or is what a failing tar has left.
ManifestKnown == manifest # NoRelease => manifest.build \in announced
RunsKnown ==
  \A p \in Procs :
    /\ pc[p] = "download" => run[p].build \in announced
    /\ pc[p] \in {"binary", "copy"} =>
         run[p].build \in announced \/ (run[p].build = Broken /\ faults > 0)

\* As long as no uninstall has met another run, one that is under way is alone.
Alone ==
  \A p, q \in Procs : pc[p] \in Uninstalling /\ p # q => pc[q] = "idle"

\* Only a failed copy leaves a broken installer, and only a run that is copying can
\* have an unfinished one there.
InstallerKnown ==
  \/ installer \in {0, Whole}
  \/ installer = Broken /\ faults > 0
  \/ \E p \in Procs : installer = p /\ pc[p] = "keep"

\* What the uninstall has removed stays removed, and a run past Persist has put an
\* installer there or warned.
Order ==
  /\ \A p \in Procs :
       /\ pc[p] \in {"rmUnit", "rmBinary", "rmInstaller"} => "updater" \notin files
       /\ pc[p] \in {"rmBinary", "rmInstaller"} => "unit" \notin files
       /\ pc[p] \in {"keep", "service", "updater", "enable", "restart"} =>
            installer # 0 \/ warned = 1
  /\ "unit" \in files => bin # 0
  /\ "updater" \in files => installer # 0 \/ warned = 1

Unmixed == mixed = 0 => Alone /\ Order

\* TypeOK, by what its parts are about.
PcOK == pc \in [Procs -> Commands]
RunOK == run \in [Procs -> Runs]
OriginOK ==
  /\ archives \in [Versions -> Build] /\ builds \in Build
  /\ syncing \subseteq Releases /\ manifest \in Releases \cup {NoRelease}
  /\ announced \subseteq Build \ {0}
HostOK ==
  /\ bin \in Build \cup {Broken} \cup Procs /\ running \in Build
  /\ files \subseteq Files /\ installer \in {0, Whole, Broken} \cup Procs
  /\ runs \in 0 .. MaxRuns /\ faults \in 0 .. MaxFaults
  /\ warned \in {0, 1} /\ mixed \in {0, 1} /\ replaced \in {0, 1}

LEMMA TypeParts == TypeOK <=> PcOK /\ RunOK /\ OriginOK /\ HostOK
BY DEF TypeOK, PcOK, RunOK, OriginOK, HostOK

-----------------------------------------------------------------------------
\* What the sets of commands and of runs are closed under.

LEMMA RunFacts ==
  /\ NoRun \in Runs
  /\ \A t \in Triggers, a \in {0, 1} : NewRun(t, a) \in Runs
  /\ \A r \in Runs, v \in 0 .. MaxVersion : [r EXCEPT !.version = v] \in Runs
  /\ \A r \in Runs, b \in Build \cup {Broken} : [r EXCEPT !.build = b] \in Runs
  /\ \A r \in Runs : [r EXCEPT !.updated = 1] \in Runs
  /\ \A r \in Runs : r.build \in Build \cup {Broken}
<1>1. NoRun \in Runs
  BY InstallerAssumption DEF Runs, NoRun, NewRun, Triggers, Build
<1>2. \A t \in Triggers, a \in {0, 1} : NewRun(t, a) \in Runs
  BY InstallerAssumption DEF Runs, NewRun, Build
<1>3. \A r \in Runs, v \in 0 .. MaxVersion : [r EXCEPT !.version = v] \in Runs
  BY DEF Runs
<1>4. \A r \in Runs, b \in Build \cup {Broken} : [r EXCEPT !.build = b] \in Runs
  BY DEF Runs
<1>5. \A r \in Runs : [r EXCEPT !.updated = 1] \in Runs
  BY DEF Runs
<1>6. \A r \in Runs : r.build \in Build \cup {Broken}
  BY DEF Runs
<1> QED BY <1>1, <1>2, <1>3, <1>4, <1>5, <1>6

LEMMA ManifestFacts == OriginOK => manifest.version \in 0 .. MaxVersion /\ manifest.build \in Build
BY InstallerAssumption DEF OriginOK, Releases, NoRelease, Versions, Build

LEMMA InitType == Init => TypeOK
<1> SUFFICES ASSUME Init PROVE TypeOK
  OBVIOUS
<1>1. PcOK /\ RunOK
  BY RunFacts DEF Init, PcOK, RunOK, Commands
<1>2. OriginOK /\ HostOK
  BY InstallerAssumption DEF Init, OriginOK, HostOK, Build
<1> QED BY <1>1, <1>2, TypeParts


LEMMA PcStep == PcOK /\ [Next]_vars => PcOK'
<1> SUFFICES ASSUME PcOK, [Next]_vars PROVE PcOK'
  OBVIOUS
<1>1. ASSUME NEW v \in Versions, PublishArchive(v) PROVE PcOK'
  BY <1>1 DEF PublishArchive, PcOK, Commands, Uninstalling
<1>2. ASSUME NEW release \in syncing, PublishManifest(release) PROVE PcOK'
  BY <1>2 DEF PublishManifest, PcOK, Commands, Uninstalling
<1>3. ASSUME NEW p \in Procs, NEW trigger \in Triggers, NEW auto \in {0, 1},
             Begin(p, trigger, auto)
      PROVE  PcOK'
  BY <1>3 DEF Begin, Starts, At, PcOK, Commands, Uninstalling
<1>4. ASSUME NEW p \in Procs, FetchManifest(p) PROVE PcOK'
  BY <1>4 DEF FetchManifest, At, End, PcOK, Commands, Uninstalling
<1>5. ASSUME NEW p \in Procs, Download(p) PROVE PcOK'
  BY <1>5 DEF Download, Stage, At, End, Fails, PcOK, Commands, Uninstalling
<1>6. ASSUME NEW p \in Procs, InstallBinary(p) PROVE PcOK'
  BY <1>6 DEF InstallBinary, At, PcOK, Commands, Uninstalling
<1>7. ASSUME NEW p \in Procs, CopyBinary(p) PROVE PcOK'
  BY <1>7 DEF CopyBinary, At, PcOK, Commands, Uninstalling
<1>8. ASSUME NEW p \in Procs, Persist(p) PROVE PcOK'
  BY <1>8 DEF Persist, At, End, PcOK, Commands, Uninstalling
<1>20. ASSUME NEW p \in Procs, CopyInstaller(p) PROVE PcOK'
  BY <1>20 DEF CopyInstaller, At, PcOK, Commands, Uninstalling
<1>9. ASSUME NEW p \in Procs, InstallService(p) PROVE PcOK'
  BY <1>9 DEF InstallService, At, End, PcOK, Commands, Uninstalling
<1>10. ASSUME NEW p \in Procs, InstallUpdater(p) PROVE PcOK'
  BY <1>10 DEF InstallUpdater, At, End, PcOK, Commands, Uninstalling
<1>11. ASSUME NEW p \in Procs, RestartIfUpdated(p) PROVE PcOK'
  BY <1>11 DEF RestartIfUpdated, At, End, PcOK, Commands, Uninstalling
<1>12. ASSUME NEW p \in Procs, BeginUninstall(p) PROVE PcOK'
  BY <1>12 DEF BeginUninstall, Starts, At, PcOK, Commands, Uninstalling
<1>13. ASSUME NEW p \in Procs, DisableTimer(p) PROVE PcOK'
  BY <1>13 DEF DisableTimer, At, Fails, PcOK, Commands, Uninstalling
<1>14. ASSUME NEW p \in Procs, StopService(p) PROVE PcOK'
  BY <1>14 DEF StopService, At, Fails, PcOK, Commands, Uninstalling
<1>15. ASSUME NEW p \in Procs, Remove(p) PROVE PcOK'
  BY <1>15 DEF Remove, At, PcOK, Commands, Uninstalling
<1>16. ASSUME NEW p \in Procs, Abort(p) PROVE PcOK'
  BY <1>16 DEF Abort, End, At, Fails, Interrupted, PcOK, Commands, Uninstalling
<1>17. CASE HostDown
  BY <1>17 DEF HostDown, Fails, Interrupted, PcOK, Commands, Uninstalling
<1>18. CASE StartService
  BY <1>18 DEF StartService, PcOK, Commands, Uninstalling
<1>19. CASE UNCHANGED vars
  BY <1>19 DEF vars, PcOK, Commands, Uninstalling
<1> QED BY <1>1, <1>2, <1>3, <1>4, <1>5, <1>6, <1>7, <1>8, <1>9, <1>10, <1>11, <1>12, <1>13, <1>14, <1>15, <1>16, <1>17, <1>18, <1>19, <1>20 DEF Next, Install

LEMMA RunStep == RunOK /\ OriginOK /\ [Next]_vars => RunOK'
<1> SUFFICES ASSUME RunOK, OriginOK, [Next]_vars PROVE RunOK'
  OBVIOUS
<1>1. ASSUME NEW v \in Versions, PublishArchive(v) PROVE RunOK'
  BY <1>1, RunFacts DEF PublishArchive, RunOK
<1>2. ASSUME NEW release \in syncing, PublishManifest(release) PROVE RunOK'
  BY <1>2, RunFacts DEF PublishManifest, RunOK
<1>3. ASSUME NEW p \in Procs, NEW trigger \in Triggers, NEW auto \in {0, 1},
             Begin(p, trigger, auto)
      PROVE  RunOK'
  BY <1>3, RunFacts DEF Begin, Starts, At, RunOK
<1>4. ASSUME NEW p \in Procs, FetchManifest(p) PROVE RunOK'
  <2>1. CASE manifest = NoRelease
    BY <1>4, <2>1, RunFacts DEF FetchManifest, End, RunOK
  <2>2. CASE manifest # NoRelease
    <3>1. run' = [run EXCEPT ![p] = [[run[p] EXCEPT !.version = manifest.version]
                                       EXCEPT !.build = manifest.build]]
      BY <1>4, <2>2, RunFacts DEF FetchManifest, RunOK, Runs
    <3>2. run[p] \in Runs
      BY DEF RunOK
    <3>3. [run[p] EXCEPT !.version = manifest.version] \in Runs
      BY <3>2, RunFacts, ManifestFacts
    <3>4. [[run[p] EXCEPT !.version = manifest.version] EXCEPT !.build = manifest.build] \in Runs
      BY <3>3, RunFacts, ManifestFacts
    <3> QED BY <3>1, <3>4 DEF RunOK
  <2> QED BY <2>1, <2>2
<1>5. ASSUME NEW p \in Procs, Download(p) PROVE RunOK'
  <2>1. CASE End(p)
    BY <2>1, RunFacts DEF End, RunOK
  <2>2. ASSUME NEW b \in {run[p].build, Broken}, Stage(p, b) PROVE RunOK'
    <3>1. run' = [run EXCEPT ![p] = [[run[p] EXCEPT !.version = 0] EXCEPT !.build = b]]
      BY <2>2, RunFacts DEF Stage, RunOK, Runs
    <3>2. run[p] \in Runs /\ 0 \in 0 .. MaxVersion
      BY InstallerAssumption DEF RunOK
    <3>5. b \in Build \cup {Broken}
      BY <3>2, RunFacts
    <3>3. [run[p] EXCEPT !.version = 0] \in Runs
      BY <3>2, RunFacts
    <3>4. [[run[p] EXCEPT !.version = 0] EXCEPT !.build = b] \in Runs
      BY <3>5, <3>3, RunFacts
    <3> QED BY <3>1, <3>4 DEF RunOK
  <2> QED BY <1>5, <2>1, <2>2 DEF Download
<1>6. ASSUME NEW p \in Procs, InstallBinary(p) PROVE RunOK'
  BY <1>6, RunFacts DEF InstallBinary, At, RunOK
<1>7. ASSUME NEW p \in Procs, CopyBinary(p) PROVE RunOK'
  BY <1>7, RunFacts DEF CopyBinary, At, RunOK
<1>8. ASSUME NEW p \in Procs, Persist(p) PROVE RunOK'
  BY <1>8, RunFacts DEF Persist, At, End, RunOK
<1>20. ASSUME NEW p \in Procs, CopyInstaller(p) PROVE RunOK'
  BY <1>20, RunFacts DEF CopyInstaller, At, RunOK
<1>9. ASSUME NEW p \in Procs, InstallService(p) PROVE RunOK'
  BY <1>9, RunFacts DEF InstallService, At, End, RunOK
<1>10. ASSUME NEW p \in Procs, InstallUpdater(p) PROVE RunOK'
  BY <1>10, RunFacts DEF InstallUpdater, At, End, RunOK
<1>11. ASSUME NEW p \in Procs, RestartIfUpdated(p) PROVE RunOK'
  BY <1>11, RunFacts DEF RestartIfUpdated, At, End, RunOK
<1>12. ASSUME NEW p \in Procs, BeginUninstall(p) PROVE RunOK'
  BY <1>12, RunFacts DEF BeginUninstall, Starts, At, RunOK
<1>13. ASSUME NEW p \in Procs, DisableTimer(p) PROVE RunOK'
  BY <1>13, RunFacts DEF DisableTimer, At, Fails, RunOK
<1>14. ASSUME NEW p \in Procs, StopService(p) PROVE RunOK'
  BY <1>14, RunFacts DEF StopService, At, Fails, RunOK
<1>15. ASSUME NEW p \in Procs, Remove(p) PROVE RunOK'
  BY <1>15, RunFacts DEF Remove, At, RunOK
<1>16. ASSUME NEW p \in Procs, Abort(p) PROVE RunOK'
  BY <1>16, RunFacts DEF Abort, End, At, Fails, Interrupted, RunOK
<1>17. CASE HostDown
  BY <1>17, RunFacts DEF HostDown, Fails, Interrupted, RunOK
<1>18. CASE StartService
  BY <1>18, RunFacts DEF StartService, RunOK
<1>19. CASE UNCHANGED vars
  BY <1>19, RunFacts DEF vars, RunOK
<1> QED BY <1>1, <1>2, <1>3, <1>4, <1>5, <1>6, <1>7, <1>8, <1>9, <1>10, <1>11, <1>12, <1>13, <1>14, <1>15, <1>16, <1>17, <1>18, <1>19, <1>20 DEF Next, Install

LEMMA RestStep == OriginOK /\ HostOK /\ RunOK /\ [Next]_vars => OriginOK' /\ HostOK'
<1> SUFFICES ASSUME OriginOK, HostOK, RunOK, [Next]_vars PROVE OriginOK' /\ HostOK'
  OBVIOUS
<1>1. ASSUME NEW v \in Versions, PublishArchive(v) PROVE OriginOK' /\ HostOK'
  BY <1>1, InstallerAssumption DEF PublishArchive, OriginOK, HostOK, origin, host, Releases, Build
<1>2. ASSUME NEW release \in syncing, PublishManifest(release) PROVE OriginOK' /\ HostOK'
  BY <1>2, InstallerAssumption DEF PublishManifest, OriginOK, HostOK, origin, host, Releases
<1>3. ASSUME NEW p \in Procs, NEW trigger \in Triggers, NEW auto \in {0, 1},
             Begin(p, trigger, auto)
      PROVE  OriginOK' /\ HostOK'
  BY <1>3, InstallerAssumption DEF Begin, Starts, OriginOK, HostOK, origin, host
<1>4. ASSUME NEW p \in Procs, FetchManifest(p) PROVE OriginOK' /\ HostOK'
  BY <1>4, InstallerAssumption DEF FetchManifest, OriginOK, HostOK, origin, host
<1>5. ASSUME NEW p \in Procs, Download(p) PROVE OriginOK' /\ HostOK'
  BY <1>5, InstallerAssumption DEF Download, Fails, OriginOK, HostOK, origin, host
<1>6. ASSUME NEW p \in Procs, InstallBinary(p) PROVE OriginOK' /\ HostOK'
  BY <1>6, InstallerAssumption DEF InstallBinary, OriginOK, HostOK, origin, host, Build
<1>7. ASSUME NEW p \in Procs, CopyBinary(p) PROVE OriginOK' /\ HostOK'
  BY <1>7, InstallerAssumption, RunFacts DEF CopyBinary, OriginOK, HostOK, origin, host, RunOK
<1>8. ASSUME NEW p \in Procs, Persist(p) PROVE OriginOK' /\ HostOK'
  BY <1>8, InstallerAssumption DEF Persist, OriginOK, HostOK, origin, host, Files
<1>20. ASSUME NEW p \in Procs, CopyInstaller(p) PROVE OriginOK' /\ HostOK'
  BY <1>20, InstallerAssumption DEF CopyInstaller, OriginOK, HostOK, origin, host, Files
<1>9. ASSUME NEW p \in Procs, InstallService(p) PROVE OriginOK' /\ HostOK'
  BY <1>9, InstallerAssumption DEF InstallService, OriginOK, HostOK, origin, host, Files
<1>10. ASSUME NEW p \in Procs, InstallUpdater(p) PROVE OriginOK' /\ HostOK'
  BY <1>10, InstallerAssumption DEF InstallUpdater, OriginOK, HostOK, origin, host, Files
<1>11. ASSUME NEW p \in Procs, RestartIfUpdated(p) PROVE OriginOK' /\ HostOK'
  BY <1>11, InstallerAssumption DEF RestartIfUpdated, OriginOK, HostOK, origin, host, Executes, Build
<1>12. ASSUME NEW p \in Procs, BeginUninstall(p) PROVE OriginOK' /\ HostOK'
  BY <1>12, InstallerAssumption DEF BeginUninstall, Starts, OriginOK, HostOK, origin, host
<1>13. ASSUME NEW p \in Procs, DisableTimer(p) PROVE OriginOK' /\ HostOK'
  BY <1>13, InstallerAssumption DEF DisableTimer, Fails, OriginOK, HostOK, origin, host
<1>14. ASSUME NEW p \in Procs, StopService(p) PROVE OriginOK' /\ HostOK'
  BY <1>14, InstallerAssumption DEF StopService, Fails, OriginOK, HostOK, origin, host, Build
<1>15. ASSUME NEW p \in Procs, Remove(p) PROVE OriginOK' /\ HostOK'
  BY <1>15, InstallerAssumption DEF Remove, OriginOK, HostOK, origin, host, Build
<1>16. ASSUME NEW p \in Procs, Abort(p) PROVE OriginOK' /\ HostOK'
  BY <1>16, InstallerAssumption DEF Abort, Fails, Interrupted, OriginOK, HostOK, origin, host
<1>17. CASE HostDown
  BY <1>17, InstallerAssumption DEF HostDown, Fails, Interrupted, OriginOK, HostOK, origin, host, Build
<1>18. CASE StartService
  BY <1>18, InstallerAssumption DEF StartService, OriginOK, HostOK, origin, host, Executes, Build
<1>19. CASE UNCHANGED vars
  BY <1>19, InstallerAssumption DEF vars, OriginOK, HostOK, origin, host
<1> QED BY <1>1, <1>2, <1>3, <1>4, <1>5, <1>6, <1>7, <1>8, <1>9, <1>10, <1>11, <1>12, <1>13, <1>14, <1>15, <1>16, <1>17, <1>18, <1>19, <1>20 DEF Next, Install

LEMMA TypeStep == TypeOK /\ [Next]_vars => TypeOK'
BY TypeParts, PcStep, RunStep, RestStep, PTL

LEMMA ManifestStep == OriginOK /\ ManifestKnown /\ [Next]_vars => ManifestKnown'
<1> SUFFICES ASSUME OriginOK, ManifestKnown, [Next]_vars PROVE ManifestKnown'
  OBVIOUS
<1>1. ASSUME NEW v \in Versions, PublishArchive(v) PROVE ManifestKnown'
  BY <1>1 DEF PublishArchive, OriginOK, ManifestKnown, origin
<1>2. ASSUME NEW release \in syncing, PublishManifest(release) PROVE ManifestKnown'
  BY <1>2 DEF PublishManifest, OriginOK, ManifestKnown, origin
<1>3. ASSUME NEW p \in Procs, NEW trigger \in Triggers, NEW auto \in {0, 1},
             Begin(p, trigger, auto)
      PROVE  ManifestKnown'
  BY <1>3 DEF Begin, Starts, OriginOK, ManifestKnown, origin
<1>4. ASSUME NEW p \in Procs, FetchManifest(p) PROVE ManifestKnown'
  BY <1>4 DEF FetchManifest, OriginOK, ManifestKnown, origin
<1>5. ASSUME NEW p \in Procs, Download(p) PROVE ManifestKnown'
  BY <1>5 DEF Download, Fails, OriginOK, ManifestKnown, origin
<1>6. ASSUME NEW p \in Procs, InstallBinary(p) PROVE ManifestKnown'
  BY <1>6 DEF InstallBinary, OriginOK, ManifestKnown, origin
<1>7. ASSUME NEW p \in Procs, CopyBinary(p) PROVE ManifestKnown'
  BY <1>7 DEF CopyBinary, OriginOK, ManifestKnown, origin
<1>8. ASSUME NEW p \in Procs, Persist(p) PROVE ManifestKnown'
  BY <1>8 DEF Persist, OriginOK, ManifestKnown, origin
<1>20. ASSUME NEW p \in Procs, CopyInstaller(p) PROVE ManifestKnown'
  BY <1>20 DEF CopyInstaller, OriginOK, ManifestKnown, origin
<1>9. ASSUME NEW p \in Procs, InstallService(p) PROVE ManifestKnown'
  BY <1>9 DEF InstallService, OriginOK, ManifestKnown, origin
<1>10. ASSUME NEW p \in Procs, InstallUpdater(p) PROVE ManifestKnown'
  BY <1>10 DEF InstallUpdater, OriginOK, ManifestKnown, origin
<1>11. ASSUME NEW p \in Procs, RestartIfUpdated(p) PROVE ManifestKnown'
  BY <1>11 DEF RestartIfUpdated, OriginOK, ManifestKnown, origin
<1>12. ASSUME NEW p \in Procs, BeginUninstall(p) PROVE ManifestKnown'
  BY <1>12 DEF BeginUninstall, Starts, OriginOK, ManifestKnown, origin
<1>13. ASSUME NEW p \in Procs, DisableTimer(p) PROVE ManifestKnown'
  BY <1>13 DEF DisableTimer, Fails, OriginOK, ManifestKnown, origin
<1>14. ASSUME NEW p \in Procs, StopService(p) PROVE ManifestKnown'
  BY <1>14 DEF StopService, Fails, OriginOK, ManifestKnown, origin
<1>15. ASSUME NEW p \in Procs, Remove(p) PROVE ManifestKnown'
  BY <1>15 DEF Remove, OriginOK, ManifestKnown, origin
<1>16. ASSUME NEW p \in Procs, Abort(p) PROVE ManifestKnown'
  BY <1>16 DEF Abort, Fails, Interrupted, OriginOK, ManifestKnown, origin
<1>17. CASE HostDown
  BY <1>17 DEF HostDown, Fails, Interrupted, OriginOK, ManifestKnown, origin
<1>18. CASE StartService
  BY <1>18 DEF StartService, OriginOK, ManifestKnown, origin
<1>19. CASE UNCHANGED vars
  BY <1>19 DEF vars, OriginOK, ManifestKnown, origin
<1> QED BY <1>1, <1>2, <1>3, <1>4, <1>5, <1>6, <1>7, <1>8, <1>9, <1>10, <1>11, <1>12, <1>13, <1>14, <1>15, <1>16, <1>17, <1>18, <1>19, <1>20 DEF Next, Install

LEMMA KnownStep == TypeOK /\ ManifestKnown /\ RunsKnown /\ [Next]_vars => RunsKnown'
<1> SUFFICES ASSUME TypeOK, ManifestKnown, RunsKnown, [Next]_vars PROVE RunsKnown'
  OBVIOUS
<1>0. PcOK /\ RunOK /\ HostOK
  BY TypeParts
<1>1. ASSUME NEW v \in Versions, PublishArchive(v) PROVE RunsKnown'
  BY <1>1, <1>0 DEF PublishArchive, PcOK, RunOK, HostOK, RunsKnown, origin
<1>2. ASSUME NEW release \in syncing, PublishManifest(release) PROVE RunsKnown'
  BY <1>2, <1>0 DEF PublishManifest, PcOK, RunOK, HostOK, RunsKnown, origin
<1>3. ASSUME NEW p \in Procs, NEW trigger \in Triggers, NEW auto \in {0, 1},
             Begin(p, trigger, auto)
      PROVE  RunsKnown'
  BY <1>3, <1>0 DEF Begin, Starts, At, PcOK, RunOK, HostOK, RunsKnown, origin
<1>4. ASSUME NEW p \in Procs, FetchManifest(p) PROVE RunsKnown'
  <2>1. CASE manifest = NoRelease
    BY <1>4, <1>0, <2>1 DEF FetchManifest, At, End, PcOK, RunOK, RunsKnown, origin
  <2>2. CASE manifest # NoRelease
    <3>1. run'[p].build = manifest.build /\ \A q \in Procs \ {p} : run'[q] = run[q]
      BY <1>4, <1>0, <2>2 DEF FetchManifest, RunOK, Runs
    <3>2. pc' = [pc EXCEPT ![p] = "download"] /\ UNCHANGED <<announced, faults>>
      BY <1>4, <2>2 DEF FetchManifest, At, origin
    <3> QED BY <1>0, <2>2, <3>1, <3>2 DEF PcOK, ManifestKnown, RunsKnown
  <2> QED BY <2>1, <2>2
<1>5. ASSUME NEW p \in Procs, Download(p) PROVE RunsKnown'
  <2>1. CASE End(p)
    BY <1>5, <1>0, <2>1 DEF Download, End, At, Fails, PcOK, RunOK, HostOK, RunsKnown, origin
  <2>2. ASSUME NEW b \in {run[p].build, Broken}, Stage(p, b), b = Broken => Fails
        PROVE  RunsKnown'
    <3>1. run'[p].build = b /\ \A q \in Procs \ {p} : run'[q] = run[q]
      BY <1>0, <2>2 DEF Stage, RunOK, Runs
    <3>2. pc' = [pc EXCEPT ![p] = "binary"] /\ UNCHANGED announced
      BY <1>5, <2>2 DEF Download, Stage, At, origin
    <3>3. faults \in Nat /\ faults' \in {faults, faults + 1} /\ (Fails => faults' = faults + 1)
      BY <1>5, <1>0, InstallerAssumption DEF Download, Fails, HostOK
    <3>4. pc[p] = "download"
      BY <1>5 DEF Download
    <3> QED BY <1>0, <2>2, <3>1, <3>2, <3>3, <3>4 DEF PcOK, RunsKnown
  <2>3. run[p].build # Broken
    BY <1>5, <1>0, TypeParts DEF Download, RunsKnown, OriginOK, Build, Broken
  <2> QED BY <1>5, <2>1, <2>2, <2>3 DEF Download
<1>6. ASSUME NEW p \in Procs, InstallBinary(p) PROVE RunsKnown'
  BY <1>6, <1>0 DEF InstallBinary, At, PcOK, RunOK, HostOK, RunsKnown, origin
<1>7. ASSUME NEW p \in Procs, CopyBinary(p) PROVE RunsKnown'
  BY <1>7, <1>0 DEF CopyBinary, At, PcOK, RunOK, HostOK, RunsKnown, origin
<1>8. ASSUME NEW p \in Procs, Persist(p) PROVE RunsKnown'
  BY <1>8, <1>0 DEF Persist, At, End, PcOK, RunOK, HostOK, RunsKnown, origin
<1>20. ASSUME NEW p \in Procs, CopyInstaller(p) PROVE RunsKnown'
  BY <1>20, <1>0 DEF CopyInstaller, At, PcOK, RunOK, HostOK, RunsKnown, origin
<1>9. ASSUME NEW p \in Procs, InstallService(p) PROVE RunsKnown'
  BY <1>9, <1>0 DEF InstallService, At, End, PcOK, RunOK, HostOK, RunsKnown, origin
<1>10. ASSUME NEW p \in Procs, InstallUpdater(p) PROVE RunsKnown'
  BY <1>10, <1>0 DEF InstallUpdater, At, End, PcOK, RunOK, HostOK, RunsKnown, origin
<1>11. ASSUME NEW p \in Procs, RestartIfUpdated(p) PROVE RunsKnown'
  BY <1>11, <1>0 DEF RestartIfUpdated, At, End, PcOK, RunOK, HostOK, RunsKnown, origin
<1>12. ASSUME NEW p \in Procs, BeginUninstall(p) PROVE RunsKnown'
  BY <1>12, <1>0 DEF BeginUninstall, Starts, At, PcOK, RunOK, HostOK, RunsKnown, origin
<1>13. ASSUME NEW p \in Procs, DisableTimer(p) PROVE RunsKnown'
  BY <1>13, <1>0 DEF DisableTimer, At, Fails, PcOK, RunOK, HostOK, RunsKnown, origin
<1>14. ASSUME NEW p \in Procs, StopService(p) PROVE RunsKnown'
  BY <1>14, <1>0 DEF StopService, At, Fails, PcOK, RunOK, HostOK, RunsKnown, origin
<1>15. ASSUME NEW p \in Procs, Remove(p) PROVE RunsKnown'
  BY <1>15, <1>0 DEF Remove, At, PcOK, RunOK, HostOK, RunsKnown, origin
<1>16. ASSUME NEW p \in Procs, Abort(p) PROVE RunsKnown'
  BY <1>16, <1>0 DEF Abort, End, At, Fails, Interrupted, PcOK, RunOK, HostOK, RunsKnown, origin
<1>17. CASE HostDown
  BY <1>17, <1>0 DEF HostDown, Fails, Interrupted, PcOK, RunOK, HostOK, RunsKnown, origin
<1>18. CASE StartService
  BY <1>18, <1>0 DEF StartService, PcOK, RunOK, HostOK, RunsKnown, origin
<1>19. CASE UNCHANGED vars
  BY <1>19, <1>0 DEF vars, PcOK, RunOK, HostOK, RunsKnown, origin
<1> QED BY <1>1, <1>2, <1>3, <1>4, <1>5, <1>6, <1>7, <1>8, <1>9, <1>10, <1>11, <1>12, <1>13, <1>14, <1>15, <1>16, <1>17, <1>18, <1>19, <1>20 DEF Next, Install

LEMMA AnnouncedStep == TypeOK /\ RunsKnown /\ OnlyAnnounced /\ [Next]_vars => OnlyAnnounced'
<1> SUFFICES ASSUME TypeOK, RunsKnown, OnlyAnnounced, [Next]_vars PROVE OnlyAnnounced'
  OBVIOUS
<1>0. PcOK /\ HostOK /\ OriginOK
  BY TypeParts
<1>1. ASSUME NEW v \in Versions, PublishArchive(v) PROVE OnlyAnnounced'
  BY <1>1, <1>0 DEF PublishArchive, PcOK, HostOK, OriginOK, OnlyAnnounced, origin, host
<1>2. ASSUME NEW release \in syncing, PublishManifest(release) PROVE OnlyAnnounced'
  BY <1>2, <1>0 DEF PublishManifest, PcOK, HostOK, OriginOK, OnlyAnnounced, origin, host
<1>3. ASSUME NEW p \in Procs, NEW trigger \in Triggers, NEW auto \in {0, 1},
             Begin(p, trigger, auto)
      PROVE  OnlyAnnounced'
  BY <1>3, <1>0 DEF Begin, Starts, At, PcOK, HostOK, OriginOK, OnlyAnnounced, origin, host
<1>4. ASSUME NEW p \in Procs, FetchManifest(p) PROVE OnlyAnnounced'
  BY <1>4, <1>0 DEF FetchManifest, At, End, PcOK, HostOK, OriginOK, OnlyAnnounced, origin, host
<1>5. ASSUME NEW p \in Procs, Download(p) PROVE OnlyAnnounced'
  BY <1>5, <1>0 DEF Download, Stage, At, End, Fails, PcOK, HostOK, OriginOK, OnlyAnnounced, origin, host
<1>6. ASSUME NEW p \in Procs, InstallBinary(p) PROVE OnlyAnnounced'
  BY <1>6, <1>0 DEF InstallBinary, At, PcOK, HostOK, OriginOK, OnlyAnnounced, origin, host
<1>7. ASSUME NEW p \in Procs, CopyBinary(p) PROVE OnlyAnnounced'
  BY <1>7, <1>0 DEF CopyBinary, At, PcOK, HostOK, OriginOK, OnlyAnnounced, origin, host, RunsKnown
<1>8. ASSUME NEW p \in Procs, Persist(p) PROVE OnlyAnnounced'
  BY <1>8, <1>0 DEF Persist, At, End, PcOK, HostOK, OriginOK, OnlyAnnounced, origin, host
<1>20. ASSUME NEW p \in Procs, CopyInstaller(p) PROVE OnlyAnnounced'
  BY <1>20, <1>0 DEF CopyInstaller, At, PcOK, HostOK, OriginOK, OnlyAnnounced, origin, host
<1>9. ASSUME NEW p \in Procs, InstallService(p) PROVE OnlyAnnounced'
  BY <1>9, <1>0 DEF InstallService, At, End, PcOK, HostOK, OriginOK, OnlyAnnounced, origin, host
<1>10. ASSUME NEW p \in Procs, InstallUpdater(p) PROVE OnlyAnnounced'
  BY <1>10, <1>0 DEF InstallUpdater, At, End, PcOK, HostOK, OriginOK, OnlyAnnounced, origin, host
<1>11. ASSUME NEW p \in Procs, RestartIfUpdated(p) PROVE OnlyAnnounced'
  BY <1>11, <1>0, InstallerAssumption DEF RestartIfUpdated, At, End, PcOK, HostOK, OriginOK, OnlyAnnounced, origin, host, Executes, Procs, Broken, Build
<1>12. ASSUME NEW p \in Procs, BeginUninstall(p) PROVE OnlyAnnounced'
  BY <1>12, <1>0 DEF BeginUninstall, Starts, At, PcOK, HostOK, OriginOK, OnlyAnnounced, origin, host
<1>13. ASSUME NEW p \in Procs, DisableTimer(p) PROVE OnlyAnnounced'
  BY <1>13, <1>0 DEF DisableTimer, At, Fails, PcOK, HostOK, OriginOK, OnlyAnnounced, origin, host
<1>14. ASSUME NEW p \in Procs, StopService(p) PROVE OnlyAnnounced'
  BY <1>14, <1>0 DEF StopService, At, Fails, PcOK, HostOK, OriginOK, OnlyAnnounced, origin, host
<1>15. ASSUME NEW p \in Procs, Remove(p) PROVE OnlyAnnounced'
  BY <1>15, <1>0 DEF Remove, At, PcOK, HostOK, OriginOK, OnlyAnnounced, origin, host
<1>16. ASSUME NEW p \in Procs, Abort(p) PROVE OnlyAnnounced'
  BY <1>16, <1>0 DEF Abort, End, At, Fails, Interrupted, PcOK, HostOK, OriginOK, OnlyAnnounced, origin, host
<1>17. CASE HostDown
  BY <1>17, <1>0 DEF HostDown, Fails, Interrupted, PcOK, HostOK, OriginOK, OnlyAnnounced, origin, host
<1>18. CASE StartService
  BY <1>18, <1>0, InstallerAssumption DEF StartService, PcOK, HostOK, OriginOK, OnlyAnnounced, origin, host, Executes, Procs, Broken, Build
<1>19. CASE UNCHANGED vars
  BY <1>19, <1>0 DEF vars, PcOK, HostOK, OriginOK, OnlyAnnounced, origin, host
<1> QED BY <1>1, <1>2, <1>3, <1>4, <1>5, <1>6, <1>7, <1>8, <1>9, <1>10, <1>11, <1>12, <1>13, <1>14, <1>15, <1>16, <1>17, <1>18, <1>19, <1>20 DEF Next, Install

LEMMA CopyStep == TypeOK /\ InstallerKnown /\ [Next]_vars => InstallerKnown'
<1> SUFFICES ASSUME TypeOK, InstallerKnown, [Next]_vars PROVE InstallerKnown'
  OBVIOUS
<1>0. PcOK /\ HostOK
  BY TypeParts
<1>1. ASSUME NEW v \in Versions, PublishArchive(v) PROVE InstallerKnown'
  BY <1>1, <1>0 DEF PublishArchive, PcOK, HostOK, InstallerKnown, origin, host
<1>2. ASSUME NEW release \in syncing, PublishManifest(release) PROVE InstallerKnown'
  BY <1>2, <1>0 DEF PublishManifest, PcOK, HostOK, InstallerKnown, origin, host
<1>3. ASSUME NEW p \in Procs, NEW trigger \in Triggers, NEW auto \in {0, 1},
             Begin(p, trigger, auto)
      PROVE  InstallerKnown'
  BY <1>3, <1>0 DEF Begin, Starts, At, PcOK, HostOK, InstallerKnown, origin, host
<1>4. ASSUME NEW p \in Procs, FetchManifest(p) PROVE InstallerKnown'
  BY <1>4, <1>0 DEF FetchManifest, At, End, PcOK, HostOK, InstallerKnown, origin, host
<1>5. ASSUME NEW p \in Procs, Download(p) PROVE InstallerKnown'
  BY <1>5, <1>0 DEF Download, Stage, At, End, Fails, PcOK, HostOK, InstallerKnown, origin, host
<1>6. ASSUME NEW p \in Procs, InstallBinary(p) PROVE InstallerKnown'
  BY <1>6, <1>0 DEF InstallBinary, At, PcOK, HostOK, InstallerKnown, origin, host
<1>7. ASSUME NEW p \in Procs, CopyBinary(p) PROVE InstallerKnown'
  BY <1>7, <1>0 DEF CopyBinary, At, PcOK, HostOK, InstallerKnown, origin, host
<1>8. ASSUME NEW p \in Procs, Persist(p) PROVE InstallerKnown'
  BY <1>8, <1>0 DEF Persist, At, End, PcOK, HostOK, InstallerKnown, origin, host
<1>20. ASSUME NEW p \in Procs, CopyInstaller(p) PROVE InstallerKnown'
  BY <1>20, <1>0 DEF CopyInstaller, At, PcOK, HostOK, InstallerKnown, origin, host
<1>9. ASSUME NEW p \in Procs, InstallService(p) PROVE InstallerKnown'
  BY <1>9, <1>0 DEF InstallService, At, End, PcOK, HostOK, InstallerKnown, origin, host
<1>10. ASSUME NEW p \in Procs, InstallUpdater(p) PROVE InstallerKnown'
  BY <1>10, <1>0 DEF InstallUpdater, At, End, PcOK, HostOK, InstallerKnown, origin, host
<1>11. ASSUME NEW p \in Procs, RestartIfUpdated(p) PROVE InstallerKnown'
  BY <1>11, <1>0, InstallerAssumption DEF RestartIfUpdated, At, End, PcOK, HostOK, InstallerKnown, origin, host, Executes, Procs, Broken, Build
<1>12. ASSUME NEW p \in Procs, BeginUninstall(p) PROVE InstallerKnown'
  BY <1>12, <1>0 DEF BeginUninstall, Starts, At, PcOK, HostOK, InstallerKnown, origin, host
<1>13. ASSUME NEW p \in Procs, DisableTimer(p) PROVE InstallerKnown'
  BY <1>13, <1>0 DEF DisableTimer, At, Fails, PcOK, HostOK, InstallerKnown, origin, host
<1>14. ASSUME NEW p \in Procs, StopService(p) PROVE InstallerKnown'
  BY <1>14, <1>0 DEF StopService, At, Fails, PcOK, HostOK, InstallerKnown, origin, host
<1>15. ASSUME NEW p \in Procs, Remove(p) PROVE InstallerKnown'
  BY <1>15, <1>0 DEF Remove, At, PcOK, HostOK, InstallerKnown, origin, host
<1>16. ASSUME NEW p \in Procs, Abort(p) PROVE InstallerKnown'
  BY <1>16, <1>0 DEF Abort, End, At, Fails, Interrupted, PcOK, HostOK, InstallerKnown, origin, host
<1>17. CASE HostDown
  BY <1>17, <1>0 DEF HostDown, Fails, Interrupted, PcOK, HostOK, InstallerKnown, origin, host
<1>18. CASE StartService
  BY <1>18, <1>0, InstallerAssumption DEF StartService, PcOK, HostOK, InstallerKnown, origin, host, Executes, Procs, Broken, Build
<1>19. CASE UNCHANGED vars
  BY <1>19, <1>0 DEF vars, PcOK, HostOK, InstallerKnown, origin, host
<1> QED BY <1>1, <1>2, <1>3, <1>4, <1>5, <1>6, <1>7, <1>8, <1>9, <1>10, <1>11, <1>12, <1>13, <1>14, <1>15, <1>16, <1>17, <1>18, <1>19, <1>20 DEF Next, Install

LEMMA AloneStep == TypeOK /\ (mixed = 0 => Alone) /\ [Next]_vars => (mixed = 0 => Alone)'
<1> SUFFICES ASSUME TypeOK, (mixed = 0 => Alone), [Next]_vars PROVE (mixed = 0 => Alone)'
  OBVIOUS
<1>0. PcOK /\ HostOK
  BY TypeParts
<1>1. ASSUME NEW v \in Versions, PublishArchive(v) PROVE (mixed = 0 => Alone)'
  BY <1>1, <1>0 DEF PublishArchive, PcOK, HostOK, Alone, Uninstalling
<1>2. ASSUME NEW release \in syncing, PublishManifest(release) PROVE (mixed = 0 => Alone)'
  BY <1>2, <1>0 DEF PublishManifest, PcOK, HostOK, Alone, Uninstalling
<1>3. ASSUME NEW p \in Procs, NEW trigger \in Triggers, NEW auto \in {0, 1},
             Begin(p, trigger, auto)
      PROVE  (mixed = 0 => Alone)'
  <2>1. SUFFICES ASSUME mixed' = 0 PROVE Alone'
    OBVIOUS
  <2>2. mixed = 0 /\ \A q \in Procs \ {p} : pc[q] # "idle" => pc[q] \notin Uninstalling
    BY <2>1, <1>3, <1>0 DEF Begin, Starts, HostOK
  <2>3. pc[p] = "idle" /\ pc' = [pc EXCEPT ![p] = "manifest"]
    BY <1>3 DEF Begin, Starts, At
  <2> QED BY <1>0, <2>2, <2>3 DEF PcOK, Alone, Uninstalling
<1>4. ASSUME NEW p \in Procs, FetchManifest(p) PROVE (mixed = 0 => Alone)'
  BY <1>4, <1>0 DEF FetchManifest, At, End, PcOK, HostOK, Alone, Uninstalling
<1>5. ASSUME NEW p \in Procs, Download(p) PROVE (mixed = 0 => Alone)'
  BY <1>5, <1>0 DEF Download, Stage, At, End, Fails, PcOK, HostOK, Alone, Uninstalling
<1>6. ASSUME NEW p \in Procs, InstallBinary(p) PROVE (mixed = 0 => Alone)'
  BY <1>6, <1>0 DEF InstallBinary, At, PcOK, HostOK, Alone, Uninstalling
<1>7. ASSUME NEW p \in Procs, CopyBinary(p) PROVE (mixed = 0 => Alone)'
  BY <1>7, <1>0 DEF CopyBinary, At, PcOK, HostOK, Alone, Uninstalling
<1>8. ASSUME NEW p \in Procs, Persist(p) PROVE (mixed = 0 => Alone)'
  BY <1>8, <1>0 DEF Persist, At, End, PcOK, HostOK, Alone, Uninstalling
<1>20. ASSUME NEW p \in Procs, CopyInstaller(p) PROVE (mixed = 0 => Alone)'
  BY <1>20, <1>0 DEF CopyInstaller, At, PcOK, HostOK, Alone, Uninstalling
<1>9. ASSUME NEW p \in Procs, InstallService(p) PROVE (mixed = 0 => Alone)'
  BY <1>9, <1>0 DEF InstallService, At, End, PcOK, HostOK, Alone, Uninstalling
<1>10. ASSUME NEW p \in Procs, InstallUpdater(p) PROVE (mixed = 0 => Alone)'
  BY <1>10, <1>0 DEF InstallUpdater, At, End, PcOK, HostOK, Alone, Uninstalling
<1>11. ASSUME NEW p \in Procs, RestartIfUpdated(p) PROVE (mixed = 0 => Alone)'
  BY <1>11, <1>0 DEF RestartIfUpdated, At, End, PcOK, HostOK, Alone, Uninstalling
<1>12. ASSUME NEW p \in Procs, BeginUninstall(p) PROVE (mixed = 0 => Alone)'
  BY <1>12, <1>0 DEF BeginUninstall, Starts, At, PcOK, HostOK, Alone, Uninstalling
<1>13. ASSUME NEW p \in Procs, DisableTimer(p) PROVE (mixed = 0 => Alone)'
  BY <1>13, <1>0 DEF DisableTimer, At, Fails, PcOK, HostOK, Alone, Uninstalling
<1>14. ASSUME NEW p \in Procs, StopService(p) PROVE (mixed = 0 => Alone)'
  BY <1>14, <1>0 DEF StopService, At, Fails, PcOK, HostOK, Alone, Uninstalling
<1>15. ASSUME NEW p \in Procs, Remove(p) PROVE (mixed = 0 => Alone)'
  BY <1>15, <1>0 DEF Remove, At, PcOK, HostOK, Alone, Uninstalling
<1>16. ASSUME NEW p \in Procs, Abort(p) PROVE (mixed = 0 => Alone)'
  BY <1>16, <1>0 DEF Abort, End, At, Fails, Interrupted, PcOK, HostOK, Alone, Uninstalling
<1>17. CASE HostDown
  BY <1>17, <1>0 DEF HostDown, Fails, Interrupted, PcOK, HostOK, Alone, Uninstalling
<1>18. CASE StartService
  BY <1>18, <1>0 DEF StartService, PcOK, HostOK, Alone, Uninstalling
<1>19. CASE UNCHANGED vars
  BY <1>19, <1>0 DEF vars, PcOK, HostOK, Alone, Uninstalling
<1> QED BY <1>1, <1>2, <1>3, <1>4, <1>5, <1>6, <1>7, <1>8, <1>9, <1>10, <1>11, <1>12, <1>13, <1>14, <1>15, <1>16, <1>17, <1>18, <1>19, <1>20 DEF Next, Install

LEMMA OrderStep == TypeOK /\ RunsKnown /\ Unmixed /\ [Next]_vars => (mixed = 0 => Order)'
<1> SUFFICES ASSUME TypeOK, RunsKnown, Unmixed, [Next]_vars PROVE (mixed = 0 => Order)'
  OBVIOUS
<1>0. PcOK /\ HostOK /\ OriginOK
  BY TypeParts
<1>1. ASSUME NEW v \in Versions, PublishArchive(v) PROVE (mixed = 0 => Order)'
  BY <1>1, <1>0 DEF PublishArchive, PcOK, HostOK, OriginOK, Unmixed, Order, Alone, Uninstalling, host
<1>2. ASSUME NEW release \in syncing, PublishManifest(release) PROVE (mixed = 0 => Order)'
  BY <1>2, <1>0 DEF PublishManifest, PcOK, HostOK, OriginOK, Unmixed, Order, Alone, Uninstalling, host
<1>3. ASSUME NEW p \in Procs, NEW trigger \in Triggers, NEW auto \in {0, 1},
             Begin(p, trigger, auto)
      PROVE  (mixed = 0 => Order)'
  BY <1>3, <1>0 DEF Begin, Starts, At, PcOK, HostOK, OriginOK, Unmixed, Order, Alone, Uninstalling, host
<1>4. ASSUME NEW p \in Procs, FetchManifest(p) PROVE (mixed = 0 => Order)'
  BY <1>4, <1>0 DEF FetchManifest, At, End, PcOK, HostOK, OriginOK, Unmixed, Order, Alone, Uninstalling, host
<1>5. ASSUME NEW p \in Procs, Download(p) PROVE (mixed = 0 => Order)'
  BY <1>5, <1>0 DEF Download, Stage, At, End, Fails, PcOK, HostOK, OriginOK, Unmixed, Order, Alone, Uninstalling, host
<1>6. ASSUME NEW p \in Procs, InstallBinary(p) PROVE (mixed = 0 => Order)'
  BY <1>6, <1>0, InstallerAssumption DEF InstallBinary, At, PcOK, HostOK, OriginOK, Unmixed, Order, Alone, Uninstalling, host, Procs
<1>7. ASSUME NEW p \in Procs, CopyBinary(p) PROVE (mixed = 0 => Order)'
  BY <1>7, <1>0 DEF CopyBinary, At, PcOK, HostOK, OriginOK, Unmixed, Order, Alone, Uninstalling, host, RunsKnown, Broken
<1>8. ASSUME NEW p \in Procs, Persist(p) PROVE (mixed = 0 => Order)'
  BY <1>8, <1>0, InstallerAssumption DEF Procs, Persist, At, End, PcOK, HostOK, OriginOK, Unmixed, Order, Alone, Uninstalling, host
<1>20. ASSUME NEW p \in Procs, CopyInstaller(p) PROVE (mixed = 0 => Order)'
  BY <1>20, <1>0, InstallerAssumption DEF Procs, Whole, CopyInstaller, At, PcOK, HostOK, OriginOK, Unmixed, Order, Alone, Uninstalling, host
<1>9. ASSUME NEW p \in Procs, InstallService(p) PROVE (mixed = 0 => Order)'
  BY <1>9, <1>0 DEF InstallService, At, End, PcOK, HostOK, OriginOK, Unmixed, Order, Alone, Uninstalling, host, Executes
<1>10. ASSUME NEW p \in Procs, InstallUpdater(p) PROVE (mixed = 0 => Order)'
  BY <1>10, <1>0 DEF InstallUpdater, At, End, PcOK, HostOK, OriginOK, Unmixed, Order, Alone, Uninstalling, host
<1>11. ASSUME NEW p \in Procs, RestartIfUpdated(p) PROVE (mixed = 0 => Order)'
  BY <1>11, <1>0 DEF RestartIfUpdated, At, End, PcOK, HostOK, OriginOK, Unmixed, Order, Alone, Uninstalling, host
<1>12. ASSUME NEW p \in Procs, BeginUninstall(p) PROVE (mixed = 0 => Order)'
  BY <1>12, <1>0 DEF BeginUninstall, Starts, At, PcOK, HostOK, OriginOK, Unmixed, Order, Alone, Uninstalling, host
<1>13. ASSUME NEW p \in Procs, DisableTimer(p) PROVE (mixed = 0 => Order)'
  BY <1>13, <1>0 DEF DisableTimer, At, Fails, PcOK, HostOK, OriginOK, Unmixed, Order, Alone, Uninstalling, host
<1>14. ASSUME NEW p \in Procs, StopService(p) PROVE (mixed = 0 => Order)'
  BY <1>14, <1>0 DEF StopService, At, Fails, PcOK, HostOK, OriginOK, Unmixed, Order, Alone, Uninstalling, host
<1>15. ASSUME NEW p \in Procs, Remove(p) PROVE (mixed = 0 => Order)'
  BY <1>15, <1>0 DEF Remove, At, PcOK, HostOK, OriginOK, Unmixed, Order, Alone, Uninstalling, host
<1>16. ASSUME NEW p \in Procs, Abort(p) PROVE (mixed = 0 => Order)'
  BY <1>16, <1>0 DEF Abort, End, At, Fails, Interrupted, PcOK, HostOK, OriginOK, Unmixed, Order, Alone, Uninstalling, host, Broken
<1>17. CASE HostDown
  BY <1>17, <1>0 DEF HostDown, Fails, Interrupted, PcOK, HostOK, OriginOK, Unmixed, Order, Alone, Uninstalling, host, Broken
<1>18. CASE StartService
  BY <1>18, <1>0 DEF StartService, PcOK, HostOK, OriginOK, Unmixed, Order, Alone, Uninstalling, host
<1>19. CASE UNCHANGED vars
  BY <1>19, <1>0 DEF vars, PcOK, HostOK, OriginOK, Unmixed, Order, Alone, Uninstalling, host
<1> QED BY <1>1, <1>2, <1>3, <1>4, <1>5, <1>6, <1>7, <1>8, <1>9, <1>10, <1>11, <1>12, <1>13, <1>14, <1>15, <1>16, <1>17, <1>18, <1>19, <1>20 DEF Next, Install

-----------------------------------------------------------------------------
\* Every variable of Installer keeps its type, for any number of people that run
\* the script at once.
THEOREM TypeCorrect == Spec => []TypeOK
BY InitType, TypeStep, PTL DEF Spec

\* Only builds that latest.json has announced are installed or run, however runs,
\* releases and faults meet.
THEOREM OnlyAnnouncedInstalled == Spec => []OnlyAnnounced
<1>1. Init => ManifestKnown /\ RunsKnown /\ OnlyAnnounced
  BY DEF Init, ManifestKnown, RunsKnown, OnlyAnnounced
<1>2. TypeOK /\ ManifestKnown /\ RunsKnown /\ OnlyAnnounced /\ [Next]_vars
        => (ManifestKnown /\ RunsKnown /\ OnlyAnnounced)'
  BY TypeParts, ManifestStep, KnownStep, AnnouncedStep
<1> QED BY <1>1, <1>2, TypeCorrect, PTL DEF Spec

\* Units have the files they point to wherever runs stop, or what a failed copy has
\* left of them, unless an uninstall has met another run.
THEOREM TargetsStay == Spec => []UnitsHaveTargets
<1>1. Init => Unmixed /\ ManifestKnown /\ RunsKnown /\ InstallerKnown
  BY DEF Init, Unmixed, Alone, Order, Uninstalling, ManifestKnown, RunsKnown, InstallerKnown
<1>2. TypeOK /\ ManifestKnown /\ RunsKnown /\ InstallerKnown /\ Unmixed /\ [Next]_vars
        => (ManifestKnown /\ RunsKnown /\ InstallerKnown /\ Unmixed)'
  BY TypeParts, ManifestStep, KnownStep, CopyStep, AloneStep, OrderStep DEF Unmixed
<1>3. Unmixed /\ InstallerKnown => UnitsHaveTargets
  BY DEF Unmixed, Order, InstallerKnown, UnitsHaveTargets
<1> QED BY <1>1, <1>2, <1>3, TypeCorrect, PTL DEF Spec
=============================================================================
