---------------------------- MODULE BackupProofs ----------------------------
(***************************************************************************)
(* Theorems about Backup for databases of any size and any number of       *)
(* transactions, exports and faults: type correctness, that a last         *)
(* connection that is closed leaves a complete main file, and that a       *)
(* backup taken then is exact.                                             *)
(***************************************************************************)
EXTENDS Backup, TLAPS

\* While a quiet backup copies, nothing moves, and each page in the archive has
\* its committed content.
Copying ==
  /\ report = "written" => pc # "copying"
  /\ pc = "copying" => cut = FALSE
  /\ quiet /\ pc = "copying" =>
       /\ server = "down" /\ main = db /\ seen = {db}
       /\ \A i \in DOMAIN archive : archive[i].item # 0 => archive[i].version = db[archive[i].item]

IInv == TypeOK /\ CleanStopComplete /\ Copying /\ QuietExact

-----------------------------------------------------------------------------

LEMMA InitInv == Init => IInv
<1> SUFFICES ASSUME Init PROVE IInv
  OBVIOUS
<1>1. TypeOK
  <2>1. db \in Contents /\ main \in Contents /\ seen \subseteq Contents
    BY BackupAssumption DEF Init, Contents
  <2>2. archive \in Seq(Entries)
    BY DEF Init
  <2>3. conns = (IF server = "down" THEN {} ELSE {"server"})
                  \cup (IF pc = "idle" THEN {} ELSE {"backup"})
    BY DEF Init
  <2>4. commits \in 0 .. MaxCommits /\ backups \in 0 .. MaxBackups /\ faults \in 0 .. MaxFaults
    BY BackupAssumption DEF Init
  <2> QED BY <2>1, <2>2, <2>3, <2>4 DEF Init, TypeOK
<1>2. CleanStopComplete /\ Copying /\ QuietExact
  BY DEF Init, CleanStopComplete, Copying, QuietExact
<1> QED BY <1>1, <1>2 DEF IInv

\* What AddFile appends.
LEMMA AppendedEntry ==
  ASSUME TypeOK, Appended
  PROVE  \E e \in Entries :
           archive' = Append(archive, e) /\ (e.item # 0 => e.version = main[e.item])
<1>1. CASE archive' = Append(archive, [item |-> Config, version |-> 0])
  BY <1>1, BackupAssumption DEF Config, Entries
<1>2. CASE \E p \in Pages : archive' = Append(archive, [item |-> p, version |-> main[p]])
  <2>1. PICK p \in Pages : archive' = Append(archive, [item |-> p, version |-> main[p]])
    BY <1>2
  <2>2. main[p] \in 0 .. MaxCommits /\ p \in 0 .. NPages
    BY BackupAssumption DEF TypeOK, Contents, Pages
  <2> QED BY <2>1, <2>2, BackupAssumption DEF Entries, Pages
<1> QED BY <1>1, <1>2 DEF Appended

\* What Close leaves, whether it gets to its end or not.
LEMMA CloseType ==
  ASSUME TypeOK, NEW who, Close(who)
  PROVE  /\ main' \in Contents /\ faults' \in 0 .. MaxFaults
         /\ conns' = conns \ {who} /\ left' \in {"closed", "unclosed"}
<1>1. CASE left' = "closed"
  BY <1>1 DEF Close, Drop, Fault, TypeOK, Contents
<1>2. CASE left' # "closed"
  <2>1. Fault /\ Drop(who)
    BY <1>2 DEF Close
  <2>2. PICK back \in SUBSET Pages : main' = [p \in Pages |-> IF p \in back THEN db[p] ELSE main[p]]
    BY <1>2 DEF Close
  <2>3. main' \in Contents
    BY <2>2 DEF TypeOK, Contents
  <2>4. faults' \in 0 .. MaxFaults
    BY <2>1, BackupAssumption DEF Fault, TypeOK
  <2> QED BY <2>1, <2>3, <2>4 DEF Drop
<1> QED BY <1>1, <1>2

LEMMA TypeStep == TypeOK /\ [Next]_vars => TypeOK'
<1> SUFFICES ASSUME TypeOK, [Next]_vars PROVE TypeOK'
  OBVIOUS
<1> USE BackupAssumption DEF TypeOK, Contents, Pages
<1>1. CASE ServerStart
  BY <1>1 DEF ServerStart
<1>2. CASE ServerStop
  <2>1. CASE Close("server")
    <3>1. main' \in Contents /\ faults' \in 0 .. MaxFaults /\ left' \in {"closed", "unclosed"}
      BY <2>1, CloseType
    <3>2. conns' = (IF server' = "down" THEN {} ELSE {"server"})
                     \cup (IF pc' = "idle" THEN {} ELSE {"backup"})
      <4>1. conns' = conns \ {"server"}
        BY <2>1, CloseType
      <4> QED BY <1>2, <4>1 DEF ServerStop
    <3> QED BY <1>2, <3>1, <3>2 DEF ServerStop
  <2>2. CASE Drop("server") /\ UNCHANGED <<main, faults>>
    BY <1>2, <2>2 DEF ServerStop, Drop
  <2> QED BY <1>2, <2>1, <2>2 DEF ServerStop
<1>3. CASE ServerCrash
  BY <1>3 DEF ServerCrash, Die, Drop, Fault
<1>4. ASSUME NEW written \in (SUBSET Pages) \ {{}}, Commit(written) PROVE TypeOK'
  <2>1. commits' \in 0 .. MaxCommits /\ db' \in [Pages -> 0 .. MaxCommits]
    BY <1>4 DEF Commit
  <2>2. seen' \subseteq [Pages -> 0 .. MaxCommits]
    BY <1>4, <2>1 DEF Commit
  <2> QED BY <1>4, <2>1, <2>2 DEF Commit
<1>5. ASSUME NEW p \in Pages, CheckpointPage(p) PROVE TypeOK'
  BY <1>5 DEF CheckpointPage
<1>6. CASE CheckpointDone
  BY <1>6 DEF CheckpointDone
<1>7. CASE OpenBackup
  <2>1. archive' \in Seq(Entries) /\ quiet' \in BOOLEAN
    BY <1>7 DEF OpenBackup
  <2>2. conns' = (IF server' = "down" THEN {} ELSE {"server"})
                   \cup (IF pc' = "idle" THEN {} ELSE {"backup"})
    BY <1>7 DEF OpenBackup
  <2>3. backups' \in 0 .. MaxBackups
    BY <1>7 DEF OpenBackup
  <2> QED BY <1>7, <2>1, <2>2, <2>3 DEF OpenBackup
<1>8. CASE AddFile
  <2>1. archive' \in Seq(Entries)
    <3>1. PICK e \in Entries : archive' = Append(archive, e)
      BY <1>8, AppendedEntry DEF AddFile
    <3> QED BY <3>1
  <2> QED BY <1>8, <2>1 DEF AddFile
<1>9. CASE AddFileFails
  BY <1>9 DEF AddFileFails, Fault
<1>10. CASE CreateTarGz
  <2>1. archive' \in Seq(Entries)
    BY <1>10 DEF CreateTarGz, AllAdded
  <2>2. faults' \in 0 .. MaxFaults
    BY <1>10 DEF CreateTarGz, Fault
  <2>3. cut' \in BOOLEAN
    <3>1. cut' = cut \/ cut' = TRUE
      BY <1>10 DEF CreateTarGz
    <3> QED BY <3>1
  <2>4. conns' = (IF server' = "down" THEN {} ELSE {"server"})
                   \cup (IF pc' = "idle" THEN {} ELSE {"backup"})
    BY <1>10 DEF CreateTarGz
  <2> QED BY <1>10, <2>1, <2>2, <2>3, <2>4 DEF CreateTarGz
<1>11. CASE CloseBackup
  <2>1. main' \in Contents /\ faults' \in 0 .. MaxFaults /\ left' \in {"closed", "unclosed"}
    BY <1>11, CloseType DEF CloseBackup
  <2>2. conns' = (IF server' = "down" THEN {} ELSE {"server"})
                   \cup (IF pc' = "idle" THEN {} ELSE {"backup"})
    <3>1. conns' = conns \ {"backup"}
      BY <1>11, CloseType DEF CloseBackup
    <3> QED BY <1>11, <3>1 DEF CloseBackup
  <2> QED BY <1>11, <2>1, <2>2 DEF CloseBackup
<1>12. CASE BackupCrash
  BY <1>12 DEF BackupCrash, Die, Drop, Fault
<1>13. CASE UNCHANGED vars
  BY <1>13 DEF vars
<1>14. CASE BeginStatement \/ EndStatement
  BY <1>14 DEF BeginStatement, EndStatement
<1> QED
  BY <1>1, <1>2, <1>3, <1>4, <1>5, <1>6, <1>7, <1>8, <1>9, <1>10, <1>11, <1>12, <1>13, <1>14 DEF Next

\* The last connection to close brings the log back, and without a connection
\* nothing is committed.
LEMMA CleanStopStep == TypeOK /\ CleanStopComplete /\ [Next]_vars => CleanStopComplete'
<1> SUFFICES ASSUME TypeOK, CleanStopComplete, [Next]_vars PROVE CleanStopComplete'
  OBVIOUS
<1> USE DEF TypeOK, CleanStopComplete
<1>1. CASE ServerStart \/ OpenBackup
  BY <1>1 DEF ServerStart, OpenBackup
<1>2. CASE ServerStop \/ CloseBackup
  BY <1>2 DEF ServerStop, CloseBackup, Close, Drop
<1>3. CASE ServerCrash \/ BackupCrash
  BY <1>3 DEF ServerCrash, BackupCrash, Die, Drop
<1>4. ASSUME NEW written \in (SUBSET Pages) \ {{}}, Commit(written) PROVE CleanStopComplete'
  BY <1>4 DEF Commit
<1>5. ASSUME NEW p \in Pages, CheckpointPage(p) PROVE CleanStopComplete'
  BY <1>5 DEF CheckpointPage
<1>6. CASE CheckpointDone
  BY <1>6 DEF CheckpointDone
<1>7. CASE AddFile \/ AddFileFails \/ CreateTarGz
  BY <1>7 DEF AddFile, AddFileFails, CreateTarGz
<1>8. CASE UNCHANGED vars
  BY <1>8 DEF vars
<1>9. CASE BeginStatement \/ EndStatement
  BY <1>9 DEF BeginStatement, EndStatement
<1> QED
  BY <1>1, <1>2, <1>3, <1>4, <1>5, <1>6, <1>7, <1>8, <1>9 DEF Next

LEMMA CopyingStep == TypeOK /\ CleanStopComplete /\ Copying /\ [Next]_vars => Copying'
<1> SUFFICES ASSUME TypeOK, CleanStopComplete, Copying, [Next]_vars PROVE Copying'
  OBVIOUS
<1> USE DEF TypeOK, Copying
<1>1. CASE ServerStart
  BY <1>1 DEF ServerStart
<1>2. CASE ServerStop \/ ServerCrash
  BY <1>2 DEF ServerStop, ServerCrash, Close, Die, Drop
<1>3. ASSUME NEW written \in (SUBSET Pages) \ {{}}, Commit(written) PROVE Copying'
  BY <1>3 DEF Commit
<1>4. ASSUME NEW p \in Pages, CheckpointPage(p) PROVE Copying'
  BY <1>4 DEF CheckpointPage
<1>5. CASE CheckpointDone
  BY <1>5 DEF CheckpointDone
<1>6. CASE OpenBackup
  <2>1. quiet' => conns = {} /\ left = "closed"
    BY <1>6 DEF OpenBackup
  <2>2. quiet' => server = "down" /\ main = db
    BY <2>1 DEF CleanStopComplete
  <2> QED BY <1>6, <2>2 DEF OpenBackup
<1>7. CASE AddFile
  BY <1>7, AppendedEntry DEF AddFile
<1>8. CASE AddFileFails \/ CreateTarGz
  BY <1>8 DEF AddFileFails, CreateTarGz
<1>9. CASE CloseBackup \/ BackupCrash
  BY <1>9 DEF CloseBackup, BackupCrash, Close, Die, Drop
<1>10. CASE UNCHANGED vars
  BY <1>10 DEF vars
<1>11. CASE BeginStatement \/ EndStatement
  BY <1>11 DEF BeginStatement, EndStatement
<1> QED
  BY <1>1, <1>2, <1>3, <1>4, <1>5, <1>6, <1>7, <1>8, <1>9, <1>10, <1>11 DEF Next

\* An archive that holds everything and was copied quietly restores the database.
LEMMA AllAddedRestores ==
  ASSUME TypeOK, Copying, pc = "copying", quiet, AllAdded
  PROVE  Restores
<1>1. \A p \in Pages : [item |-> p, version |-> db[p]] \in ToSet(archive)
  <2> TAKE p \in Pages
  <2>1. PICK i \in DOMAIN archive : archive[i].item = p
    BY DEF AllAdded, Items
  <2>2. archive[i] \in Entries
    BY DEF TypeOK
  <2>3. p # 0
    BY BackupAssumption DEF Pages
  <2>4. archive[i].version = db[p]
    BY <2>1, <2>3 DEF Copying
  <2>5. archive[i] = [item |-> p, version |-> db[p]]
    BY <2>1, <2>2, <2>4 DEF Entries
  <2> QED BY <2>5 DEF ToSet
<1>2. Config \in Items(archive) /\ seen = {db}
  BY DEF AllAdded, Copying
<1> QED BY <1>1, <1>2 DEF Restores

\* A report stays true: what it speaks of changes only while an archive is copied.
LEMMA QuietExactStep == IInv /\ [Next]_vars => QuietExact'
<1> SUFFICES ASSUME IInv, [Next]_vars PROVE QuietExact'
  OBVIOUS
<1> DEFINE Same == UNCHANGED <<archive, seen, cut>> /\ (quiet' => quiet)
                   /\ report' \in {report, "none", "error"}
<1>1. Same => QuietExact'
  <2>1. ASSUME UNCHANGED <<archive, seen>> PROVE Restores' = Restores
    BY <2>1 DEF Restores, Items
  <2> QED BY <2>1 DEF IInv, QuietExact
<1>2. CASE ServerStart \/ ServerStop \/ ServerCrash
  BY <1>1, <1>2 DEF ServerStart, ServerStop, ServerCrash, Die
<1>3. ASSUME NEW written \in (SUBSET Pages) \ {{}}, Commit(written) PROVE QuietExact'
  <2>1. CASE pc = "copying"
    BY <1>3, <2>1 DEF Commit, IInv, Copying, QuietExact
  <2>2. CASE pc # "copying"
    BY <1>1, <1>3, <2>2 DEF Commit
  <2> QED BY <2>1, <2>2
<1>4. ASSUME NEW p \in Pages, CheckpointPage(p) PROVE QuietExact'
  BY <1>1, <1>4 DEF CheckpointPage
<1>5. CASE CheckpointDone
  BY <1>1, <1>5 DEF CheckpointDone
<1>6. CASE OpenBackup
  BY <1>6 DEF OpenBackup, QuietExact
<1>7. CASE AddFile
  BY <1>7 DEF AddFile, IInv, Copying, QuietExact
<1>8. CASE AddFileFails
  BY <1>1, <1>8 DEF AddFileFails
<1>9. CASE CreateTarGz
  <2> SUFFICES ASSUME quiet', ~cut' PROVE Restores'
    BY DEF QuietExact
  <2>1. UNCHANGED <<archive, seen>> /\ quiet /\ pc = "copying" /\ AllAdded
    BY <1>9 DEF CreateTarGz
  <2>2. Restores
    BY <2>1, AllAddedRestores DEF IInv
  <2> QED BY <2>1, <2>2 DEF Restores, Items
<1>10. CASE CloseBackup \/ BackupCrash
  BY <1>1, <1>10 DEF CloseBackup, BackupCrash, Die
<1>11. CASE UNCHANGED vars
  BY <1>1, <1>11 DEF vars
<1>12. CASE BeginStatement \/ EndStatement
  BY <1>1, <1>12 DEF BeginStatement, EndStatement
<1> QED
  BY <1>2, <1>3, <1>4, <1>5, <1>6, <1>7, <1>8, <1>9, <1>10, <1>11, <1>12 DEF Next

LEMMA Inductive == Spec => []IInv
<1>1. IInv /\ [Next]_vars => IInv'
  BY TypeStep, CleanStopStep, CopyingStep, QuietExactStep DEF IInv
<1> QED
  BY InitInv, <1>1, PTL DEF Spec

-----------------------------------------------------------------------------

\* Every variable of Backup keeps its type; in particular the connections are
\* those of the processes that run, so that the last one to close is known.
THEOREM TypeCorrect == Spec => []TypeOK
BY Inductive, PTL DEF IInv

\* A last connection that is closed leaves a complete main file: that of cmdRun if
\* it is idle when cmdRun returns, and that of cmdBackup.  A server that was stopped
\* in the middle of a statement has not closed it.
THEOREM CleanStops == Spec => []CleanStopComplete
BY Inductive, PTL DEF IInv

\* `backup export` restores the database when nobody else has it open and the last
\* to leave has closed it, whatever crashed, was stopped in the middle of a
\* statement, committed or was exported before.
THEOREM QuietBackups == Spec => []QuietExact
BY Inductive, PTL DEF IInv
=============================================================================
