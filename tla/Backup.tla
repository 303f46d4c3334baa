------------------------------- MODULE Backup -------------------------------
(***************************************************************************)
(* `dimonitorin backup export` beside the server: the command opens the    *)
(* database and then puts two files into an archive, the configuration and *)
(* the main database file, in the order in which Go ranges over a map.     *)
(*                                                                         *)
(* The database is in WAL mode (PRAGMA journal_mode).  A committed page    *)
(* stays in the log, which is a file of its own, until a checkpoint brings *)
(* it back: page by page after some commit of the server, or all at once   *)
(* when the last connection closes.  SQLite is modelled from this use: db  *)
(* is what a reader of the database sees, main what its main file holds.   *)
(* The server has one connection (SetMaxOpenConns), which its handlers and *)
(* its loop take in turns, and cmdRun waits for none of them: sql.DB.Close *)
(* closes it if it is idle, and the process ends without it otherwise.     *)
(* A main file that grows while it is copied makes io.Copy fail.           *)
(***************************************************************************)
EXTENDS Naturals, Sequences, SequencesExt

CONSTANTS NPages,      \* pages of the database
          MaxCommits,  \* bound: transactions of the server
          MaxBackups,  \* bound: runs of the command
          MaxFaults    \* bound: crashes, failing copies and full disks

ASSUME BackupAssumption ==
  NPages \in Nat \ {0} /\ MaxCommits \in Nat /\ MaxBackups \in Nat /\ MaxFaults \in Nat

VARIABLES
  db,       \* the committed content of each page: the transaction that wrote it
  main,     \* the content of each page in the main file
  conns,    \* connections to the database
  server,   \* "down", "up" with its connection idle, "busy" with a statement
            \* under way, "checkpoint" in the commit that started one
  pc,       \* the command: "idle", "copying", "closing"
  archive,  \* what has been written: a sequence of [item, version]
  report,   \* what the command says: "none", "error", "written"
  commits, backups, faults, \* so far
  seen,     \* history: the committed contents since the command opened the database
  quiet,    \* history: nobody had it open then, left was "closed", and no server has
            \* started since
  cut,      \* history: the disk was full when the archive was closed
  left      \* history: how the last connection to leave did, "closed" or "unclosed"

vars == <<db, main, conns, server, pc, archive, report, commits, backups, faults,
          seen, quiet, cut, left>>

Pages == 1 .. NPages

Init ==
  /\ db = [p \in Pages |-> 0] /\ main = db
  /\ conns = {} /\ server = "down" /\ pc = "idle"
  /\ archive = <<>> /\ report = "none"
  /\ commits = 0 /\ backups = 0 /\ faults = 0
  /\ seen = {} /\ quiet = FALSE /\ cut = FALSE /\ left = "closed"

Fault == faults < MaxFaults /\ faults' = faults + 1

\* Mutant of Close: the process ends without closing the Store.
CloseNothing(who) == conns' = conns \ {who} /\ left' = "closed" /\ UNCHANGED <<main, faults>>

\* The process ends, and its connection with it.
Drop(who) == conns' = conns \ {who} /\ left' = "unclosed"

\* Store.Close of an idle connection. The last one brings the log back and deletes
\* it; when that fails on the way nobody looks at the error.
Close(who) ==
  \/ /\ conns' = conns \ {who} /\ left' = "closed"
     /\ main' = IF conns = {who} THEN db ELSE main
     /\ UNCHANGED faults
  \/ /\ conns = {who} /\ Fault /\ Drop(who)
     /\ \E back \in SUBSET Pages : main' = [p \in Pages |-> IF p \in back THEN db[p] ELSE main[p]]

\* A process is killed.
Die(who) ==
  /\ Fault /\ Drop(who)
  /\ UNCHANGED <<db, main, archive, commits, backups, seen, quiet, cut>>

-----------------------------------------------------------------------------
\* The server.

\* db.Open of cmdRun
ServerStart ==
  /\ server = "down" /\ server' = "up"
  /\ conns' = conns \cup {"server"}
  /\ quiet' = (quiet /\ pc = "idle")
  /\ UNCHANGED <<db, main, pc, archive, report, commits, backups, faults, seen, cut, left>>

\* A handler or the loop takes the connection,
BeginStatement ==
  /\ server = "up" /\ server' = "busy"
  /\ UNCHANGED <<db, main, conns, pc, archive, report, commits, backups, faults,
                 seen, quiet, cut, left>>

\* and gives it back when it has only read, or failed.
EndStatement ==
  /\ server = "busy" /\ server' = "up"
  /\ UNCHANGED <<db, main, conns, pc, archive, report, commits, backups, faults,
                 seen, quiet, cut, left>>

\* Any transaction; with the log at its limit the commit starts a checkpoint.
Commit(written) ==
  /\ server = "busy" /\ commits < MaxCommits
  /\ commits' = commits + 1
  /\ db' = [p \in Pages |-> IF p \in written THEN commits + 1 ELSE db[p]]
  /\ seen' = IF pc = "copying" THEN seen \cup {db'} ELSE seen
  /\ server' \in {"up", "checkpoint"}
  /\ UNCHANGED <<main, conns, pc, archive, report, backups, faults, quiet, cut, left>>

CheckpointPage(p) ==
  /\ server = "checkpoint" /\ main[p] # db[p]
  /\ main' = [main EXCEPT ![p] = db[p]]
  /\ UNCHANGED <<db, conns, server, pc, archive, report, commits, backups, faults,
                 seen, quiet, cut, left>>

CheckpointDone ==
  /\ server = "checkpoint" /\ main = db /\ server' = "up"
  /\ UNCHANGED <<db, main, conns, pc, archive, report, commits, backups, faults,
                 seen, quiet, cut, left>>

\* SIGTERM, and cmdRun returns: the deferred Close finds the connection idle, or
\* leaves it to a handler or a loop that the end of the process cuts off.
ServerStop ==
  /\ server # "down" /\ server' = "down"
  /\ \/ server = "up" /\ Close("server")
     \/ server # "up" /\ Drop("server") /\ UNCHANGED <<main, faults>>
  /\ UNCHANGED <<db, pc, archive, report, commits, backups, seen, quiet, cut>>

ServerCrash ==
  /\ server # "down" /\ server' = "down"
  /\ Die("server")
  /\ UNCHANGED <<pc, report>>

-----------------------------------------------------------------------------
\* The command.

\* cmdBackup up to os.Create
OpenBackup ==
  /\ pc = "idle" /\ backups < MaxBackups
  /\ pc' = "copying" /\ backups' = backups + 1
  /\ quiet' = (conns = {} /\ left = "closed")
  /\ conns' = conns \cup {"backup"}
  /\ archive' = <<>> /\ report' = "none" /\ cut' = FALSE /\ seen' = {db}
  /\ UNCHANGED <<db, main, server, commits, faults, left>>

Items(a) == {a[i].item : i \in DOMAIN a}
PagesIn(a) == Pages \cap Items(a)

\* The configuration is item 0.
Config == 0

\* What the next read of io.Copy appends; the files are not interleaved.
Appended ==
  \/ /\ Config \notin Items(archive) /\ PagesIn(archive) \in {{}, Pages}
     /\ archive' = Append(archive, [item |-> Config, version |-> 0])
  \/ \E p \in Pages :
       /\ PagesIn(archive) = 1 .. p - 1
       /\ archive' = Append(archive, [item |-> p, version |-> main[p]])

\* addFile
AddFile ==
  /\ pc = "copying" /\ Appended
  /\ UNCHANGED <<db, main, conns, server, pc, report, commits, backups, faults,
                 seen, quiet, cut, left>>

\* addFile fails, and with it ExportBackup.
AddFileFails ==
  /\ pc = "copying" /\ Fault
  /\ pc' = "closing" /\ report' = "error"
  /\ UNCHANGED <<db, main, conns, server, archive, commits, backups, seen, quiet, cut, left>>

\* Mutant of AllAdded: the export ends after the configuration.
ConfigAdded == Config \in Items(archive)

AllAdded == Items(archive) = {Config} \cup Pages

\* The deferred Close calls of CreateTarGz flush the archive, and "Backup written"
\* is printed. On a full disk they lose the rest, and no one looks at their error.
CreateTarGz ==
  /\ pc = "copying" /\ AllAdded
  /\ pc' = "closing" /\ report' = "written"
  /\ \/ UNCHANGED <<archive, faults, cut>>
     \/ /\ Fault /\ cut' = TRUE
        /\ \E n \in 0 .. Len(archive) - 1 : archive' = SubSeq(archive, 1, n)
  /\ UNCHANGED <<db, main, conns, server, commits, backups, seen, quiet, left>>

\* Mutant of CloseBackup: the connection is forgotten.
CloseBackupNot ==
  /\ pc = "closing" /\ pc' = "idle"
  /\ UNCHANGED <<db, main, conns, server, archive, report, commits, backups, faults,
                 seen, quiet, cut, left>>

\* store.Close of cmdBackup, which has the connection to itself
CloseBackup ==
  /\ pc = "closing" /\ pc' = "idle"
  /\ Close("backup")
  /\ UNCHANGED <<db, server, archive, report, commits, backups, seen, quiet, cut>>

BackupCrash ==
  /\ pc # "idle" /\ pc' = "idle" /\ report' = "none"
  /\ Die("backup")
  /\ UNCHANGED server

-----------------------------------------------------------------------------
Next ==
  \/ ServerStart \/ ServerStop \/ ServerCrash \/ BeginStatement \/ EndStatement
  \/ \E written \in (SUBSET Pages) \ {{}} : Commit(written)
  \/ \E p \in Pages : CheckpointPage(p)
  \/ CheckpointDone
  \/ OpenBackup \/ AddFile \/ AddFileFails \/ CreateTarGz \/ CloseBackup \/ BackupCrash

Spec == Init /\ [][Next]_vars

-----------------------------------------------------------------------------
\* Properties.

Contents == [Pages -> 0 .. MaxCommits]
Entries == [item : 0 .. NPages, version : 0 .. MaxCommits]

TypeOK ==
  /\ db \in Contents /\ main \in Contents /\ seen \subseteq Contents
  /\ server \in {"down", "up", "busy", "checkpoint"} /\ pc \in {"idle", "copying", "closing"}
  /\ conns = (IF server = "down" THEN {} ELSE {"server"})
               \cup (IF pc = "idle" THEN {} ELSE {"backup"})
  /\ archive \in Seq(Entries)
  /\ report \in {"none", "error", "written"} /\ left \in {"closed", "unclosed"}
  /\ commits \in 0 .. MaxCommits /\ backups \in 0 .. MaxBackups /\ faults \in 0 .. MaxFaults
  /\ quiet \in BOOLEAN /\ cut \in BOOLEAN

\* The database that the archive restores is one that was committed while the
\* command ran, and the configuration is with it.
Restores ==
  /\ Config \in Items(archive)
  /\ \E content \in seen : \A p \in Pages : [item |-> p, version |-> content[p]] \in ToSet(archive)

\* A backup taken when nobody else has the database open, and the last that had it
\* was a command or a server with its connection idle, restores the database,
\* unless it was cut by a full disk: whatever crashed, or was stopped in the middle
\* of a statement, before that, whoever left last must have brought the log back.
\* A server that SIGTERM has just stopped is not enough: it may not have closed.
QuietExact == report = "written" /\ quiet /\ ~cut => Restores

\* When nobody has the database open and the last connection was really closed, all
\* that was ever committed is in the main file, what crashes and stops in the middle
\* of a statement have left in the log included, so that the file may be copied, or
\* installed elsewhere, without its log.
CleanStopComplete == conns = {} /\ left = "closed" => main = db

\* docs/DEVELOPMENT.md of `backup export`: "Create a `.tar.gz` backup containing
\* config and SQLite DB." The code copies the main file without the log.
ContainsDatabase == report = "written" /\ ~cut => Restores
=============================================================================
