------------------------------- MODULE AppDir -------------------------------
(***************************************************************************)
(* The commands that write the app directory: init, config set,            *)
(* create-admin and reset-password.  Each is a process of its own; nothing *)
(* locks config.yaml, so that several can be under way at once, some of    *)
(* them waiting at a prompt.  A command can be killed, or fail on a full   *)
(* disk, while it writes the file.                                         *)
(*                                                                         *)
(* The file is reduced to the keys of Keys, in the order in which they are *)
(* written: "port" stands for every key with a value of its own, "secret"  *)
(* is drawn afresh by each Default (and named after the command that drew  *)
(* it), and the two thresholds of one resource are checked together.  A    *)
(* file cut short has the first keys only, and the others load as the      *)
(* defaults do.  Passwords and names are taken after TrimSpace.            *)
(***************************************************************************)
EXTENDS Integers, Sequences, FiniteSets

CONSTANTS Commands,  \* bound: the commands ever started
          Ports,     \* valid ports
          DefaultPort, \* 8080
          Users, Passwords,
          MaxFaults  \* bound: commands killed or out of disk space

ASSUME AppDirAssumption ==
  /\ Commands # {}
  /\ Ports \subseteq Nat \ {0} /\ DefaultPort \in Ports
  /\ "short" \notin Passwords
  /\ MaxFaults \in Nat

Keys == <<"port", "secret", "warning", "critical">>
KeySet == {"port", "secret", "warning", "critical"}

NaN == -1                                \* strconv.ParseFloat and YAML accept it
Levels == {NaN} \cup 0 .. 3              \* of a threshold
BadPort == 0

\* What `config set` may be asked to give a key.
SetKeys == {"port", "warning", "critical"}
Values(key) == IF key = "port" THEN Ports \cup {BadPort} ELSE Levels

VARIABLES
  form,     \* of config.yaml: "none", "yaml", or "garbled", no YAML any more
  file,     \* its keys and values
  admins,   \* table admins: the password of each user in it
  pc,       \* next step of each command
  job,      \* what each command has been asked
  cfg,      \* the Config each command holds
  faults,   \* faults spent
  told,     \* history: the value of each key that was last reported as saved
  raced     \* history: 1 once two commands that write the file have overlapped,
            \* or a write was cut short

vars == <<form, file, admins, pc, job, cfg, faults, told, raced>>

Default(c) == [port |-> DefaultPort, secret |-> c, warning |-> 2, critical |-> 3]
NoConfig == <<>>
NoJob == [kind |-> "none"]

Init ==
  /\ form = "none" /\ file = NoConfig
  /\ admins = <<>>
  /\ pc = [c \in Commands |-> "new"]
  /\ job = [c \in Commands |-> NoJob]
  /\ cfg = [c \in Commands |-> NoConfig]
  /\ faults = 0
  /\ told = NoConfig /\ raced = 0

-----------------------------------------------------------------------------
\* Pieces of package config.

\* x <= y of float64: false when either is NaN.
AtMost(x, y) == x # NaN /\ y # NaN /\ x <= y

\* Mutant of Valid: equal thresholds pass.
ValidEqual(k) ==
  /\ k.port # BadPort
  /\ ~AtMost(k.warning, 0) /\ ~(AtMost(k.critical, k.warning) /\ k.critical # k.warning)

\* Config.Validate
Valid(k) ==
  /\ k.port # BadPort
  /\ ~AtMost(k.warning, 0) /\ ~AtMost(k.critical, k.warning)

\* Mutant of Loaded: the warning level is read under another name than written.
LoadedMisnamed(c) ==
  [key \in KeySet |-> IF key \in DOMAIN file \ {"warning"} THEN file[key] ELSE Default(c)[key]]

\* yaml.Unmarshal over Default: what the file says, and the defaults of c else.
Loaded(c) == [key \in KeySet |-> IF key \in DOMAIN file THEN file[key] ELSE Default(c)[key]]

\* Load returns no error.
CanLoad(c) == form = "yaml" /\ Valid(Loaded(c))

\* Commands between looking at the file and having written it.
Writing == {c \in Commands : pc[c] \in {"prompt", "save", "write"}}

\* Command c goes on at `where`, holding k.
GoOn(c, where, k) ==
  /\ pc' = [pc EXCEPT ![c] = where]
  /\ cfg' = [cfg EXCEPT ![c] = k]

\* Command c starts as j, and is from now on one of those that write the file.
StartWriter(c, j) ==
  /\ job' = [job EXCEPT ![c] = j]
  /\ raced' = IF Writing # {} THEN 1 ELSE raced

-----------------------------------------------------------------------------
\* cmdInit

\* os.Stat finds nothing (else init stops), the configuration is put together;
\* then the services to track are asked for and the database is created.
InitStat(c, port) ==
  /\ pc[c] = "new" /\ form = "none"
  /\ GoOn(c, "prompt", [Default(c) EXCEPT !.port = port])
  /\ StartWriter(c, [kind |-> "init"])
  /\ UNCHANGED <<form, file, admins, faults, told>>

InitSave(c) ==
  /\ pc[c] = "prompt"
  /\ GoOn(c, IF Valid(cfg[c]) THEN "save" ELSE "failed", cfg[c])
  /\ UNCHANGED <<form, file, admins, job, faults, told, raced>>

-----------------------------------------------------------------------------
\* cmdConfig

\* Load, Set with one key, Validate; any error ends the command.
ConfigSet(c, key, value) ==
  /\ pc[c] = "new" /\ CanLoad(c)
  /\ LET k == [Loaded(c) EXCEPT ![key] = value]
     IN  /\ Valid(k)
         /\ GoOn(c, "save", k)
         /\ StartWriter(c, [kind |-> "set", key |-> key])
  /\ UNCHANGED <<form, file, admins, faults, told>>

-----------------------------------------------------------------------------
\* config.Save, called by both: os.WriteFile opens with O_TRUNC, then writes.

Truncate(c) ==
  /\ pc[c] = "save"
  /\ form' = "yaml" /\ file' = NoConfig
  /\ GoOn(c, "write", cfg[c])
  /\ UNCHANGED <<admins, job, faults, told, raced>>

\* The keys that c reports as saved: all of them by init, its own by config set.
Reports(c) == IF job[c].kind = "init" THEN KeySet ELSE {job[c].key}

\* Over the text of a command that has written in the meantime, the end of the
\* longer text is left behind.
Write(c) ==
  /\ pc[c] = "write"
  /\ \/ file' = cfg[c] /\ form' = "yaml"
     \/ file # NoConfig /\ file' = NoConfig /\ form' = "garbled"
  /\ told' = [key \in DOMAIN told \cup Reports(c) |->
                IF key \in Reports(c) THEN cfg[c][key] ELSE told[key]]
  /\ GoOn(c, IF job[c].kind = "init" THEN "admin" ELSE "done", cfg[c])
  /\ UNCHANGED <<admins, job, faults, raced>>

-----------------------------------------------------------------------------
\* cmdCreateAdmin, and the last part of cmdInit.

AdminStart(c, kind) ==
  /\ pc[c] = "new" /\ CanLoad(c)
  /\ GoOn(c, "admin", Loaded(c))
  /\ job' = [job EXCEPT ![c] = [kind |-> kind]]
  /\ UNCHANGED <<form, file, admins, faults, told, raced>>

\* Mutant of EnsureAdmin: HashPassword takes any password.
EnsureAdminUnchecked(c, user, password) ==
  /\ pc[c] = "admin"
  /\ GoOn(c, "done", cfg[c])
  /\ admins' = [u \in DOMAIN admins \cup {user} |-> IF u = user THEN password ELSE admins[u]]
  /\ UNCHANGED <<form, file, job, faults, told, raced>>

\* createOrResetAdmin: EnsureAdmin is an upsert, whatever the command is called.
\* A password that is too short ends the command.
EnsureAdmin(c, user, password) ==
  /\ pc[c] = "admin"
  /\ IF password = "short"
       THEN GoOn(c, "failed", cfg[c]) /\ UNCHANGED admins
       ELSE /\ GoOn(c, "done", cfg[c])
            /\ admins' = [u \in DOMAIN admins \cup {user} |->
                            IF u = user THEN password ELSE admins[u]]
  /\ UNCHANGED <<form, file, job, faults, told, raced>>

-----------------------------------------------------------------------------
\* A command is killed, or the disk is full.  In the middle of the write the file
\* keeps the keys already written.
Die(c) ==
  /\ pc[c] \in {"prompt", "save", "write", "admin"}
  /\ faults < MaxFaults /\ faults' = faults + 1
  /\ GoOn(c, "failed", cfg[c])
  /\ IF pc[c] # "write"
       THEN UNCHANGED <<form, file, raced>>
       ELSE /\ raced' = 1
            /\ \E n \in 0 .. Len(Keys) - 1 :
                 file' = [key \in {Keys[i] : i \in 1 .. n} |-> cfg[c][key]]
            /\ UNCHANGED form
  /\ UNCHANGED <<admins, job, told>>

Next ==
  \E c \in Commands :
    \/ \E port \in Ports \cup {BadPort} : InitStat(c, port)
    \/ \E key \in SetKeys : \E value \in Values(key) : ConfigSet(c, key, value)
    \/ \E kind \in {"create-admin", "reset-password"} : AdminStart(c, kind)
    \/ \E user \in Users, password \in Passwords \cup {"short"} : EnsureAdmin(c, user, password)
    \/ InitSave(c) \/ Truncate(c) \/ Write(c) \/ Die(c)

Spec == Init /\ [][Next]_vars
-----------------------------------------------------------------------------
\* Properties.

Config == [port : Ports, secret : Commands, warning : Levels, critical : Levels]

TypeOK ==
  /\ form \in {"none", "yaml", "garbled"}
  /\ DOMAIN file \subseteq KeySet /\ \E k \in Config : \A key \in DOMAIN file : file[key] = k[key]
  /\ DOMAIN admins \subseteq Users /\ \A u \in DOMAIN admins : admins[u] \in Passwords
  /\ pc \in [Commands -> {"new", "prompt", "save", "write", "admin", "done", "failed"}]
  /\ \A c \in Commands : job[c].kind \in {"none", "init", "set", "create-admin", "reset-password"}
  /\ \A c \in Commands : pc[c] \in {"save", "write"} => cfg[c] \in Config
  /\ faults \in 0 .. MaxFaults /\ raced \in {0, 1}
  /\ DOMAIN told \subseteq KeySet

\* What a command has reported as saved stays what later commands and the server
\* load, through any sequence of commands that were refused, failed before they
\* wrote or wrote other keys, the secret of init included; unless two commands
\* overlapped or one was killed while it wrote.
SettingsKept ==
  raced = 0 /\ (\A c \in Commands : pc[c] # "write") =>
    \A c \in Commands : \A key \in DOMAIN told : Loaded(c)[key] = told[key]

\* A complete file never holds thresholds that are numbers and out of order,
\* not even when the commands that wrote it overlapped.
ThresholdsSane ==
  DOMAIN file = KeySet /\ NaN \notin {file.warning, file.critical} =>
    file.warning > 0 /\ file.critical > file.warning

\* config.go, Validate: "thresholds.cpu are invalid" unless the warning level is
\* above zero and the critical level above the warning level.
ThresholdsOrdered ==
  DOMAIN file = KeySet => file.warning > 0 /\ file.critical > file.warning
=============================================================================
